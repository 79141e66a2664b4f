--------------------------- MODULE DiContainerProofs ---------------------------
(***************************************************************************)
(* Proofs about DiContainer, for every set of tokens, calls, provider      *)
(* graphs and bounds.                                                      *)
(***************************************************************************)
EXTENDS DiContainer, TLAPS

-----------------------------------------------------------------------------
(* Chains                                                                  *)

\* withTokenInChain() pushes a frame on top of the chain.
LEMMA PushChain ==
    ASSUME NEW f \in Frame, NEW s \in Seq(Frame)
    PROVE  /\ <<f>> \o s \in Seq(Frame)
           /\ Len(<<f>> \o s) = Len(s) + 1
           /\ (<<f>> \o s)[1] = f
           /\ \A i \in 2 .. Len(s) + 1 : (<<f>> \o s)[i] = s[i - 1]
  OBVIOUS

\* A value handed to a chain whose innermost provider still waits for a
\* dependency changes only that provider's frame, and not its identity.
LEMMA HandChain ==
    ASSUME NEW s \in Seq(Frame), NEW u \in SUBSET Promise,
           s # <<>> => s[1].rest # <<>>
    PROVE  /\ Handed(s, u) \in Seq(Frame)
           /\ Len(Handed(s, u)) = Len(s)
           /\ \A i \in 1 .. Len(s) : Handed(s, u)[i].id = s[i].id
           /\ \A i \in 2 .. Len(s) : Handed(s, u)[i] = s[i]
  <1>1. CASE s = <<>>
    BY <1>1 DEF Handed
  <1>2. CASE s # <<>>
    <2> DEFINE g == [Head(s) EXCEPT !.rest = Tail(@), !.uses = @ \cup u]
    <2>1. Head(s) \in Frame /\ Head(s) = s[1] /\ Head(s).rest # <<>>
      BY <1>2
    <2>2. g \in Frame /\ g.id = s[1].id
      <3> DEFINE f == Head(s)
      <3>1. f \in Frame /\ f.rest # <<>> /\ f.id = s[1].id
        BY <2>1
      <3> HIDE DEF f
      <3>2. f.rest \in Seq(Token) /\ f.uses \in SUBSET Promise
        BY <3>1 DEF Frame
      <3>3. Tail(f.rest) \in Seq(Token) /\ f.uses \cup u \in SUBSET Promise
        BY <3>1, <3>2
      <3>4. [f EXCEPT !.rest = Tail(@), !.uses = @ \cup u] \in Frame
        BY <3>1, <3>3 DEF Frame
      <3>5. [f EXCEPT !.rest = Tail(@), !.uses = @ \cup u].id = f.id
        BY <3>1 DEF Frame
      <3> QED
        BY <3>1, <3>4, <3>5 DEF f
    <2>3. Tail(s) \in Seq(Frame) /\ Len(Tail(s)) = Len(s) - 1
          /\ \A i \in 1 .. Len(s) - 1 : Tail(s)[i] = s[i + 1]
      BY <1>2
    <2>4. Handed(s, u) = <<g>> \o Tail(s)
      BY <1>2 DEF Handed
    <2> HIDE DEF g
    <2>5. Len(s) \in Nat /\ Len(s) >= 1
      BY <1>2
    <2>6. /\ <<g>> \o Tail(s) \in Seq(Frame)
          /\ Len(<<g>> \o Tail(s)) = Len(s)
          /\ (<<g>> \o Tail(s))[1] = g
          /\ \A i \in 2 .. Len(s) : (<<g>> \o Tail(s))[i] = s[i]
      BY PushChain, <2>2, <2>3, <2>5
    <2>7. \A i \in 1 .. Len(s) : i = 1 \/ i \in 2 .. Len(s)
      BY <2>5
    <2> QED
      BY <2>2, <2>4, <2>6, <2>7
  <1> QED
    BY <1>1, <1>2

\* The chain without its innermost frame.
LEMMA PopChain ==
    ASSUME NEW s \in Seq(Frame), s # <<>>
    PROVE  /\ Head(s) \in Frame /\ Head(s) = s[1]
           /\ Tail(s) \in Seq(Frame)
           /\ Len(Tail(s)) = Len(s) - 1 /\ Len(s) \in Nat /\ Len(s) >= 1
           /\ \A i \in 1 .. Len(s) - 1 : Tail(s)[i] = s[i + 1]
  OBVIOUS

-----------------------------------------------------------------------------
(* The inductive invariant, one lemma per group of actions                 *)

LEMMA InitChain == Init => ChainInv
  <1> SUFFICES ASSUME Init PROVE ChainInv
    OBVIOUS
  <1>1. GraphTypeOK
    BY ConstantsAssumption DEF Init, GraphTypeOK, None
  <1>2. PromiseTypeOK
    BY DEF Init, PromiseTypeOK, None
  <1>3. CallTypeOK
    BY DEF Init, CallTypeOK, None
  <1>4. DisposalTypeOK
    <2>1. 0 \in 0 .. MaxDispose
      BY ConstantsAssumption
    <2>2. /\ stale \in [Promise -> {"no", "pending", "clean", "failed",
                                   "rejected", "released"}]
          /\ destroyed \in [Promise -> Nat]
      BY DEF Init
    <2>3. disposed \in BOOLEAN /\ faults \in BOOLEAN
      BY DEF Init
    <2> QED
      BY <2>1, <2>2, <2>3 DEF Init, DisposalTypeOK, Active
  <1>5. ChainOK
    <2>1. \A c \in Call : pc[c] = "idle" /\ stack[c] = <<>>
      BY DEF Init
    <2> QED
      BY <2>1 DEF ChainOK
  <1>6. CachedStarted /\ PendingOnStack
    BY DEF Init, CachedStarted, PendingOnStack
  <1> QED
    BY <1>1, <1>2, <1>3, <1>4, <1>5, <1>6 DEF ChainInv, TypeOK

\* The steps of a disposal attempt, of stale tasks and of register() and
\* override() leave every chain alone, and only empty cache entries.
LEMMA EmptyingChain ==
    ASSUME ChainInv,
           UNCHANGED <<callVars, status, owner>>,
           \A t \in Token : cache'[t] \in {cache[t], None}
    PROVE  ChainOK' /\ CachedStarted' /\ PendingOnStack'
  BY DEF ChainInv, ChainOK, CachedStarted, PendingOnStack, callVars

LEMMA DisposalChain ==
    ASSUME ChainInv, Dispose \/ DisposeStep
    PROVE  ChainInv'
  <1> USE DEF DisposeUnchanged, promiseVars, callVars, staleVars
  <1>1. CASE Dispose
    <2>1. /\ Ledger \subseteq Promise /\ Retained \subseteq Promise
          /\ DisposalCacheEntries \subseteq Promise
      BY DEF Ledger, Retained, DisposalCacheEntries, ChainInv, TypeOK, GraphTypeOK
    <2>2. attempts' \in 0 .. MaxDispose
      BY <1>1, ConstantsAssumption DEF Dispose, ChainInv, TypeOK, DisposalTypeOK
    <2>3. DisposalTypeOK'
      BY <1>1, <2>1, <2>2 DEF Dispose, ChainInv, TypeOK, DisposalTypeOK, Active
    <2> QED
      BY <1>1, <2>3, EmptyingChain DEF Dispose, ChainInv, TypeOK, GraphTypeOK,
         PromiseTypeOK, CallTypeOK
  <1>2. CASE DisposeDrain
    BY <1>2, EmptyingChain DEF DisposeDrain, ChainInv, TypeOK, GraphTypeOK,
       PromiseTypeOK, CallTypeOK, DisposalTypeOK, Active, Undelivered, Release
  <1>3. CASE DisposeCollect
    BY <1>3, EmptyingChain DEF DisposeCollect, ChainInv, TypeOK, GraphTypeOK,
       PromiseTypeOK, CallTypeOK, DisposalTypeOK, Active, DisposalCandidates
  <1>4. CASE DisposeFinish
    BY <1>4, EmptyingChain DEF DisposeFinish, ChainInv, TypeOK, GraphTypeOK,
       PromiseTypeOK, CallTypeOK, DisposalTypeOK, Active, None
  <1>5. ASSUME NEW p \in Promise, NEW ok \in BOOLEAN, DisposeRetry(p, ok)
        PROVE  ChainInv'
    BY <1>5, EmptyingChain DEF DisposeRetry, ChainInv, TypeOK, GraphTypeOK,
       PromiseTypeOK, CallTypeOK, DisposalTypeOK, Active
  <1>6. ASSUME NEW p \in Promise, NEW ok \in BOOLEAN, DisposeHook(p, ok)
        PROVE  ChainInv'
    BY <1>6, EmptyingChain DEF DisposeHook, ChainInv, TypeOK, GraphTypeOK,
       PromiseTypeOK, CallTypeOK, DisposalTypeOK, Active, RetainFailed
  <1> QED
    BY <1>1, <1>2, <1>3, <1>4, <1>5, <1>6 DEF DisposeStep

LEMMA GraphChain ==
    ASSUME ChainInv, NEW t \in Token, NEW d \in Replacements,
           Register(t, d) \/ Override(t, d)
    PROVE  ChainInv'
  <1> USE DEF promiseVars, callVars, staleVars, disposeVars
  <1>0. d \in Seq(Token)
    BY ConstantsAssumption
  <1>1. CASE Register(t, d)
    BY <1>0, <1>1, EmptyingChain DEF Register, ChainInv, TypeOK, GraphTypeOK,
       PromiseTypeOK, CallTypeOK, DisposalTypeOK
  <1>2. CASE Override(t, d)
    <2>1. overrides' \in 0 .. MaxOverride
      BY <1>2, ConstantsAssumption DEF Override, ChainInv, TypeOK, GraphTypeOK
    <2> QED
      BY <1>0, <1>2, <2>1, EmptyingChain DEF Override, ChainInv, TypeOK,
         GraphTypeOK, PromiseTypeOK, CallTypeOK, DisposalTypeOK, None
  <1> QED
    BY <1>1, <1>2

LEMMA StaleChain ==
    ASSUME ChainInv, NEW p \in Promise, StaleStep(p)
    PROVE  ChainInv'
  <1> USE DEF promiseVars, callVars, staleVars, disposeVars
  <1>1. CASE StaleReject(p)
    BY <1>1, EmptyingChain DEF StaleReject, ChainInv, TypeOK, GraphTypeOK,
       PromiseTypeOK, CallTypeOK, DisposalTypeOK
  <1>2. ASSUME NEW ok \in BOOLEAN, StaleHook(p, ok)
        PROVE  ChainInv'
    BY <1>2, EmptyingChain DEF StaleHook, ChainInv, TypeOK, GraphTypeOK,
       PromiseTypeOK, CallTypeOK, DisposalTypeOK
  <1> QED
    BY <1>1, <1>2 DEF StaleStep

-----------------------------------------------------------------------------
(* The steps of resolve() calls                                            *)

LEMMA AdmissionChain ==
    ASSUME ChainInv, NEW c \in Call, NEW t \in Token,
           Resolve(c, t) \/ Settle(c) \/ Enter(c)
    PROVE  ChainInv'
  <1> USE DEF promiseVars, staleVars, disposeVars
  <1>1. CASE Resolve(c, t)
    <2>1. TypeOK'
      <3>1. Ledger \in SUBSET Promise
        BY DEF Ledger
      <3>2. CallTypeOK'
        BY <1>1, <3>1 DEF Resolve, ChainInv, TypeOK, CallTypeOK
      <3>3. GraphTypeOK' /\ PromiseTypeOK' /\ DisposalTypeOK'
        BY <1>1 DEF Resolve, ChainInv, TypeOK, GraphTypeOK, PromiseTypeOK,
           DisposalTypeOK
      <3> QED
        BY <3>2, <3>3 DEF TypeOK
    <2>2. ChainOK'
      BY <1>1 DEF Resolve, ChainInv, TypeOK, CallTypeOK, ChainOK
    <2>3. CachedStarted' /\ PendingOnStack'
      BY <1>1 DEF Resolve, ChainInv, CachedStarted, PendingOnStack
    <2> QED
      BY <2>1, <2>2, <2>3 DEF ChainInv
  <1>2. CASE Settle(c)
    <2>1. TypeOK'
      BY <1>2 DEF Settle, ChainInv, TypeOK, GraphTypeOK, PromiseTypeOK,
         CallTypeOK, DisposalTypeOK, Ledger, Undelivered, Release
    <2>2. ChainOK'
      BY <1>2 DEF Settle, ChainInv, TypeOK, CallTypeOK, ChainOK
    <2>3. CachedStarted' /\ PendingOnStack'
      BY <1>2 DEF Settle, ChainInv, CachedStarted, PendingOnStack
    <2> QED
      BY <2>1, <2>2, <2>3 DEF ChainInv
  <1>3. CASE Enter(c)
    <2>1. TypeOK'
      BY <1>3 DEF Enter, ChainInv, TypeOK, GraphTypeOK, PromiseTypeOK,
         CallTypeOK, DisposalTypeOK
    <2>2. ChainOK'
      BY <1>3 DEF Enter, ChainInv, TypeOK, CallTypeOK, ChainOK
    <2>3. CachedStarted' /\ PendingOnStack'
      BY <1>3 DEF Enter, ChainInv, CachedStarted, PendingOnStack
    <2> QED
      BY <2>1, <2>2, <2>3 DEF ChainInv
  <1> QED
    BY <1>1, <1>2, <1>3

\* Throwing keeps the chain; a call without one is rejected at once.
LEMMA ThrowChain ==
    ASSUME ChainInv, NEW c \in Call, NEW why \in Failed, Throw(c, why),
           pc[c] # "idle",
           awaits' = awaits \/ awaits' = [awaits EXCEPT ![c] = None],
           UNCHANGED <<registry, cache, promiseVars, goal, stack, waited, blame,
                       staleVars, overrides, disposeVars, destroyed, late, evicted>>
    PROVE  ChainInv'
  <1> USE DEF promiseVars, staleVars, disposeVars
  <1>1. TypeOK'
    BY DEF Throw, ChainInv, TypeOK, GraphTypeOK, PromiseTypeOK, CallTypeOK,
       DisposalTypeOK, Failed
  <1>2. ChainOK'
    BY DEF Throw, ChainInv, TypeOK, CallTypeOK, ChainOK
  <1>3. CachedStarted' /\ PendingOnStack'
    BY DEF ChainInv, CachedStarted, PendingOnStack
  <1> QED
    BY <1>1, <1>2, <1>3 DEF ChainInv

\* A value is handed to the rest s of the chain of call c.
LEMMA HandingChain ==
    ASSUME ChainInv, NEW c \in Call, NEW u \in SUBSET Promise,
           pc[c] \in {"visiting", "awaiting"},
           stack' = [stack EXCEPT ![c] = Handed(@, u)],
           pc' = [pc EXCEPT ![c] = AfterHanding(stack[c])],
           awaits' = awaits \/ awaits' = [awaits EXCEPT ![c] = None],
           UNCHANGED <<registry, cache, promiseVars, goal, error, waited, blame,
                       staleVars, overrides, disposeVars, destroyed, late, evicted>>
    PROVE  ChainInv'
  <1> USE DEF promiseVars, staleVars, disposeVars
  <1>1. /\ Handed(stack[c], u) \in Seq(Frame)
        /\ Len(Handed(stack[c], u)) = Len(stack[c])
        /\ \A i \in 1 .. Len(stack[c]) : Handed(stack[c], u)[i].id = stack[c][i].id
        /\ \A i \in 2 .. Len(stack[c]) : Handed(stack[c], u)[i] = stack[c][i]
    BY HandChain DEF ChainInv, TypeOK, CallTypeOK, ChainOK
  <1>2. TypeOK'
    BY <1>1 DEF AfterHanding, ChainInv, TypeOK, GraphTypeOK, PromiseTypeOK,
       CallTypeOK, DisposalTypeOK
  <1>3. stack[c] = <<>> <=> Handed(stack[c], u) = <<>>
    BY <1>1 DEF ChainInv, TypeOK, CallTypeOK
  <1>4. ChainOK'
    BY <1>1, <1>3 DEF AfterHanding, ChainInv, TypeOK, CallTypeOK, ChainOK
  <1>5. CachedStarted'
    BY DEF ChainInv, CachedStarted
  <1>6. PendingOnStack'
    <2> SUFFICES ASSUME NEW p \in Promise, status[p] = "pending"
                 PROVE  /\ owner[p] \in Call
                        /\ \E i \in 1 .. Len(stack'[owner[p]]) :
                               stack'[owner[p]][i].id = p
      BY DEF PendingOnStack
    <2>1. PICK i \in 1 .. Len(stack[owner[p]]) : stack[owner[p]][i].id = p
      BY DEF ChainInv, PendingOnStack
    <2>2. owner[p] \in Call
      BY DEF ChainInv, PendingOnStack
    <2>3. Len(stack'[owner[p]]) = Len(stack[owner[p]])
          /\ stack'[owner[p]][i].id = stack[owner[p]][i].id
      BY <1>1, <2>1, <2>2 DEF ChainInv, TypeOK, CallTypeOK
    <2> QED
      BY <2>1, <2>2, <2>3
  <1> QED
    BY <1>2, <1>4, <1>5, <1>6 DEF ChainInv

LEMMA TargetType ==
    ASSUME ChainInv, NEW c \in Call, pc[c] = "visiting"
    PROVE  Target(c) \in Token
  <1>1. CASE stack[c] = <<>>
    BY <1>1 DEF Target, ChainInv, ChainOK
  <1>2. CASE stack[c] # <<>>
    <2>1. stack[c] \in Seq(Frame) /\ stack[c][1].rest # <<>>
      BY <1>2 DEF ChainInv, TypeOK, CallTypeOK, ChainOK
    <2>2. Head(stack[c]) = stack[c][1] /\ Head(stack[c]) \in Frame
      BY <1>2, <2>1
    <2>3. Head(stack[c]).rest \in Seq(Token) /\ Head(stack[c]).rest # <<>>
      BY <2>1, <2>2 DEF Frame
    <2>4. Head(Head(stack[c]).rest) \in Token
      BY <2>3
    <2> QED
      BY <1>2, <2>4 DEF Target
  <1> QED
    BY <1>1, <1>2

LEMMA VisitChain ==
    ASSUME ChainInv, NEW c \in Call,
           VisitActive(c) \/ VisitMissing(c) \/ VisitCached(c)
    PROVE  ChainInv'
  <1> USE DEF promiseVars, staleVars, disposeVars, VisitUnchanged
  <1>1. CASE VisitActive(c)
    BY <1>1, ThrowChain DEF VisitActive, Failed
  <1>2. CASE VisitMissing(c)
    <2>1. CASE Throw(c, "missing") /\ UNCHANGED stack
      BY <1>2, <2>1, ThrowChain DEF VisitMissing, Failed
    <2>2. CASE /\ stack[c] # <<>>
               /\ stack' = [stack EXCEPT ![c] = Handed(@, {})]
               /\ pc' = [pc EXCEPT ![c] = "suspended"] /\ UNCHANGED error
      <3>1. pc' = [pc EXCEPT ![c] = AfterHanding(stack[c])]
        BY <2>2 DEF AfterHanding
      <3>2. pc[c] \in {"visiting", "awaiting"} /\ {} \in SUBSET Promise
        BY <1>2 DEF VisitMissing
      <3> QED
        BY <1>2, <2>2, <3>1, <3>2, HandingChain DEF VisitMissing
    <2> QED
      BY <1>2, <2>1, <2>2 DEF VisitMissing
  <1>3. CASE VisitCached(c)
    <2>1. CASE Throw(c, "circular") /\ UNCHANGED awaits
      BY <1>3, <2>1, ThrowChain DEF VisitCached, VisitProvider, Failed
    <2>2. CASE /\ awaits' = [awaits EXCEPT ![c] = cache[Target(c)]]
               /\ pc' = [pc EXCEPT ![c] = "awaiting"] /\ UNCHANGED error
      <3>1. Target(c) \in Token /\ pc[c] = "visiting"
        BY <1>3, TargetType DEF VisitCached, VisitProvider
      <3>2. cache[Target(c)] \in Promise /\ status[cache[Target(c)]] # "free"
        BY <1>3, <3>1 DEF VisitCached, ChainInv, TypeOK, GraphTypeOK,
           CachedStarted
      <3>3. TypeOK'
        BY <1>3, <2>2, <3>2 DEF VisitCached, ChainInv, TypeOK, GraphTypeOK,
           PromiseTypeOK, CallTypeOK, DisposalTypeOK
      <3>4. ChainOK'
        BY <1>3, <2>2, <3>1, <3>2 DEF VisitCached, ChainInv, TypeOK, CallTypeOK,
           ChainOK
      <3>5. CachedStarted' /\ PendingOnStack'
        BY <1>3 DEF VisitCached, ChainInv, CachedStarted, PendingOnStack
      <3> QED
        BY <3>3, <3>4, <3>5 DEF ChainInv
    <2> QED
      BY <1>3, <2>1, <2>2 DEF VisitCached
  <1> QED
    BY <1>1, <1>2, <1>3


\* A new frame for a registered token goes on top of the chain of call c.
LEMMA PushedChain ==
    ASSUME ChainInv, NEW c \in Call, NEW t \in Token, registry[t] # Missing,
           NEW p \in Promise \cup {None}, pc[c] = "visiting", Push(c, t, p),
           UNCHANGED <<goal, waited, blame>>,
           \A q \in Promise : status'[q] # "free" \/ status[q] = "free"
    PROVE  /\ CallTypeOK' /\ ChainOK'
           /\ \E i \in 1 .. Len(stack'[c]) : stack'[c][i].id = p
           /\ \A d \in Call, q \in Promise :
                 (\E i \in 1 .. Len(stack[d]) : stack[d][i].id = q)
                    => \E i \in 1 .. Len(stack'[d]) : stack'[d][i].id = q
  <1> DEFINE f == [tok |-> t, id |-> p, rest |-> registry[t], uses |-> {}]
             s == stack[c]
  <1>1. registry[t] \in Seq(Token)
    BY ConstantsAssumption DEF ChainInv, TypeOK, GraphTypeOK
  <1>2. f \in Frame /\ f.id = p /\ f.rest = registry[t]
    BY <1>1 DEF Frame
  <1>3. s \in Seq(Frame) /\ Len(s) \in Nat
    BY DEF ChainInv, TypeOK, CallTypeOK
  <1>4. /\ stack' = [stack EXCEPT ![c] = <<f>> \o s]
        /\ pc' = [pc EXCEPT ![c] = IF registry[t] = <<>> THEN "suspended"
                                   ELSE "visiting"]
        /\ UNCHANGED <<awaits, error>>
    BY DEF Push
  <1> HIDE DEF f
  <1>5. /\ <<f>> \o s \in Seq(Frame)
        /\ Len(<<f>> \o s) = Len(s) + 1
        /\ (<<f>> \o s)[1] = f
        /\ \A i \in 2 .. Len(s) + 1 : (<<f>> \o s)[i] = s[i - 1]
    BY <1>2, <1>3, PushChain
  <1>6. CallTypeOK'
    BY <1>4, <1>5 DEF ChainInv, TypeOK, CallTypeOK
  <1>7. stack'[c] = <<f>> \o s /\ \A d \in Call \ {c} : stack'[d] = stack[d]
    BY <1>4 DEF ChainInv, TypeOK, CallTypeOK
  <1>8. \A i \in 1 .. Len(s) : s[i].rest # <<>>
    <2>1. s # <<>> => s[1].rest # <<>>
      BY DEF ChainInv, ChainOK
    <2>2. \A i \in 2 .. Len(s) : s[i].rest # <<>>
      BY DEF ChainInv, ChainOK
    <2>3. \A i \in 1 .. Len(s) : s # <<>> /\ (i = 1 \/ i \in 2 .. Len(s))
      BY <1>3
    <2> QED
      BY <2>1, <2>2, <2>3
  <1>9. \A i \in 2 .. Len(stack'[c]) : stack'[c][i].rest # <<>>
    <2> SUFFICES ASSUME NEW i \in 2 .. Len(s) + 1
                 PROVE  (<<f>> \o s)[i].rest # <<>>
      BY <1>5, <1>7
    <2>1. i - 1 \in 1 .. Len(s)
      BY <1>3
    <2> QED
      BY <1>5, <1>8, <2>1
  <1>10. ChainOK'
    <2>1. /\ stack'[c] # <<>> /\ stack'[c][1].rest = registry[t]
          /\ pc'[c] \in {"suspended", "visiting"}
          /\ pc'[c] = "visiting" => registry[t] # <<>>
          /\ goal'[c] \in Token
      BY <1>2, <1>3, <1>4, <1>5, <1>7 DEF ChainInv, TypeOK, CallTypeOK, ChainOK
    <2>2. \A d \in Call \ {c} : /\ pc'[d] = pc[d] /\ stack'[d] = stack[d]
                                /\ goal'[d] = goal[d] /\ awaits'[d] = awaits[d]
                                /\ error'[d] = error[d]
      BY <1>4, <1>7 DEF ChainInv, TypeOK, CallTypeOK
    <2> SUFFICES ASSUME NEW d \in Call
                 PROVE  /\ pc'[d] # "idle" => goal'[d] \in Token
                        /\ pc'[d] \in {"idle", "settling", "entering"}
                              => stack'[d] = <<>>
                        /\ pc'[d] \in {"suspended", "failing"} => stack'[d] # <<>>
                        /\ pc'[d] \in {"visiting", "awaiting"} /\ stack'[d] # <<>>
                              => stack'[d][1].rest # <<>>
                        /\ \A i \in 2 .. Len(stack'[d]) : stack'[d][i].rest # <<>>
                        /\ pc'[d] = "awaiting" => /\ awaits'[d] \in Promise
                                                  /\ status'[awaits'[d]] # "free"
                        /\ pc'[d] = "failing" => error'[d] \in Failed
      BY DEF ChainOK
    <2>3. CASE d = c
      BY <1>9, <2>1, <2>3
    <2>4. CASE d # c
      BY <2>2, <2>4 DEF ChainInv, ChainOK
    <2> QED
      BY <2>3, <2>4
  <1>11. \E i \in 1 .. Len(stack'[c]) : stack'[c][i].id = p
    <2>1. 1 \in 1 .. Len(stack'[c]) /\ stack'[c][1].id = p
      BY <1>2, <1>3, <1>5, <1>7
    <2> QED
      BY <2>1
  <1>12. ASSUME NEW d \in Call, NEW q \in Promise,
                NEW i \in 1 .. Len(stack[d]), stack[d][i].id = q
         PROVE  \E j \in 1 .. Len(stack'[d]) : stack'[d][j].id = q
    <2>1. CASE d # c
      BY <1>7, <1>12, <2>1
    <2>2. CASE d = c
      <3>1. i + 1 \in 2 .. Len(s) + 1 /\ (i + 1) - 1 = i
        BY <1>3, <1>12, <2>2
      <3>2. stack'[d][i + 1].id = q /\ i + 1 \in 1 .. Len(stack'[d])
        BY <1>3, <1>5, <1>7, <1>12, <2>2, <3>1
      <3> QED
        BY <3>2
    <2> QED
      BY <2>1, <2>2
  <1> QED
    BY <1>6, <1>10, <1>11, <1>12

LEMMA VisitNewChain ==
    ASSUME ChainInv, NEW c \in Call, VisitNew(c)
    PROVE  ChainInv'
  <1> USE DEF staleVars, disposeVars, VisitUnchanged
  <1> DEFINE t == Target(c)
  <1>1. t \in Token /\ pc[c] = "visiting" /\ registry[t] # Missing
    BY TargetType DEF VisitNew, VisitProvider
  <1> HIDE DEF t
  <1>2. PICK p \in Promise :
           /\ status[p] = "free"
           /\ status' = [status EXCEPT ![p] = "pending"]
           /\ owner' = [owner EXCEPT ![p] = c]
           /\ tokenOf' = [tokenOf EXCEPT ![p] = t]
           /\ cache' = [cache EXCEPT ![t] = p]
           /\ Push(c, t, p)
           /\ late' = IF disposed THEN late \cup {p} ELSE late
    BY DEF VisitNew, CacheSet, t
  <1>3. UNCHANGED <<registry, goal, waited, blame, staleVars, overrides, disposeVars,
                    destroyed, uses, settledAt, clock, materialized, evicted>>
    BY DEF VisitNew
  <1>4. GraphTypeOK' /\ PromiseTypeOK' /\ DisposalTypeOK'
    BY <1>1, <1>2, <1>3 DEF ChainInv, TypeOK, GraphTypeOK, PromiseTypeOK,
       DisposalTypeOK
  <1>5. \A q \in Promise : status'[q] # "free" \/ status[q] = "free"
    BY <1>2 DEF ChainInv, TypeOK, PromiseTypeOK
  <1>6. /\ CallTypeOK' /\ ChainOK'
        /\ \E i \in 1 .. Len(stack'[c]) : stack'[c][i].id = p
        /\ \A d \in Call, q \in Promise :
              (\E i \in 1 .. Len(stack[d]) : stack[d][i].id = q)
                 => \E i \in 1 .. Len(stack'[d]) : stack'[d][i].id = q
    BY <1>1, <1>2, <1>3, <1>5, PushedChain
  <1>7. CachedStarted'
    BY <1>1, <1>2 DEF ChainInv, TypeOK, GraphTypeOK, PromiseTypeOK, CachedStarted,
       None
  <1>8. PendingOnStack'
    <2> SUFFICES ASSUME NEW q \in Promise, status'[q] = "pending"
                 PROVE  /\ owner'[q] \in Call
                        /\ \E i \in 1 .. Len(stack'[owner'[q]]) :
                               stack'[owner'[q]][i].id = q
      BY DEF PendingOnStack
    <2>1. CASE q = p
      BY <1>2, <1>6, <2>1 DEF ChainInv, TypeOK, PromiseTypeOK
    <2>2. CASE q # p
      <3>1. status[q] = "pending" /\ owner'[q] = owner[q]
        BY <1>2, <2>2 DEF ChainInv, TypeOK, PromiseTypeOK
      <3> QED
        BY <1>6, <3>1 DEF ChainInv, PendingOnStack
    <2> QED
      BY <2>1, <2>2
  <1> QED
    BY <1>4, <1>6, <1>7, <1>8 DEF ChainInv, TypeOK

LEMMA VisitPlainChain ==
    ASSUME ChainInv, NEW c \in Call, VisitPlain(c)
    PROVE  ChainInv'
  <1> USE DEF promiseVars, staleVars, disposeVars, VisitUnchanged
  <1>1. Target(c) \in Token /\ pc[c] = "visiting" /\ registry[Target(c)] # Missing
    BY TargetType DEF VisitPlain, VisitProvider
  <1>2. GraphTypeOK' /\ PromiseTypeOK' /\ DisposalTypeOK' /\ CachedStarted'
    BY DEF VisitPlain, ChainInv, TypeOK, GraphTypeOK, PromiseTypeOK,
       DisposalTypeOK, CachedStarted
  <1>3. /\ CallTypeOK' /\ ChainOK'
        /\ \A d \in Call, q \in Promise :
              (\E i \in 1 .. Len(stack[d]) : stack[d][i].id = q)
                 => \E i \in 1 .. Len(stack'[d]) : stack'[d][i].id = q
    <2>1. Push(c, Target(c), None) /\ UNCHANGED <<goal, waited, blame, status>>
      BY DEF VisitPlain
    <2>2. \A q \in Promise : status'[q] # "free" \/ status[q] = "free"
      BY <2>1
    <2> QED
      BY <1>1, <2>1, <2>2, PushedChain
  <1>4. PendingOnStack'
    BY <1>3 DEF VisitPlain, ChainInv, PendingOnStack
  <1> QED
    BY <1>2, <1>3, <1>4 DEF ChainInv, TypeOK

LEMMA WakeChain ==
    ASSUME ChainInv, NEW c \in Call, Wake(c)
    PROVE  ChainInv'
  <1> USE DEF promiseVars, staleVars, disposeVars, VisitUnchanged
  <1> DEFINE p == awaits[c]
  <1>1. /\ pc[c] = "awaiting" /\ p \in Promise
        /\ status[p] \in {"ok"} \cup Failed
    BY DEF Wake, ChainInv, ChainOK, TypeOK, PromiseTypeOK
  <1>2. CASE status[p] = "ok"
    <2>1. /\ stack' = [stack EXCEPT ![c] = Handed(@, {p})]
          /\ pc' = [pc EXCEPT ![c] = AfterHanding(stack[c])]
          /\ awaits' = [awaits EXCEPT ![c] = None]
          /\ UNCHANGED error
      BY <1>2 DEF Wake
    <2>2. {p} \in SUBSET Promise
      BY <1>1
    <2> QED
      BY <1>1, <2>1, <2>2, HandingChain DEF Wake
  <1>3. CASE status[p] # "ok"
    <2>1. /\ Throw(c, status[p]) /\ UNCHANGED stack
          /\ awaits' = [awaits EXCEPT ![c] = None]
      BY <1>3 DEF Wake
    <2> QED
      BY <1>1, <1>3, <2>1, ThrowChain DEF Wake
  <1> QED
    BY <1>2, <1>3

LEMMA ResumeChain ==
    ASSUME ChainInv, NEW c \in Call, Resume(c) \/ ConstructFails(c)
    PROVE  ChainInv'
  <1> USE DEF promiseVars, staleVars, disposeVars, VisitUnchanged
  <1>1. CASE Resume(c)
    <2>1. TypeOK'
      BY <1>1 DEF Resume, ChainInv, TypeOK, GraphTypeOK, PromiseTypeOK,
         CallTypeOK, DisposalTypeOK
    <2>2. stack[c] # <<>> /\ Head(stack[c]) = stack[c][1]
      BY <1>1, PopChain DEF Resume, ChainInv, TypeOK, CallTypeOK, ChainOK
    <2>3. ChainOK'
      BY <1>1, <2>2 DEF Resume, ChainInv, TypeOK, CallTypeOK, ChainOK
    <2>4. CachedStarted' /\ PendingOnStack'
      BY <1>1 DEF Resume, ChainInv, CachedStarted, PendingOnStack
    <2> QED
      BY <2>1, <2>3, <2>4 DEF ChainInv
  <1>2. CASE ConstructFails(c)
    BY <1>2, ThrowChain DEF ConstructFails, Failed
  <1> QED
    BY <1>1, <1>2

\* The innermost frame leaves the chain: Construct() hands its value on,
\* Unwind() rejects it.  Every other frame keeps its promise.
LEMMA ConstructChain ==
    ASSUME ChainInv, NEW c \in Call, Construct(c)
    PROVE  ChainInv'
  <1> USE DEF staleVars, disposeVars, VisitUnchanged
  <1> DEFINE s == stack[c]
             f == Head(s)
             b == Tail(s)
             u == IF f.id = None THEN f.uses ELSE {f.id}
  <1>1. pc[c] = "suspended" /\ s \in Seq(Frame) /\ s # <<>>
    BY DEF Construct, ChainInv, TypeOK, CallTypeOK, ChainOK
  <1>2. /\ f \in Frame /\ f = s[1] /\ b \in Seq(Frame)
        /\ Len(b) = Len(s) - 1 /\ Len(s) \in Nat /\ Len(s) >= 1
        /\ \A i \in 1 .. Len(s) - 1 : b[i] = s[i + 1]
    BY <1>1, PopChain
  <1>3. /\ stack' = [stack EXCEPT ![c] = Handed(b, u)]
        /\ pc' = [pc EXCEPT ![c] = AfterHanding(b)]
        /\ UNCHANGED <<registry, cache, goal, awaits, error, waited, blame,
                       staleVars, overrides, disposeVars, destroyed, late, evicted,
                       owner, tokenOf>>
    BY DEF Construct, promiseVars
  <1>4. \/ f.id = None /\ UNCHANGED <<status, uses, settledAt, clock, materialized>>
        \/ /\ f.id # None
           /\ status' = [status EXCEPT ![f.id] = "ok"]
           /\ uses' = [uses EXCEPT ![f.id] = f.uses]
           /\ clock' = clock + 1
           /\ settledAt' = [settledAt EXCEPT ![f.id] = clock + 1]
           /\ materialized' = materialized \cup {f.id}
    BY DEF Construct, promiseVars
  <1>5. f.id \in Promise \cup {None} /\ f.uses \in SUBSET Promise
        /\ u \in SUBSET Promise
    BY <1>2 DEF Frame
  <1>6. \A i \in 1 .. Len(b) : b[i].rest # <<>>
    <2>1. \A i \in 2 .. Len(s) : s[i].rest # <<>>
      BY DEF ChainInv, ChainOK
    <2> QED
      BY <1>2, <2>1
  <1> HIDE DEF s, f, b, u
  <1>7. /\ Handed(b, u) \in Seq(Frame) /\ Len(Handed(b, u)) = Len(b)
        /\ \A i \in 1 .. Len(b) : Handed(b, u)[i].id = b[i].id
        /\ \A i \in 2 .. Len(b) : Handed(b, u)[i] = b[i]
    <2>1. b # <<>> => b[1].rest # <<>>
      BY <1>2, <1>6
    <2> QED
      BY <1>2, <1>5, <2>1, HandChain
  <1>8. CallTypeOK'
    BY <1>3, <1>7 DEF ChainInv, TypeOK, CallTypeOK, AfterHanding
  <1>9. PromiseTypeOK'
    BY <1>3, <1>4, <1>5 DEF ChainInv, TypeOK, PromiseTypeOK
  <1>10. GraphTypeOK' /\ DisposalTypeOK'
    BY <1>3 DEF ChainInv, TypeOK, GraphTypeOK, DisposalTypeOK
  <1>11. \A q \in Promise : /\ status[q] # "free" => status'[q] # "free"
                            /\ status'[q] = "pending" =>
                                  status[q] = "pending" /\ q # f.id
    <2>1. \A q \in Promise : q # None
      BY DEF Promise, None
    <2> QED
      BY <1>4, <1>5, <2>1 DEF ChainInv, TypeOK, PromiseTypeOK
  <1>12. /\ stack'[c] = Handed(b, u) /\ pc'[c] = AfterHanding(b)
         /\ \A d \in Call \ {c} : stack'[d] = stack[d] /\ pc'[d] = pc[d]
    BY <1>3 DEF ChainInv, TypeOK, CallTypeOK
  <1>13. ChainOK'
    <2> SUFFICES ASSUME NEW d \in Call
                 PROVE  /\ pc'[d] # "idle" => goal'[d] \in Token
                        /\ pc'[d] \in {"idle", "settling", "entering"}
                              => stack'[d] = <<>>
                        /\ pc'[d] \in {"suspended", "failing"} => stack'[d] # <<>>
                        /\ pc'[d] \in {"visiting", "awaiting"} /\ stack'[d] # <<>>
                              => stack'[d][1].rest # <<>>
                        /\ \A i \in 2 .. Len(stack'[d]) : stack'[d][i].rest # <<>>
                        /\ pc'[d] = "awaiting" => /\ awaits'[d] \in Promise
                                                  /\ status'[awaits'[d]] # "free"
                        /\ pc'[d] = "failing" => error'[d] \in Failed
      BY DEF ChainOK
    <2>1. CASE d # c
      BY <1>3, <1>11, <1>12, <2>1 DEF ChainInv, ChainOK
    <2>2. CASE d = c
      <3>1. goal'[d] \in Token
        BY <1>1, <1>3, <2>2 DEF ChainInv, ChainOK
      <3>2. \A i \in 2 .. Len(stack'[d]) : stack'[d][i].rest # <<>>
        BY <1>2, <1>6, <1>7, <1>12, <2>2
      <3>3. pc'[d] \in {"done", "suspended"}
            /\ (pc'[d] = "suspended" => stack'[d] # <<>>)
        BY <1>2, <1>7, <1>12, <2>2 DEF AfterHanding
      <3> QED
        BY <3>1, <3>2, <3>3
    <2> QED
      BY <2>1, <2>2
  <1>14. CachedStarted'
    BY <1>3, <1>11 DEF ChainInv, TypeOK, GraphTypeOK, CachedStarted
  <1>15. PendingOnStack'
    <2> SUFFICES ASSUME NEW q \in Promise, status'[q] = "pending"
                 PROVE  /\ owner'[q] \in Call
                        /\ \E i \in 1 .. Len(stack'[owner'[q]]) :
                               stack'[owner'[q]][i].id = q
      BY DEF PendingOnStack
    <2>1. status[q] = "pending" /\ q # f.id /\ owner'[q] = owner[q]
      BY <1>3, <1>11
    <2>2. owner[q] \in Call
      BY <2>1 DEF ChainInv, PendingOnStack
    <2>3. PICK i \in 1 .. Len(stack[owner[q]]) : stack[owner[q]][i].id = q
      BY <2>1 DEF ChainInv, PendingOnStack
    <2>4. CASE owner[q] # c
      BY <1>12, <2>1, <2>2, <2>3, <2>4
    <2>5. CASE owner[q] = c
      <3>1. i # 1 /\ i \in 1 .. Len(s) /\ s[i].id = q
        BY <1>2, <2>1, <2>3, <2>5 DEF s
      <3>2. i - 1 \in 1 .. Len(b) /\ b[i - 1] = s[i]
        BY <1>2, <3>1
      <3>3. i - 1 \in 1 .. Len(stack'[c]) /\ stack'[c][i - 1].id = q
        BY <1>7, <1>12, <3>1, <3>2
      <3> QED
        BY <2>1, <2>2, <2>5, <3>3
    <2> QED
      BY <2>4, <2>5
  <1> QED
    BY <1>8, <1>9, <1>10, <1>13, <1>14, <1>15 DEF ChainInv, TypeOK

LEMMA UnwindChain ==
    ASSUME ChainInv, NEW c \in Call, Unwind(c)
    PROVE  ChainInv'
  <1> USE DEF staleVars, disposeVars, VisitUnchanged
  <1> DEFINE s == stack[c]
             f == Head(s)
             b == Tail(s)
  <1>1. pc[c] = "failing" /\ error[c] \in Failed /\ s \in Seq(Frame) /\ s # <<>>
    BY DEF Unwind, ChainInv, TypeOK, CallTypeOK, ChainOK
  <1>2. /\ f \in Frame /\ f = s[1] /\ b \in Seq(Frame)
        /\ Len(b) = Len(s) - 1 /\ Len(s) \in Nat /\ Len(s) >= 1
        /\ \A i \in 1 .. Len(s) - 1 : b[i] = s[i + 1]
    BY <1>1, PopChain
  <1>3. /\ stack' = [stack EXCEPT ![c] = b]
        /\ pc' = [pc EXCEPT ![c] = IF b = <<>> THEN "rejected" ELSE "failing"]
        /\ UNCHANGED <<registry, goal, awaits, error, waited, blame,
                       staleVars, overrides, disposeVars, destroyed, late,
                       owner, tokenOf, uses, settledAt, clock, materialized>>
    BY DEF Unwind
  <1>4. \/ f.id = None /\ UNCHANGED <<status, cache, evicted>>
        \/ /\ f.id # None
           /\ status' = [status EXCEPT ![f.id] = error[c]]
           /\ cache' = [cache EXCEPT ![f.tok] = None]
           /\ evicted' \in {evicted, evicted \cup Evicted(f)}
    BY DEF Unwind, Evict
  <1>5. f.id \in Promise \cup {None} /\ f.tok \in Token /\ Evicted(f) \subseteq Promise
    BY <1>2 DEF Frame, Evicted, ChainInv, TypeOK, GraphTypeOK
  <1>6. \A i \in 1 .. Len(b) : b[i].rest # <<>>
    <2>1. \A i \in 2 .. Len(s) : s[i].rest # <<>>
      BY DEF ChainInv, ChainOK
    <2> QED
      BY <1>2, <2>1
  <1> HIDE DEF s, f, b
  <1>7. TypeOK'
    BY <1>1, <1>2, <1>3, <1>4, <1>5 DEF ChainInv, TypeOK, GraphTypeOK,
       PromiseTypeOK, CallTypeOK, DisposalTypeOK
  <1>8. \A q \in Promise : /\ status[q] # "free" => status'[q] # "free"
                           /\ status'[q] = "pending" =>
                                 status[q] = "pending" /\ q # f.id
    <2>1. \A q \in Promise : q # None
      BY DEF Promise, None
    <2> QED
      BY <1>1, <1>4, <1>5, <2>1 DEF ChainInv, TypeOK, PromiseTypeOK, Failed
  <1>9. /\ stack'[c] = b /\ pc'[c] = IF b = <<>> THEN "rejected" ELSE "failing"
        /\ \A d \in Call \ {c} : stack'[d] = stack[d] /\ pc'[d] = pc[d]
    BY <1>3 DEF ChainInv, TypeOK, CallTypeOK
  <1>10. ChainOK'
    <2> SUFFICES ASSUME NEW d \in Call
                 PROVE  /\ pc'[d] # "idle" => goal'[d] \in Token
                        /\ pc'[d] \in {"idle", "settling", "entering"}
                              => stack'[d] = <<>>
                        /\ pc'[d] \in {"suspended", "failing"} => stack'[d] # <<>>
                        /\ pc'[d] \in {"visiting", "awaiting"} /\ stack'[d] # <<>>
                              => stack'[d][1].rest # <<>>
                        /\ \A i \in 2 .. Len(stack'[d]) : stack'[d][i].rest # <<>>
                        /\ pc'[d] = "awaiting" => /\ awaits'[d] \in Promise
                                                  /\ status'[awaits'[d]] # "free"
                        /\ pc'[d] = "failing" => error'[d] \in Failed
      BY DEF ChainOK
    <2>1. CASE d # c
      BY <1>3, <1>8, <1>9, <2>1 DEF ChainInv, ChainOK
    <2>2. CASE d = c
      <3>1. goal'[d] \in Token /\ error'[d] \in Failed
        BY <1>1, <1>3, <2>2 DEF ChainInv, ChainOK
      <3>2. \A i \in 2 .. Len(stack'[d]) : stack'[d][i].rest # <<>>
        BY <1>2, <1>6, <1>9, <2>2
      <3> QED
        BY <1>9, <2>2, <3>1, <3>2
    <2> QED
      BY <2>1, <2>2
  <1>11. CachedStarted'
    BY <1>4, <1>5, <1>8 DEF ChainInv, TypeOK, GraphTypeOK, CachedStarted
  <1>12. PendingOnStack'
    <2> SUFFICES ASSUME NEW q \in Promise, status'[q] = "pending"
                 PROVE  /\ owner'[q] \in Call
                        /\ \E i \in 1 .. Len(stack'[owner'[q]]) :
                               stack'[owner'[q]][i].id = q
      BY DEF PendingOnStack
    <2>1. status[q] = "pending" /\ q # f.id /\ owner'[q] = owner[q]
      BY <1>3, <1>8
    <2>2. owner[q] \in Call
      BY <2>1 DEF ChainInv, PendingOnStack
    <2>3. PICK i \in 1 .. Len(stack[owner[q]]) : stack[owner[q]][i].id = q
      BY <2>1 DEF ChainInv, PendingOnStack
    <2>4. CASE owner[q] # c
      BY <1>9, <2>1, <2>2, <2>3, <2>4
    <2>5. CASE owner[q] = c
      <3>1. i # 1 /\ i \in 1 .. Len(s) /\ s[i].id = q
        BY <1>2, <2>1, <2>3, <2>5 DEF s
      <3>2. i - 1 \in 1 .. Len(b) /\ b[i - 1] = s[i]
        BY <1>2, <3>1
      <3> QED
        BY <1>9, <2>1, <2>2, <2>5, <3>1, <3>2
    <2> QED
      BY <2>4, <2>5
  <1> QED
    BY <1>7, <1>10, <1>11, <1>12 DEF ChainInv

LEMMA CallStepChain ==
    ASSUME ChainInv, NEW c \in Call, CallStep(c)
    PROVE  ChainInv'
  <1>1. CASE Settle(c) \/ Enter(c)
    <2>1. goal[c] \in Token
      BY <1>1 DEF Settle, Enter, ChainInv, ChainOK
    <2> QED
      BY <1>1, <2>1, AdmissionChain
  <1>2. CASE VisitActive(c) \/ VisitMissing(c) \/ VisitCached(c)
    BY <1>2, VisitChain
  <1>3. CASE VisitNew(c)
    BY <1>3, VisitNewChain
  <1>4. CASE VisitPlain(c)
    BY <1>4, VisitPlainChain
  <1>5. CASE Wake(c)
    BY <1>5, WakeChain
  <1>6. CASE Resume(c) \/ ConstructFails(c)
    BY <1>6, ResumeChain
  <1>7. CASE Construct(c)
    BY <1>7, ConstructChain
  <1>8. CASE Unwind(c)
    BY <1>8, UnwindChain
  <1> QED
    BY <1>1, <1>2, <1>3, <1>4, <1>5, <1>6, <1>7, <1>8 DEF CallStep

\* Every step keeps the chain invariant.
LEMMA NextChain == ChainInv /\ [Next]_vars => ChainInv'
  <1> SUFFICES ASSUME ChainInv, [Next]_vars PROVE ChainInv'
    OBVIOUS
  <1>1. CASE UNCHANGED vars
    <2> USE <1>1 DEF vars, promiseVars, callVars, staleVars, disposeVars
    <2>1. GraphTypeOK' /\ PromiseTypeOK'
      BY DEF ChainInv, TypeOK, GraphTypeOK, PromiseTypeOK
    <2>2. CallTypeOK' /\ DisposalTypeOK'
      BY DEF ChainInv, TypeOK, CallTypeOK, DisposalTypeOK
    <2>3. ChainOK' /\ CachedStarted' /\ PendingOnStack'
      BY EmptyingChain
    <2> QED
      BY <2>1, <2>2, <2>3 DEF ChainInv, TypeOK
  <1>2. CASE \E c \in Call, t \in Token : Resolve(c, t)
    BY <1>2, AdmissionChain
  <1>3. CASE \E c \in Call : CallStep(c)
    BY <1>3, CallStepChain
  <1>4. CASE \E p \in Promise : StaleStep(p)
    BY <1>4, StaleChain
  <1>5. CASE \E t \in Token, d \in Replacements : Register(t, d) \/ Override(t, d)
    BY <1>5, GraphChain
  <1>6. CASE Dispose \/ DisposeStep
    BY <1>6, DisposalChain
  <1> QED
    BY <1>1, <1>2, <1>3, <1>4, <1>5, <1>6 DEF Next

\* Type correctness, for every container: a value of the wrong shape (a frame
\* of an unregistered token, a rejection reason for a pending promise) never
\* reaches a variable.
THEOREM TypeCorrect == Spec => []TypeOK
  <1>1. ChainInv => TypeOK
    BY DEF ChainInv
  <1> QED
    BY InitChain, NextChain, <1>1, PTL DEF Spec

-----------------------------------------------------------------------------
(* Concurrent resolutions never wait in a circle                           *)

\* A step that makes nobody wait for anybody new keeps NoCircularWait.
LEMMA NoNewWait ==
    ASSUME NoCircularWait,
           \A c, d \in Call : WaitsOn(c, d)' => WaitsOn(c, d)
    PROVE  NoCircularWait'
  BY DEF NoCircularWait

\* The wait that VisitCached() starts closes no circle.  Were S a circle after
\* it, c would be in S, and so would the promise's creator o.  Since the search
\* from o did not find c, there is a set T of calls that holds o, not c, and is
\* closed under links; the members of S in T that have a chain already formed
\* a circle before.
LEMMA LinkWait ==
    ASSUME ChainInv, NoCircularWait, NEW c \in Call, VisitCached(c)
    PROVE  NoCircularWait'
  <1> USE DEF promiseVars, VisitUnchanged
  <1> DEFINE p == cache[Target(c)]
             o == owner[p]
  <1>1. pc[c] = "visiting" /\ Target(c) \in Token /\ p \in Promise
    BY TargetType DEF VisitCached, VisitProvider, ChainInv, TypeOK, GraphTypeOK
  <1>2. UNCHANGED <<status, owner, stack>>
    BY DEF VisitCached
  <1>3. CASE Throw(c, "circular") /\ UNCHANGED awaits
    <2>1. \A x, y \in Call : WaitsOn(x, y)' => WaitsOn(x, y)
      BY <1>1, <1>2, <1>3 DEF Throw, WaitsOn, ChainInv, TypeOK, CallTypeOK
    <2> QED
      BY <2>1, NoNewWait
  <1>4. CASE /\ ~(status[p] = "pending" /\ ClosesCycle(c, p))
             /\ awaits' = [awaits EXCEPT ![c] = p]
             /\ pc' = [pc EXCEPT ![c] = "awaiting"]
    <2>1. \A x \in Call \ {c}, y \in Call : WaitsOn(x, y)' <=> WaitsOn(x, y)
      BY <1>2, <1>4 DEF WaitsOn, ChainInv, TypeOK, CallTypeOK
    <2>2. \A y \in Call : WaitsOn(c, y)' => status[p] = "pending" /\ y = o
      BY <1>2, <1>4 DEF WaitsOn, ChainInv, TypeOK, CallTypeOK
    <2>3. \A x, y \in Call : WaitsOn(x, y) => stack[y] # <<>>
      <3> SUFFICES ASSUME NEW x \in Call, NEW y \in Call, WaitsOn(x, y)
                   PROVE  stack[y] # <<>>
        OBVIOUS
      <3>1. awaits[x] \in Promise /\ status[awaits[x]] = "pending"
            /\ owner[awaits[x]] = y
        BY DEF WaitsOn, ChainInv, ChainOK
      <3>2. \E i \in 1 .. Len(stack[y]) : TRUE
        BY <3>1 DEF ChainInv, PendingOnStack
      <3> QED
        BY <3>2
    <2>4. ASSUME NEW S \in SUBSET Call, S # {},
                 \A x \in S : \E y \in S : WaitsOn(x, y)'
          PROVE  FALSE
      <3>1. c \in S
        <4> SUFFICES ASSUME c \notin S PROVE FALSE
          OBVIOUS
        <4>1. \A x \in S : \E y \in S : WaitsOn(x, y)
          BY <2>1, <2>4
        <4> QED
          BY <2>4, <4>1 DEF NoCircularWait
      <3>2. o \in S /\ o \in Call /\ status[p] = "pending"
        BY <2>2, <2>4, <3>1
      <3>3. stack[o] # <<>>
        <4>1. \E i \in 1 .. Len(stack[o]) : TRUE
          BY <1>1, <3>2 DEF ChainInv, PendingOnStack
        <4> QED
          BY <4>1
      <3>4. CASE stack[c] = <<>>
        <4>1. o # c
          BY <3>3, <3>4
        <4>2. \A x \in S \ {c} : \E y \in S \ {c} : WaitsOn(x, y)
          BY <2>1, <2>3, <2>4, <3>4
        <4>3. S \ {c} \in SUBSET Call /\ S \ {c} # {}
          BY <3>2, <4>1
        <4> QED
          BY <4>2, <4>3 DEF NoCircularWait
      <3>5. CASE stack[c] # <<>>
        <4>1. ~PendingPath(o, c)
          BY <1>4, <3>2, <3>5 DEF ClosesCycle
        <4>2. PICK T \in SUBSET Call :
                 /\ o \in T /\ c \notin T
                 /\ \A x \in T, y \in Call : Linked(x, y) => y \in T
          BY <4>1 DEF PendingPath
        <4> DEFINE R == {x \in S \cap T : stack[x] # <<>>}
        <4>3. o \in R /\ R \in SUBSET Call
          BY <3>2, <3>3, <4>2
        <4>4. \A x \in R : \E y \in R : WaitsOn(x, y)
          <5> SUFFICES ASSUME NEW x \in R PROVE \E y \in R : WaitsOn(x, y)
            OBVIOUS
          <5>1. x \in S /\ x \in T /\ x # c /\ stack[x] # <<>> /\ x \in Call
            BY <4>2
          <5>2. PICK y \in S : WaitsOn(x, y)
            BY <2>1, <2>4, <5>1
          <5>3. y \in Call /\ stack[y] # <<>>
            BY <2>3, <5>1, <5>2
          <5>4. Linked(x, y)
            BY <5>1, <5>2 DEF Linked, WaitsOn
          <5> QED
            BY <4>2, <5>1, <5>2, <5>3, <5>4
        <4> HIDE DEF R
        <4> QED
          BY <4>3, <4>4 DEF NoCircularWait
      <3> QED
        BY <3>4, <3>5
    <2> QED
      BY <2>4 DEF NoCircularWait
  <1> QED
    BY <1>3, <1>4 DEF VisitCached

LEMMA CallStepWait ==
    ASSUME ChainInv, NoCircularWait, NEW c \in Call, CallStep(c)
    PROVE  NoCircularWait'
  <1> USE DEF promiseVars, VisitUnchanged, WaitsOn, ChainInv, TypeOK, CallTypeOK
  <1>1. CASE Settle(c)
    BY <1>1, NoNewWait DEF Settle
  <1>2. CASE Enter(c)
    BY <1>2, NoNewWait DEF Enter
  <1>3. CASE VisitActive(c)
    BY <1>3, NoNewWait DEF VisitActive, Throw
  <1>4. CASE VisitMissing(c)
    BY <1>4, NoNewWait DEF VisitMissing, Throw
  <1>5. CASE VisitCached(c)
    BY <1>5, LinkWait
  <1>6. CASE VisitNew(c)
    <2>1. PICK q \in Promise :
             /\ status[q] = "free"
             /\ status' = [status EXCEPT ![q] = "pending"]
             /\ owner' = [owner EXCEPT ![q] = c]
             /\ Push(c, Target(c), q)
      BY <1>6 DEF VisitNew
    <2>2. ASSUME NEW x \in Call, NEW y \in Call, WaitsOn(x, y)'
          PROVE  WaitsOn(x, y)
      <3>1. x # c /\ pc[x] = "awaiting" /\ awaits'[x] = awaits[x]
        BY <2>1, <2>2 DEF Push
      <3>2. awaits[x] \in Promise /\ status[awaits[x]] # "free"
        BY <3>1 DEF ChainOK
      <3>3. status'[awaits[x]] = status[awaits[x]]
            /\ owner'[awaits[x]] = owner[awaits[x]]
        BY <2>1, <3>2 DEF PromiseTypeOK
      <3> QED
        BY <2>2, <3>1, <3>3
    <2> QED
      BY <2>2, NoNewWait
  <1>7. CASE VisitPlain(c)
    BY <1>7, NoNewWait DEF VisitPlain, Push
  <1>8. CASE Wake(c)
    <2>1. pc'[c] # "awaiting" /\ \A x \in Call \ {c} : pc'[x] = pc[x]
      BY <1>8 DEF Wake, Throw, AfterHanding
    <2>2. UNCHANGED <<status, owner>> /\ \A x \in Call \ {c} : awaits'[x] = awaits[x]
      BY <1>8 DEF Wake
    <2> QED
      BY <2>1, <2>2, NoNewWait
  <1>9. CASE Resume(c)
    BY <1>9, NoNewWait DEF Resume
  <1>10. CASE ConstructFails(c)
    BY <1>10, NoNewWait DEF ConstructFails, Throw
  <1>11. CASE Construct(c) \/ Unwind(c)
    <2>1. /\ pc'[c] # "awaiting" /\ \A x \in Call \ {c} : pc'[x] = pc[x]
          /\ UNCHANGED <<awaits, owner>>
      BY <1>11 DEF Construct, Unwind, AfterHanding
    <2>2. \A q \in Promise : status'[q] = "pending" => status[q] = "pending"
      <3>1. CASE Construct(c)
        BY <3>1 DEF Construct, PromiseTypeOK
      <3>2. CASE Unwind(c)
        <4>1. error[c] # "pending"
          BY <3>2 DEF Unwind, ChainOK, Failed
        <4> QED
          BY <3>2, <4>1 DEF Unwind, PromiseTypeOK
      <3> QED
        BY <1>11, <3>1, <3>2
    <2>3. \A x \in Call : pc[x] = "awaiting" => awaits[x] \in Promise
      BY DEF ChainOK
    <2> QED
      BY <2>1, <2>2, <2>3, NoNewWait
  <1> QED
    BY <1>1, <1>2, <1>3, <1>4, <1>5, <1>6, <1>7, <1>8, <1>9, <1>10, <1>11
    DEF CallStep

LEMMA NextWait == ChainInv /\ NoCircularWait /\ [Next]_vars => NoCircularWait'
  <1> SUFFICES ASSUME ChainInv, NoCircularWait, [Next]_vars
               PROVE  NoCircularWait'
    OBVIOUS
  <1> USE DEF promiseVars, callVars, WaitsOn
  <1>1. CASE UNCHANGED vars
    BY <1>1, NoNewWait DEF vars
  <1>2. CASE \E c \in Call, t \in Token : Resolve(c, t)
    BY <1>2, NoNewWait DEF Resolve, ChainInv, TypeOK, CallTypeOK
  <1>3. CASE \E c \in Call : CallStep(c)
    BY <1>3, CallStepWait
  <1>4. CASE \E p \in Promise : StaleStep(p)
    BY <1>4, NoNewWait DEF StaleStep, StaleReject, StaleHook
  <1>5. CASE \E t \in Token, d \in Replacements : Register(t, d) \/ Override(t, d)
    BY <1>5, NoNewWait DEF Register, Override
  <1>6. CASE Dispose \/ DisposeStep
    BY <1>6, NoNewWait DEF Dispose, DisposeStep, DisposeDrain, DisposeCollect,
       DisposeFinish, DisposeRetry, DisposeHook, DisposeUnchanged
  <1> QED
    BY <1>1, <1>2, <1>3, <1>4, <1>5, <1>6 DEF Next

\* Whatever providers are registered or overridden and however resolve() calls
\* interleave and fail, no set of calls waits for itself: the cycle search of
\* linkPendingResolution() is enough.
THEOREM NeverCircularWait == Spec => []NoCircularWait
  <1>1. Init => NoCircularWait
    BY DEF Init, NoCircularWait, WaitsOn
  <1> QED
    BY InitChain, NextChain, NextWait, <1>1, PTL DEF Spec

-----------------------------------------------------------------------------
(* Stale disposal failures are delivered once                              *)

\* What was delivered to a call is consumed, and nobody else got it; an
\* attempt that still drains has collected nothing.
BlameSound ==
    /\ \A c \in Call : blame[c] \subseteq consumed
    /\ \A c, d \in Call : c # d => blame[c] \cap blame[d] = {}
    /\ phase = "draining" => ~faults

LEMMA NextBlame ==
    ASSUME ChainInv, BlameSound, [Next]_vars
    PROVE  BlameSound'
  <1> USE DEF BlameSound
  <1>1. CASE UNCHANGED vars
    BY <1>1 DEF vars, callVars, staleVars, disposeVars
  <1>2. ASSUME NEW c \in Call, NEW t \in Token, Resolve(c, t)
        PROVE  BlameSound'
    BY <1>2 DEF Resolve, staleVars, disposeVars
  <1>3. ASSUME NEW c \in Call, CallStep(c)
        PROVE  BlameSound'
    <2>1. CASE Settle(c)
      <3>1. /\ blame' = [blame EXCEPT ![c] = @ \cup Undelivered(waited[c])]
            /\ consumed' = consumed \cup Undelivered(waited[c])
            /\ UNCHANGED <<phase, faults>>
        BY <2>1 DEF Settle, disposeVars
      <3>2. Undelivered(waited[c]) \cap consumed = {}
        BY DEF Undelivered
      <3>3. blame \in [Call -> SUBSET Promise]
        BY DEF ChainInv, TypeOK, CallTypeOK
      <3>4. \A d \in Call : blame'[d] = IF d = c THEN blame[c] \cup Undelivered(waited[c])
                                        ELSE blame[d]
        BY <3>1, <3>3
      <3> QED
        BY <3>1, <3>2, <3>4
    <2>2. UNCHANGED <<blame, staleVars, disposeVars>> => BlameSound'
      BY DEF staleVars, disposeVars
    <2>3. ~Settle(c) => UNCHANGED <<blame, staleVars, disposeVars>>
      BY <1>3 DEF CallStep, Enter, VisitActive, VisitMissing, VisitCached, VisitNew,
         VisitPlain, Wake, Resume, Construct, ConstructFails, Unwind, VisitUnchanged
    <2> QED
      BY <2>1, <2>2, <2>3
  <1>4. ASSUME NEW p \in Promise, StaleStep(p)
        PROVE  BlameSound'
    BY <1>4 DEF StaleStep, StaleReject, StaleHook, callVars, disposeVars
  <1>5. ASSUME NEW t \in Token, NEW d \in Replacements, Register(t, d) \/ Override(t, d)
        PROVE  BlameSound'
    BY <1>5 DEF Register, Override, callVars, staleVars, disposeVars
  <1>6. CASE Dispose
    BY <1>6 DEF Dispose, DisposeUnchanged, callVars, staleVars
  <1>7. CASE DisposeStep
    <2>1. UNCHANGED blame /\ consumed \subseteq consumed'
      BY <1>7 DEF DisposeStep, DisposeDrain, DisposeCollect, DisposeFinish,
         DisposeRetry, DisposeHook, DisposeUnchanged, callVars, staleVars
    <2>2. phase' # "draining"
      BY <1>7 DEF DisposeStep, DisposeDrain, DisposeCollect, DisposeFinish,
         DisposeRetry, DisposeHook
    <2> QED
      BY <2>1, <2>2
  <1> QED
    BY <1>1, <1>2, <1>3, <1>4, <1>5, <1>6, <1>7 DEF Next

\* No stale disposal failure is thrown by two resolve() calls, and a dispose()
\* attempt that reports failures after its drain reports one that no call got.
THEOREM FailuresDeliveredOnce == Spec => DeliveredOnce
  <1> DEFINE Disjoint == \A c, d \in Call : c # d => blame[c] \cap blame[d] = {}
             Reported == phase = "draining" /\ faults' =>
               \E p \in drained : stale[p] # "clean" /\ \A c \in Call : p \notin blame[c]
  <1>1. Init => BlameSound
    BY DEF Init, BlameSound
  <1>2. ChainInv /\ BlameSound /\ [Next]_vars => BlameSound'
    BY NextBlame
  <1>3. BlameSound => Disjoint
    BY DEF BlameSound
  <1>4. ChainInv /\ BlameSound /\ [Next]_vars => [Reported]_vars
    <2> SUFFICES ASSUME BlameSound, Next, phase = "draining", faults'
                 PROVE  \E p \in drained :
                            stale[p] # "clean" /\ \A c \in Call : p \notin blame[c]
      OBVIOUS
    <2>1. ~faults
      BY DEF BlameSound
    <2>2. DisposeDrain
      <3>1. UNCHANGED faults \/ Dispose \/ DisposeStep
        <4>1. ASSUME NEW c \in Call, CallStep(c) PROVE UNCHANGED faults
          BY <4>1 DEF CallStep, Settle, Enter, VisitActive, VisitMissing, VisitCached,
             VisitNew, VisitPlain, Wake, Resume, Construct, ConstructFails, Unwind,
             VisitUnchanged, disposeVars
        <4>2. ASSUME NEW c \in Call, NEW t \in Token, Resolve(c, t) PROVE UNCHANGED faults
          BY <4>2 DEF Resolve, disposeVars
        <4>3. ASSUME NEW p \in Promise, StaleStep(p) PROVE UNCHANGED faults
          BY <4>3 DEF StaleStep, StaleReject, StaleHook, disposeVars
        <4>4. ASSUME NEW t \in Token, NEW d \in Replacements, Register(t, d) \/ Override(t, d)
              PROVE  UNCHANGED faults
          BY <4>4 DEF Register, Override, disposeVars
        <4> QED
          BY <4>1, <4>2, <4>3, <4>4 DEF Next
      <3> QED
        BY <2>1, <3>1 DEF Dispose, DisposeStep, DisposeCollect, DisposeFinish,
           DisposeRetry, DisposeHook
    <2>3. PICK p \in drained : stale[p] \in {"failed", "rejected"} /\ p \notin consumed
      BY <2>2 DEF DisposeDrain, Undelivered
    <2> QED
      BY <2>3 DEF BlameSound
  <1> QED
    BY InitChain, NextChain, <1>1, <1>2, <1>3, <1>4, PTL DEF Spec, DeliveredOnce

-----------------------------------------------------------------------------
(* How a step of a call changes its chain                                  *)

Elems(s) == {s[i] : i \in DOMAIN s}

\* The frames of s, with fewer dependencies to inject and the instances in u
\* injected, at most.
Follows(r, s, u) ==
    /\ Len(r) = Len(s)
    /\ \A i \in 1 .. Len(s) :
          /\ r[i].tok = s[i].tok /\ r[i].id = s[i].id
          /\ Elems(r[i].rest) \subseteq Elems(s[i].rest)
          /\ r[i].uses \subseteq s[i].uses \cup u

LEMMA TailElems ==
    ASSUME NEW T, NEW s \in Seq(T), s # <<>>
    PROVE  /\ Head(s) \in Elems(s) /\ Elems(Tail(s)) \subseteq Elems(s)
           /\ Elems(s) \subseteq T
  <1>1. Head(s) = s[1] /\ 1 \in DOMAIN s
    OBVIOUS
  <1>2. ASSUME NEW i \in DOMAIN Tail(s) PROVE Tail(s)[i] = s[i + 1] /\ i + 1 \in DOMAIN s
    OBVIOUS
  <1> QED
    BY <1>1, <1>2 DEF Elems

LEMMA HandFollows ==
    ASSUME NEW s \in Seq(Frame), NEW u \in SUBSET Promise,
           s # <<>> => s[1].rest # <<>>
    PROVE  Follows(Handed(s, u), s, u)
  <1>1. CASE s = <<>>
    BY <1>1 DEF Handed, Follows
  <1>2. CASE s # <<>>
    <2> DEFINE g == [Head(s) EXCEPT !.rest = Tail(@), !.uses = @ \cup u]
               h == Handed(s, u)
    <2>1. Len(h) = Len(s) /\ \A i \in 2 .. Len(s) : h[i] = s[i]
      BY HandChain
    <2>2. h = <<g>> \o Tail(s)
      BY <1>2 DEF Handed
    <2>3. Head(s) = s[1] /\ Head(s) \in Frame /\ Tail(s) \in Seq(Frame)
          /\ Len(s) \in Nat /\ Len(s) >= 1
      BY <1>2
    <2>4. h[1] = g
      BY <2>2, <2>3
    <2>5. /\ g.tok = s[1].tok /\ g.id = s[1].id
          /\ g.rest = Tail(s[1].rest) /\ g.uses = s[1].uses \cup u
      BY <2>3 DEF Frame
    <2>6. Elems(g.rest) \subseteq Elems(s[1].rest)
      <3>1. s[1].rest \in Seq(Token) /\ s[1].rest # <<>>
        BY <1>2, <2>3 DEF Frame
      <3> QED
        BY <2>5, <3>1, TailElems
    <2> HIDE DEF g, h
    <2>7. \A i \in 1 .. Len(s) : i = 1 \/ i \in 2 .. Len(s)
      BY <2>3
    <2> QED
      BY <2>1, <2>4, <2>5, <2>6, <2>7 DEF Follows, h
  <1> QED
    BY <1>1, <1>2

\* The chain without its innermost frame, and a value handed to it.
LEMMA PopFollows ==
    ASSUME ChainInv, NEW c \in Call, stack[c] # <<>>, NEW u \in SUBSET Promise
    PROVE  LET s == stack[c] IN
           /\ Head(s) = s[1] /\ s[1] \in Frame /\ Tail(s) \in Seq(Frame)
           /\ Len(Tail(s)) = Len(s) - 1 /\ Len(s) \in Nat /\ Len(s) >= 1
           /\ \A i \in 1 .. Len(s) - 1 : Tail(s)[i] = s[i + 1] /\ s[i + 1] \in Frame
           /\ Follows(Handed(Tail(s), u), Tail(s), u)
  <1> DEFINE s == stack[c]
  <1>1. s \in Seq(Frame)
    BY DEF ChainInv, TypeOK, CallTypeOK
  <1>2. /\ Head(s) \in Frame /\ Head(s) = s[1] /\ Tail(s) \in Seq(Frame)
        /\ Len(Tail(s)) = Len(s) - 1 /\ Len(s) \in Nat /\ Len(s) >= 1
        /\ \A i \in 1 .. Len(s) - 1 : Tail(s)[i] = s[i + 1]
    BY <1>1, PopChain
  <1>3. \A i \in 1 .. Len(s) - 1 : i + 1 \in 2 .. Len(s) /\ i + 1 \in 1 .. Len(s)
    BY <1>2
  <1>4. \A i \in 2 .. Len(s) : s[i].rest # <<>>
    BY DEF ChainInv, ChainOK
  <1>5. Tail(s) # <<>> => Tail(s)[1].rest # <<>>
    <2> SUFFICES ASSUME Tail(s) # <<>> PROVE Tail(s)[1].rest # <<>>
      OBVIOUS
    <2>1. Len(Tail(s)) # 0
      <3>1. \A r \in Seq(Frame) : r # <<>> => Len(r) # 0
        OBVIOUS
      <3> HIDE DEF s
      <3> QED
        BY <1>2, <3>1
    <2>2. 1 \in 1 .. Len(s) - 1
      BY <1>2, <2>1
    <2> QED
      BY <1>2, <1>3, <1>4, <2>2
  <1>6. Follows(Handed(Tail(s), u), Tail(s), u)
    BY <1>2, <1>5, HandFollows
  <1>7. \A i \in 1 .. Len(s) : s[i] \in Frame
    BY <1>1
  <1> QED
    BY <1>2, <1>3, <1>6, <1>7

\* A new frame on top of the chain.
LEMMA PushFrames ==
    ASSUME ChainInv, NEW c \in Call, NEW t \in Token, registry[t] # Missing,
           NEW p \in Promise \cup {None}, Push(c, t, p)
    PROVE  /\ Len(stack[c]) \in Nat
           /\ Len(stack'[c]) = Len(stack[c]) + 1
           /\ stack'[c][1].tok = t /\ stack'[c][1].id = p
           /\ stack'[c][1].rest = registry[t] /\ stack'[c][1].uses = {}
           /\ \A i \in 2 .. Len(stack[c]) + 1 : stack'[c][i] = stack[c][i - 1]
           /\ \A d \in Call \ {c} : stack'[d] = stack[d]
  <1> DEFINE f == [tok |-> t, id |-> p, rest |-> registry[t], uses |-> {}]
             s == stack[c]
  <1>1. registry[t] \in Seq(Token)
    BY ConstantsAssumption DEF ChainInv, TypeOK, GraphTypeOK
  <1>2. f \in Frame
    BY <1>1 DEF Frame
  <1>3. s \in Seq(Frame) /\ Len(s) \in Nat
    BY DEF ChainInv, TypeOK, CallTypeOK
  <1>4. stack' = [stack EXCEPT ![c] = <<f>> \o s]
    BY DEF Push
  <1> HIDE DEF f
  <1>5. /\ Len(<<f>> \o s) = Len(s) + 1 /\ (<<f>> \o s)[1] = f
        /\ \A i \in 2 .. Len(s) + 1 : (<<f>> \o s)[i] = s[i - 1]
    BY <1>2, <1>3, PushChain
  <1>6. stack'[c] = <<f>> \o s /\ \A d \in Call \ {c} : stack'[d] = stack[d]
    BY <1>4 DEF ChainInv, TypeOK, CallTypeOK
  <1>7. f.tok = t /\ f.id = p /\ f.rest = registry[t] /\ f.uses = {}
    BY DEF f
  <1> QED
    BY <1>3, <1>5, <1>6, <1>7

\* The steps of a call that leave the cache and all promises alone.
Stays(c) == UNCHANGED <<stack, cache, promiseVars, late, evicted>>
Hands(c, u) ==
    /\ stack' = [stack EXCEPT ![c] = Handed(@, u)]
    /\ pc' = [pc EXCEPT ![c] = AfterHanding(stack[c])]
    /\ UNCHANGED <<cache, promiseVars, late, evicted, error>>
    /\ \/ u = {}
       \/ pc[c] = "awaiting" /\ status[awaits[c]] = "ok" /\ u = {awaits[c]}

LEMMA CallMoves ==
    ASSUME ChainInv, NEW c \in Call, CallStep(c)
    PROVE  /\ UNCHANGED <<registry, goal, overrides, disposeVars, destroyed>>
           /\ \/ Stays(c)
              \/ \E u \in SUBSET Promise : Hands(c, u) /\ Follows(stack'[c], stack[c], u)
              \/ VisitNew(c) \/ VisitPlain(c) \/ Construct(c) \/ Unwind(c)
  <1> USE DEF VisitUnchanged
  <1>1. UNCHANGED <<registry, goal, overrides, disposeVars, destroyed>>
    BY DEF CallStep, Settle, Enter, VisitActive, VisitMissing, VisitCached, VisitNew,
       VisitPlain, Wake, Resume, Construct, ConstructFails, Unwind
  <1>2. ASSUME NEW u \in SUBSET Promise, Hands(c, u), pc[c] \in {"visiting", "awaiting"}
        PROVE  Follows(stack'[c], stack[c], u)
    <2>1. stack[c] \in Seq(Frame) /\ (stack[c] # <<>> => stack[c][1].rest # <<>>)
      BY <1>2 DEF ChainInv, ChainOK, TypeOK, CallTypeOK
    <2>2. stack'[c] = Handed(stack[c], u)
      BY <1>2 DEF Hands, ChainInv, TypeOK, CallTypeOK
    <2> QED
      BY <2>1, <2>2, HandFollows
  <1>3. CASE VisitMissing(c)
    <2>1. CASE UNCHANGED stack
      BY <1>3, <2>1 DEF VisitMissing, Stays
    <2>2. CASE stack[c] # <<>> /\ stack' = [stack EXCEPT ![c] = Handed(@, {})]
               /\ pc' = [pc EXCEPT ![c] = "suspended"] /\ UNCHANGED error
      <3>1. Hands(c, {}) /\ pc[c] \in {"visiting", "awaiting"}
        BY <1>3, <2>2 DEF VisitMissing, Hands, AfterHanding
      <3> QED
        BY <1>1, <1>2, <3>1
    <2> QED
      BY <1>3, <2>1, <2>2 DEF VisitMissing
  <1>4. CASE Wake(c)
    <2>1. pc[c] = "awaiting" /\ awaits[c] \in Promise
      BY <1>4 DEF Wake, ChainInv, ChainOK
    <2>2. CASE status[awaits[c]] = "ok"
      <3>1. Hands(c, {awaits[c]})
        BY <1>4, <2>2 DEF Wake, Hands
      <3>2. {awaits[c]} \in SUBSET Promise
        BY <2>1
      <3> QED
        BY <1>1, <1>2, <2>1, <3>1, <3>2
    <2>3. CASE status[awaits[c]] # "ok"
      BY <1>1, <1>4, <2>3 DEF Wake, Stays
    <2> QED
      BY <2>2, <2>3
  <1>5. Settle(c) \/ Enter(c) \/ VisitActive(c) \/ VisitCached(c) \/ Resume(c)
          \/ ConstructFails(c) => Stays(c)
    BY DEF Settle, Enter, VisitActive, VisitCached, Resume, ConstructFails, Stays
  <1> QED
    BY <1>1, <1>3, <1>4, <1>5 DEF CallStep

-----------------------------------------------------------------------------
(* The singleton is shared                                                 *)

\* A promise in a chain is under construction there, for the token of its
\* frame; a token is in a chain once.
FramesSound ==
    \A c \in Call : \A i \in 1 .. Len(stack[c]) :
        /\ stack[c][i].id # None =>
              /\ owner[stack[c][i].id] = c
              /\ tokenOf[stack[c][i].id] = stack[c][i].tok
              /\ status[stack[c][i].id] = "pending"
        /\ \A j \in 1 .. Len(stack[c]) : stack[c][i].tok = stack[c][j].tok => i = j

\* What the cache offers for a token is, or may become, an instance of it.
CacheSound ==
    \A t \in Token : cache[t] # None =>
        tokenOf[cache[t]] = t /\ status[cache[t]] \in {"pending", "ok"}

\* Until something is overridden or disposed, the cache keeps every promise
\* that has not failed.
PromisesKept ==
    overrides = 0 /\ ~disposed =>
        \A p \in Promise : status[p] \in {"pending", "ok"} =>
            tokenOf[p] \in Token /\ cache[tokenOf[p]] = p

SharedInv == FramesSound /\ CacheSound /\ PromisesKept

\* A step that leaves promises and chains alone and only empties entries.
LEMMA SharedSteady ==
    ASSUME SharedInv,
           \A c \in Call : /\ Len(stack'[c]) = Len(stack[c])
                           /\ \A i \in 1 .. Len(stack[c]) :
                                 stack'[c][i].tok = stack[c][i].tok
                                 /\ stack'[c][i].id = stack[c][i].id,
           UNCHANGED <<status, owner, tokenOf>>,
           \A t \in Token : cache'[t] \in {cache[t], None},
           overrides' = 0 /\ ~disposed' => overrides = 0 /\ ~disposed /\ cache' = cache
    PROVE  SharedInv'
  <1>1. FramesSound'
    BY DEF SharedInv, FramesSound
  <1>2. CacheSound'
    BY DEF SharedInv, CacheSound
  <1>3. PromisesKept'
    BY DEF SharedInv, PromisesKept
  <1> QED
    BY <1>1, <1>2, <1>3 DEF SharedInv

\* The token that a call visits is not in its chain.
LEMMA ProviderFacts ==
    ASSUME ChainInv, NEW c \in Call, VisitProvider(c)
    PROVE  /\ Target(c) \in Token /\ pc[c] = "visiting" /\ registry[Target(c)] # Missing
           /\ \A i \in 1 .. Len(stack[c]) : stack[c][i].tok # Target(c)
  <1>1. stack[c] \in Seq(Frame)
    BY DEF ChainInv, TypeOK, CallTypeOK
  <1> QED
    BY <1>1, TargetType DEF VisitProvider, ActiveTokens

\* A new frame, whose promise, if it has one, is new and cached.
LEMMA PushShared ==
    ASSUME ChainInv, SharedInv, NEW c \in Call, VisitProvider(c),
           NEW p \in Promise \cup {None}, Push(c, Target(c), p),
           UNCHANGED <<overrides, disposed>>,
           \/ p = None /\ UNCHANGED <<status, owner, tokenOf, cache>>
           \/ /\ p # None /\ status[p] = "free" /\ cache[Target(c)] = None
              /\ status' = [status EXCEPT ![p] = "pending"]
              /\ owner' = [owner EXCEPT ![p] = c]
              /\ tokenOf' = [tokenOf EXCEPT ![p] = Target(c)]
              /\ cache' = [cache EXCEPT ![Target(c)] = p]
    PROVE  SharedInv'
  <1> DEFINE t == Target(c)
  <1>1. /\ t \in Token /\ registry[t] # Missing
        /\ \A i \in 1 .. Len(stack[c]) : stack[c][i].tok # t
    BY ProviderFacts
  <1> HIDE DEF t
  <1>2. /\ Len(stack[c]) \in Nat /\ Len(stack'[c]) = Len(stack[c]) + 1
        /\ stack'[c][1].tok = t /\ stack'[c][1].id = p
        /\ \A i \in 2 .. Len(stack[c]) + 1 : stack'[c][i] = stack[c][i - 1]
        /\ \A d \in Call \ {c} : stack'[d] = stack[d]
    <2>1. Push(c, t, p)
      BY DEF t
    <2> QED
      BY <1>1, <2>1, PushFrames
  <1>3. p # None => /\ owner'[p] = c /\ tokenOf'[p] = t /\ status'[p] = "pending"
                    /\ cache'[t] = p /\ p \in Promise
    BY <1>1 DEF ChainInv, TypeOK, PromiseTypeOK, GraphTypeOK, t
  <1>4. \A q \in Promise : q # p \/ p = None =>
          /\ owner'[q] = owner[q] /\ tokenOf'[q] = tokenOf[q] /\ status'[q] = status[q]
    BY DEF ChainInv, TypeOK, PromiseTypeOK
  <1>5. \A v \in Token : v # t \/ p = None => cache'[v] = cache[v]
    BY DEF ChainInv, TypeOK, GraphTypeOK, t
  <1>6. \A d \in Call : \A i \in 1 .. Len(stack[d]) :
          stack[d][i].id # None => stack[d][i].id # p /\ stack[d][i].id \in Promise
    <2> SUFFICES ASSUME NEW d \in Call, NEW i \in 1 .. Len(stack[d]), stack[d][i].id # None
                 PROVE  stack[d][i].id # p /\ stack[d][i].id \in Promise
      OBVIOUS
    <2>1. stack[d][i] \in Frame
      BY DEF ChainInv, TypeOK, CallTypeOK
    <2>2. status[stack[d][i].id] = "pending"
      BY DEF SharedInv, FramesSound
    <2> QED
      BY <2>1, <2>2 DEF Frame
  <1>7. FramesSound'
    <2> SUFFICES ASSUME NEW d \in Call, NEW i \in 1 .. Len(stack'[d])
                 PROVE  /\ stack'[d][i].id # None =>
                              /\ owner'[stack'[d][i].id] = d
                              /\ tokenOf'[stack'[d][i].id] = stack'[d][i].tok
                              /\ status'[stack'[d][i].id] = "pending"
                        /\ \A j \in 1 .. Len(stack'[d]) :
                              stack'[d][i].tok = stack'[d][j].tok => i = j
      BY DEF FramesSound
    <2>1. CASE d # c
      BY <1>2, <1>4, <1>6, <2>1 DEF SharedInv, FramesSound
    <2>2. CASE d = c
      <3>1. \A j \in 1 .. Len(stack'[d]) : j = 1 \/ (j \in 2 .. Len(stack[c]) + 1
                                                     /\ j - 1 \in 1 .. Len(stack[c]))
        BY <1>2, <2>2
      <3>2. i # 1 => /\ stack'[d][i] = stack[d][i - 1] /\ i - 1 \in 1 .. Len(stack[d])
        BY <1>2, <2>2, <3>1
      <3>3. stack'[d][i].id # None =>
                              /\ owner'[stack'[d][i].id] = d
                              /\ tokenOf'[stack'[d][i].id] = stack'[d][i].tok
                              /\ status'[stack'[d][i].id] = "pending"
        <4>1. CASE i = 1
          BY <1>2, <1>3, <2>2, <4>1
        <4>2. CASE i # 1
          BY <1>4, <1>6, <2>2, <3>2, <4>2 DEF SharedInv, FramesSound
        <4> QED
          BY <4>1, <4>2
      <3>4. ASSUME NEW j \in 1 .. Len(stack'[d]), stack'[d][i].tok = stack'[d][j].tok
            PROVE  i = j
        <4>1. j # 1 => /\ stack'[d][j] = stack[d][j - 1] /\ j - 1 \in 1 .. Len(stack[d])
          BY <1>2, <2>2, <3>1
        <4>2. i = 1 <=> j = 1
          BY <1>1, <1>2, <2>2, <3>2, <3>4, <4>1
        <4>3. i # 1 => i - 1 = j - 1
          BY <3>2, <3>4, <4>1, <4>2 DEF SharedInv, FramesSound
        <4> QED
          BY <1>2, <2>2, <4>2, <4>3
      <3> QED
        BY <3>3, <3>4
    <2> QED
      BY <2>1, <2>2
  <1>8. CacheSound'
    <2> SUFFICES ASSUME NEW v \in Token, cache'[v] # None
                 PROVE  tokenOf'[cache'[v]] = v /\ status'[cache'[v]] \in {"pending", "ok"}
      BY DEF CacheSound
    <2>1. CASE v = t /\ p # None
      BY <1>3, <2>1
    <2>2. CASE v # t \/ p = None
      <3>1. cache'[v] = cache[v] /\ cache[v] \in Promise
        BY <1>5, <2>2 DEF ChainInv, TypeOK, GraphTypeOK
      <3>2. tokenOf[cache[v]] = v /\ status[cache[v]] \in {"pending", "ok"}
        BY <3>1 DEF SharedInv, CacheSound
      <3> QED
        BY <1>4, <3>1, <3>2
    <2> QED
      BY <2>1, <2>2
  <1>9. PromisesKept'
    <2> SUFFICES ASSUME overrides = 0, ~disposed,
                        NEW q \in Promise, status'[q] \in {"pending", "ok"}
                 PROVE  tokenOf'[q] \in Token /\ cache'[tokenOf'[q]] = q
      BY DEF PromisesKept
    <2>1. CASE p # None /\ q = p
      BY <1>1, <1>3, <2>1
    <2>2. CASE p = None \/ q # p
      <3>1. tokenOf'[q] = tokenOf[q] /\ tokenOf[q] \in Token /\ cache[tokenOf[q]] = q
        BY <1>4, <2>2 DEF SharedInv, PromisesKept
      <3>2. q # None
        BY DEF Promise, None
      <3>3. p # None => tokenOf[q] # t
        BY <3>1, <3>2 DEF t
      <3> QED
        BY <1>5, <3>1, <3>3
    <2> QED
      BY <2>1, <2>2
  <1> QED
    BY <1>7, <1>8, <1>9 DEF SharedInv

\* The innermost frame leaves the chain, and its promise, if it has one,
\* settles; a rejected one leaves the cache.
LEMMA PopShared ==
    ASSUME ChainInv, SharedInv, NEW c \in Call, stack[c] # <<>>,
           NEW u \in SUBSET Promise, NEW outcome \in {"ok"} \cup Failed,
           Follows(stack'[c], Tail(stack[c]), u),
           \A d \in Call \ {c} : stack'[d] = stack[d],
           UNCHANGED <<owner, tokenOf, overrides, disposed>>,
           stack[c][1].id = None => UNCHANGED <<status, cache>>,
           stack[c][1].id # None =>
              /\ status' = [status EXCEPT ![stack[c][1].id] = outcome]
              /\ cache' = IF outcome = "ok" THEN cache
                          ELSE [cache EXCEPT ![stack[c][1].tok] = None]
    PROVE  SharedInv'
  <1> DEFINE s == stack[c]
             p == s[1].id
             t == s[1].tok
  <1>1. /\ s[1] \in Frame /\ Len(Tail(s)) = Len(s) - 1 /\ Len(s) \in Nat /\ Len(s) >= 1
        /\ \A i \in 1 .. Len(s) - 1 : Tail(s)[i] = s[i + 1]
    BY PopFollows, {} \in SUBSET Promise
  <1>2. p \in Promise \cup {None} /\ t \in Token /\ 1 \in 1 .. Len(s)
    BY <1>1 DEF Frame
  <1>3. p # None => owner[p] = c /\ tokenOf[p] = t /\ status[p] = "pending"
    BY <1>2 DEF SharedInv, FramesSound
  <1>4. Len(stack'[c]) = Len(s) - 1
        /\ \A i \in 1 .. Len(s) - 1 : /\ i + 1 \in 1 .. Len(s)
                                      /\ stack'[c][i].tok = s[i + 1].tok
                                      /\ stack'[c][i].id = s[i + 1].id
    BY <1>1 DEF Follows
  <1>5. \A q \in Promise : p = None \/ q # p => status'[q] = status[q]
    BY DEF ChainInv, TypeOK, PromiseTypeOK
  <1>6. \A d \in Call : \A i \in 1 .. Len(stack[d]) :
          (stack[d][i].id # None => stack[d][i].id \in Promise) /\ stack[d][i].tok \in Token
    <2> SUFFICES ASSUME NEW d \in Call, NEW i \in 1 .. Len(stack[d])
                 PROVE  stack[d][i] \in Frame
      BY DEF Frame
    <2> QED
      BY DEF ChainInv, TypeOK, CallTypeOK
  <1>7. FramesSound'
    <2> SUFFICES ASSUME NEW d \in Call, NEW i \in 1 .. Len(stack'[d])
                 PROVE  /\ stack'[d][i].id # None =>
                              /\ owner'[stack'[d][i].id] = d
                              /\ tokenOf'[stack'[d][i].id] = stack'[d][i].tok
                              /\ status'[stack'[d][i].id] = "pending"
                        /\ \A j \in 1 .. Len(stack'[d]) :
                              stack'[d][i].tok = stack'[d][j].tok => i = j
      BY DEF FramesSound
    <2>1. CASE d # c
      <3>1. stack'[d] = stack[d] /\ i \in 1 .. Len(stack[d])
        BY <2>1
      <3>2. stack[d][i].id # None => stack[d][i].id # p \/ p = None
        BY <1>3, <2>1, <3>1 DEF SharedInv, FramesSound
      <3> QED
        BY <1>5, <1>6, <3>1, <3>2 DEF SharedInv, FramesSound
    <2>2. CASE d = c
      <3>1. i \in 1 .. Len(s) - 1 /\ i + 1 \in 1 .. Len(s) /\ i + 1 # 1
        BY <1>1, <1>4, <2>2
      <3>2. s[i + 1].tok # t
        BY <1>2, <3>1 DEF SharedInv, FramesSound
      <3>3. s[i + 1].id # None => s[i + 1].id # p /\ s[i + 1].id \in Promise
        BY <1>3, <1>6, <3>1, <3>2 DEF SharedInv, FramesSound
      <3>4. stack'[d][i].id # None =>
                              /\ owner'[stack'[d][i].id] = d
                              /\ tokenOf'[stack'[d][i].id] = stack'[d][i].tok
                              /\ status'[stack'[d][i].id] = "pending"
        BY <1>4, <1>5, <2>2, <3>1, <3>3 DEF SharedInv, FramesSound
      <3>5. ASSUME NEW j \in 1 .. Len(stack'[d]), stack'[d][i].tok = stack'[d][j].tok
            PROVE  i = j
        <4>1. j \in 1 .. Len(s) - 1 /\ j + 1 \in 1 .. Len(s)
          BY <1>1, <1>4, <2>2
        <4>2. s[i + 1].tok = s[j + 1].tok
          BY <1>4, <2>2, <3>1, <3>5, <4>1
        <4>3. i + 1 = j + 1
          BY <3>1, <4>1, <4>2 DEF SharedInv, FramesSound
        <4> QED
          BY <1>1, <3>1, <4>1, <4>3
      <3> QED
        BY <3>4, <3>5
    <2> QED
      BY <2>1, <2>2
  <1>8. CacheSound'
    <2> SUFFICES ASSUME NEW v \in Token, cache'[v] # None
                 PROVE  tokenOf'[cache'[v]] = v /\ status'[cache'[v]] \in {"pending", "ok"}
      BY DEF CacheSound
    <2>1. cache'[v] = cache[v] /\ cache[v] \in Promise
      BY <1>2 DEF ChainInv, TypeOK, GraphTypeOK
    <2>2. tokenOf[cache[v]] = v /\ status[cache[v]] \in {"pending", "ok"}
      BY <2>1 DEF SharedInv, CacheSound
    <2>3. CASE p = None \/ cache[v] # p
      BY <1>5, <2>1, <2>2, <2>3
    <2>4. CASE p # None /\ cache[v] = p
      <3>1. v = t
        BY <1>3, <2>2, <2>4
      <3>2. outcome = "ok"
        BY <1>2, <2>1, <2>4, <3>1 DEF ChainInv, TypeOK, GraphTypeOK
      <3> QED
        BY <1>2, <2>1, <2>2, <2>4, <3>2 DEF ChainInv, TypeOK, PromiseTypeOK
    <2> QED
      BY <2>3, <2>4
  <1>9. PromisesKept'
    <2> SUFFICES ASSUME overrides = 0, ~disposed,
                        NEW q \in Promise, status'[q] \in {"pending", "ok"}
                 PROVE  tokenOf[q] \in Token /\ cache'[tokenOf[q]] = q
      BY DEF PromisesKept
    <2>1. status[q] \in {"pending", "ok"} /\ (q = p => outcome = "ok")
      <3>1. q # None
        BY DEF Promise, None
      <3> QED
        BY <1>2, <1>3, <1>5, <3>1 DEF ChainInv, TypeOK, PromiseTypeOK, Failed
    <2>2. tokenOf[q] \in Token /\ cache[tokenOf[q]] = q
      BY <2>1 DEF SharedInv, PromisesKept
    <2>3. CASE p = None \/ outcome = "ok"
      BY <2>2, <2>3
    <2>4. CASE p # None /\ outcome # "ok"
      <3>1. q # p /\ cache[t] = p
        BY <1>2, <1>3, <2>1, <2>4 DEF SharedInv, PromisesKept
      <3>2. tokenOf[q] # t
        BY <2>2, <3>1
      <3> QED
        BY <2>2, <2>4, <3>2 DEF ChainInv, TypeOK, GraphTypeOK
    <2> QED
      BY <2>3, <2>4
  <1> QED
    BY <1>7, <1>8, <1>9 DEF SharedInv

\* dispose() makes the container terminal and never takes that back; the stale
\* tasks an attempt still has to retry have failed.
PhaseSound ==
    /\ disposed <=> phase # "open"
    /\ retry # {} => disposed
    /\ \A p \in retry : stale[p] = "failed"

\* Only override() makes a promise stale, and a stale promise remains stale.
LEMMA StaleMoves ==
    ASSUME ChainInv, PhaseSound, [Next]_vars
    PROVE  \/ /\ \A p \in Promise : stale'[p] = "no" <=> stale[p] = "no"
              /\ \A p \in Promise : stale[p] = "failed" =>
                    stale'[p] = "failed" \/ (DisposeStep /\ p \notin retry')
              /\ UNCHANGED overrides
           \/ \E t \in Token, d \in Replacements : Override(t, d)
  <1> DEFINE Same == UNCHANGED <<stale, overrides>>
  <1>1. CASE Same
    BY <1>1
  <1>2. CASE UNCHANGED vars
    BY <1>1, <1>2 DEF vars, staleVars
  <1>3. CASE \E c \in Call, t \in Token : Resolve(c, t)
    BY <1>1, <1>3 DEF Resolve, staleVars
  <1>4. CASE \E c \in Call : CallStep(c)
    <2>1. ASSUME NEW c \in Call, Settle(c)
          PROVE  \A p \in Promise : /\ stale'[p] = "no" <=> stale[p] = "no"
                                    /\ stale[p] = "failed" => stale'[p] = "failed"
      BY <2>1 DEF Settle, Release
    <2>2. ASSUME NEW c \in Call, CallStep(c), ~Settle(c)
          PROVE  Same
      BY <2>2 DEF CallStep, Enter, VisitActive, VisitMissing, VisitCached, VisitNew,
         VisitPlain, Wake, Resume, Construct, ConstructFails, Unwind, VisitUnchanged,
         staleVars
    <2>3. ASSUME NEW c \in Call, Settle(c) PROVE UNCHANGED overrides
      BY <2>3 DEF Settle
    <2> QED
      BY <1>1, <1>4, <2>1, <2>2, <2>3
  <1>5. CASE \E p \in Promise : StaleStep(p)
    BY <1>5 DEF StaleStep, StaleReject, StaleHook, ChainInv, TypeOK, DisposalTypeOK
  <1>6. CASE \E t \in Token, d \in Replacements : Register(t, d)
    BY <1>1, <1>6 DEF Register, staleVars
  <1>7. CASE Dispose
    BY <1>1, <1>7 DEF Dispose, DisposeUnchanged, staleVars
  <1>8. CASE DisposeStep
    <2>1. CASE DisposeDrain
      BY <2>1 DEF DisposeDrain, DisposeUnchanged, Release
    <2>2. CASE DisposeCollect \/ DisposeFinish
      BY <1>1, <2>2 DEF DisposeCollect, DisposeFinish, DisposeUnchanged, staleVars
    <2>3. ASSUME NEW p \in Promise, NEW ok \in BOOLEAN, DisposeRetry(p, ok)
          PROVE  /\ \A q \in Promise : stale'[q] = "no" <=> stale[q] = "no"
                 /\ \A q \in Promise : stale[q] = "failed" =>
                       stale'[q] = "failed" \/ q \notin retry'
                 /\ UNCHANGED overrides
      BY <2>3 DEF DisposeRetry, DisposeUnchanged, PhaseSound, ChainInv, TypeOK,
         DisposalTypeOK
    <2>4. ASSUME NEW p \in Promise, NEW ok \in BOOLEAN, DisposeHook(p, ok)
          PROVE  Same
      BY <2>4 DEF DisposeHook, DisposeUnchanged, staleVars
    <2> QED
      BY <1>1, <1>8, <2>1, <2>2, <2>3, <2>4 DEF DisposeStep
  <1> QED
    BY <1>2, <1>3, <1>4, <1>5, <1>6, <1>7, <1>8 DEF Next

LEMMA NextPhase ==
    ASSUME ChainInv, PhaseSound, [Next]_vars
    PROVE  PhaseSound'
  <1>1. CASE Dispose
    <2>1. retry' = Retained /\ stale' = stale /\ disposed' /\ phase' # "open"
      BY <1>1 DEF Dispose, staleVars
    <2> QED
      BY <2>1 DEF PhaseSound, Retained
  <1>2. CASE DisposeStep
    <2>1. disposed' /\ phase' # "open" /\ retry' \subseteq retry
      BY <1>2 DEF PhaseSound, DisposeStep, DisposeDrain, DisposeCollect,
         DisposeFinish, DisposeRetry, DisposeHook
    <2>2. ASSUME NEW t \in Token, NEW d \in Replacements, Override(t, d) PROVE FALSE
      BY <1>2, <2>1, <2>2 DEF Override, disposeVars, PhaseSound, DisposeStep,
         DisposeDrain, DisposeCollect, DisposeFinish, DisposeRetry, DisposeHook
    <2>3. ASSUME NEW p \in retry' PROVE stale'[p] = "failed"
      <3>1. p \in Promise /\ stale[p] = "failed"
        BY <2>1 DEF PhaseSound, ChainInv, TypeOK, DisposalTypeOK
      <3> QED
        BY <2>2, <3>1, StaleMoves
    <2> QED
      BY <2>1, <2>3 DEF PhaseSound
  <1>3. CASE ~Dispose /\ ~DisposeStep
    <2>1. UNCHANGED disposeVars
      <3>1. ASSUME NEW c \in Call, CallStep(c) PROVE UNCHANGED disposeVars
        BY <3>1, CallMoves
      <3>2. ASSUME NEW c \in Call, NEW t \in Token, Resolve(c, t) PROVE UNCHANGED disposeVars
        BY <3>2 DEF Resolve
      <3>3. ASSUME NEW p \in Promise, StaleStep(p) PROVE UNCHANGED disposeVars
        BY <3>3 DEF StaleStep, StaleReject, StaleHook
      <3>4. ASSUME NEW t \in Token, NEW d \in Replacements, Register(t, d) \/ Override(t, d)
            PROVE  UNCHANGED disposeVars
        BY <3>4 DEF Register, Override
      <3>5. UNCHANGED vars => UNCHANGED disposeVars
        BY DEF vars
      <3> QED
        BY <1>3, <3>1, <3>2, <3>3, <3>4, <3>5 DEF Next
    <2>2. ASSUME NEW t \in Token, NEW d \in Replacements, Override(t, d) PROVE retry = {}
      BY <2>2 DEF Override, PhaseSound
    <2>3. ASSUME NEW p \in retry PROVE stale'[p] = "failed"
      <3>1. p \in Promise /\ stale[p] = "failed"
        BY DEF PhaseSound, ChainInv, TypeOK, DisposalTypeOK
      <3> QED
        BY <1>3, <2>2, <3>1, StaleMoves
    <2> QED
      BY <2>1, <2>3 DEF PhaseSound, disposeVars
  <1> QED
    BY <1>1, <1>2, <1>3

\* The two ways an innermost frame leaves, in the terms of PopShared.
LEMMA ConstructPops ==
    ASSUME ChainInv, NEW c \in Call, Construct(c)
    PROVE  LET f == stack[c][1]
               u == IF f.id = None THEN f.uses ELSE {f.id}
           IN  /\ stack[c] # <<>> /\ f \in Frame /\ f.rest = <<>>
               /\ u \in SUBSET Promise /\ Follows(stack'[c], Tail(stack[c]), u)
               /\ \A d \in Call \ {c} : stack'[d] = stack[d]
               /\ pc[c] = "suspended" /\ pc'[c] = AfterHanding(Tail(stack[c]))
               /\ \A d \in Call \ {c} : pc'[d] = pc[d]
               /\ f.id = None => UNCHANGED promiseVars
               /\ f.id # None =>
                     /\ status' = [status EXCEPT ![f.id] = "ok"]
                     /\ uses' = [uses EXCEPT ![f.id] = f.uses]
                     /\ clock' = clock + 1
                     /\ settledAt' = [settledAt EXCEPT ![f.id] = clock + 1]
                     /\ materialized' = materialized \cup {f.id}
               /\ UNCHANGED <<registry, cache, owner, tokenOf, awaits, error, staleVars,
                              overrides, disposeVars, destroyed, late, evicted>>
  <1> DEFINE s == stack[c]
             f == stack[c][1]
             u == IF f.id = None THEN f.uses ELSE {f.id}
  <1>1. s # <<>> /\ pc[c] = "suspended"
    BY DEF Construct, ChainInv, ChainOK
  <1>2. /\ Head(s) = f /\ f \in Frame
        /\ \A w \in SUBSET Promise : Follows(Handed(Tail(s), w), Tail(s), w)
    BY <1>1, PopFollows
  <1>3. u \in SUBSET Promise
    BY <1>2 DEF Frame
  <1>4. stack' = [stack EXCEPT ![c] = Handed(Tail(s), u)] /\ f.rest = <<>>
        /\ pc' = [pc EXCEPT ![c] = AfterHanding(Tail(s))]
    BY <1>2 DEF Construct
  <1>5. /\ stack'[c] = Handed(Tail(s), u)
        /\ \A d \in Call \ {c} : stack'[d] = stack[d] /\ pc'[d] = pc[d]
        /\ pc'[c] = AfterHanding(Tail(s))
    BY <1>4 DEF ChainInv, TypeOK, CallTypeOK
  <1>6. /\ f.id = None => UNCHANGED promiseVars
        /\ f.id # None =>
              /\ status' = [status EXCEPT ![f.id] = "ok"]
              /\ uses' = [uses EXCEPT ![f.id] = f.uses]
              /\ clock' = clock + 1
              /\ settledAt' = [settledAt EXCEPT ![f.id] = clock + 1]
              /\ materialized' = materialized \cup {f.id}
        /\ UNCHANGED <<registry, cache, owner, tokenOf, awaits, error, staleVars,
                       overrides, disposeVars, destroyed, late, evicted>>
    BY <1>2 DEF Construct, VisitUnchanged, promiseVars
  <1> HIDE DEF s, f, u
  <1> QED
    BY <1>1, <1>2, <1>3, <1>4, <1>5, <1>6 DEF s, f, u

LEMMA UnwindPops ==
    ASSUME ChainInv, NEW c \in Call, Unwind(c)
    PROVE  LET f == stack[c][1]
           IN  /\ stack[c] # <<>> /\ f \in Frame
               /\ Follows(stack'[c], Tail(stack[c]), {})
               /\ \A d \in Call \ {c} : stack'[d] = stack[d] /\ pc'[d] = pc[d]
               /\ pc[c] = "failing" /\ error[c] \in Failed
               /\ pc'[c] \in {"rejected", "failing"}
               /\ f.id = None => UNCHANGED <<status, cache, evicted>>
               /\ f.id # None => /\ status' = [status EXCEPT ![f.id] = error[c]]
                                 /\ cache' = [cache EXCEPT ![f.tok] = None]
                                 /\ evicted' = IF disposed THEN evicted
                                               ELSE evicted \cup Evicted(f)
               /\ UNCHANGED <<registry, owner, tokenOf, uses, settledAt, clock,
                              materialized, awaits, error, staleVars, overrides,
                              disposeVars, destroyed, late>>
  <1> DEFINE s == stack[c]
             f == stack[c][1]
  <1>1. s # <<>> /\ pc[c] = "failing" /\ error[c] \in Failed
    BY DEF Unwind, ChainInv, ChainOK
  <1>2. Head(s) = f /\ f \in Frame /\ Tail(s) \in Seq(Frame)
    BY <1>1, {} \in SUBSET Promise, PopFollows
  <1>3. Follows(Tail(s), Tail(s), {})
    BY DEF Follows
  <1>4. stack' = [stack EXCEPT ![c] = Tail(s)]
        /\ pc' = [pc EXCEPT ![c] = IF Tail(s) = <<>> THEN "rejected" ELSE "failing"]
    BY DEF Unwind
  <1>5. /\ stack'[c] = Tail(s)
        /\ \A d \in Call \ {c} : stack'[d] = stack[d] /\ pc'[d] = pc[d]
        /\ pc'[c] \in {"rejected", "failing"}
    BY <1>4 DEF ChainInv, TypeOK, CallTypeOK
  <1>6. /\ f.id = None => UNCHANGED <<status, cache, evicted>>
        /\ f.id # None => /\ status' = [status EXCEPT ![f.id] = error[c]]
                          /\ cache' = [cache EXCEPT ![f.tok] = None]
                          /\ evicted' = IF disposed THEN evicted
                                        ELSE evicted \cup Evicted(f)
        /\ UNCHANGED <<registry, owner, tokenOf, uses, settledAt, clock,
                       materialized, awaits, error, staleVars, overrides,
                       disposeVars, destroyed, late>>
    BY <1>2 DEF Unwind, VisitUnchanged, Evict
  <1> HIDE DEF s, f
  <1> QED
    BY <1>1, <1>2, <1>3, <1>5, <1>6 DEF s, f

\* The two ways a frame is pushed, in the terms of PushShared.
LEMMA NewPushes ==
    ASSUME ChainInv, NEW c \in Call, VisitNew(c)
    PROVE  \E p \in Promise :
              /\ VisitProvider(c) /\ ~Plain(Target(c)) /\ Push(c, Target(c), p)
              /\ status[p] = "free" /\ cache[Target(c)] = None
              /\ status' = [status EXCEPT ![p] = "pending"]
              /\ owner' = [owner EXCEPT ![p] = c]
              /\ tokenOf' = [tokenOf EXCEPT ![p] = Target(c)]
              /\ cache' = [cache EXCEPT ![Target(c)] = p]
              /\ late' = (IF disposed THEN late \cup {p} ELSE late)
              /\ UNCHANGED <<registry, staleVars, overrides, disposeVars, destroyed,
                             uses, settledAt, clock, materialized, awaits, error,
                             evicted>>
  BY DEF VisitNew, CacheSet, VisitUnchanged, Push

LEMMA NextShared ==
    ASSUME ChainInv, PhaseSound, SharedInv, [Next]_vars
    PROVE  SharedInv'
  <1> DEFINE Still == UNCHANGED <<stack, status, owner, tokenOf, cache, overrides, disposed>>
  <1>1. CASE Still
    BY <1>1, SharedSteady
  <1>2. CASE UNCHANGED vars
    BY <1>1, <1>2 DEF vars, promiseVars, callVars, disposeVars
  <1>3. CASE \E c \in Call, t \in Token : Resolve(c, t)
    BY <1>1, <1>3 DEF Resolve, promiseVars, disposeVars
  <1>4. ASSUME NEW c \in Call, CallStep(c)
        PROVE  SharedInv'
    <2>1. UNCHANGED <<overrides, disposed>>
      BY <1>4, CallMoves DEF disposeVars
    <2>2. CASE Stays(c)
      BY <1>1, <2>1, <2>2 DEF Stays, promiseVars
    <2>3. ASSUME NEW u \in SUBSET Promise, Hands(c, u), Follows(stack'[c], stack[c], u)
          PROVE  SharedInv'
      <3>1. \A d \in Call \ {c} : stack'[d] = stack[d]
        BY <2>3 DEF Hands, ChainInv, TypeOK, CallTypeOK
      <3> QED
        BY <2>1, <2>3, <3>1, SharedSteady DEF Follows, Hands, promiseVars
    <2>4. CASE VisitNew(c)
      <3>1. PICK p \in Promise :
              /\ VisitProvider(c) /\ Push(c, Target(c), p)
              /\ status[p] = "free" /\ cache[Target(c)] = None
              /\ status' = [status EXCEPT ![p] = "pending"]
              /\ owner' = [owner EXCEPT ![p] = c]
              /\ tokenOf' = [tokenOf EXCEPT ![p] = Target(c)]
              /\ cache' = [cache EXCEPT ![Target(c)] = p]
        BY <2>4, NewPushes
      <3>2. p # None
        BY DEF Promise, None
      <3> QED
        BY <2>1, <3>1, <3>2, PushShared
    <2>5. CASE VisitPlain(c)
      BY <2>1, <2>5, PushShared DEF VisitPlain, promiseVars
    <2>6. CASE Construct(c)
      <3>1. "ok" \in {"ok"} \cup Failed
        OBVIOUS
      <3> QED
        BY <2>1, <2>6, <3>1, ConstructPops, PopShared DEF promiseVars
    <2>7. CASE Unwind(c)
      <3>1. error[c] \in {"ok"} \cup Failed /\ error[c] # "ok"
        BY <2>7, UnwindPops DEF Failed
      <3> QED
        BY <2>1, <2>7, <3>1, UnwindPops, PopShared
    <2> QED
      BY <1>4, <2>2, <2>3, <2>4, <2>5, <2>6, <2>7, CallMoves
  <1>5. CASE \E p \in Promise : StaleStep(p)
    BY <1>1, <1>5 DEF StaleStep, StaleReject, StaleHook, promiseVars, callVars, disposeVars
  <1>6. CASE \E t \in Token, d \in Replacements : Register(t, d)
    BY <1>1, <1>6 DEF Register, promiseVars, callVars, disposeVars
  <1>7. CASE \E t \in Token, d \in Replacements : Override(t, d)
    <2>1. overrides' # 0
      BY <1>7 DEF Override, ChainInv, TypeOK, GraphTypeOK
    <2>2. UNCHANGED <<stack, status, owner, tokenOf>>
          /\ \A t \in Token : cache'[t] \in {cache[t], None}
      BY <1>7 DEF Override, promiseVars, callVars
    <2> QED
      BY <2>1, <2>2, SharedSteady
  <1>8. CASE Dispose \/ DisposeStep
    <2>1. UNCHANGED <<stack, status, owner, tokenOf, overrides>>
          /\ \A t \in Token : cache'[t] \in {cache[t], None}
      BY <1>8 DEF Dispose, DisposeStep, DisposeDrain, DisposeCollect, DisposeFinish,
         DisposeRetry, DisposeHook, DisposeUnchanged, promiseVars, callVars
    <2>2. disposed'
      BY <1>8 DEF Dispose, DisposeStep, DisposeDrain, DisposeCollect, DisposeFinish,
         DisposeRetry, DisposeHook, PhaseSound
    <2> QED
      BY <2>1, <2>2, SharedSteady
  <1> QED
    BY <1>2, <1>3, <1>4, <1>5, <1>6, <1>7, <1>8 DEF Next

LEMMA InitShared == Init => PhaseSound /\ SharedInv
  BY DEF Init, PhaseSound, SharedInv, FramesSound, CacheSound, PromisesKept

LEMMA SharedAlways == Spec => [](ChainInv /\ PhaseSound /\ SharedInv)
  <1>1. Init => ChainInv /\ PhaseSound /\ SharedInv
    BY InitChain, InitShared
  <1>2. ChainInv /\ PhaseSound /\ SharedInv /\ [Next]_vars
          => (ChainInv /\ PhaseSound /\ SharedInv)'
    BY NextChain, NextPhase, NextShared
  <1> QED
    BY <1>1, <1>2, PTL DEF Spec

\* Until it is overridden, a singleton has at most one promise that is pending
\* or usable, and the cache never offers a rejected one, however resolve()
\* calls interleave and fail (container.ts, resolveScopedOrSingletonInstance()).
THEOREM SingletonsAreShared == Spec => []SingletonShared
  <1>1. ChainInv /\ SharedInv => SingletonShared
    BY DEF ChainInv, SharedInv, PromisesKept, CacheSound, SingletonShared,
       SharedInstance, NoPoisonedCache
  <1> QED
    BY SharedAlways, <1>1, PTL

-----------------------------------------------------------------------------
(* Dependencies                                                            *)

\* The tokens that u depends on, directly or not.
Needs(u) == {x \in Token : Reaches(u, x)}

LEMMA DepsTokens ==
    ASSUME ChainInv, NEW u \in Token
    PROVE  /\ DepsOf(u) \subseteq Token
           /\ registry[u] # Missing => DepsOf(u) = Elems(registry[u])
  <1>1. registry[u] # Missing => registry[u] \in Seq(Token)
    BY DEF ChainInv, TypeOK, GraphTypeOK
  <1> QED
    BY <1>1 DEF DepsOf, Elems

LEMMA NeedsTransitive ==
    ASSUME ChainInv, NEW u \in Token
    PROVE  /\ DepsOf(u) \subseteq Needs(u)
           /\ \A v \in Needs(u) : DepsOf(v) \subseteq Needs(u) /\ Needs(v) \subseteq Needs(u)
  <1>1. ASSUME NEW x \in DepsOf(u) PROVE x \in Needs(u)
    BY <1>1, DepsTokens DEF Needs, Reaches
  <1>2. ASSUME NEW v \in Needs(u), NEW x \in Needs(v) PROVE x \in Needs(u)
    <2> SUFFICES ASSUME NEW S \in SUBSET Token, DepsOf(u) \subseteq S,
                        \A w \in S : DepsOf(w) \subseteq S
                 PROVE  x \in S
      BY <1>2 DEF Needs, Reaches
    <2>1. v \in S
      BY DEF Needs, Reaches
    <2> QED
      BY <1>2, <2>1 DEF Needs, Reaches
  <1>3. \A v \in Needs(u) : DepsOf(v) \subseteq Needs(v)
    BY DepsTokens DEF Needs, Reaches
  <1> QED
    BY <1>1, <1>2, <1>3

\* What a token depends on, it goes on to depend on, unless its provider or one
\* it depends on is overridden: nothing is unregistered.
LEMMA OverrideNeeds ==
    ASSUME ChainInv, NEW u \in Token, NEW t \in Token, NEW d \in Replacements,
           Override(t, d), ~ShouldInvalidate(u, t)
    PROVE  Needs(u) \subseteq Needs(u)'
  <1>1. \A v \in Token : v # t => DepsOf(v)' = DepsOf(v)
    <2> SUFFICES ASSUME NEW v \in Token, v # t PROVE DepsOf(v)' = DepsOf(v)
      OBVIOUS
    <2>1. registry'[v] = registry[v]
      BY DEF Override, ChainInv, TypeOK, GraphTypeOK
    <2> QED
      BY <2>1 DEF DepsOf
  <1>2. u # t
    BY DEF ShouldInvalidate
  <1>3. PICK R \in SUBSET Token : /\ DepsOf(u) \subseteq R /\ t \notin R
                                  /\ \A v \in R : DepsOf(v) \subseteq R
    BY DEF ShouldInvalidate, Reaches
  <1> SUFFICES ASSUME NEW x \in Token, Reaches(u, x), NEW S \in SUBSET Token,
                      DepsOf(u)' \subseteq S, \A v \in S : DepsOf(v)' \subseteq S
               PROVE  x \in S
    BY DEF Needs, Reaches
  <1>4. DepsOf(u) \subseteq S \cap R
    BY <1>1, <1>2, <1>3
  <1>5. \A v \in S \cap R : DepsOf(v) \subseteq S \cap R
    BY <1>1, <1>3
  <1>6. S \cap R \in SUBSET Token
    OBVIOUS
  <1> QED
    BY <1>4, <1>5, <1>6 DEF Reaches

LEMMA NeedsKept ==
    ASSUME ChainInv, [Next]_vars, NEW u \in Token
    PROVE  \/ Needs(u) \subseteq Needs(u)'
           \/ \E t \in Token, d \in Replacements : Override(t, d) /\ ShouldInvalidate(u, t)
  <1>1. CASE UNCHANGED registry
    BY <1>1 DEF Needs, Reaches, DepsOf
  <1>2. ASSUME NEW t \in Token, NEW d \in Replacements, Register(t, d)
        PROVE  Needs(u) \subseteq Needs(u)'
    <2>1. \A v \in Token : DepsOf(v) \subseteq DepsOf(v)'
      <3> SUFFICES ASSUME NEW v \in Token PROVE DepsOf(v) \subseteq DepsOf(v)'
        OBVIOUS
      <3>1. CASE v = t
        BY <1>2, <3>1 DEF Register, DepsOf
      <3>2. CASE v # t
        <4>1. registry'[v] = registry[v]
          BY <1>2, <3>2 DEF Register, ChainInv, TypeOK, GraphTypeOK
        <4> QED
          BY <4>1 DEF DepsOf
      <3> QED
        BY <3>1, <3>2
    <2> QED
      BY <2>1 DEF Needs, Reaches
  <1>3. ASSUME NEW t \in Token, NEW d \in Replacements, Override(t, d),
               ~ShouldInvalidate(u, t)
        PROVE  Needs(u) \subseteq Needs(u)'
    BY <1>3, OverrideNeeds
  <1>4. \/ UNCHANGED registry
        \/ \E t \in Token, d \in Replacements : Register(t, d) \/ Override(t, d)
    <2>1. ASSUME NEW c \in Call, CallStep(c) PROVE UNCHANGED registry
      BY <2>1, CallMoves
    <2>2. ASSUME NEW c \in Call, NEW t \in Token, Resolve(c, t) PROVE UNCHANGED registry
      BY <2>2 DEF Resolve
    <2>3. ASSUME NEW p \in Promise, StaleStep(p) PROVE UNCHANGED registry
      BY <2>3 DEF StaleStep, StaleReject, StaleHook
    <2>4. Dispose \/ DisposeStep => UNCHANGED registry
      BY DEF Dispose, DisposeStep, DisposeDrain, DisposeCollect, DisposeFinish,
         DisposeRetry, DisposeHook, DisposeUnchanged
    <2>5. UNCHANGED vars => UNCHANGED registry
      BY DEF vars
    <2> QED
      BY <2>1, <2>2, <2>3, <2>4, <2>5 DEF Next
  <1> QED
    BY <1>1, <1>2, <1>3, <1>4

-----------------------------------------------------------------------------
(* What is injected is not stale                                           *)

\* An instance that u may be built from.
Below(u, p) == stale[p] = "no" /\ tokenOf[p] \in Needs(u)

\* The frame f is at or above that of token u in a chain.
PathTo(u, f) ==
    /\ f.id # None => stale[f.id] = "no"
    /\ Elems(f.rest) \subseteq Needs(u)
    /\ \A p \in f.uses : Below(u, p)

\* The frame whose promise is still in the cache, so that its instance will be
\* offered to others; without overrides any frame.
Anchored(c, i) ==
    \/ overrides = 0
    \/ stack[c][i].id # None /\ cache[stack[c][i].tok] = stack[c][i].id

\* Above such a frame the chain follows the dependencies of its token, and
\* nothing that was injected or is awaited there is stale.
PathsOf(c) ==
    \A u \in Token : \A i \in 1 .. Len(stack[c]) :
        stack[c][i].tok = u /\ Anchored(c, i) =>
            /\ pc[c] = "awaiting" => Below(u, awaits[c])
            /\ \A k \in 1 .. i : PathTo(u, stack[c][k])
            /\ \A k \in 1 .. i - 1 : stack[c][k].tok \in Needs(u)

PathsSound == \A c \in Call : PathsOf(c)

\* What the cache offers is not stale, and built from nothing that is stale.
OfferedSound ==
    \A t \in Token : cache[t] # None =>
        stale[cache[t]] = "no" /\ \A p \in uses[cache[t]] : Below(t, p)

FreshSound ==
    /\ \A p \in Promise : status[p] = "free" => stale[p] = "no"
    /\ overrides = 0 => \A p \in Promise : stale[p] = "no"

\* A reported cycle is one of the registered dependencies.
CyclesSound ==
    overrides = 0 /\ (\/ \E c \in Call : error[c] = "circular"
                      \/ \E p \in Promise : status[p] = "circular")
        => \E t \in Token : t \in Needs(t)

GraphInv == PathsSound /\ OfferedSound /\ FreshSound /\ CyclesSound

LEMMA FrameTypes ==
    ASSUME ChainInv, NEW d \in Call, NEW i \in 1 .. Len(stack[d])
    PROVE  /\ stack[d][i] \in Frame /\ stack[d][i].tok \in Token
           /\ stack[d][i].id \in Promise \cup {None}
           /\ stack[d][i].uses \subseteq Promise /\ stack[d][i].rest \in Seq(Token)
  <1>1. stack[d][i] \in Frame
    BY DEF ChainInv, TypeOK, CallTypeOK
  <1> QED
    BY <1>1 DEF Frame

-----------------------------------------------------------------------------
(* Instances settle in the order of their dependencies                     *)

\* Only the steps of calls change chains and promises.
LEMMA OutsideMoves ==
    ASSUME ChainInv, [Next]_vars, ~\E c \in Call : CallStep(c)
    PROVE  /\ UNCHANGED <<stack, awaits, status, owner, tokenOf, uses, settledAt, clock,
                          late>>
           /\ \A c \in Call : /\ pc'[c] = "awaiting" => pc[c] = "awaiting"
                              /\ error'[c] = "circular" => error[c] = "circular"
           /\ materialized' \subseteq materialized
           /\ \A t \in Token : cache'[t] \in {cache[t], None}
  <1> USE DEF promiseVars, callVars, staleVars, disposeVars
  <1>1. CASE UNCHANGED vars
    BY <1>1 DEF vars
  <1>2. CASE \E c \in Call, t \in Token : Resolve(c, t)
    BY <1>2 DEF Resolve, ChainInv, TypeOK, CallTypeOK
  <1>3. CASE \E p \in Promise : StaleStep(p)
    BY <1>3 DEF StaleStep, StaleReject, StaleHook
  <1>4. CASE \E t \in Token, d \in Replacements : Register(t, d) \/ Override(t, d)
    BY <1>4 DEF Register, Override
  <1>5. CASE Dispose
    BY <1>5 DEF Dispose, DisposeUnchanged
  <1>6. CASE DisposeStep
    BY <1>6 DEF DisposeStep, DisposeDrain, DisposeCollect, DisposeFinish, DisposeRetry,
       DisposeHook, DisposeUnchanged
  <1> QED
    BY <1>1, <1>2, <1>3, <1>4, <1>5, <1>6 DEF Next

\* A promise is created pending, settles once and never changes again.
LEMMA StatusMoves ==
    ASSUME ChainInv, SharedInv, [Next]_vars, NEW p \in Promise
    PROVE  /\ \/ status'[p] = status[p]
              \/ status[p] = "free" /\ status'[p] = "pending"
              \/ status[p] = "pending" /\ status'[p] \in {"ok"} \cup Failed
           /\ status[p] # "free" => tokenOf'[p] = tokenOf[p] /\ owner'[p] = owner[p]
  <1> DEFINE Moves == 
           /\ \/ status'[p] = status[p]
              \/ status[p] = "free" /\ status'[p] = "pending"
              \/ status[p] = "pending" /\ status'[p] \in {"ok"} \cup Failed
           /\ status[p] # "free" => tokenOf'[p] = tokenOf[p] /\ owner'[p] = owner[p]
  <1>1. CASE UNCHANGED <<status, tokenOf, owner>>
    BY <1>1
  <1>2. ASSUME NEW c \in Call, CallStep(c) PROVE Moves
    <2>1. ASSUME stack[c] # <<>>, stack[c][1] \in Frame, stack[c][1].id # None
          PROVE  status[stack[c][1].id] = "pending" /\ stack[c][1].id \in Promise
      <3>1. 1 \in 1 .. Len(stack[c])
        BY <2>1 DEF ChainInv, TypeOK, CallTypeOK
      <3> QED
        BY <2>1, <3>1 DEF SharedInv, FramesSound, Frame
    <2>2. CASE Stays(c) \/ (\E u \in SUBSET Promise : Hands(c, u)) \/ VisitPlain(c)
      BY <1>1, <2>2 DEF Stays, Hands, VisitPlain, promiseVars
    <2>3. CASE VisitNew(c)
      BY <2>3, NewPushes DEF ChainInv, TypeOK, PromiseTypeOK
    <2>4. CASE Construct(c)
      <3>1. CASE stack[c][1].id = None
        BY <1>1, <2>4, <3>1, ConstructPops DEF promiseVars
      <3>2. CASE stack[c][1].id # None
        <4>1. /\ stack[c] # <<>> /\ stack[c][1] \in Frame /\ UNCHANGED <<owner, tokenOf>>
              /\ status' = [status EXCEPT ![stack[c][1].id] = "ok"]
          BY <2>4, <3>2, ConstructPops
        <4>2. status \in [Promise -> {"free", "pending", "ok"} \cup Failed]
          BY DEF ChainInv, TypeOK, PromiseTypeOK
        <4> QED
          BY <2>1, <3>2, <4>1, <4>2
      <3> QED
        BY <3>1, <3>2
    <2>5. CASE Unwind(c)
      <3>1. CASE stack[c][1].id = None
        BY <1>1, <2>5, <3>1, UnwindPops
      <3>2. CASE stack[c][1].id # None
        BY <2>1, <2>5, <3>2, UnwindPops DEF ChainInv, TypeOK, PromiseTypeOK
      <3> QED
        BY <3>1, <3>2
    <2> QED
      BY <1>2, <2>2, <2>3, <2>4, <2>5, CallMoves
  <1>3. CASE ~\E c \in Call : CallStep(c)
    BY <1>1, <1>3, OutsideMoves
  <1> QED
    BY <1>2, <1>3

\* An instance is injected when it is complete, and completed before the
\* instances it is injected into.
SettledSound ==
    /\ \A p \in Promise : settledAt[p] <= clock
    /\ \A q \in Promise : \A p \in uses[q] : status[p] = "ok" /\ settledAt[p] < settledAt[q]
    /\ \A q \in Promise : status[q] # "ok" => uses[q] = {}
    /\ \A c \in Call : \A i \in 1 .. Len(stack[c]) :
          \A p \in stack[c][i].uses : status[p] = "ok"

LEMMA NextSettled ==
    ASSUME ChainInv, SharedInv, SettledSound, [Next]_vars
    PROVE  SettledSound'
  <1>0. \A p \in Promise : /\ status[p] = "ok" => status'[p] = "ok"
                           /\ settledAt[p] \in Nat /\ clock \in Nat
                           /\ uses[p] \subseteq Promise
    BY StatusMoves DEF Failed, ChainInv, TypeOK, PromiseTypeOK
  <1>u. \A d \in Call : \A i \in 1 .. Len(stack[d]) : stack[d][i].uses \subseteq Promise
    BY FrameTypes
  <1>1. ASSUME UNCHANGED <<settledAt, clock, uses>>,
               \A q \in Promise : status'[q] # "ok" => status[q] # "ok",
               \A d \in Call : \A i \in 1 .. Len(stack'[d]) :
                  \A p \in stack'[d][i].uses : p \in Promise /\ status[p] = "ok"
        PROVE  SettledSound'
    BY <1>0, <1>1 DEF SettledSound
  <1>2. ASSUME NEW c \in Call, CallStep(c) PROVE SettledSound'
    <2>1. CASE Stays(c)
      BY <1>0, <1>1, <1>u, <2>1 DEF Stays, promiseVars, SettledSound
    <2>2. ASSUME NEW u \in SUBSET Promise, Hands(c, u), Follows(stack'[c], stack[c], u)
          PROVE  SettledSound'
      <3>1. \A d \in Call \ {c} : stack'[d] = stack[d]
        BY <2>2 DEF Hands, ChainInv, TypeOK, CallTypeOK
      <3>2. \A p \in u : p \in Promise /\ status[p] = "ok"
        BY <2>2 DEF Hands
      <3>3. \A d \in Call : \A i \in 1 .. Len(stack'[d]) :
                  \A p \in stack'[d][i].uses : p \in Promise /\ status[p] = "ok"
        BY <1>u, <2>2, <3>1, <3>2 DEF Follows, SettledSound
      <3> QED
        BY <1>0, <1>1, <2>2, <3>3 DEF Hands, promiseVars
    <2>3. ASSUME NEW p \in Promise \cup {None}, VisitProvider(c), Push(c, Target(c), p),
                 UNCHANGED <<settledAt, clock, uses>>
          PROVE  SettledSound'
      <3>1. /\ Len(stack[c]) \in Nat /\ Len(stack'[c]) = Len(stack[c]) + 1
            /\ stack'[c][1].uses = {}
            /\ \A i \in 2 .. Len(stack[c]) + 1 : stack'[c][i] = stack[c][i - 1]
            /\ \A d \in Call \ {c} : stack'[d] = stack[d]
        BY <2>3, ProviderFacts, PushFrames
      <3>2. \A i \in 1 .. Len(stack'[c]) : i = 1 \/ (i \in 2 .. Len(stack[c]) + 1
                                                     /\ i - 1 \in 1 .. Len(stack[c]))
        BY <3>1
      <3>3. \A d \in Call : \A i \in 1 .. Len(stack'[d]) :
                  \A q \in stack'[d][i].uses : q \in Promise /\ status[q] = "ok"
        <4> SUFFICES ASSUME NEW d \in Call, NEW i \in 1 .. Len(stack'[d]),
                            NEW q \in stack'[d][i].uses
                     PROVE  q \in Promise /\ status[q] = "ok"
          OBVIOUS
        <4>1. CASE d # c
          BY <1>u, <3>1, <4>1 DEF SettledSound
        <4>2. CASE d = c
          <5>1. i # 1 /\ i \in 2 .. Len(stack[c]) + 1 /\ i - 1 \in 1 .. Len(stack[c])
            BY <3>1, <3>2, <4>2
          <5>2. stack'[d][i] = stack[c][i - 1]
            BY <3>1, <4>2, <5>1
          <5> QED
            BY <1>u, <5>1, <5>2 DEF SettledSound
        <4> QED
          BY <4>1, <4>2
      <3>4. \A q \in Promise : status[q] = "ok" => status'[q] = "ok"
        BY <1>0
      <3> QED
        BY <1>0, <2>3, <3>3, <3>4 DEF SettledSound
    <2>4. CASE VisitNew(c)
      BY <2>3, <2>4, NewPushes
    <2>5. CASE VisitPlain(c)
      BY <2>3, <2>5 DEF VisitPlain, promiseVars
    <2>6. CASE Construct(c) \/ Unwind(c)
      <3> DEFINE f == stack[c][1]
      <3>0. stack[c] # <<>> /\ \A d \in Call \ {c} : stack'[d] = stack[d]
        BY <2>6, ConstructPops, UnwindPops
      <3>1. PICK u \in SUBSET Promise :
              /\ Follows(stack'[c], Tail(stack[c]), u)
              /\ \A p \in u : p \in f.uses \/ (p = f.id /\ status'[p] = "ok")
        <4>1. CASE Construct(c)
          <5>1. f.id # None => status' = [status EXCEPT ![f.id] = "ok"]
            BY <4>1, ConstructPops
          <5>2. f \in Frame
            BY <4>1, ConstructPops
          <5>3. f.id # None => status'[f.id] = "ok"
            BY <5>1, <5>2 DEF Frame, ChainInv, TypeOK, PromiseTypeOK
          <5>4. /\ (IF f.id = None THEN f.uses ELSE {f.id}) \in SUBSET Promise
                /\ Follows(stack'[c], Tail(stack[c]), IF f.id = None THEN f.uses ELSE {f.id})
            BY <4>1, ConstructPops
          <5> HIDE DEF f
          <5> QED
            BY <5>3, <5>4
        <4>2. CASE Unwind(c)
          BY <4>2, UnwindPops, {} \in SUBSET Promise
        <4> QED
          BY <2>6, <4>1, <4>2
      <3>2. /\ Len(stack[c]) \in Nat /\ Len(stack[c]) >= 1
            /\ Len(Tail(stack[c])) = Len(stack[c]) - 1
            /\ \A i \in 1 .. Len(stack[c]) - 1 : Tail(stack[c])[i] = stack[c][i + 1]
        BY <3>0, {} \in SUBSET Promise, PopFollows
      <3>3. f \in Frame /\ f.id \in Promise \cup {None} /\ 1 \in 1 .. Len(stack[c])
            /\ f.uses \subseteq Promise
        BY <3>2, FrameTypes
      <3>4. f.id # None => status[f.id] = "pending"
        BY <3>3 DEF SharedInv, FramesSound
      <3>5. \A p \in f.uses : p \in Promise /\ status[p] = "ok"
        BY <3>3 DEF SettledSound
      <3>6. \A d \in Call : \A i \in 1 .. Len(stack'[d]) :
                  \A p \in stack'[d][i].uses : p \in Promise /\ status'[p] = "ok"
        <4> SUFFICES ASSUME NEW d \in Call, NEW i \in 1 .. Len(stack'[d]),
                            NEW p \in stack'[d][i].uses
                     PROVE  p \in Promise /\ status'[p] = "ok"
          OBVIOUS
        <4>1. CASE d # c
          BY <1>0, <1>u, <3>0, <4>1 DEF SettledSound
        <4>2. CASE d = c
          <5>1. i \in 1 .. Len(stack[c]) - 1 /\ i + 1 \in 1 .. Len(stack[c])
            BY <3>1, <3>2, <4>2 DEF Follows
          <5>2. p \in stack[c][i + 1].uses \/ p \in u
            BY <3>1, <3>2, <4>2, <5>1 DEF Follows
          <5>3. p \in stack[c][i + 1].uses => p \in Promise /\ status[p] = "ok"
            BY <1>u, <5>1 DEF SettledSound
          <5> QED
            BY <1>0, <3>1, <3>5, <5>2, <5>3
        <4> QED
          BY <4>1, <4>2
      <3>7. CASE UNCHANGED <<settledAt, clock, uses>>
        <4>1. \A q \in Promise : status'[q] # "ok" => status[q] # "ok"
          BY <1>0
        <4> QED
          BY <1>0, <3>6, <3>7, <4>1 DEF SettledSound
      <3>8. CASE /\ f.id # None /\ status' = [status EXCEPT ![f.id] = "ok"]
                 /\ uses' = [uses EXCEPT ![f.id] = f.uses] /\ clock' = clock + 1
                 /\ settledAt' = [settledAt EXCEPT ![f.id] = clock + 1]
        <4>1. /\ \A q \in Promise \ {f.id} : uses'[q] = uses[q] /\ settledAt'[q] = settledAt[q]
              /\ uses'[f.id] = f.uses /\ settledAt'[f.id] = clock + 1
              /\ status'[f.id] = "ok" /\ f.id \in Promise
          BY <3>3, <3>8 DEF ChainInv, TypeOK, PromiseTypeOK
        <4> HIDE DEF f
        <4>2. \A p \in Promise : settledAt'[p] <= clock'
          BY <1>0, <3>8, <4>1 DEF SettledSound
        <4>3. \A q \in Promise : \A p \in uses'[q] :
                  status'[p] = "ok" /\ settledAt'[p] < settledAt'[q]
          <5> SUFFICES ASSUME NEW q \in Promise, NEW p \in uses'[q]
                       PROVE  status'[p] = "ok" /\ settledAt'[p] < settledAt'[q]
            OBVIOUS
          <5>1. p \in Promise /\ status[p] = "ok"
            BY <1>0, <3>5, <4>1 DEF SettledSound
          <5>2. p # f.id
            BY <3>4, <4>1, <5>1, <3>8
          <5>3. CASE q = f.id
            BY <1>0, <4>1, <5>1, <5>2, <5>3 DEF SettledSound
          <5>4. CASE q # f.id
            BY <1>0, <4>1, <5>1, <5>2, <5>4 DEF SettledSound
          <5> QED
            BY <5>3, <5>4
        <4>4. \A q \in Promise : status'[q] # "ok" => uses'[q] = {}
          BY <1>0, <4>1 DEF SettledSound
        <4> QED
          BY <3>6, <4>2, <4>3, <4>4 DEF SettledSound
      <3> QED
        BY <2>6, <3>7, <3>8, ConstructPops, UnwindPops DEF promiseVars
    <2> QED
      BY <1>2, <2>1, <2>2, <2>4, <2>5, <2>6, CallMoves
  <1>3. CASE ~\E c \in Call : CallStep(c)
    <2>1. UNCHANGED <<stack, status, uses, settledAt, clock>>
      BY <1>3, OutsideMoves
    <2> QED
      BY <2>1 DEF SettledSound
  <1> QED
    BY <1>2, <1>3

-----------------------------------------------------------------------------
(* Chains follow the dependencies, past what is stale                      *)

\* What a step other than override() leaves as it is.
GraphKept ==
    /\ overrides' = overrides
    /\ \A u \in Token : Needs(u) \subseteq Needs(u)'
    /\ \A p \in Promise : /\ stale'[p] = "no" <=> stale[p] = "no"
                          /\ status[p] # "free" => tokenOf'[p] = tokenOf[p]

\* An entry does not come to hold the promise of a frame that is in the chain.
EntriesKept(c) ==
    \A i \in 1 .. Len(stack[c]) :
        stack[c][i].id # None /\ cache'[stack[c][i].tok] = stack[c][i].id
            => cache[stack[c][i].tok] = stack[c][i].id

\* What a call awaits after the step is what its anchored frames depend on.
AwaitsBelow(c) ==
    /\ awaits'[c] \in Promise /\ status[awaits'[c]] # "free"
    /\ \A i \in 1 .. Len(stack[c]) :
          Anchored(c, i) => Below(stack[c][i].tok, awaits'[c])

LEMMA GraphMoves ==
    ASSUME ChainInv, PhaseSound, SharedInv, [Next]_vars
    PROVE  GraphKept \/ \E t \in Token, d \in Replacements : Override(t, d)
  BY NeedsKept, StaleMoves, StatusMoves DEF GraphKept

\* The chain of call c after its o innermost frames have left and the instances
\* in w were injected somewhere.
LEMMA ShiftPaths ==
    ASSUME ChainInv, SettledSound, GraphKept, NEW c \in Call, PathsOf(c),
           NEW o \in {0, 1}, NEW w \in SUBSET Promise,
           Len(stack'[c]) = Len(stack[c]) - o,
           \A i \in 1 .. Len(stack[c]) - o :
              /\ stack'[c][i].tok = stack[c][i + o].tok
              /\ stack'[c][i].id = stack[c][i + o].id
              /\ Elems(stack'[c][i].rest) \subseteq Elems(stack[c][i + o].rest)
              /\ stack'[c][i].uses \subseteq stack[c][i + o].uses \cup w,
           \A i \in 1 + o .. Len(stack[c]) :
              Anchored(c, i) => \A p \in w : Below(stack[c][i].tok, p),
           \A p \in w : status[p] # "free",
           EntriesKept(c),
           pc'[c] = "awaiting" => o = 0 /\ AwaitsBelow(c)
    PROVE  PathsOf(c)'
  <1>0. Len(stack[c]) \in Nat
    BY DEF ChainInv, TypeOK, CallTypeOK
  <1>1. \A u \in Token, p \in Promise : status[p] # "free" /\ Below(u, p) => Below(u, p)'
    BY DEF GraphKept, Below
  <1> SUFFICES ASSUME NEW u \in Token, NEW i \in 1 .. Len(stack'[c]),
                      stack'[c][i].tok = u, Anchored(c, i)'
               PROVE  /\ pc'[c] = "awaiting" => Below(u, awaits[c])'
                      /\ \A k \in 1 .. i : PathTo(u, stack[c][k])'
                      /\ \A k \in 1 .. i - 1 : stack'[c][k].tok \in Needs(u)'
    BY DEF PathsOf
  <1>2. /\ i + o \in 1 + o .. Len(stack[c]) /\ i + o \in 1 .. Len(stack[c])
        /\ \A k \in 1 .. i : /\ k + o \in 1 .. Len(stack[c]) /\ k + o \in 1 .. i + o
                             /\ k \in 1 .. Len(stack[c]) - o
        /\ \A k \in 1 .. i - 1 : k + o \in 1 .. i + o - 1 /\ k \in 1 .. i
        /\ i \in 1 .. Len(stack[c]) - o
    BY <1>0
  <1>3. stack[c][i + o].tok = u /\ Anchored(c, i + o)
    <2>1. stack'[c][i].tok = stack[c][i + o].tok /\ stack'[c][i].id = stack[c][i + o].id
      BY <1>2
    <2>2. stack[c][i + o].id # None /\ cache'[stack[c][i + o].tok] = stack[c][i + o].id
              => cache[stack[c][i + o].tok] = stack[c][i + o].id
      BY <1>2 DEF EntriesKept
    <2> QED
      BY <2>1, <2>2 DEF Anchored, GraphKept
  <1>a. /\ \A k \in 1 .. i + o : PathTo(u, stack[c][k])
        /\ \A k \in 1 .. i + o - 1 : stack[c][k].tok \in Needs(u)
    BY <1>2, <1>3 DEF PathsOf
  <1>b. \A p \in w : Below(u, p)
    BY <1>2, <1>3
  <1>4. /\ \A k \in 1 .. i + o : PathTo(u, stack[c][k])
        /\ \A k \in 1 .. i + o - 1 : stack[c][k].tok \in Needs(u)
        /\ \A p \in w : Below(u, p)
    BY <1>a, <1>b
  <1>5. pc'[c] = "awaiting" => Below(u, awaits[c])'
    <2> SUFFICES ASSUME pc'[c] = "awaiting" PROVE Below(u, awaits[c])'
      OBVIOUS
    <2>1. Below(u, awaits'[c]) /\ awaits'[c] \in Promise /\ status[awaits'[c]] # "free"
      <3>1. i + o = i
        BY <1>0
      <3> QED
        BY <1>2, <1>3, <3>1 DEF AwaitsBelow
    <2> QED
      BY <2>1 DEF GraphKept, Below
  <1>6. ASSUME NEW k \in 1 .. i PROVE PathTo(u, stack[c][k])'
    <2>1. PathTo(u, stack[c][k + o]) /\ k + o \in 1 .. Len(stack[c])
      BY <1>2, <1>4
    <2>2. stack[c][k + o].id \in Promise \cup {None} /\ stack[c][k + o].uses \subseteq Promise
      BY <2>1, FrameTypes
    <2>3. /\ stack'[c][k].id = stack[c][k + o].id
          /\ Elems(stack'[c][k].rest) \subseteq Elems(stack[c][k + o].rest)
          /\ stack'[c][k].uses \subseteq stack[c][k + o].uses \cup w
      BY <1>2
    <2>4. stack'[c][k].id # None => stale'[stack'[c][k].id] = "no"
      BY <2>1, <2>2, <2>3 DEF PathTo, GraphKept
    <2>5. Elems(stack'[c][k].rest) \subseteq Needs(u)'
      BY <2>1, <2>3 DEF PathTo, GraphKept
    <2>6. ASSUME NEW p \in stack'[c][k].uses PROVE Below(u, p)'
      <3>1. p \in Promise /\ Below(u, p)
        BY <1>4, <2>1, <2>2, <2>3 DEF PathTo
      <3>2. status[p] # "free"
        BY <2>1, <2>3 DEF SettledSound
      <3> QED
        BY <1>1, <3>1, <3>2
    <2> QED
      BY <2>4, <2>5, <2>6 DEF PathTo
  <1>7. ASSUME NEW k \in 1 .. i - 1 PROVE stack'[c][k].tok \in Needs(u)'
    <2>1. stack'[c][k].tok = stack[c][k + o].tok /\ stack[c][k + o].tok \in Needs(u)
      BY <1>2, <1>4
    <2> QED
      BY <2>1 DEF GraphKept
  <1> QED
    BY <1>5, <1>6, <1>7

\* A chain that no step of its call touches.
LEMMA OtherPaths ==
    ASSUME ChainInv, SettledSound, GraphKept, NEW c \in Call, PathsOf(c),
           stack'[c] = stack[c],
           EntriesKept(c),
           pc'[c] = "awaiting" => AwaitsBelow(c)
    PROVE  PathsOf(c)'
  <1>1. Len(stack[c]) \in Nat /\ {} \in SUBSET Promise /\ 0 \in {0, 1}
    BY DEF ChainInv, TypeOK, CallTypeOK
  <1>2. \A i \in 1 .. Len(stack[c]) : i + 0 = i
    BY <1>1
  <1>3. Len(stack[c]) - 0 = Len(stack[c])
    BY <1>1
  <1>4. \A i \in 1 .. Len(stack[c]) - 0 :
              /\ stack'[c][i].tok = stack[c][i + 0].tok
              /\ stack'[c][i].id = stack[c][i + 0].id
              /\ Elems(stack'[c][i].rest) \subseteq Elems(stack[c][i + 0].rest)
              /\ stack'[c][i].uses \subseteq stack[c][i + 0].uses \cup {}
    BY <1>2, <1>3
  <1> QED
    BY <1>1, <1>3, <1>4, ShiftPaths

\* The token that a call visits is a dependency of every anchored one below it.
LEMMA TargetNeeded ==
    ASSUME ChainInv, NEW c \in Call, PathsOf(c), pc[c] = "visiting",
           NEW i \in 1 .. Len(stack[c]), Anchored(c, i)
    PROVE  Target(c) \in Needs(stack[c][i].tok)
  <1>1. stack[c] \in Seq(Frame) /\ stack[c] # <<>> /\ 1 \in 1 .. i /\ 1 \in 1 .. Len(stack[c])
    BY DEF ChainInv, TypeOK, CallTypeOK
  <1>2. Head(stack[c]) = stack[c][1] /\ stack[c][1].rest # <<>>
    BY <1>1 DEF ChainInv, ChainOK
  <1>3. Target(c) \in Elems(stack[c][1].rest)
    <2>1. stack[c][1].rest \in Seq(Token)
      BY <1>1, FrameTypes
    <2>2. Head(stack[c][1].rest) \in Elems(stack[c][1].rest)
      BY <1>2, <2>1, TailElems
    <2> QED
      BY <1>1, <1>2, <2>2 DEF Target
  <1>4. PathTo(stack[c][i].tok, stack[c][1])
    BY <1>1, FrameTypes DEF PathsOf
  <1> QED
    BY <1>3, <1>4 DEF PathTo

\* A provider is pushed: its dependencies are those of the tokens below it.
LEMMA PushPaths ==
    ASSUME ChainInv, SettledSound, SharedInv, FreshSound, GraphKept, UNCHANGED registry,
           NEW c \in Call, PathsOf(c), VisitProvider(c),
           NEW p \in Promise \cup {None}, Push(c, Target(c), p),
           p # None => status[p] = "free",
           \A v \in Token \ {Target(c)} : cache'[v] = cache[v]
    PROVE  PathsOf(c)'
  <1> DEFINE t == Target(c)
  <1>1. /\ t \in Token /\ registry[t] # Missing /\ pc[c] = "visiting"
        /\ \A i \in 1 .. Len(stack[c]) : stack[c][i].tok # t
    BY ProviderFacts
  <1>2. /\ Len(stack[c]) \in Nat /\ Len(stack'[c]) = Len(stack[c]) + 1
        /\ stack'[c][1].tok = t /\ stack'[c][1].id = p
        /\ stack'[c][1].rest = registry[t] /\ stack'[c][1].uses = {}
        /\ \A i \in 2 .. Len(stack[c]) + 1 : stack'[c][i] = stack[c][i - 1]
    BY <1>1, PushFrames
  <1>3. pc'[c] # "awaiting"
    BY DEF Push, ChainInv, TypeOK, CallTypeOK
  <1>4. Elems(registry[t]) = DepsOf(t) /\ DepsOf(t) \subseteq Needs(t)
        /\ \A u \in Token : t \in Needs(u) => DepsOf(t) \subseteq Needs(u)
    BY <1>1, DepsTokens, NeedsTransitive
  <1>5. p # None => stale'[p] = "no"
    BY DEF FreshSound, GraphKept
  <1>6. \A u \in Token : Needs(u) \subseteq Needs(u)'
    BY DEF GraphKept
  <1>a. \A u \in Token, q \in Promise : status[q] # "free" /\ Below(u, q) => Below(u, q)'
    BY DEF GraphKept, Below
  <1> HIDE DEF t
  <1>7. ASSUME NEW u \in Token, t \in {u} \cup Needs(u) PROVE PathTo(u, stack[c][1])'
    <2>1. DepsOf(t) \subseteq Needs(u)
      BY <1>1, <1>4, <1>7
    <2>2. Elems(stack'[c][1].rest) \subseteq Needs(u)'
      BY <1>2, <1>4, <1>6, <2>1
    <2> QED
      BY <1>2, <1>5, <2>2 DEF PathTo
  <1> SUFFICES ASSUME NEW u \in Token, NEW i \in 1 .. Len(stack'[c]),
                      stack'[c][i].tok = u, Anchored(c, i)'
               PROVE  /\ \A k \in 1 .. i : PathTo(u, stack[c][k])'
                      /\ \A k \in 1 .. i - 1 : stack'[c][k].tok \in Needs(u)'
    BY <1>3 DEF PathsOf
  <1>8. CASE i = 1
    <2>1. PathTo(u, stack[c][1])'
      BY <1>2, <1>7, <1>8
    <2>2. 1 .. i = {1} /\ 1 .. i - 1 = {}
      BY <1>8
    <2> QED
      BY <2>1, <2>2
  <1>9. CASE i # 1
    <2>1. /\ i - 1 \in 1 .. Len(stack[c]) /\ i \in 2 .. Len(stack[c]) + 1
          /\ \A k \in 1 .. i : k # 1 => /\ k - 1 \in 1 .. i - 1 /\ k \in 2 .. Len(stack[c]) + 1
                                        /\ k - 1 \in 1 .. Len(stack[c])
          /\ \A k \in 1 .. i - 1 : k # 1 => k - 1 \in 1 .. i - 1 - 1 /\ k \in 1 .. i
      BY <1>2, <1>9
    <2>2. stack'[c][i] = stack[c][i - 1]
      BY <1>2, <2>1
    <2>3. stack[c][i - 1].tok = u /\ u # t
      BY <1>1, <2>1, <2>2
    <2>4. Anchored(c, i - 1)
      BY <2>2, <2>3 DEF Anchored, GraphKept, t
    <2>5. /\ \A k \in 1 .. i - 1 : PathTo(u, stack[c][k])
          /\ \A k \in 1 .. i - 1 - 1 : stack[c][k].tok \in Needs(u)
      BY <2>1, <2>3, <2>4 DEF PathsOf
    <2>6. t \in Needs(u)
      BY <1>1, <2>1, <2>3, <2>4, TargetNeeded DEF t
    <2>7. ASSUME NEW k \in 1 .. i PROVE PathTo(u, stack[c][k])'
      <3>1. CASE k = 1
        BY <1>7, <2>6, <3>1
      <3>2. CASE k # 1
        <4>1. stack'[c][k] = stack[c][k - 1] /\ PathTo(u, stack[c][k - 1])
              /\ k - 1 \in 1 .. Len(stack[c])
          BY <1>2, <2>1, <2>5, <3>2
        <4>2. stack[c][k - 1].id \in Promise \cup {None} /\ stack[c][k - 1].uses \subseteq Promise
          BY <4>1, FrameTypes
        <4>3. \A q \in stack[c][k - 1].uses : Below(u, q)'
          BY <1>a, <4>1, <4>2 DEF PathTo, SettledSound
        <4>4. stack'[c][k].id # None => stale'[stack'[c][k].id] = "no"
          BY <4>1, <4>2 DEF PathTo, GraphKept
        <4>5. Elems(stack'[c][k].rest) \subseteq Needs(u)'
          BY <1>6, <4>1 DEF PathTo
        <4>6. \A q \in stack'[c][k].uses : Below(u, q)'
          BY <4>1, <4>3
        <4> QED
          BY <4>4, <4>5, <4>6 DEF PathTo
      <3> QED
        BY <3>1, <3>2
    <2>8. ASSUME NEW k \in 1 .. i - 1 PROVE stack'[c][k].tok \in Needs(u)'
      <3>1. CASE k = 1
        BY <1>2, <1>6, <2>6, <3>1
      <3>2. CASE k # 1
        <4>1. stack'[c][k] = stack[c][k - 1] /\ stack[c][k - 1].tok \in Needs(u)
          BY <1>2, <2>1, <2>5, <3>2
        <4> QED
          BY <1>6, <4>1
      <3> QED
        BY <3>1, <3>2
    <2> QED
      BY <2>7, <2>8
  <1> QED
    BY <1>8, <1>9

\* What a step of one call leaves alone, and where it starts to await.
LEMMA OneCallMoves ==
    ASSUME ChainInv, NEW c \in Call, CallStep(c)
    PROVE  /\ \A d \in Call \ {c} : /\ stack'[d] = stack[d] /\ pc'[d] = pc[d]
                                    /\ awaits'[d] = awaits[d] /\ error'[d] = error[d]
           /\ pc'[c] = "awaiting" =>
                 /\ VisitCached(c) /\ awaits'[c] = cache[Target(c)]
                 /\ UNCHANGED <<stack, cache, promiseVars>>
  <1> USE DEF VisitUnchanged, Throw, AfterHanding, ChainInv, TypeOK, CallTypeOK
  <1>1. CASE Settle(c) \/ Enter(c)
    BY <1>1 DEF Settle, Enter
  <1>2. CASE VisitActive(c) \/ VisitMissing(c)
    BY <1>2 DEF VisitActive, VisitMissing
  <1>3. CASE VisitCached(c)
    BY <1>3 DEF VisitCached
  <1>4. CASE VisitNew(c)
    BY <1>4 DEF VisitNew, Push
  <1>5. CASE VisitPlain(c)
    BY <1>5 DEF VisitPlain, Push
  <1>6. CASE Wake(c)
    BY <1>6 DEF Wake
  <1>7. CASE Resume(c) \/ ConstructFails(c)
    BY <1>7 DEF Resume, ConstructFails
  <1>8. CASE Construct(c)
    BY <1>8 DEF Construct
  <1>9. CASE Unwind(c)
    BY <1>9 DEF Unwind
  <1> QED
    BY <1>1, <1>2, <1>3, <1>4, <1>5, <1>6, <1>7, <1>8, <1>9 DEF CallStep

\* The cache and the record of what was injected change in three steps only.
LEMMA EntryMoves ==
    ASSUME ChainInv, SharedInv, [Next]_vars
    PROVE  /\ \A t \in Token : \/ cache'[t] \in {cache[t], None}
                               \/ /\ cache'[t] \in Promise /\ status[cache'[t]] = "free"
                                  /\ UNCHANGED uses
           /\ \A p \in Promise : \/ uses'[p] = uses[p]
                                 \/ \E c \in Call : /\ stack[c] # <<>> /\ p = stack[c][1].id
                                                    /\ uses'[p] = stack[c][1].uses
                                                    /\ UNCHANGED cache
           /\ \A c \in Call : EntriesKept(c)
  <1> DEFINE Entries == \A t \in Token : \/ cache'[t] \in {cache[t], None}
                                         \/ /\ cache'[t] \in Promise /\ status[cache'[t]] = "free"
                                            /\ UNCHANGED uses
             Injected == \A p \in Promise :
                            \/ uses'[p] = uses[p]
                            \/ \E c \in Call : /\ stack[c] # <<>> /\ p = stack[c][1].id
                                               /\ uses'[p] = stack[c][1].uses
                                               /\ UNCHANGED cache
  <1>1. ASSUME NEW c \in Call, CallStep(c) PROVE Entries /\ Injected
    <2>1. CASE Stays(c) \/ (\E u \in SUBSET Promise : Hands(c, u)) \/ VisitPlain(c)
      BY <2>1 DEF Stays, Hands, VisitPlain, promiseVars
    <2>2. CASE VisitNew(c)
      BY <2>2, NewPushes DEF ChainInv, TypeOK, GraphTypeOK
    <2>3. CASE Construct(c)
      <3>1. CASE stack[c][1].id = None
        BY <2>3, <3>1, ConstructPops DEF promiseVars
      <3>2. CASE stack[c][1].id # None
        <4>1. /\ stack[c] # <<>> /\ UNCHANGED cache
              /\ uses' = [uses EXCEPT ![stack[c][1].id] = stack[c][1].uses]
          BY <2>3, <3>2, ConstructPops
        <4>2. uses \in [Promise -> SUBSET Promise]
          BY DEF ChainInv, TypeOK, PromiseTypeOK
        <4> QED
          BY <4>1, <4>2
      <3> QED
        BY <3>1, <3>2
    <2>4. CASE Unwind(c)
      BY <2>4, UnwindPops DEF ChainInv, TypeOK, GraphTypeOK
    <2>5. \/ Stays(c) \/ (\E u \in SUBSET Promise : Hands(c, u)) \/ VisitPlain(c)
          \/ VisitNew(c) \/ Construct(c) \/ Unwind(c)
      BY <1>1, CallMoves
    <2> QED
      BY <2>1, <2>2, <2>3, <2>4, <2>5
  <1>2. ASSUME ~\E c \in Call : CallStep(c) PROVE Entries /\ Injected
    BY <1>2, OutsideMoves
  <1>3. Entries /\ Injected
    BY <1>1, <1>2
  <1>4. ASSUME NEW c \in Call PROVE EntriesKept(c)
    <2> SUFFICES ASSUME NEW i \in 1 .. Len(stack[c]), stack[c][i].id # None,
                        cache'[stack[c][i].tok] = stack[c][i].id
                 PROVE  cache[stack[c][i].tok] = stack[c][i].id
      BY DEF EntriesKept
    <2>1. stack[c][i].tok \in Token /\ status[stack[c][i].id] = "pending"
      BY FrameTypes DEF SharedInv, FramesSound
    <2> QED
      BY <1>3, <2>1
  <1> QED
    BY <1>3, <1>4

\* An override makes nothing stale that a token it does not reach depends on.
LEMMA OverrideSpares ==
    ASSUME ChainInv, SharedInv, NEW t \in Token, NEW d \in Replacements,
           Override(t, d), NEW u \in Token, ~ShouldInvalidate(u, t)
    PROVE  /\ Needs(u) \subseteq Needs(u)'
           /\ \A p \in Promise : stale[p] = "no" /\ tokenOf[p] \in {u} \cup Needs(u)
                 => stale'[p] = "no"
           /\ UNCHANGED tokenOf
  <1>1. Needs(u) \subseteq Needs(u)'
    BY OverrideNeeds
  <1>2. ASSUME NEW p \in Promise, stale[p] = "no", tokenOf[p] \in {u} \cup Needs(u),
               stale'[p] # "no"
        PROVE  FALSE
    <2>1. PICK v \in Token : cache[v] = p /\ cache[v] # None /\ ShouldInvalidate(v, t)
      BY <1>2 DEF Override, Affected
    <2>2. v = tokenOf[p]
      BY <2>1 DEF SharedInv, CacheSound
    <2>3. v # u /\ v \in Needs(u)
      BY <1>2, <2>1, <2>2
    <2>4. t \in {v} \cup Needs(v)
      BY <2>1 DEF ShouldInvalidate, Needs
    <2>5. t \in Needs(u)
      BY <2>3, <2>4, NeedsTransitive
    <2> QED
      BY <2>5 DEF ShouldInvalidate, Needs
  <1> QED
    BY <1>1, <1>2 DEF Override, promiseVars

LEMMA NextFresh ==
    ASSUME ChainInv, PhaseSound, SharedInv, FreshSound, [Next]_vars
    PROVE  FreshSound'
  <1>1. CASE GraphKept
    <2>1. \A p \in Promise : status'[p] = "free" => status[p] = "free"
      BY StatusMoves DEF Failed
    <2> QED
      BY <1>1, <2>1 DEF GraphKept, FreshSound
  <1>2. ASSUME NEW t \in Token, NEW d \in Replacements, Override(t, d) PROVE FreshSound'
    <2>1. overrides' # 0
      BY <1>2 DEF Override, ChainInv, TypeOK, GraphTypeOK
    <2>2. ASSUME NEW p \in Promise, status[p] = "free" PROVE stale'[p] = "no"
      <3>1. \A u \in Token : cache[u] = p => cache[u] = None
        BY <2>2 DEF SharedInv, CacheSound
      <3>2. stale[p] = "no"
        BY <2>2 DEF FreshSound
      <3> QED
        BY <1>2, <3>1, <3>2 DEF Override, Affected
    <2> QED
      BY <1>2, <2>1, <2>2 DEF FreshSound, Override, promiseVars
  <1> QED
    BY <1>1, <1>2, GraphMoves

LEMMA NextOffered ==
    ASSUME ChainInv, PhaseSound, SharedInv, SettledSound, GraphInv, [Next]_vars
    PROVE  OfferedSound'
  <1> SUFFICES ASSUME NEW v \in Token, cache'[v] # None
               PROVE  stale'[cache'[v]] = "no" /\ \A p \in uses'[cache'[v]] : Below(v, p)'
    BY DEF OfferedSound
  <1>u. uses \in [Promise -> SUBSET Promise] /\ cache[v] \in Promise \cup {None}
    BY DEF ChainInv, TypeOK, PromiseTypeOK, GraphTypeOK
  <1>1. CASE GraphKept
    <2>1. ASSUME NEW p \in Promise, status[p] = "ok", Below(v, p) PROVE Below(v, p)'
      BY <1>1, <2>1 DEF GraphKept, Below
    <2>2. CASE /\ cache'[v] \in Promise /\ status[cache'[v]] = "free" /\ UNCHANGED uses
      <3>1. uses[cache'[v]] = {} /\ stale[cache'[v]] = "no"
        BY <2>2 DEF SettledSound, GraphInv, FreshSound
      <3> QED
        BY <1>1, <2>2, <3>1 DEF GraphKept
    <2>3. CASE cache'[v] \in {cache[v], None}
      <3>1. cache'[v] = cache[v] /\ cache[v] \in Promise /\ cache[v] # None
        BY <1>u, <2>3
      <3>2. stale[cache[v]] = "no" /\ \A p \in uses[cache[v]] : Below(v, p)
        BY <3>1 DEF GraphInv, OfferedSound
      <3>3. stale'[cache[v]] = "no"
        BY <1>1, <3>1, <3>2 DEF GraphKept
      <3>4. CASE uses'[cache[v]] = uses[cache[v]]
        <4>1. \A p \in uses[cache[v]] : p \in Promise /\ status[p] = "ok"
          BY <1>u, <3>1 DEF SettledSound
        <4> QED
          BY <2>1, <3>1, <3>2, <3>3, <3>4, <4>1
      <3>5. ASSUME NEW c \in Call, stack[c] # <<>>, cache[v] = stack[c][1].id,
                   uses'[cache[v]] = stack[c][1].uses
            PROVE  \A p \in uses'[cache[v]] : Below(v, p)'
        <4>1. 1 \in 1 .. Len(stack[c])
          BY <3>5 DEF ChainInv, TypeOK, CallTypeOK
        <4>2. v = stack[c][1].tok
          BY <3>1, <3>5, <4>1 DEF SharedInv, FramesSound, CacheSound
        <4>3. PathTo(v, stack[c][1])
          BY <3>1, <3>5, <4>1, <4>2 DEF GraphInv, PathsSound, PathsOf, Anchored
        <4>4. \A p \in stack[c][1].uses : p \in Promise /\ status[p] = "ok"
          BY <4>1, FrameTypes DEF SettledSound
        <4> QED
          BY <2>1, <3>5, <4>3, <4>4 DEF PathTo
      <3>6. \/ uses'[cache[v]] = uses[cache[v]]
            \/ \E c \in Call : /\ stack[c] # <<>> /\ cache[v] = stack[c][1].id
                               /\ uses'[cache[v]] = stack[c][1].uses
        BY <3>1, EntryMoves
      <3> QED
        BY <3>1, <3>2, <3>3, <3>4, <3>5, <3>6
    <2> QED
      BY <2>2, <2>3, EntryMoves
  <1>2. ASSUME NEW t \in Token, NEW d \in Replacements, Override(t, d)
        PROVE  stale'[cache'[v]] = "no" /\ \A p \in uses'[cache'[v]] : Below(v, p)'
    <2>1. cache'[v] = cache[v] /\ v \notin Affected(t) /\ UNCHANGED uses
      BY <1>2 DEF Override, promiseVars
    <2>2. ~ShouldInvalidate(v, t) /\ cache[v] # None /\ cache[v] \in Promise
      BY <1>u, <2>1 DEF Affected
    <2>3. /\ stale[cache[v]] = "no" /\ tokenOf[cache[v]] = v
          /\ \A p \in uses[cache[v]] : p \in Promise /\ Below(v, p)
      BY <1>u, <2>2 DEF GraphInv, OfferedSound, SharedInv, CacheSound
    <2> QED
      BY <1>2, <2>1, <2>2, <2>3, OverrideSpares DEF Below
  <1> QED
    BY <1>1, <1>2, GraphMoves

\* The wait of a call that goes on waiting is below its frames.
LEMMA AwaitKept ==
    ASSUME ChainInv, NEW c \in Call, PathsOf(c), pc[c] = "awaiting",
           awaits'[c] = awaits[c]
    PROVE  AwaitsBelow(c)
  <1>1. \A i \in 1 .. Len(stack[c]) : stack[c][i].tok \in Token
    BY FrameTypes
  <1> QED
    BY <1>1 DEF ChainInv, ChainOK, PathsOf, AwaitsBelow

LEMMA CallStepPaths ==
    ASSUME ChainInv, SharedInv, SettledSound, GraphInv, GraphKept, [Next]_vars,
           NEW c \in Call, CallStep(c)
    PROVE  PathsSound'
  <1>1. \A d \in Call : PathsOf(d) /\ EntriesKept(d)
    BY EntryMoves DEF GraphInv, PathsSound
  <1>2. ASSUME NEW d \in Call \ {c} PROVE PathsOf(d)'
    <2>1. stack'[d] = stack[d] /\ pc'[d] = pc[d] /\ awaits'[d] = awaits[d]
      BY OneCallMoves
    <2> QED
      BY <1>1, <2>1, AwaitKept, OtherPaths
  <1>3. CASE Stays(c)
    <2>1. pc'[c] = "awaiting" => AwaitsBelow(c)
      <3> SUFFICES ASSUME pc'[c] = "awaiting" PROVE AwaitsBelow(c)
        OBVIOUS
      <3>1. VisitCached(c) /\ awaits'[c] = cache[Target(c)]
        BY OneCallMoves
      <3>2. /\ Target(c) \in Token /\ pc[c] = "visiting"
            /\ cache[Target(c)] \in Promise /\ cache[Target(c)] # None
        BY <3>1, ProviderFacts DEF VisitCached, ChainInv, TypeOK, GraphTypeOK
      <3>3. /\ tokenOf[cache[Target(c)]] = Target(c)
            /\ status[cache[Target(c)]] # "free"
            /\ stale[cache[Target(c)]] = "no"
        BY <3>2 DEF SharedInv, CacheSound, GraphInv, OfferedSound
      <3>4. \A i \in 1 .. Len(stack[c]) :
              Anchored(c, i) => Target(c) \in Needs(stack[c][i].tok)
        BY <1>1, <3>2, TargetNeeded
      <3> QED
        BY <3>1, <3>2, <3>3, <3>4 DEF AwaitsBelow, Below
    <2>2. stack'[c] = stack[c]
      BY <1>3 DEF Stays
    <2>3. PathsOf(c)'
      BY <1>1, <2>1, <2>2, OtherPaths
    <2> QED
      BY <1>2, <2>3 DEF PathsSound
  <1>4. ASSUME NEW u \in SUBSET Promise, Hands(c, u), Follows(stack'[c], stack[c], u)
        PROVE  PathsSound'
    <2>1. ASSUME NEW i \in 1 .. Len(stack[c]), Anchored(c, i), NEW p \in u
          PROVE  Below(stack[c][i].tok, p) /\ status[p] # "free"
      <3>1. pc[c] = "awaiting" /\ p = awaits[c] /\ status[p] = "ok"
        BY <1>4, <2>1 DEF Hands
      <3>2. stack[c][i].tok \in Token
        BY FrameTypes
      <3> QED
        BY <1>1, <2>1, <3>1, <3>2 DEF PathsOf
    <2>2. \A p \in u : status[p] # "free"
      BY <1>4 DEF Hands
    <2>3. pc'[c] # "awaiting"
      BY <1>4 DEF Hands, AfterHanding, ChainInv, TypeOK, CallTypeOK
    <2>4. /\ Len(stack[c]) \in Nat /\ Len(stack[c]) - 0 = Len(stack[c])
          /\ 0 \in {0, 1} /\ 1 + 0 = 1 /\ \A i \in 1 .. Len(stack[c]) : i + 0 = i
      BY DEF ChainInv, TypeOK, CallTypeOK
    <2>5. /\ Len(stack'[c]) = Len(stack[c]) - 0
          /\ \A i \in 1 .. Len(stack[c]) - 0 :
              /\ stack'[c][i].tok = stack[c][i + 0].tok
              /\ stack'[c][i].id = stack[c][i + 0].id
              /\ Elems(stack'[c][i].rest) \subseteq Elems(stack[c][i + 0].rest)
              /\ stack'[c][i].uses \subseteq stack[c][i + 0].uses \cup u
          /\ \A i \in 1 + 0 .. Len(stack[c]) :
              Anchored(c, i) => \A p \in u : Below(stack[c][i].tok, p)
      BY <1>4, <2>1, <2>4 DEF Follows
    <2>6. PathsOf(c)'
      BY <1>1, <2>2, <2>3, <2>4, <2>5, ShiftPaths
    <2> QED
      BY <1>2, <2>6 DEF PathsSound
  <1>5. ASSUME NEW p \in Promise \cup {None}, VisitProvider(c), Push(c, Target(c), p),
               p # None => status[p] = "free", UNCHANGED registry,
               \A v \in Token \ {Target(c)} : cache'[v] = cache[v]
        PROVE  PathsSound'
    <2>1. PathsOf(c)'
      BY <1>1, <1>5, PushPaths DEF GraphInv
    <2> QED
      BY <1>2, <2>1 DEF PathsSound
  <1>6. CASE VisitNew(c)
    <2>1. PICK p \in Promise : /\ VisitProvider(c) /\ Push(c, Target(c), p)
                               /\ status[p] = "free" /\ UNCHANGED registry
                               /\ cache' = [cache EXCEPT ![Target(c)] = p]
      BY <1>6, NewPushes
    <2>2. \A v \in Token \ {Target(c)} : cache'[v] = cache[v]
      BY <2>1 DEF ChainInv, TypeOK, GraphTypeOK
    <2> QED
      BY <1>5, <2>1, <2>2
  <1>7. CASE VisitPlain(c)
    BY <1>5, <1>7 DEF VisitPlain, VisitUnchanged
  <1>8. ASSUME NEW u \in SUBSET Promise, stack[c] # <<>>,
               Follows(stack'[c], Tail(stack[c]), u), pc'[c] # "awaiting",
               u \subseteq stack[c][1].uses \/ (u = {stack[c][1].id} /\ stack[c][1].id # None)
        PROVE  PathsSound'
    <2>1. /\ Len(stack[c]) \in Nat /\ Len(stack[c]) >= 1
          /\ Len(Tail(stack[c])) = Len(stack[c]) - 1
          /\ \A i \in 1 .. Len(stack[c]) - 1 : Tail(stack[c])[i] = stack[c][i + 1]
      BY <1>8, {} \in SUBSET Promise, PopFollows
    <2>2. 1 \in 1 .. Len(stack[c]) /\ 1 \in {0, 1} /\ 1 + 1 = 2
      BY <2>1
    <2>3. \A p \in u : status[p] # "free"
      BY <1>8, <2>2 DEF SettledSound, SharedInv, FramesSound
    <2>4. ASSUME NEW i \in 2 .. Len(stack[c]), Anchored(c, i), NEW p \in u
          PROVE  Below(stack[c][i].tok, p)
      <3>1. /\ i \in 1 .. Len(stack[c]) /\ 1 \in 1 .. i /\ 1 \in 1 .. i - 1
            /\ stack[c][i].tok \in Token
        BY <2>1, FrameTypes
      <3>2. PathTo(stack[c][i].tok, stack[c][1]) /\ stack[c][1].tok \in Needs(stack[c][i].tok)
        BY <1>1, <2>4, <3>1 DEF PathsOf
      <3>3. stack[c][1].id # None => tokenOf[stack[c][1].id] = stack[c][1].tok
        BY <2>2 DEF SharedInv, FramesSound
      <3> QED
        BY <1>8, <3>2, <3>3 DEF PathTo, Below
    <2>5. /\ Len(stack'[c]) = Len(stack[c]) - 1
          /\ \A i \in 1 .. Len(stack[c]) - 1 :
              /\ stack'[c][i].tok = stack[c][i + 1].tok
              /\ stack'[c][i].id = stack[c][i + 1].id
              /\ Elems(stack'[c][i].rest) \subseteq Elems(stack[c][i + 1].rest)
              /\ stack'[c][i].uses \subseteq stack[c][i + 1].uses \cup u
      BY <1>8, <2>1 DEF Follows
    <2>6. \A i \in 1 + 1 .. Len(stack[c]) :
              Anchored(c, i) => \A p \in u : Below(stack[c][i].tok, p)
      BY <2>2, <2>4
    <2>7. PathsOf(c)'
      BY <1>1, <1>8, <2>2, <2>3, <2>5, <2>6, ShiftPaths
    <2> QED
      BY <1>2, <2>7 DEF PathsSound
  <1>9. CASE Construct(c)
    <2>1. pc'[c] # "awaiting"
      BY <1>9, ConstructPops DEF AfterHanding
    <2> DEFINE f == stack[c][1]
               u == IF f.id = None THEN f.uses ELSE {f.id}
    <2>2. u \in SUBSET Promise /\ stack[c] # <<>> /\ Follows(stack'[c], Tail(stack[c]), u)
      BY <1>9, ConstructPops
    <2>3. u \subseteq f.uses \/ (u = {f.id} /\ f.id # None)
      OBVIOUS
    <2> HIDE DEF u
    <2> QED
      BY <1>8, <2>1, <2>2, <2>3
  <1>10. CASE Unwind(c)
    <2>1. pc'[c] # "awaiting" /\ stack[c] # <<>> /\ Follows(stack'[c], Tail(stack[c]), {})
      BY <1>10, UnwindPops
    <2> QED
      BY <1>8, <2>1, {} \in SUBSET Promise
  <1> QED
    BY <1>3, <1>4, <1>6, <1>7, <1>9, <1>10, CallMoves

LEMMA OverridePaths ==
    ASSUME ChainInv, SharedInv, GraphInv, NEW t \in Token, NEW d \in Replacements,
           Override(t, d)
    PROVE  PathsSound'
  <1>0. UNCHANGED <<stack, pc, awaits>> /\ overrides' # 0
    BY DEF Override, callVars, ChainInv, TypeOK, GraphTypeOK
  <1> SUFFICES ASSUME NEW c \in Call, NEW u \in Token, NEW i \in 1 .. Len(stack[c]),
                      stack[c][i].tok = u, Anchored(c, i)'
               PROVE  /\ pc[c] = "awaiting" => Below(u, awaits[c])'
                      /\ \A k \in 1 .. i : PathTo(u, stack[c][k])'
                      /\ \A k \in 1 .. i - 1 : stack[c][k].tok \in Needs(u)'
    BY <1>0 DEF PathsSound, PathsOf
  <1>1. cache[u] = stack[c][i].id /\ cache[u] # None /\ u \notin Affected(t)
    BY <1>0 DEF Override, Anchored
  <1>2. ~ShouldInvalidate(u, t) /\ Anchored(c, i)
    BY <1>1 DEF Affected, Anchored
  <1>3. /\ Needs(u) \subseteq Needs(u)' /\ UNCHANGED tokenOf
        /\ \A p \in Promise : stale[p] = "no" /\ tokenOf[p] \in {u} \cup Needs(u)
              => stale'[p] = "no"
    BY <1>2, OverrideSpares
  <1>4. \A p \in Promise : Below(u, p) => Below(u, p)'
    BY <1>3 DEF Below
  <1>5. /\ pc[c] = "awaiting" => Below(u, awaits[c]) /\ awaits[c] \in Promise
        /\ \A k \in 1 .. i : PathTo(u, stack[c][k])
        /\ \A k \in 1 .. i - 1 : stack[c][k].tok \in Needs(u)
    BY <1>2 DEF GraphInv, PathsSound, PathsOf, ChainInv, ChainOK
  <1>6. ASSUME NEW k \in 1 .. i PROVE PathTo(u, stack[c][k])'
    <2>1. k \in 1 .. Len(stack[c]) /\ (k = i \/ k \in 1 .. i - 1)
      BY DEF ChainInv, TypeOK, CallTypeOK
    <2>2. stack[c][k].uses \subseteq Promise /\ stack[c][k].id \in Promise \cup {None}
      BY <2>1, FrameTypes
    <2>3. stack[c][k].tok \in {u} \cup Needs(u)
      BY <1>5, <2>1
    <2>4. stack[c][k].id # None => tokenOf[stack[c][k].id] = stack[c][k].tok
      BY <2>1 DEF SharedInv, FramesSound
    <2>5. stack[c][k].id # None => stale'[stack[c][k].id] = "no"
      BY <1>3, <1>5, <2>2, <2>3, <2>4 DEF PathTo
    <2>6. /\ Elems(stack[c][k].rest) \subseteq Needs(u)'
          /\ \A p \in stack[c][k].uses : Below(u, p)'
      BY <1>3, <1>4, <1>5, <2>2 DEF PathTo
    <2> QED
      BY <1>0, <2>5, <2>6 DEF PathTo
  <1> QED
    BY <1>0, <1>3, <1>4, <1>5, <1>6

LEMMA NextPaths ==
    ASSUME ChainInv, PhaseSound, SharedInv, SettledSound, GraphInv, [Next]_vars
    PROVE  PathsSound'
  <1>1. ASSUME GraphKept, ~\E c \in Call : CallStep(c), NEW c \in Call PROVE PathsOf(c)'
    <2>1. /\ stack'[c] = stack[c] /\ awaits'[c] = awaits[c]
          /\ pc'[c] = "awaiting" => pc[c] = "awaiting"
      BY <1>1, OutsideMoves
    <2>2. PathsOf(c) /\ EntriesKept(c)
      BY EntryMoves DEF GraphInv, PathsSound
    <2> QED
      BY <1>1, <2>1, <2>2, AwaitKept, OtherPaths
  <1> QED
    BY <1>1, GraphMoves, CallStepPaths, OverridePaths DEF PathsSound

\* A chain that meets one of its own tokens has followed a cycle.
LEMMA ActiveCycle ==
    ASSUME ChainInv, GraphInv, overrides = 0, NEW c \in Call, VisitActive(c)
    PROVE  \E t \in Token : t \in Needs(t)
  <1>1. PICK i \in 1 .. Len(stack[c]) : stack[c][i].tok = Target(c)
    <2>1. stack[c] \in Seq(Frame)
      BY DEF ChainInv, TypeOK, CallTypeOK
    <2> QED
      BY <2>1 DEF VisitActive, ActiveTokens
  <1>2. Target(c) \in Needs(stack[c][i].tok)
    BY TargetNeeded DEF VisitActive, GraphInv, PathsSound, Anchored
  <1> QED
    BY <1>1, <1>2, FrameTypes

\* A path of pending resolutions from the creator of a promise back to the call
\* that is about to await it is a cycle of dependencies: every call on the path
\* constructs something that the promise's token needs.
LEMMA ClosedCycle ==
    ASSUME ChainInv, SharedInv, GraphInv, overrides = 0, NEW c \in Call,
           VisitCached(c), status[cache[Target(c)]] = "pending",
           ClosesCycle(c, cache[Target(c)])
    PROVE  \E t \in Token : t \in Needs(t)
  <1> DEFINE t == Target(c)
             p == cache[t]
             In == {t} \cup Needs(t)
             S == {d \in Call : \E i \in 1 .. Len(stack[d]) : stack[d][i].tok \in In}
  <1>1. t \in Token /\ p \in Promise /\ tokenOf[p] = t /\ pc[c] = "visiting"
    BY ProviderFacts DEF VisitCached, ChainInv, TypeOK, GraphTypeOK, SharedInv, CacheSound
  <1>2. ASSUME NEW q \in Promise, status[q] = "pending", tokenOf[q] \in In
        PROVE  owner[q] \in S
    <2>1. owner[q] \in Call /\ \E i \in 1 .. Len(stack[owner[q]]) : stack[owner[q]][i].id = q
      BY <1>2 DEF ChainInv, PendingOnStack
    <2>2. PICK i \in 1 .. Len(stack[owner[q]]) : stack[owner[q]][i].id = q
      BY <2>1
    <2>3. stack[owner[q]][i].tok = tokenOf[q]
      <3>1. q # None
        BY DEF Promise, None
      <3> QED
        BY <2>1, <2>2, <3>1 DEF SharedInv, FramesSound
    <2> QED
      BY <1>2, <2>1, <2>2, <2>3
  <1>3. \A v \in In : v \in Token /\ Needs(v) \subseteq Needs(t)
    BY <1>1, NeedsTransitive DEF Needs
  <1> HIDE DEF p, In
  <1>4. ASSUME NEW d \in S, NEW e \in Call, Linked(d, e) PROVE e \in S
    <2>1. PICK i \in 1 .. Len(stack[d]) : stack[d][i].tok \in In
      OBVIOUS
    <2>2. pc[d] = "awaiting" /\ status[awaits[d]] = "pending" /\ e = owner[awaits[d]]
          /\ awaits[d] \in Promise
      BY <1>4 DEF Linked, ChainInv, ChainOK
    <2>3. Below(stack[d][i].tok, awaits[d])
      BY <1>3, <2>1, <2>2 DEF GraphInv, PathsSound, PathsOf, Anchored
    <2>4. tokenOf[awaits[d]] \in In
      BY <1>3, <2>1, <2>3 DEF Below, In
    <2> QED
      BY <1>2, <2>2, <2>4
  <1>5. owner[p] \in S
    BY <1>1, <1>2 DEF p, In
  <1>6. c \in S
    <2>1. S \in SUBSET Call
      OBVIOUS
    <2>2. PendingPath(owner[p], c)
      BY DEF ClosesCycle, p
    <2> HIDE DEF S
    <2> QED
      BY <1>4, <1>5, <2>1, <2>2 DEF PendingPath
  <1>7. PICK i \in 1 .. Len(stack[c]) : stack[c][i].tok \in In
    BY <1>6
  <1>8. t \in Needs(stack[c][i].tok)
    BY <1>1, TargetNeeded DEF GraphInv, PathsSound, Anchored
  <1>9. t \in Needs(t)
    BY <1>3, <1>7, <1>8
  <1> QED
    BY <1>1, <1>9

LEMMA NextCycles ==
    ASSUME ChainInv, PhaseSound, SharedInv, GraphInv, [Next]_vars
    PROVE  CyclesSound'
  <1> DEFINE Cycle == \E t \in Token : t \in Needs(t)
             Reported == \/ \E c \in Call : error[c] = "circular"
                         \/ \E p \in Promise : status[p] = "circular"
  <1>1. ASSUME NEW t \in Token, NEW d \in Replacements, Override(t, d) PROVE overrides' # 0
    BY <1>1 DEF Override, ChainInv, TypeOK, GraphTypeOK
  <1>2. CASE GraphKept
    <2> SUFFICES ASSUME overrides = 0, Reported', Cycle => Cycle'
                 PROVE  Cycle
      <3>1. Cycle => Cycle'
        BY <1>2 DEF GraphKept
      <3> QED
        BY <1>2, <3>1 DEF CyclesSound, GraphKept
    <2>1. CASE Reported
      BY <2>1 DEF GraphInv, CyclesSound
    <2>2. ASSUME NEW c \in Call, CallStep(c), ~Reported PROVE Cycle
      <3> USE DEF VisitUnchanged, Throw, ChainInv, TypeOK, CallTypeOK
      <3>1. CASE VisitActive(c)
        BY <3>1, ActiveCycle
      <3>2. CASE VisitCached(c)
        <4>1. status[cache[Target(c)]] = "pending" /\ ClosesCycle(c, cache[Target(c)])
          BY <2>2, <3>2 DEF VisitCached, promiseVars
        <4> QED
          BY <3>2, <4>1, ClosedCycle
      <3>3. CASE Settle(c) \/ Enter(c) \/ VisitMissing(c) \/ Resume(c) \/ ConstructFails(c)
                   \/ VisitPlain(c)
        BY <2>2, <3>3 DEF Settle, Enter, VisitMissing, Resume, ConstructFails, VisitPlain,
           Push, promiseVars
      <3>4. CASE Wake(c)
        <4>1. awaits[c] \in Promise
          BY <3>4 DEF Wake, ChainOK
        <4> QED
          BY <2>2, <3>4, <4>1 DEF Wake, promiseVars
      <3>5. CASE VisitNew(c)
        BY <2>2, <3>5, NewPushes DEF PromiseTypeOK
      <3>6. CASE Construct(c)
        <4>1. UNCHANGED error
          BY <3>6, ConstructPops
        <4>2. \A p \in Promise : status'[p] = "circular" => status[p] = "circular"
          <5>1. UNCHANGED status \/ status' = [status EXCEPT ![stack[c][1].id] = "ok"]
            BY <3>6, ConstructPops DEF promiseVars
          <5> QED
            BY <5>1 DEF PromiseTypeOK
        <4> QED
          BY <2>2, <4>1, <4>2
      <3>7. CASE Unwind(c)
        <4>1. UNCHANGED error /\ error[c] # "circular"
          BY <2>2, <3>7, UnwindPops
        <4>2. \A p \in Promise : status'[p] = "circular" => status[p] = "circular"
          <5>1. UNCHANGED status \/ status' = [status EXCEPT ![stack[c][1].id] = error[c]]
            BY <3>7, UnwindPops
          <5> QED
            BY <4>1, <5>1 DEF PromiseTypeOK
        <4> QED
          BY <2>2, <4>1, <4>2
      <3> QED
        BY <2>2, <3>1, <3>2, <3>3, <3>4, <3>5, <3>6, <3>7 DEF CallStep
    <2>3. ASSUME ~\E c \in Call : CallStep(c) PROVE Reported
      BY <2>3, OutsideMoves
    <2> QED
      BY <2>1, <2>2, <2>3
  <1> QED
    BY <1>1, <1>2, GraphMoves DEF CyclesSound

LEMMA InitGraph == Init => SettledSound /\ GraphInv
  <1> SUFFICES ASSUME Init PROVE SettledSound /\ GraphInv
    OBVIOUS
  <1>1. /\ \A c \in Call : Len(stack[c]) = 0 /\ error[c] = "none"
        /\ \A p \in Promise : /\ status[p] = "free" /\ uses[p] = {} /\ settledAt[p] = 0
                              /\ stale[p] = "no"
        /\ clock = 0 /\ \A t \in Token : cache[t] = None
    BY DEF Init
  <1>2. SettledSound
    BY <1>1 DEF SettledSound
  <1>3. PathsSound /\ OfferedSound /\ FreshSound /\ CyclesSound
    BY <1>1 DEF PathsSound, PathsOf, OfferedSound, FreshSound, CyclesSound
  <1> QED
    BY <1>2, <1>3 DEF GraphInv

ResolvingInv == ChainInv /\ PhaseSound /\ SharedInv /\ SettledSound /\ GraphInv

LEMMA NextResolving == ResolvingInv /\ [Next]_vars => ResolvingInv'
  <1> SUFFICES ASSUME ChainInv, PhaseSound, SharedInv, SettledSound, GraphInv, [Next]_vars
               PROVE  ResolvingInv'
    BY DEF ResolvingInv
  <1>1. ChainInv' /\ PhaseSound' /\ SharedInv' /\ SettledSound'
    BY NextChain, NextPhase, NextShared, NextSettled
  <1>2. PathsSound' /\ OfferedSound' /\ FreshSound' /\ CyclesSound'
    BY NextPaths, NextOffered, NextFresh, NextCycles DEF GraphInv
  <1> QED
    BY <1>1, <1>2 DEF ResolvingInv, GraphInv

LEMMA ResolvingAlways == Spec => []ResolvingInv
  <1>1. Init => ResolvingInv
    BY InitChain, InitShared, InitGraph DEF ResolvingInv
  <1> QED
    BY <1>1, NextResolving, PTL DEF Spec

\* What the cache offers was never built from an instance that an override has
\* replaced, even when the override came in the middle of its construction
\* (container.ts, invalidateAffectedCachedEntries()).
THEOREM NothingStaleOffered == Spec => []NoStaleDependency
  <1>1. ResolvingInv => NoStaleDependency
    BY DEF ResolvingInv, GraphInv, OfferedSound, Below, NoStaleDependency
  <1> QED
    BY ResolvingAlways, <1>1, PTL

\* A CircularDependencyError names a cycle that is registered, also when calls
\* that run concurrently have found it together (container.ts,
\* findPendingResolutionPath()).
THEOREM CyclesAreReal == Spec => []NoSpuriousCycle
  <1>1. ResolvingInv => NoSpuriousCycle
    BY DEF ResolvingInv, GraphInv, CyclesSound, NoSpuriousCycle, Needs
  <1> QED
    BY ResolvingAlways, <1>1, PTL

-----------------------------------------------------------------------------
(* Hooks                                                                   *)

\* What the hooks of an attempt are run for: complete instances that no
\* override has taken away and whose hook has not completed.
HooksSound ==
    /\ entries \cup queue \cup pending # {} => disposed
    /\ queue # {} => phase = "hooks"
    /\ queue \cap pending = {}
    /\ \A p \in materialized \cup queue \cup pending : status[p] = "ok"
    /\ \A p \in entries \cup queue \cup pending : stale[p] = "no"
    /\ \A p \in queue \cup pending : destroyed[p] = 0

\* Whether the hook of an instance has completed, by the state of its stale
\* task and, without one, by what the attempts have done.
DestroyedSound ==
    \A p \in Promise :
        /\ stale[p] = "clean" => destroyed[p] = 1
        /\ stale[p] \notin {"no", "clean"} => destroyed[p] = 0
        /\ stale[p] = "no" => destroyed[p] \in {0, 1}
        /\ stale[p] \in {"clean", "failed"} => status[p] = "ok" /\ p \notin materialized
        /\ stale[p] \in {"rejected", "released"} => status[p] \in Failed
        /\ stale[p] = "no" /\ destroyed[p] # 0 =>
              /\ disposed /\ status[p] = "ok"
              /\ p \in materialized => phase = "hooks"

\* The drain of an attempt leaves no task unsettled and no failure undelivered.
LedgerSound ==
    /\ phase = "draining" =>
          \A p \in Promise : stale[p] \in {"pending", "failed"} => p \in drained
    /\ phase \notin {"open", "draining"} =>
          \A p \in Promise : stale[p] # "pending" /\ (stale[p] = "failed" => p \in consumed)
    /\ phase = "done" => \A p \in Promise : stale[p] # "failed"

\* The first attempt has not reached its hooks.
Uncollected == attempts = 1 /\ phase \in {"draining", "retrying", "collecting"}

\* Hooks are retained by attempts that fail only.
AttemptSound ==
    /\ attempts = 0 <=> phase = "open"
    /\ phase = "open" \/ Uncollected => pending = {}
    /\ phase = "hooks" /\ pending # {} => faults
    /\ phase = "done" => pending = {}

\* Until dispose() the cache keeps every promise that has not failed, unless an
\* override has replaced it or a rejection has evicted it.
KeptSound ==
    ~disposed => \A p \in Promise \ evicted :
        status[p] \in {"pending", "ok"} /\ stale[p] = "no" =>
            tokenOf[p] \in Token /\ cache[tokenOf[p]] = p

\* Where the hook of every instance is that no override has replaced and that
\* dispose() found: still to be collected, collected, retained or completed.
CoveredSound ==
    \A p \in Promise \ (late \cup evicted) :
      status[p] \in {"pending", "ok"} /\ stale[p] = "no" =>
        /\ ~disposed \/ Uncollected => (status[p] = "ok" => p \in materialized)
        /\ Uncollected => p \in entries
        /\ disposed /\ ~Uncollected =>
              status[p] = "ok" /\ (destroyed[p] = 1 \/ p \in queue \cup pending)

DisposalInv ==
    /\ HooksSound /\ DestroyedSound /\ LedgerSound /\ AttemptSound /\ KeptSound
    /\ CoveredSound

\* What the steps of calls and registrations do to hooks and their promises.
Bystanding ==
    UNCHANGED <<status, materialized, destroyed, staleVars, disposeVars, late, evicted,
                overrides>>
Settling(w) ==
    /\ stale' = Release(w) /\ consumed' = consumed \cup Undelivered(w)
    /\ UNCHANGED <<status, materialized, destroyed, disposeVars, late, evicted, overrides>>
Starting(p) ==
    /\ status[p] = "free" /\ status' = [status EXCEPT ![p] = "pending"]
    /\ late' = (IF disposed THEN late \cup {p} ELSE late)
    /\ UNCHANGED <<materialized, destroyed, staleVars, disposeVars, evicted, overrides>>
Completing(p) ==
    /\ status[p] = "pending" /\ status' = [status EXCEPT ![p] = "ok"]
    /\ materialized' = materialized \cup {p}
    /\ UNCHANGED <<destroyed, staleVars, disposeVars, late, evicted, overrides>>
Rejecting(p, why) ==
    /\ status[p] = "pending" /\ status' = [status EXCEPT ![p] = why]
    /\ evicted \subseteq evicted'
    /\ UNCHANGED <<materialized, destroyed, staleVars, disposeVars, late, overrides>>

LEMMA DisposalMoves ==
    ASSUME ResolvingInv, [Next]_vars
    PROVE  \/ Bystanding
           \/ \E w \in SUBSET Promise : Settling(w)
           \/ \E p \in Promise : Starting(p) \/ Completing(p)
           \/ \E p \in Promise, why \in Failed : Rejecting(p, why)
           \/ \E p \in Promise : StaleStep(p)
           \/ \E t \in Token, d \in Replacements : Override(t, d)
           \/ Dispose \/ DisposeStep
  <1> USE DEF Bystanding
  <1>1. CASE UNCHANGED vars
    BY <1>1 DEF vars, promiseVars
  <1>2. CASE \E c \in Call, t \in Token : Resolve(c, t)
    BY <1>2 DEF Resolve, promiseVars
  <1>3. CASE \E t \in Token, d \in Replacements : Register(t, d)
    BY <1>3 DEF Register, promiseVars
  <1>4. ASSUME NEW c \in Call, CallStep(c)
        PROVE  \/ Bystanding
               \/ \E w \in SUBSET Promise : Settling(w)
               \/ \E p \in Promise : Starting(p) \/ Completing(p)
               \/ \E p \in Promise, why \in Failed : Rejecting(p, why)
    <2> USE DEF VisitUnchanged, promiseVars
    <2>1. CASE Settle(c)
      <3>1. waited[c] \in SUBSET Promise
        BY DEF ResolvingInv, ChainInv, TypeOK, CallTypeOK
      <3>2. Settling(waited[c])
        BY <2>1 DEF Settle, Settling
      <3> QED
        BY <3>1, <3>2
    <2>2. CASE Enter(c) \/ VisitActive(c) \/ VisitMissing(c) \/ VisitCached(c)
               \/ VisitPlain(c) \/ Wake(c) \/ Resume(c) \/ ConstructFails(c)
      BY <2>2 DEF Enter, VisitActive, VisitMissing, VisitCached, VisitPlain, Wake,
         Resume, ConstructFails
    <2>3. CASE VisitNew(c)
      BY <2>3, NewPushes DEF Starting, ResolvingInv
    <2>4. ASSUME Construct(c) \/ Unwind(c), stack[c][1].id # None
          PROVE  stack[c][1].id \in Promise /\ status[stack[c][1].id] = "pending"
      <3>1. stack[c] \in Seq(Frame) /\ stack[c] # <<>>
        BY <2>4, ConstructPops, UnwindPops DEF ResolvingInv, ChainInv, TypeOK, CallTypeOK
      <3>2. 1 \in 1 .. Len(stack[c])
        BY <3>1
      <3> QED
        BY <2>4, <3>2, FrameTypes DEF ResolvingInv, SharedInv, FramesSound
    <2>5. CASE Construct(c)
      <3>1. CASE stack[c][1].id = None
        BY <2>5, <3>1, ConstructPops DEF ResolvingInv
      <3>2. CASE stack[c][1].id # None
        <4>1. Completing(stack[c][1].id)
          BY <2>4, <2>5, <3>2, ConstructPops DEF Completing, ResolvingInv
        <4> QED
          BY <2>4, <2>5, <3>2, <4>1
      <3> QED
        BY <3>1, <3>2
    <2>6. CASE Unwind(c)
      <3>1. CASE stack[c][1].id = None
        BY <2>6, <3>1, UnwindPops DEF ResolvingInv
      <3>2. CASE stack[c][1].id # None
        <4>1. Rejecting(stack[c][1].id, error[c]) /\ error[c] \in Failed
          BY <2>4, <2>6, <3>2, UnwindPops DEF Rejecting, ResolvingInv
        <4> QED
          BY <2>4, <2>6, <3>2, <4>1
      <3> QED
        BY <3>1, <3>2
    <2> QED
      BY <1>4, <2>1, <2>2, <2>3, <2>5, <2>6 DEF CallStep
  <1> QED
    BY <1>1, <1>2, <1>3, <1>4 DEF Next

LEMMA HookTypes ==
    ASSUME ResolvingInv
    PROVE  /\ status \in [Promise -> {"free", "pending", "ok"} \cup Failed]
           /\ stale \in [Promise -> {"no", "pending", "clean", "failed", "rejected",
                                     "released"}]
           /\ destroyed \in [Promise -> Nat]
           /\ entries \subseteq Promise /\ queue \subseteq Promise /\ pending \subseteq Promise
           /\ retry \subseteq Promise /\ materialized \subseteq Promise
           /\ drained \subseteq Promise /\ consumed \subseteq Promise
           /\ attempts \in Nat /\ overrides \in Nat /\ disposed \in BOOLEAN
           /\ phase \in Active \cup {"open", "failed", "retained", "done"}
           /\ disposed <=> phase # "open"
           /\ \A p \in retry : stale[p] = "failed"
           /\ retry # {} => disposed
  BY DEF ResolvingInv, ChainInv, TypeOK, GraphTypeOK, PromiseTypeOK, DisposalTypeOK, PhaseSound

LEMMA NextHooks ==
    ASSUME ResolvingInv, HooksSound, DestroyedSound, [Next]_vars
    PROVE  HooksSound'
  <1> USE HookTypes DEF HooksSound, Failed, Active
  <1>1. CASE Bystanding
    BY <1>1 DEF Bystanding, disposeVars, staleVars
  <1>2. ASSUME NEW w \in SUBSET Promise, Settling(w) PROVE HooksSound'
    BY <1>2 DEF Settling, Release, disposeVars
  <1>3. ASSUME NEW p \in Promise, Starting(p) PROVE HooksSound'
    BY <1>3 DEF Starting, disposeVars, staleVars
  <1>4. ASSUME NEW p \in Promise, Completing(p) PROVE HooksSound'
    BY <1>4 DEF Completing, disposeVars, staleVars
  <1>5. ASSUME NEW p \in Promise, NEW why \in Failed, Rejecting(p, why) PROVE HooksSound'
    BY <1>5 DEF Rejecting, disposeVars, staleVars
  <1>6. ASSUME NEW p \in Promise, StaleReject(p) PROVE HooksSound'
    BY <1>6 DEF StaleReject, disposeVars, promiseVars
  <1>7. ASSUME NEW p \in Promise, NEW ok \in BOOLEAN, StaleHook(p, ok) PROVE HooksSound'
    BY <1>7 DEF StaleHook, disposeVars
  <1>8. ASSUME NEW t \in Token, NEW d \in Replacements, Override(t, d) PROVE HooksSound'
    <2>1. entries = {} /\ queue = {} /\ pending = {} /\ UNCHANGED <<disposeVars, promiseVars>>
      BY <1>8 DEF Override
    <2> QED
      BY <2>1 DEF disposeVars, promiseVars
  <1>9. CASE Dispose
    <2>1. \A p \in DisposalCacheEntries : p \in Promise /\ stale[p] = "no"
      BY DEF DisposalCacheEntries, ResolvingInv, GraphInv, OfferedSound, ChainInv, TypeOK,
         GraphTypeOK
    <2>2. /\ disposed' /\ entries' = DisposalCacheEntries /\ queue = {}
          /\ UNCHANGED <<promiseVars, staleVars, queue, pending, destroyed>>
      BY <1>9 DEF Dispose
    <2> QED
      BY <2>1, <2>2 DEF promiseVars, staleVars
  <1>10. CASE DisposeDrain
    BY <1>10 DEF DisposeDrain, promiseVars, Release
  <1>11. CASE DisposeCollect
    <2>1. \A p \in DisposalCandidates : /\ p \in pending \/ (p \in materialized /\ p \in entries)
                                        /\ status[p] = "ok" /\ stale[p] = "no"
                                        /\ destroyed[p] = 0
      BY <1>11 DEF DisposalCandidates, DisposeCollect, DestroyedSound
    <2>2. /\ queue' = DisposalCandidates /\ pending' = {} /\ phase' = "hooks" /\ disposed
          /\ UNCHANGED <<promiseVars, staleVars, disposed, entries, destroyed>>
      BY <1>11 DEF DisposeCollect
    <2> QED
      BY <2>1, <2>2 DEF promiseVars, staleVars
  <1>12. CASE DisposeFinish
    BY <1>12 DEF DisposeFinish, staleVars
  <1>13. ASSUME NEW p \in Promise, NEW ok \in BOOLEAN, DisposeRetry(p, ok) PROVE HooksSound'
    BY <1>13 DEF DisposeRetry, promiseVars
  <1>14. ASSUME NEW p \in Promise, NEW ok \in BOOLEAN, DisposeHook(p, ok) PROVE HooksSound'
    BY <1>14 DEF DisposeHook, RetainFailed, LastCreated, promiseVars, staleVars
  <1> QED
    BY <1>1, <1>2, <1>3, <1>4, <1>5, <1>6, <1>7, <1>8, <1>9, <1>10, <1>11, <1>12, <1>13,
       <1>14, DisposalMoves DEF StaleStep, DisposeStep

LEMMA NextDestroyed ==
    ASSUME ResolvingInv, HooksSound, DestroyedSound, [Next]_vars
    PROVE  DestroyedSound'
  <1> USE HookTypes DEF DestroyedSound, Failed, Active
  <1>1. CASE Bystanding
    BY <1>1 DEF Bystanding, disposeVars, staleVars
  <1>2. ASSUME NEW w \in SUBSET Promise, Settling(w) PROVE DestroyedSound'
    BY <1>2 DEF Settling, Release, disposeVars
  <1>3. ASSUME NEW p \in Promise, Starting(p) PROVE DestroyedSound'
    BY <1>3 DEF Starting, disposeVars, staleVars
  <1>4. ASSUME NEW p \in Promise, Completing(p) PROVE DestroyedSound'
    BY <1>4 DEF Completing, disposeVars, staleVars
  <1>5. ASSUME NEW p \in Promise, NEW why \in Failed, Rejecting(p, why) PROVE DestroyedSound'
    BY <1>5 DEF Rejecting, disposeVars, staleVars
  <1>6. ASSUME NEW p \in Promise, StaleReject(p) PROVE DestroyedSound'
    BY <1>6 DEF StaleReject, disposeVars, promiseVars
  <1>7. ASSUME NEW p \in Promise, NEW ok \in BOOLEAN, StaleHook(p, ok) PROVE DestroyedSound'
    BY <1>7 DEF StaleHook, disposeVars
  <1>8. ASSUME NEW t \in Token, NEW d \in Replacements, Override(t, d) PROVE DestroyedSound'
    <2>1. \A u \in Token : cache[u] # None => stale[cache[u]] = "no"
      BY DEF ResolvingInv, GraphInv, OfferedSound
    <2>2. ~disposed /\ UNCHANGED <<disposeVars, promiseVars, destroyed>>
      BY <1>8 DEF Override
    <2>3. \A p \in Promise : \/ stale'[p] = stale[p]
                             \/ stale[p] = "no" /\ stale'[p] = "pending"
      BY <1>8, <2>1 DEF Override, Affected
    <2> QED
      BY <2>2, <2>3 DEF disposeVars, promiseVars
  <1>9. CASE Dispose
    BY <1>9 DEF Dispose, promiseVars, staleVars
  <1>10. CASE DisposeDrain
    BY <1>10 DEF DisposeDrain, promiseVars, Release
  <1>11. CASE DisposeCollect
    BY <1>11 DEF DisposeCollect, promiseVars, staleVars
  <1>12. CASE DisposeFinish
    BY <1>12 DEF DisposeFinish, staleVars
  <1>13. ASSUME NEW p \in Promise, NEW ok \in BOOLEAN, DisposeRetry(p, ok)
         PROVE  DestroyedSound'
    BY <1>13 DEF DisposeRetry, promiseVars
  <1>14. ASSUME NEW p \in Promise, NEW ok \in BOOLEAN, DisposeHook(p, ok)
         PROVE  DestroyedSound'
    <2>1. /\ status[p] = "ok" /\ stale[p] = "no" /\ destroyed[p] = 0
          /\ phase = "hooks" /\ disposed
      BY <1>14 DEF DisposeHook, LastCreated, HooksSound
    <2>2. /\ destroyed' = [destroyed EXCEPT ![p] = IF ok THEN @ + 1 ELSE @]
          /\ UNCHANGED <<status, materialized, stale, phase, disposed>>
      BY <1>14 DEF DisposeHook, promiseVars, staleVars
    <2> QED
      BY <2>1, <2>2
  <1> QED
    BY <1>1, <1>2, <1>3, <1>4, <1>5, <1>6, <1>7, <1>8, <1>9, <1>10, <1>11, <1>12, <1>13,
       <1>14, DisposalMoves DEF StaleStep, DisposeStep

LEMMA NextLedger ==
    ASSUME ResolvingInv, LedgerSound, [Next]_vars
    PROVE  LedgerSound'
  <1> USE HookTypes DEF LedgerSound, Active, Retained, Ledger
  <1>1. CASE Bystanding
    BY <1>1 DEF Bystanding, disposeVars, staleVars
  <1>2. ASSUME NEW w \in SUBSET Promise, Settling(w) PROVE LedgerSound'
    BY <1>2 DEF Settling, Release, disposeVars
  <1>3. ASSUME UNCHANGED <<staleVars, disposeVars>> PROVE LedgerSound'
    BY <1>3 DEF disposeVars, staleVars
  <1>6. ASSUME NEW p \in Promise, StaleReject(p) PROVE LedgerSound'
    BY <1>6 DEF StaleReject, disposeVars, promiseVars
  <1>7. ASSUME NEW p \in Promise, NEW ok \in BOOLEAN, StaleHook(p, ok) PROVE LedgerSound'
    BY <1>7 DEF StaleHook, disposeVars
  <1>8. ASSUME NEW t \in Token, NEW d \in Replacements, Override(t, d) PROVE LedgerSound'
    BY <1>8 DEF Override, disposeVars
  <1>9. CASE Dispose
    BY <1>9 DEF Dispose, staleVars
  <1>10. CASE DisposeDrain
    BY <1>10 DEF DisposeDrain, Release, Settled, Undelivered
  <1>11. CASE DisposeCollect
    BY <1>11 DEF DisposeCollect, staleVars
  <1>12. CASE DisposeFinish
    BY <1>12 DEF DisposeFinish, staleVars
  <1>13. ASSUME NEW p \in Promise, NEW ok \in BOOLEAN, DisposeRetry(p, ok)
         PROVE  LedgerSound'
    BY <1>13 DEF DisposeRetry
  <1>14. ASSUME NEW p \in Promise, NEW ok \in BOOLEAN, DisposeHook(p, ok)
         PROVE  LedgerSound'
    BY <1>14 DEF DisposeHook, staleVars
  <1> QED
    BY <1>1, <1>2, <1>3, <1>6, <1>7, <1>8, <1>9, <1>10, <1>11, <1>12, <1>13,
       <1>14, DisposalMoves DEF StaleStep, DisposeStep, Starting, Completing, Rejecting

LEMMA NextAttempt ==
    ASSUME ResolvingInv, AttemptSound, [Next]_vars
    PROVE  AttemptSound'
  <1> USE HookTypes DEF AttemptSound, Uncollected, Active
  <1>1. CASE UNCHANGED disposeVars
    BY <1>1 DEF disposeVars
  <1>2. CASE Dispose
    BY <1>2 DEF Dispose
  <1>3. CASE DisposeDrain
    BY <1>3 DEF DisposeDrain
  <1>4. CASE DisposeCollect
    BY <1>4 DEF DisposeCollect
  <1>5. CASE DisposeFinish
    BY <1>5 DEF DisposeFinish
  <1>6. ASSUME NEW p \in Promise, NEW ok \in BOOLEAN, DisposeRetry(p, ok)
        PROVE  AttemptSound'
    BY <1>6 DEF DisposeRetry
  <1>7. ASSUME NEW p \in Promise, NEW ok \in BOOLEAN, DisposeHook(p, ok)
        PROVE  AttemptSound'
    BY <1>7 DEF DisposeHook, RetainFailed
  <1> QED
    BY <1>1, <1>2, <1>3, <1>4, <1>5, <1>6, <1>7, DisposalMoves
       DEF StaleStep, StaleReject, StaleHook, Override, DisposeStep, Bystanding, Settling,
           Starting, Completing, Rejecting

LEMMA NextKept ==
    ASSUME ResolvingInv, KeptSound, [Next]_vars
    PROVE  KeptSound'
  <1>0. ASSUME NEW p \in Promise, stale'[p] = "no" PROVE stale[p] = "no"
    BY <1>0, StaleMoves DEF ResolvingInv, Override
  <1> SUFFICES ASSUME ~disposed', NEW p \in Promise, p \notin evicted',
                      status'[p] \in {"pending", "ok"}, stale'[p] = "no", stale[p] = "no"
               PROVE  tokenOf'[p] \in Token /\ cache'[tokenOf'[p]] = p
    BY <1>0 DEF KeptSound
  <1> DEFINE Held == tokenOf'[p] \in Token /\ cache'[tokenOf'[p]] = p
  <1>1. CASE UNCHANGED <<status, tokenOf, cache, evicted, disposed>>
    BY <1>1 DEF KeptSound
  <1>2. CASE UNCHANGED vars
    BY <1>1, <1>2 DEF vars, promiseVars, disposeVars
  <1>3. CASE \E c \in Call, t \in Token : Resolve(c, t)
    BY <1>1, <1>3 DEF Resolve, promiseVars, disposeVars
  <1>4. ASSUME NEW c \in Call, CallStep(c) PROVE Held
    <2>0. ChainInv /\ UNCHANGED disposed
      BY <1>4, CallMoves DEF ResolvingInv, disposeVars
    <2>1. CASE Stays(c) \/ VisitPlain(c) \/ \E u \in SUBSET Promise : Hands(c, u)
      BY <1>1, <2>0, <2>1 DEF Stays, VisitPlain, Hands, promiseVars
    <2>2. CASE VisitNew(c)
      <3>1. PICK q \in Promise :
              /\ status[q] = "free" /\ cache[Target(c)] = None
              /\ status' = [status EXCEPT ![q] = "pending"]
              /\ tokenOf' = [tokenOf EXCEPT ![q] = Target(c)]
              /\ cache' = [cache EXCEPT ![Target(c)] = q] /\ UNCHANGED evicted
        BY <2>0, <2>2, NewPushes
      <3>2. Target(c) \in Token
        BY <2>0, <2>2, TargetType DEF VisitNew, VisitProvider
      <3>3. CASE p = q
        BY <2>0, <3>1, <3>2, <3>3 DEF ChainInv, TypeOK, GraphTypeOK, PromiseTypeOK
      <3>4. CASE p # q
        <4>1. status[p] = status'[p] /\ tokenOf'[p] = tokenOf[p]
          BY <2>0, <3>1, <3>4 DEF ChainInv, TypeOK, PromiseTypeOK
        <4>2. tokenOf[p] \in Token /\ cache[tokenOf[p]] = p /\ p # None
          BY <2>0, <3>1, <4>1 DEF KeptSound, Promise, None
        <4> QED
          BY <2>0, <3>1, <4>1, <4>2 DEF ChainInv, TypeOK, GraphTypeOK
      <3> QED
        BY <3>3, <3>4
    <2>3. CASE Construct(c)
      <3>1. status[p] \in {"pending", "ok"} /\ UNCHANGED <<tokenOf, cache, evicted>>
        <4> DEFINE f == stack[c][1]
        <4>1. /\ f.id = None => UNCHANGED promiseVars
              /\ f.id # None => status' = [status EXCEPT ![f.id] = "ok"]
              /\ UNCHANGED <<tokenOf, cache, evicted>>
          BY <2>0, <2>3, ConstructPops
        <4>2. stack[c] # <<>>
          BY <2>0, <2>3, ConstructPops
        <4>3. f.id # None => f.id \in Promise /\ status[f.id] = "pending"
          <5>1. 1 \in 1 .. Len(stack[c])
            BY <2>0, <4>2 DEF ChainInv, TypeOK, CallTypeOK
          <5> QED
            BY <2>0, <5>1, FrameTypes DEF ResolvingInv, SharedInv, FramesSound
        <4> HIDE DEF f
        <4> QED
          BY <2>0, <4>1, <4>3 DEF promiseVars, ChainInv, TypeOK, PromiseTypeOK
      <3> QED
        BY <2>0, <3>1 DEF KeptSound
    <2>4. CASE Unwind(c)
      <3> DEFINE f == stack[c][1]
      <3>1. /\ f \in Frame /\ error[c] \in Failed
            /\ f.id = None => UNCHANGED <<status, cache, evicted>>
            /\ f.id # None => /\ status' = [status EXCEPT ![f.id] = error[c]]
                              /\ cache' = [cache EXCEPT ![f.tok] = None]
                              /\ evicted' = evicted \cup Evicted(f)
            /\ UNCHANGED tokenOf
        BY <2>0, <2>4, UnwindPops
      <3> HIDE DEF f
      <3>2. CASE f.id = None
        BY <1>1, <2>0, <3>1, <3>2
      <3>3. CASE f.id # None
        <4>1. f.id \in Promise /\ f.tok \in Token
          BY <3>1, <3>3 DEF Frame
        <4>2. p # f.id
          BY <2>0, <3>1, <3>3, <4>1 DEF Failed, ChainInv, TypeOK, PromiseTypeOK
        <4>3. status[p] = status'[p] /\ p \notin evicted
          BY <2>0, <3>1, <3>3, <4>1, <4>2 DEF ChainInv, TypeOK, PromiseTypeOK
        <4>4. tokenOf[p] \in Token /\ cache[tokenOf[p]] = p /\ p # None
          BY <2>0, <4>3 DEF KeptSound, Promise, None
        <4>5. tokenOf[p] # f.tok
          BY <3>1, <3>3, <4>2, <4>4 DEF Evicted
        <4> QED
          BY <2>0, <3>1, <3>3, <4>1, <4>4, <4>5 DEF ChainInv, TypeOK, GraphTypeOK
      <3> QED
        BY <3>2, <3>3
    <2> QED
      BY <1>4, <2>0, <2>1, <2>2, <2>3, <2>4, CallMoves
  <1>5. CASE \E q \in Promise : StaleStep(q)
    BY <1>1, <1>5 DEF StaleStep, StaleReject, StaleHook, promiseVars, disposeVars
  <1>6. CASE \E t \in Token, d \in Replacements : Register(t, d)
    BY <1>1, <1>6 DEF Register, promiseVars, disposeVars
  <1>7. ASSUME NEW t \in Token, NEW d \in Replacements, Override(t, d) PROVE Held
    <2>1. UNCHANGED <<status, tokenOf, evicted, disposed>>
      BY <1>7 DEF Override, promiseVars, disposeVars
    <2>2. tokenOf[p] \in Token /\ cache[tokenOf[p]] = p
      BY <2>1 DEF KeptSound
    <2>3. tokenOf[p] \notin Affected(t)
      BY <1>7, <2>2 DEF Override
    <2> QED
      BY <1>7, <2>1, <2>2, <2>3 DEF Override
  <1>8. ~Dispose /\ ~DisposeStep
    BY HookTypes DEF Dispose, DisposeStep, DisposeDrain, DisposeCollect, DisposeFinish,
       DisposeRetry, DisposeHook
  <1> QED
    BY <1>2, <1>3, <1>4, <1>5, <1>6, <1>7, <1>8 DEF Next

LEMMA NextCovered ==
    ASSUME ResolvingInv, HooksSound, DestroyedSound, AttemptSound, KeptSound,
           CoveredSound, [Next]_vars
    PROVE  CoveredSound'
  <1> USE HookTypes DEF CoveredSound, Uncollected, Active, Failed
  <1>1. CASE Bystanding
    BY <1>1 DEF Bystanding, disposeVars, staleVars
  <1>2. ASSUME NEW w \in SUBSET Promise, Settling(w) PROVE CoveredSound'
    BY <1>2 DEF Settling, Release, disposeVars
  <1>3. ASSUME NEW p \in Promise, Starting(p) PROVE CoveredSound'
    BY <1>3 DEF Starting, disposeVars, staleVars
  <1>4. ASSUME NEW p \in Promise, Completing(p) PROVE CoveredSound'
    BY <1>4 DEF Completing, disposeVars, staleVars
  <1>5. ASSUME NEW p \in Promise, NEW why \in Failed, Rejecting(p, why) PROVE CoveredSound'
    BY <1>5 DEF Rejecting, disposeVars, staleVars
  <1>6. ASSUME NEW p \in Promise, StaleStep(p) PROVE CoveredSound'
    <2>1. \A q \in Promise : stale'[q] = "no" =>
             /\ stale[q] = "no" /\ destroyed'[q] = destroyed[q]
             /\ q \in materialized => q \in materialized'
      BY <1>6 DEF StaleStep, StaleReject, StaleHook, promiseVars
    <2>2. UNCHANGED <<status, disposeVars, late, evicted>>
      BY <1>6 DEF StaleStep, StaleReject, StaleHook, promiseVars
    <2> QED
      BY <2>1, <2>2 DEF disposeVars
  <1>8. ASSUME NEW t \in Token, NEW d \in Replacements, Override(t, d) PROVE CoveredSound'
    <2>1. ~disposed /\ UNCHANGED <<promiseVars, disposeVars, destroyed, late, evicted>>
      BY <1>8 DEF Override
    <2>2. \A p \in Promise : stale'[p] = "no" => stale[p] = "no"
      BY <1>8 DEF Override
    <2> QED
      BY <2>1, <2>2 DEF promiseVars, disposeVars
  <1>9. CASE Dispose
    <2>1. /\ phase \in {"open", "failed", "retained"} /\ attempts' = attempts + 1
          /\ disposed' /\ entries' = DisposalCacheEntries /\ phase' = "draining"
          /\ UNCHANGED <<status, materialized, queue, pending, destroyed, stale, late,
                         evicted>>
      BY <1>9 DEF Dispose, DisposeUnchanged, promiseVars, staleVars
    <2>2. CASE phase = "open"
      <3>1. attempts' = 1 /\ ~disposed
        BY <2>1, <2>2 DEF AttemptSound
      <3>2. \A p \in Promise \ evicted :
               status[p] \in {"pending", "ok"} /\ stale[p] = "no" =>
                   p \in DisposalCacheEntries
        <4>1. \A p \in Promise : p # None
          BY DEF Promise, None
        <4> QED
          BY <3>1, <4>1 DEF KeptSound, DisposalCacheEntries
      <3> QED
        BY <2>1, <3>1, <3>2
    <2>3. CASE phase # "open"
      <3>1. attempts' # 1 /\ disposed /\ attempts # 0
        BY <2>1, <2>3 DEF AttemptSound
      <3> QED
        BY <2>1, <3>1
    <2> QED
      BY <2>2, <2>3
  <1>10. CASE DisposeDrain
    BY <1>10 DEF DisposeDrain, DisposeUnchanged, Release, promiseVars
  <1>11. CASE DisposeCollect
    <2>1. /\ phase = "collecting" /\ \A p \in entries : status[p] # "pending"
          /\ queue' = DisposalCandidates /\ pending' = {} /\ phase' = "hooks"
          /\ UNCHANGED <<status, materialized, destroyed, stale, late, evicted, disposed,
                         attempts, entries>>
      BY <1>11 DEF DisposeCollect, DisposeUnchanged, promiseVars, staleVars
    <2>2. disposed /\ queue = {}
      BY <2>1 DEF HooksSound
    <2>3. CASE Uncollected
      <3>1. pending = {}
        BY <2>3 DEF AttemptSound
      <3> QED
        BY <2>1, <2>2, <2>3, <3>1 DEF DisposalCandidates
    <2>4. CASE ~Uncollected
      BY <2>1, <2>2, <2>4 DEF DisposalCandidates
    <2> QED
      BY <2>3, <2>4
  <1>12. CASE DisposeFinish
    BY <1>12 DEF DisposeFinish, DisposeUnchanged, staleVars
  <1>13. ASSUME NEW p \in Promise, NEW ok \in BOOLEAN, DisposeRetry(p, ok)
         PROVE  CoveredSound'
    <2>1. stale[p] = "failed" /\ phase = "retrying" /\ phase' \in {"collecting", "retrying"}
      BY <1>13 DEF DisposeRetry
    <2>2. \A q \in Promise : stale'[q] = "no" =>
             stale[q] = "no" /\ destroyed'[q] = destroyed[q]
      BY <1>13, <2>1 DEF DisposeRetry
    <2>3. UNCHANGED <<status, materialized, late, evicted, disposed, attempts, entries, queue,
                      pending>>
      BY <1>13 DEF DisposeRetry, DisposeUnchanged, promiseVars
    <2> QED
      BY <2>1, <2>2, <2>3
  <1>14. ASSUME NEW p \in Promise, NEW ok \in BOOLEAN, DisposeHook(p, ok)
         PROVE  CoveredSound'
    <2>1. /\ phase = "hooks" /\ disposed /\ destroyed[p] = 0 /\ queue' = queue \ {p}
          /\ destroyed' = [destroyed EXCEPT ![p] = IF ok THEN @ + 1 ELSE @]
          /\ pending' = (IF ok THEN pending ELSE pending \cup {p})
          /\ UNCHANGED <<status, materialized, stale, late, evicted, disposed, phase,
                         attempts, entries>>
      BY <1>14 DEF DisposeHook, DisposeUnchanged, RetainFailed, LastCreated, HooksSound,
         promiseVars, staleVars
    <2> QED
      BY <2>1
  <1> QED
    BY <1>1, <1>2, <1>3, <1>4, <1>5, <1>6, <1>8, <1>9, <1>10, <1>11, <1>12, <1>13,
       <1>14, DisposalMoves DEF DisposeStep

LEMMA InitDisposal == Init => DisposalInv
  BY DEF Init, DisposalInv, HooksSound, DestroyedSound, LedgerSound, AttemptSound,
     KeptSound, CoveredSound, Uncollected

LEMMA DisposalAlways == Spec => [](ResolvingInv /\ DisposalInv)
  <1>1. Init => ResolvingInv /\ DisposalInv
    BY InitChain, InitShared, InitGraph, InitDisposal DEF ResolvingInv
  <1>2. ResolvingInv /\ DisposalInv /\ [Next]_vars => (ResolvingInv /\ DisposalInv)'
    BY NextResolving, NextHooks, NextDestroyed, NextLedger, NextAttempt, NextKept,
       NextCovered DEF DisposalInv
  <1> QED
    BY <1>1, <1>2, PTL DEF Spec

\* An onDestroy() hook that completed never runs again, whatever the order of
\* stale tasks, failed attempts and retries (container.ts, scheduleStaleDisposal(),
\* disposeInstancesInReverseOrder(), retryFailedStaleDisposals()).
THEOREM DestroyedOnce == Spec => []DestroyOnce
  <1>1. ResolvingInv /\ DisposalInv => DestroyOnce
    <2> SUFFICES ASSUME ResolvingInv, DestroyedSound, NEW p \in Promise
                 PROVE  destroyed[p] <= 1
      BY DEF DisposalInv, DestroyOnce
    <2>1. destroyed[p] \in {0, 1}
      BY DEF DestroyedSound
    <2> QED
      BY <2>1
  <1> QED
    BY DisposalAlways, <1>1, PTL

\* An attempt that succeeds has destroyed every instance that existed, or was
\* under construction, when dispose() was called first, and every instance an
\* override has replaced, except a replacement that the rejection of the promise
\* it replaced has evicted (container.ts, disposeAll(), disposeWithOrigin(),
\* resolveScopedOrSingletonInstance()).
THEOREM DisposedCompletely == Spec => []DisposalComplete
  <1>1. ResolvingInv /\ DisposalInv => DisposalComplete
    <2> SUFFICES ASSUME ResolvingInv, DisposalInv, phase = "done",
                        NEW p \in Promise \ (late \cup evicted), status[p] = "ok"
                 PROVE  destroyed[p] = 1
      BY DEF DisposalComplete
    <2>1. disposed /\ ~Uncollected
      BY HookTypes DEF Uncollected
    <2>2. CASE stale[p] = "no"
      <3>1. queue = {} /\ pending = {}
        BY DEF DisposalInv, HooksSound, AttemptSound
      <3> QED
        BY <2>1, <2>2, <3>1 DEF DisposalInv, CoveredSound
    <2>3. CASE stale[p] # "no"
      BY <2>3, HookTypes DEF DisposalInv, LedgerSound, DestroyedSound, Failed
    <2> QED
      BY <2>2, <2>3
  <1> QED
    BY DisposalAlways, <1>1, PTL

\* dispose() runs the hook of an instance after those of the instances it was
\* injected into: the queue holds instances with the time they were completed,
\* which is later than that of what was injected into them (container.ts,
\* disposeInstancesInReverseOrder()).
THEOREM DependentsDestroyedFirst == Spec => DependentsFirst
  <1> DEFINE Ordered == \A p \in queue \ queue' : \A q \in queue' : p \notin uses[q]
  <1>1. ResolvingInv /\ DisposalInv /\ [Next]_vars => Ordered
    <2> SUFFICES ASSUME ResolvingInv, DisposalInv, [Next]_vars PROVE Ordered
      OBVIOUS
    <2>1. CASE UNCHANGED queue
      BY <2>1
    <2>2. CASE DisposeCollect
      BY <2>2 DEF DisposeCollect, DisposalInv, HooksSound
    <2>3. ASSUME NEW p \in Promise, NEW ok \in BOOLEAN, DisposeHook(p, ok) PROVE Ordered
      <3>1. /\ queue' = queue \ {p} /\ queue \subseteq Promise
            /\ \A q \in queue : settledAt[q] <= settledAt[p]
        BY <2>3, HookTypes DEF DisposeHook, LastCreated
      <3>2. ASSUME NEW q \in queue, p \in uses[q] PROVE FALSE
        <4>1. settledAt[p] < settledAt[q] /\ settledAt[q] <= settledAt[p]
          BY <3>1, <3>2 DEF ResolvingInv, SettledSound
        <4>2. settledAt[p] \in Nat /\ settledAt[q] \in Nat
          BY <3>1 DEF ResolvingInv, ChainInv, TypeOK, PromiseTypeOK
        <4> QED
          BY <4>1, <4>2
      <3> QED
        BY <3>1, <3>2
    <2> QED
      BY <2>1, <2>2, <2>3, DisposalMoves
         DEF StaleStep, StaleReject, StaleHook, Override, Dispose, DisposeStep,
             DisposeDrain, DisposeFinish, DisposeRetry, Bystanding, Settling, Starting,
             Completing, Rejecting, disposeVars
  <1>2. ResolvingInv /\ DisposalInv /\ [Next]_vars => [Ordered]_vars
    BY <1>1
  <1> QED
    BY DisposalAlways, <1>2, PTL DEF Spec, DependentsFirst
=============================================================================
