----------------------------- MODULE PlatformProofs -----------------------------
(***************************************************************************)
(* Proofs about PlatformShell, for every component graph with a dependency *)
(* order and any number of concurrent callers, and about PlatformOrder,    *)
(* for every finite list of registrations.                                 *)
(***************************************************************************)
EXTENDS Platform, TLAPS

-----------------------------------------------------------------------------
(* Sequences of components                                                 *)

\* Before is irreflexive, and no component precedes one it depends on.
LEMMA BeforeFacts ==
    ASSUME NEW x \in Component, NEW y \in Component
    PROVE  /\ ~Before(x, x)
           /\ y \in DependsOn[x] => ~Before(x, y)
           /\ Before(x, y) => x # y
<1>1. ASSUME NEW z \in Component, NEW w \in Component, Before(z, w) PROVE z # w
  <2>1. PICK p \in 1 .. Len(Order), q \in 1 .. Len(Order) :
            p < q /\ Order[p] = z /\ Order[q] = w
    BY <1>1 DEF Before
  <2>2. p # q
    BY <2>1, OrderAssumption
  <2> QED
    BY <2>1, <2>2, OrderAssumption
<1>2. ASSUME y \in DependsOn[x], Before(x, y) PROVE FALSE
  <2>1. PICK p \in 1 .. Len(Order), q \in 1 .. Len(Order) :
            p < q /\ Order[p] = x /\ Order[q] = y
    BY <1>2 DEF Before
  <2>2. q < p
    BY <1>2, <2>1, OrderAssumption
  <2> QED
    BY <2>1, <2>2, OrderAssumption
<1> QED
  BY <1>1, <1>2

\* The elements of the empty list.
LEMMA ElementsEmpty == Elements(<<>>) = {} /\ Sorted(<<>>)
  BY DEF Elements, Sorted

\* Taking the last component off a list of distinct ones.
LEMMA ElementsFront ==
    ASSUME NEW s \in Seq(Component), s # <<>>, Sorted(s)
    PROVE  LET f == SubSeq(s, 1, Len(s) - 1) IN
           /\ f \in Seq(Component) /\ Sorted(f)
           /\ s[Len(s)] \in Component
           /\ Elements(s) = Elements(f) \cup {s[Len(s)]}
           /\ \A x \in Elements(f) : x \in Component /\ Before(x, s[Len(s)])
           /\ Len(f) = Len(s) - 1
<1> DEFINE f == SubSeq(s, 1, Len(s) - 1)
<1>1. Len(s) \in Nat \ {0} /\ s[Len(s)] \in Component
  OBVIOUS
<1>2. ASSUME NEW k \in 0 .. Len(s)
      PROVE  /\ SubSeq(s, 1, k) \in Seq(Component) /\ Len(SubSeq(s, 1, k)) = k
             /\ \A i \in 1 .. k : SubSeq(s, 1, k)[i] = s[i]
  OBVIOUS
<1>0. Len(s) - 1 \in 0 .. Len(s)
  BY <1>1
<1>a. f \in Seq(Component) /\ Len(f) = Len(s) - 1
  BY <1>0, <1>2
<1>3. \A i \in 1 .. Len(s) - 1 : f[i] = s[i]
  BY <1>0, <1>2
<1>4. Sorted(f)
  BY <1>1, <1>a, <1>3 DEF Sorted
<1>5. \A i \in 1 .. Len(s) : i = Len(s) \/ i \in 1 .. Len(s) - 1
  BY <1>1
<1>6. Elements(s) = Elements(f) \cup {s[Len(s)]}
  BY <1>1, <1>a, <1>3, <1>5 DEF Elements
<1>7. \A x \in Elements(f) : x \in Component /\ Before(x, s[Len(s)])
  BY <1>1, <1>a, <1>3 DEF Elements, Sorted
<1> HIDE DEF f
<1> QED
  BY <1>1, <1>a, <1>4, <1>6, <1>7 DEF f

\* Putting a component in front of a list that it precedes.
LEMMA ElementsCons ==
    ASSUME NEW x \in Component, NEW s \in Seq(Component), Sorted(s),
           \A y \in Elements(s) : Before(x, y)
    PROVE  /\ <<x>> \o s \in Seq(Component) /\ Sorted(<<x>> \o s)
           /\ Elements(<<x>> \o s) = {x} \cup Elements(s)
           /\ <<x>> \o s # <<>>
<1> DEFINE t == <<x>> \o s
<1>1. t \in Seq(Component) /\ Len(t) = Len(s) + 1 /\ Len(s) \in Nat
  OBVIOUS
<1>2. t[1] = x /\ \A i \in 1 .. Len(s) : t[i + 1] = s[i]
  OBVIOUS
<1>3. \A k \in 1 .. Len(t) : k = 1 \/ (k - 1 \in 1 .. Len(s) /\ t[k] = s[k - 1])
  BY <1>1, <1>2
<1>4. t # <<>>
  BY <1>1
<1> HIDE DEF t
<1>5. Elements(t) = {x} \cup Elements(s)
  <2>1. ASSUME NEW k \in 1 .. Len(t) PROVE t[k] \in {x} \cup Elements(s)
    BY <1>2, <1>3 DEF Elements
  <2>2. ASSUME NEW i \in 1 .. Len(s) PROVE s[i] \in Elements(t)
    <3>1. i + 1 \in 1 .. Len(t) /\ t[i + 1] = s[i]
      BY <1>1, <1>2
    <3> QED
      BY <3>1 DEF Elements
  <2>3. x \in Elements(t)
    BY <1>1, <1>2 DEF Elements
  <2> QED
    BY <2>1, <2>2, <2>3 DEF Elements
<1>6. Sorted(t)
  <2> SUFFICES ASSUME NEW i \in 1 .. Len(t), NEW j \in 1 .. Len(t), i < j
               PROVE  Before(t[i], t[j])
    BY DEF Sorted
  <2>1. j - 1 \in 1 .. Len(s) /\ t[j] = s[j - 1]
    BY <1>1, <1>3
  <2>2. CASE i = 1
    BY <1>2, <2>1, <2>2 DEF Elements
  <2>3. CASE i # 1
    <3>1. i - 1 \in 1 .. Len(s) /\ t[i] = s[i - 1] /\ i - 1 < j - 1
      BY <1>1, <1>3, <2>3
    <3> QED
      BY <2>1, <3>1 DEF Sorted
  <2> QED
    BY <2>2, <2>3
<1> QED
  BY <1>1, <1>4, <1>5, <1>6 DEF t

\* A prefix of the dependency order.
LEMMA Prefix ==
    ASSUME NEW k \in 0 .. Len(Order)
    PROVE  /\ SubSeq(Order, 1, k) \in Seq(Component) /\ Sorted(SubSeq(Order, 1, k))
           /\ Elements(SubSeq(Order, 1, k)) = {Order[i] : i \in 1 .. k}
           /\ k > 0 => SubSeq(Order, 1, k) # <<>>
<1> DEFINE f == SubSeq(Order, 1, k)
<1>1. Order \in Seq(Component) /\ Len(Order) \in Nat
  BY OrderAssumption
<1>2. f \in Seq(Component) /\ Len(f) = k /\ \A i \in 1 .. k : f[i] = Order[i]
  BY <1>1
<1> HIDE DEF f
<1>3. Sorted(f)
  BY <1>1, <1>2 DEF Sorted, Before
<1>4. Elements(f) = {Order[i] : i \in 1 .. k}
  BY <1>2 DEF Elements
<1>5. k > 0 => f # <<>>
  BY <1>2
<1> QED
  BY <1>2, <1>3, <1>4, <1>5 DEF f

\* The whole order.
LEMMA Whole == Sorted(Order) /\ Elements(Order) = Component
  BY SMTT(30), OrderAssumption DEF Sorted, Elements, Before

-----------------------------------------------------------------------------
(* Invariance                                                              *)

\* While a call owns the shell every other call is idle; while none does, all are.
LEMMA Exclusive ==
    ASSUME OneOwner, TypeOK, NEW c \in Call
    PROVE  /\ pc[c] # "idle" => active = {c} /\ \A d \in Call : d # c => pc[d] = "idle"
           /\ active = {} => \A d \in Call : pc[d] = "idle"
  BY DEF OneOwner, TypeOK

\* A step of the call that holds the shell keeps OneOwner.
LEMMA OwnerStep ==
    ASSUME ShellInv, [Next]_vars
    PROVE  OneOwner'
<1> USE DEF ShellInv, GoTo, localVars
<1>1. ASSUME NEW c \in Call, Start(c) \/ Stop(c) PROVE OneOwner'
  <2>1. active' = {c} /\ \A d \in Call : pc[d] = "idle"
    BY <1>1, Exclusive DEF Start, Stop, Admitted
  <2>2. \E w \in {"settled", "validate", "stop"} : pc' = [pc EXCEPT ![c] = w]
    BY <1>1 DEF Start, Stop, StopLeftovers, BeginStop
  <2> QED
    BY <2>1, <2>2 DEF OneOwner, TypeOK
<1>2. ASSUME NEW c \in Call, Clear(c) PROVE OneOwner'
  <2>1. active = {c} /\ \A d \in Call : d # c => pc[d] = "idle"
    BY <1>2, Exclusive DEF Clear, Cleared
  <2> QED
    BY <1>2, <2>1 DEF Clear, Cleared, OneOwner, TypeOK
<1>3. ASSUME NEW c \in Call, pc[c] # "idle", active' = active,
             \/ pc' = pc
             \/ \E w \in {"settled", "validate", "start", "stop"} : pc' = [pc EXCEPT ![c] = w]
      PROVE  OneOwner'
  BY <1>3 DEF OneOwner, TypeOK
<1>4. ASSUME NEW c \in Call, NEW ok \in BOOLEAN, Validated(c, ok) PROVE OneOwner'
  BY <1>4, <1>3 DEF Validated
<1>5. ASSUME NEW c \in Call, NEW ok \in BOOLEAN, ComponentStops(c, ok) PROVE OneOwner'
  BY <1>5, <1>3 DEF ComponentStops
<1>6. ASSUME NEW c \in Call, ComponentStarts(c) PROVE OneOwner'
  BY <1>6, <1>3 DEF ComponentStarts
<1>7. ASSUME NEW c \in Call, ComponentStartFails(c) PROVE OneOwner'
  BY <1>7, <1>3 DEF ComponentStartFails, RollBack, BeginStop
<1>8. CASE UNCHANGED vars
  BY <1>8 DEF vars, OneOwner
<1> QED
  BY <1>1, <1>2, <1>4, <1>5, <1>6, <1>7, <1>8 DEF Next, Step

\* The lists a stop pass begins with.
LEMMA BeginStopStep ==
    ASSUME ShellInv, OneOwner', NEW c \in Call, NEW list \in Seq(Component),
           NEW next \in {"start", "return"}, BeginStop(c, list, next),
           \A d \in Call : d # c => pc[d] = "idle",
           Order # <<>>, list # <<>>, Sorted(list), running = Elements(list),
           UNCHANGED <<pending, running, ordered, n>>, started' = FALSE,
           active' \subseteq Call
    PROVE  ShellInv'
<1>1. /\ pc'[c] = "stop" /\ todo'[c] = list /\ kept'[c] = <<>>
      /\ \A d \in Call : d # c => pc'[d] = "idle"
  BY DEF BeginStop, GoTo, ShellInv, TypeOK
<1>2. TypeOK'
  <2>1. /\ pc' \in [Call -> {"idle", "validate", "start", "stop", "settled"}]
        /\ n' \in [Call -> Nat]
        /\ todo' \in [Call -> Seq(Component)] /\ kept' \in [Call -> Seq(Component)]
        /\ then' \in [Call -> {"start", "return"}]
    BY DEF BeginStop, GoTo, ShellInv, TypeOK
  <2>2. \A d \in Call : pc'[d] = "start" => n'[d] < Len(Order)
    BY <1>1
  <2>3. \A d \in Call : pc'[d] = "stop" => todo'[d] # <<>>
    BY <1>1
  <2> QED
    BY <2>1, <2>2, <2>3 DEF ShellInv, TypeOK
<1>3. FieldsOK'
  BY <1>1 DEF ShellInv, FieldsOK, Balanced, Sorted
<1>4. TransitionOK'
  BY <1>1, ElementsEmpty DEF TransitionOK
<1> QED
  BY <1>2, <1>3, <1>4 DEF ShellInv

\* A transition that settles, or goes on to validate(), with the books balanced.
LEMMA RestStep ==
    ASSUME ShellInv, OneOwner', NEW c \in Call, NEW w \in {"settled", "validate", "idle"},
           pc' = [pc EXCEPT ![c] = w],
           \A d \in Call : d # c => pc[d] = "idle",
           w = "validate" => ~started' /\ pending' = <<>> /\ Order # <<>>,
           Balanced', pending' \in Seq(Component), Sorted(pending'), running' \subseteq Component,
           started' => Order # <<>> /\ ordered' = Order /\ pending' = <<>>,
           active' \subseteq Call, started' \in BOOLEAN, ordered' \in Seq(Component),
           n' \in [Call -> Nat], todo' \in [Call -> Seq(Component)],
           kept' \in [Call -> Seq(Component)], then' \in [Call -> {"start", "return"}]
    PROVE  ShellInv'
<1>1. pc'[c] = w /\ \A d \in Call : d # c => pc'[d] = "idle"
  BY DEF ShellInv, TypeOK
<1>2. TypeOK'
  <2>1. pc' \in [Call -> {"idle", "validate", "start", "stop", "settled"}]
    BY DEF ShellInv, TypeOK
  <2> QED
    BY <1>1, <2>1 DEF TypeOK
<1>3. FieldsOK'
  BY DEF FieldsOK
<1>4. TransitionOK'
  BY <1>1, ElementsEmpty DEF TransitionOK, Balanced
<1> QED
  BY <1>2, <1>3, <1>4 DEF ShellInv

\* start() and stop(), past the exclusivity check.
LEMMA AdmittedStep ==
    ASSUME ShellInv, OneOwner', NEW c \in Call, Start(c) \/ Stop(c)
    PROVE  ShellInv'
<1>1. active' = {c} /\ \A d \in Call : pc[d] = "idle"
  BY Exclusive DEF ShellInv, Start, Stop, Admitted
<1>2. Balanced /\ pending \in Seq(Component) /\ Sorted(pending)
  BY <1>1 DEF ShellInv, FieldsOK, TypeOK
<1>n. pending # <<>> => Order # <<>>
  <2> SUFFICES ASSUME pending # <<>> PROVE Order # <<>>
    OBVIOUS
  <2>1. pending[1] \in Component
    BY <1>2
  <2> QED
    BY <2>1, OrderAssumption
<1>3. ASSUME GoTo(c, "settled"),
             UNCHANGED <<started, ordered, pending, running, n, todo, kept, then>>
      PROVE  ShellInv'
  BY <1>1, <1>2, <1>3, RestStep DEF GoTo, ShellInv, TypeOK, FieldsOK, Balanced, Sorted
<1>4. ASSUME Start(c) PROVE ShellInv'
  <2>1. CASE Order = <<>> \/ started
    BY <1>4, <1>3, <2>1 DEF Start
  <2>2. CASE ~(Order = <<>> \/ started) /\ pending # <<>>
    <3>1. BeginStop(c, pending, "start")
      BY <1>4, <2>2 DEF Start, StopLeftovers
    <3>2. running = Elements(pending) /\ started' = FALSE
      BY <1>2, <1>4, <2>2 DEF Balanced, Start
    <3> QED
      BY <1>1, <1>2, <1>4, <2>2, <3>1, <3>2, BeginStopStep DEF Start, ShellInv, TypeOK
  <2>3. CASE ~(Order = <<>> \/ started) /\ pending = <<>>
    <3>1. pc' = [pc EXCEPT ![c] = "validate"]
          /\ UNCHANGED <<started, ordered, pending, running, n, todo, kept, then>>
      BY <1>4, <2>3 DEF Start, StopLeftovers, GoTo
    <3>2. Balanced' /\ Sorted(pending')
      BY <1>2, <3>1 DEF Balanced, Sorted
    <3> QED
      BY <1>1, <1>2, <2>3, <3>1, <3>2, RestStep DEF ShellInv, TypeOK
  <2> QED
    BY <2>1, <2>2, <2>3
<1>5. ASSUME Stop(c) PROVE ShellInv'
  <2>1. CASE ~started /\ pending = <<>>
    BY <1>5, <1>3, <2>1 DEF Stop
  <2>2. CASE started \/ pending # <<>>
    <3>1. BeginStop(c, ToStop, "return") /\ started' = FALSE
      BY <1>5, <2>2 DEF Stop
    <3>2. CASE pending # <<>>
      <4>1. ToStop = pending /\ running = Elements(pending)
        BY <1>2, <3>2 DEF ToStop, Balanced, ShellInv, FieldsOK
      <4> QED
        BY <1>1, <1>2, <1>n, <1>5, <3>1, <3>2, <4>1, BeginStopStep
           DEF Stop, ShellInv, TypeOK
    <3>3. CASE pending = <<>>
      <4>1. ToStop = Order /\ running = Component /\ Order # <<>>
        BY <1>2, <2>2, <3>3 DEF ToStop, Balanced, ShellInv, FieldsOK
      <4> QED
        BY ZenonT(40), <1>1, <1>5, <3>1, <4>1, Whole, OrderAssumption, BeginStopStep
           DEF Stop, ShellInv, TypeOK
    <3> QED
      BY <3>2, <3>3
  <2> QED
    BY <2>1, <2>2 DEF ShellInv, TypeOK
<1> QED
  BY <1>4, <1>5

\* The transition gives the shell back.
LEMMA ClearStep ==
    ASSUME ShellInv, OneOwner', NEW c \in Call, Clear(c)
    PROVE  ShellInv'
<1>1. /\ \A d \in Call : d # c => pc[d] = "idle"
      /\ active = {c} /\ pc[c] = "settled"
  BY Exclusive DEF ShellInv, Clear, Cleared
<1>2. Balanced
  BY <1>1 DEF ShellInv, FieldsOK
<1>3. Balanced' /\ Sorted(pending') /\ UNCHANGED <<started, ordered, pending, running>>
  BY <1>2 DEF Clear, Cleared, Balanced, ShellInv, FieldsOK, Sorted
<1>4. /\ n' \in [Call -> Nat] /\ todo' \in [Call -> Seq(Component)]
      /\ kept' \in [Call -> Seq(Component)] /\ then' \in [Call -> {"start", "return"}]
      /\ active' \subseteq Call /\ pc' = [pc EXCEPT ![c] = "idle"]
  BY DEF Clear, Cleared, GoTo, ShellInv, TypeOK
<1> QED
  BY <1>1, <1>3, <1>4, RestStep DEF ShellInv, TypeOK, FieldsOK

\* validate() of every component has settled.
LEMMA ValidatedStep ==
    ASSUME ShellInv, OneOwner', NEW c \in Call, NEW ok \in BOOLEAN, Validated(c, ok)
    PROVE  ShellInv'
<1>1. /\ \A d \in Call : d # c => pc[d] = "idle"
      /\ pc[c] = "validate" /\ active' = active
  BY Exclusive DEF ShellInv, Validated
<1>2. ~started /\ pending = <<>> /\ running = {} /\ Order # <<>>
  BY <1>1 DEF ShellInv, TransitionOK
<1>3. CASE ~ok
  <2>1. pc' = [pc EXCEPT ![c] = "settled"]
        /\ UNCHANGED <<started, ordered, pending, running, n, todo, kept, then>>
    BY <1>3 DEF Validated, GoTo
  <2>2. Balanced' /\ Sorted(pending')
    BY <1>2, <2>1, ElementsEmpty DEF Balanced
  <2> QED
    BY <1>1, <1>2, <2>1, <2>2, RestStep DEF ShellInv, TypeOK
<1>4. CASE ok
  <2>1. /\ pc' = [pc EXCEPT ![c] = "start"] /\ n' = [n EXCEPT ![c] = 0] /\ ordered' = Order
        /\ UNCHANGED <<started, pending, active, running, todo, kept, then>>
    BY <1>4 DEF Validated, GoTo
  <2>2. pc'[c] = "start" /\ n'[c] = 0 /\ \A d \in Call : d # c => pc'[d] = "idle"
    BY <1>1, <2>1 DEF ShellInv, TypeOK
  <2>3. 0 < Len(Order) /\ Order \in Seq(Component)
    BY <1>2, OrderAssumption
  <2>4. TypeOK'
    <3>1. /\ pc' \in [Call -> {"idle", "validate", "start", "stop", "settled"}]
          /\ n' \in [Call -> Nat]
      BY <2>1 DEF ShellInv, TypeOK
    <3>2. /\ \A d \in Call : pc'[d] = "start" => n'[d] < Len(Order)
          /\ \A d \in Call : pc'[d] = "stop" => todo'[d] # <<>>
      BY <2>2, <2>3
    <3> QED
      BY <2>1, <2>3, <3>1, <3>2 DEF ShellInv, TypeOK
  <2>5. FieldsOK'
    BY <1>2, <2>1, <2>2, ElementsEmpty DEF FieldsOK
  <2>6. Elements(SubSeq(Order, 1, 0)) = {}
    BY <2>3, Prefix
  <2>7. TransitionOK'
    BY <1>2, <2>1, <2>2, <2>6 DEF TransitionOK
  <2> QED
    BY <2>4, <2>5, <2>7 DEF ShellInv
<1> QED
  BY <1>3, <1>4

\* One more component, or the last one, has started.
LEMMA StartsStep ==
    ASSUME ShellInv, OneOwner', NEW c \in Call, ComponentStarts(c)
    PROVE  ShellInv'
<1>1. /\ \A d \in Call : d # c => pc[d] = "idle"
      /\ pc[c] = "start" /\ active' = active
  BY Exclusive DEF ShellInv, ComponentStarts
<1>2. /\ ~started /\ pending = <<>> /\ ordered = Order
      /\ running = Elements(SubSeq(Order, 1, n[c]))
      /\ n[c] \in Nat /\ n[c] < Len(Order) /\ Order \in Seq(Component)
  BY <1>1, OrderAssumption DEF ShellInv, TransitionOK, TypeOK
<1>3. /\ n'[c] = n[c] + 1 /\ n' \in [Call -> Nat]
      /\ UNCHANGED <<ordered, active, todo, kept, then>>
      /\ running' = running \cup {Order[n[c] + 1]}
  BY <1>2 DEF ComponentStarts, ShellInv, TypeOK
<1>4. running' = Elements(SubSeq(Order, 1, n[c] + 1))
  <2>1. n[c] \in 0 .. Len(Order) /\ n[c] + 1 \in 0 .. Len(Order)
    BY <1>2
  <2>2. {Order[i] : i \in 1 .. n[c] + 1} = {Order[i] : i \in 1 .. n[c]} \cup {Order[n[c] + 1]}
    BY <1>2
  <2> QED
    BY <1>2, <1>3, <2>1, <2>2, Prefix
<1>5. running' \subseteq Component
  BY <1>2, <1>3 DEF ShellInv, TypeOK
<1>6. CASE IsLast(c)
  <2>1. pc' = [pc EXCEPT ![c] = "settled"] /\ started' = TRUE /\ pending' = <<>>
    BY <1>6 DEF ComponentStarts, GoTo
  <2>2. SubSeq(Order, 1, Len(Order)) = Order /\ n[c] + 1 = Len(Order) /\ Order # <<>>
    BY <1>2, <1>6 DEF IsLast
  <2>3. Balanced' /\ Sorted(pending')
    BY <1>4, <2>1, <2>2, Whole, ElementsEmpty DEF Balanced
  <2> QED
    BY <1>1, <1>2, <1>3, <1>5, <2>1, <2>2, <2>3, RestStep DEF ShellInv, TypeOK
<1>7. CASE ~IsLast(c)
  <2>1. UNCHANGED <<pc, started, pending>>
    BY <1>7 DEF ComponentStarts
  <2>2. n'[c] < Len(Order)
    BY <1>2, <1>3, <1>7 DEF IsLast
  <2>3. TypeOK'
    <3>1. /\ \A d \in Call : pc'[d] = "start" => n'[d] < Len(Order)
          /\ \A d \in Call : pc'[d] = "stop" => todo'[d] # <<>>
      BY <1>1, <2>1, <2>2
    <3> QED
      BY <1>3, <1>5, <2>1, <3>1 DEF ShellInv, TypeOK
  <2>4. FieldsOK'
    BY <1>1, <1>2, <2>1, ElementsEmpty DEF FieldsOK
  <2>5. TransitionOK'
    BY <1>1, <1>2, <1>3, <1>4, <2>1 DEF TransitionOK
  <2> QED
    BY <2>3, <2>4, <2>5 DEF ShellInv
<1> QED
  BY <1>6, <1>7

\* A start() has failed: the rollback begins with what did start.
LEMMA StartFailsStep ==
    ASSUME ShellInv, OneOwner', NEW c \in Call, ComponentStartFails(c)
    PROVE  ShellInv'
<1>1. /\ \A d \in Call : d # c => pc[d] = "idle"
      /\ pc[c] = "start" /\ UNCHANGED <<started, ordered, active, running, n>>
  BY Exclusive DEF ShellInv, ComponentStartFails
<1>2. /\ ~started /\ pending = <<>> /\ running = Elements(SubSeq(Order, 1, n[c]))
      /\ n[c] \in 0 .. Len(Order) /\ n[c] < Len(Order) /\ Order \in Seq(Component)
  BY <1>1, OrderAssumption DEF ShellInv, TransitionOK, TypeOK
<1>3. CASE n[c] = 0
  <2>1. /\ pc' = [pc EXCEPT ![c] = "settled"] /\ pending' = <<>>
        /\ UNCHANGED <<todo, kept, then>>
    BY <1>3 DEF ComponentStartFails, RollBack, GoTo
  <2>2. running = {}
    BY <1>2, <1>3, Prefix
  <2>3. Balanced' /\ Sorted(pending')
    BY <1>1, <1>2, <2>1, <2>2, ElementsEmpty DEF Balanced
  <2> QED
    BY <1>1, <1>2, <2>1, <2>3, RestStep DEF ShellInv, TypeOK
<1>4. CASE n[c] # 0
  <2>1. BeginStop(c, SubSeq(Order, 1, n[c]), "return") /\ UNCHANGED pending
    BY <1>4 DEF ComponentStartFails, RollBack
  <2>2. /\ SubSeq(Order, 1, n[c]) \in Seq(Component) /\ Sorted(SubSeq(Order, 1, n[c]))
        /\ SubSeq(Order, 1, n[c]) # <<>> /\ Order # <<>>
    BY <1>2, <1>4, Prefix
  <2> QED
    BY <1>1, <1>2, <2>1, <2>2, BeginStopStep DEF ShellInv, TypeOK
<1> QED
  BY <1>3, <1>4

\* A stop() has settled.
LEMMA StopsStep ==
    ASSUME ShellInv, OneOwner', NEW c \in Call, NEW ok \in BOOLEAN, ComponentStops(c, ok)
    PROVE  ShellInv'
<1> DEFINE front == SubSeq(todo[c], 1, Len(todo[c]) - 1)
           x == Stopping(c)
           keep == AfterStop(c, ok)
<1>1. /\ \A d \in Call : d # c => pc[d] = "idle"
      /\ pc[c] = "stop" /\ UNCHANGED <<started, ordered, active, n, then>>
  BY Exclusive DEF ShellInv, ComponentStops
<1>2. /\ ~started /\ running = Elements(todo[c]) \cup Elements(kept[c])
      /\ Sorted(todo[c]) /\ Sorted(kept[c]) /\ todo[c] # <<>> /\ Order # <<>>
      /\ \A y \in Elements(todo[c]), z \in Elements(kept[c]) : Before(y, z)
      /\ todo[c] \in Seq(Component) /\ kept[c] \in Seq(Component)
  BY <1>1 DEF ShellInv, TransitionOK, TypeOK
<1>3. /\ front \in Seq(Component) /\ Sorted(front) /\ x \in Component
      /\ Elements(todo[c]) = Elements(front) \cup {x}
      /\ \A y \in Elements(front) : y \in Component /\ Before(y, x)
      /\ Len(front) = Len(todo[c]) - 1
  BY <1>2, ElementsFront DEF Stopping
<1>k. \A y \in Elements(kept[c]) : y \in Component
  BY <1>2 DEF Elements
<1>4. /\ keep \in Seq(Component) /\ Sorted(keep)
      /\ Elements(keep) = IF ok THEN Elements(kept[c]) ELSE {x} \cup Elements(kept[c])
  BY <1>2, <1>3, ElementsCons DEF AfterStop
<1>5. \A y \in Elements(front), z \in Elements(keep) : Before(y, z)
  BY <1>2, <1>3, <1>4
<1>6. x \notin Elements(front) /\ x \notin Elements(kept[c])
  BY <1>2, <1>3, <1>k, BeforeFacts
<1>7. /\ todo'[c] = front /\ kept'[c] = keep /\ running' = (IF ok THEN running \ {x} ELSE running)
      /\ todo' \in [Call -> Seq(Component)] /\ kept' \in [Call -> Seq(Component)]
  BY <1>3, <1>4 DEF ComponentStops, ShellInv, TypeOK
<1> HIDE DEF front, x, keep
<1>8. running' = Elements(front) \cup Elements(keep) /\ running' \subseteq Component
  BY <1>2, <1>3, <1>4, <1>6, <1>7, <1>k
<1>9. CASE Len(todo[c]) > 1
  <2>1. UNCHANGED <<pc, pending>>
    BY <1>9 DEF ComponentStops
  <2>2. front # <<>>
    BY <1>2, <1>3, <1>9
  <2>3. TypeOK'
    <3>1. /\ \A d \in Call : pc'[d] = "start" => n'[d] < Len(Order)
          /\ \A d \in Call : pc'[d] = "stop" => todo'[d] # <<>>
      BY <1>1, <1>7, <2>1, <2>2
    <3> QED
      BY <1>1, <1>7, <1>8, <2>1, <3>1 DEF ShellInv, TypeOK
  <2>4. FieldsOK'
    BY <1>1, <1>2, <2>1 DEF ShellInv, FieldsOK, Sorted
  <2>5. TransitionOK'
    BY <1>1, <1>2, <1>3, <1>4, <1>5, <1>7, <1>8, <2>1 DEF TransitionOK
  <2> QED
    BY <2>3, <2>4, <2>5 DEF ShellInv
<1>10. CASE Len(todo[c]) <= 1
  <2>1. PICK w \in {"validate", "settled"} :
            /\ pc' = [pc EXCEPT ![c] = w] /\ pending' = keep
            /\ w = "validate" => keep = <<>>
    <3>1. ~(Len(todo[c]) > 1)
      BY <1>2, <1>10
    <3> QED
      BY <3>1 DEF ComponentStops, GoTo, keep
  <2>2. Len(front) = 0
    <3>1. Len(todo[c]) \in Nat /\ Len(todo[c]) # 0
      BY <1>2
    <3>2. \A k \in Nat : k # 0 /\ k <= 1 => k - 1 = 0
      OBVIOUS
    <3>3. Len(front) = Len(todo[c]) - 1
      BY <1>3
    <3> QED
      BY <1>10, <3>1, <3>2, <3>3
  <2>3. running' = Elements(pending')
    BY <1>8, <2>1, <2>2, <1>3, ElementsEmpty
  <2>4. Balanced' /\ Sorted(pending')
    BY <1>1, <1>2, <1>4, <2>1, <2>3 DEF Balanced
  <2> QED
    BY <1>1, <1>2, <1>4, <1>7, <1>8, <2>1, <2>4, RestStep DEF ShellInv, TypeOK
<1>11. Len(todo[c]) > 1 \/ Len(todo[c]) <= 1
  BY <1>2
<1> QED
  BY <1>9, <1>10, <1>11

-----------------------------------------------------------------------------
(* Theorems                                                                *)

\* ShellInv holds in every reachable state.
THEOREM PlatformInvariant == Spec => []ShellInv
  <1>1. Init => ShellInv
    <2> SUFFICES ASSUME Init PROVE ShellInv
      OBVIOUS
    <2>1. TypeOK
      <3>1. <<>> \in Seq(Component)
        OBVIOUS
      <3>2. /\ pc \in [Call -> {"idle", "validate", "start", "stop", "settled"}]
            /\ n \in [Call -> Nat] /\ \A c \in Call : pc[c] = "idle"
        BY DEF Init
      <3>3. /\ todo \in [Call -> Seq(Component)] /\ kept \in [Call -> Seq(Component)]
            /\ then \in [Call -> {"start", "return"}]
        BY <3>1 DEF Init
      <3> QED
        BY <3>1, <3>2, <3>3 DEF Init, TypeOK
    <2>2. OneOwner /\ FieldsOK /\ TransitionOK
      BY ElementsEmpty DEF Init, OneOwner, FieldsOK, TransitionOK, Balanced
    <2> QED
      BY <2>1, <2>2 DEF ShellInv
  <1>2. ShellInv /\ [Next]_vars => ShellInv'
    <2> SUFFICES ASSUME ShellInv, [Next]_vars PROVE ShellInv'
      OBVIOUS
    <2>1. OneOwner'
      BY OwnerStep
    <2>2. CASE UNCHANGED vars
      BY <2>2 DEF vars, localVars, ShellInv, TypeOK, OneOwner, FieldsOK, Balanced,
                  TransitionOK, Sorted
    <2> QED
      BY <2>1, <2>2, AdmittedStep, ClearStep, ValidatedStep, StartsStep,
         StartFailsStep, StopsStep DEF Next, Step
  <1> QED
    BY <1>1, <1>2, PTL DEF Spec

\* The shell's fields and the transitions' locals keep their types.
THEOREM PlatformTypeCorrect == Spec => []TypeOK
  <1>1. ShellInv => TypeOK
    BY DEF ShellInv
  <1> QED
    BY PlatformInvariant, <1>1, PTL

\* Between transitions the shell knows of every running component, for every
\* graph and every history of failed starts, rollbacks and stops.
THEOREM NothingForgotten == Spec => []Accounting
  <1>1. ShellInv => Accounting
    <2> SUFFICES ASSUME ShellInv, active = {} PROVE Balanced
      BY DEF Accounting, Balanced
    <2>1. \A c \in Call : pc[c] = "idle"
      BY DEF ShellInv, OneOwner
    <2> QED
      BY <2>1 DEF ShellInv, FieldsOK
  <1> QED
    BY PlatformInvariant, <1>1, PTL

\* No component is started twice or before its dependencies.
THEOREM StartsAreSound == Spec => []StartSound
  <1>1. ShellInv => StartSound
    <2> SUFFICES ASSUME ShellInv, NEW c \in Call, pc[c] = "start"
                 PROVE  /\ Order[n[c] + 1] \notin running
                        /\ DependsOn[Order[n[c] + 1]] \subseteq running
      BY DEF StartSound
    <2>1. n[c] \in 0 .. Len(Order) /\ n[c] + 1 \in 1 .. Len(Order)
      BY OrderAssumption DEF ShellInv, TypeOK
    <2>2. running = {Order[i] : i \in 1 .. n[c]}
      BY <2>1, Prefix DEF ShellInv, TransitionOK
    <2>3. Order[n[c] + 1] \notin running
      <3>1. \A i \in 1 .. n[c] : i \in 1 .. Len(Order) /\ i # n[c] + 1
        BY <2>1
      <3>2. \A i \in 1 .. n[c] : Order[i] # Order[n[c] + 1]
        BY <2>1, <3>1, OrderAssumption
      <3> QED
        BY <2>2, <3>2
    <2>4. ASSUME NEW d \in DependsOn[Order[n[c] + 1]] PROVE d \in running
      <3>1. d \in Component
        BY SMTT(30), <2>1, OrderAssumption
      <3>2. PICK j \in 1 .. Len(Order) : Order[j] = d
        BY <3>1, OrderAssumption
      <3>3. j < n[c] + 1
        BY <2>1, <3>2, OrderAssumption
      <3> QED
        BY <2>1, <2>2, <3>2, <3>3
    <2> QED
      BY <2>3, <2>4
  <1> QED
    BY PlatformInvariant, <1>1, PTL

\* Dependents are stopped, or have failed to stop, before what they depend on.
THEOREM StopsAreSound == Spec => []StopSound
  <1>1. ShellInv => StopSound
    <2> SUFFICES ASSUME ShellInv, NEW c \in Call, pc[c] = "stop"
                 PROVE  /\ Stopping(c) \in running
                        /\ \A d \in running :
                              Stopping(c) \in DependsOn[d] => d \in Elements(kept[c])
      BY DEF StopSound
    <2>1. /\ running = Elements(todo[c]) \cup Elements(kept[c]) /\ Sorted(todo[c])
          /\ todo[c] # <<>> /\ todo[c] \in Seq(Component) /\ running \subseteq Component
      BY DEF ShellInv, TransitionOK, TypeOK
    <2> DEFINE front == SubSeq(todo[c], 1, Len(todo[c]) - 1)
    <2>2. /\ Elements(todo[c]) = Elements(front) \cup {Stopping(c)}
          /\ Stopping(c) \in Component
          /\ \A y \in Elements(front) : y \in Component /\ Before(y, Stopping(c))
      BY <2>1, ElementsFront DEF Stopping
    <2> HIDE DEF front
    <2>3. ASSUME NEW d \in running, Stopping(c) \in DependsOn[d]
          PROVE  d \in Elements(kept[c])
      <3>1. d # Stopping(c)
        <4>1. PICK i \in 1 .. Len(Order) : Order[i] = Stopping(c)
          BY <2>2, OrderAssumption
        <4> QED
          BY <2>3, <4>1, OrderAssumption
      <3>2. d \notin Elements(front)
        BY <2>2, <2>3, BeforeFacts
      <3> QED
        BY <2>1, <2>2, <3>1, <3>2
    <2> QED
      BY <2>1, <2>2, <2>3
  <1> QED
    BY PlatformInvariant, <1>1, PTL

\* The shell forgets, starts and stops nothing wrongly, for every dependency
\* order, every number of callers and every history of failures.
THEOREM ShellIsSound == Spec => []ShellSound
  BY PlatformTypeCorrect, NothingForgotten, StartsAreSound, StopsAreSound, PTL
     DEF ShellSound

-----------------------------------------------------------------------------
(* Registrations and frames                                                *)

\* A call of visit() on the stack: its component and the next dependency.
FrameSet == [id : Id, at : Nat \ {0}]

\* The dependencies of a registered component in a checked graph.
LEMMA DepsFacts ==
    ASSUME SearchTypeOK, DependenciesOK, Blank \notin Ids, NEW id \in Ids
    PROVE  /\ id \in Id
           /\ DependenciesOf(id) \in Seq(Id) /\ Len(DependenciesOf(id)) \in Nat
           /\ \A m \in 1 .. Len(DependenciesOf(id)) : DependenciesOf(id)[m] \in Ids
<1> DEFINE i == CHOOSE i \in 1 .. Len(components) : components[i].id = id
<1>1. i \in 1 .. Len(components) /\ components[i].id = id
  BY DEF Ids
<1>2. DependenciesOf(id) = components[i].dependencies
  BY DEF DependenciesOf, ById
<1> HIDE DEF i
<1>3. components[i] \in [id : Id \cup {Blank}, dependencies : Seq(Id)]
  <2> DEFINE R == [id : Id \cup {Blank}, dependencies : Seq(Id)]
  <2>1. components \in Seq(R)
    BY DEF SearchTypeOK
  <2> HIDE DEF R
  <2>2. components[i] \in R
    BY <1>1, <2>1
  <2> QED
    BY <2>2 DEF R
<1>4. id \in Id
  BY <1>1, <1>3
<1>5. DependenciesOf(id) \in Seq(Id)
  BY <1>2, <1>3
<1>6. \A m \in 1 .. Len(DependenciesOf(id)) : DependenciesOf(id)[m] \in Ids
  BY <1>1, <1>2 DEF DependenciesOK, DependencyOK
<1> QED
  BY <1>4, <1>5, <1>6

\* The registrations never change, and neither does what is read from them.
LEMMA SameGraph ==
    ASSUME components' = components, NEW id
    PROVE  /\ Ids' = Ids /\ DependenciesOf(id)' = DependenciesOf(id)
           /\ DependencySet(id)' = DependencySet(id)
           /\ IdsOK' = IdsOK /\ DependenciesOK' = DependenciesOK
<1>1. Ids' = Ids
  BY DEF Ids
<1>2. DependenciesOf(id)' = DependenciesOf(id)
  BY DEF DependenciesOf
<1>3. DependencySet(id)' = DependencySet(id)
  BY <1>2 DEF DependencySet
<1>4. IdsOK' = IdsOK
  BY <1>1 DEF IdsOK
<1>5. DependenciesOK' = DependenciesOK
  BY <1>1 DEF DependenciesOK, DependencyOK
<1> QED
  BY <1>1, <1>2, <1>3, <1>4, <1>5

\* The frame on top and those below it.
LEMMA TopFacts ==
    ASSUME SearchTypeOK, stack # <<>>
    PROVE  /\ Len(stack) \in Nat \ {0} /\ Top \in FrameSet /\ Top.id \in Visiting
           /\ Below \in Seq(FrameSet) /\ Len(Below) = Len(stack) - 1
           /\ \A i \in 1 .. Len(stack) - 1 : Below[i] = stack[i]
<1>0. stack \in Seq(FrameSet)
  BY DEF SearchTypeOK, FrameSet
<1>1. Len(stack) \in Nat \ {0} /\ stack[Len(stack)] \in FrameSet
  BY <1>0
<1>2. ASSUME NEW k \in 0 .. Len(stack)
      PROVE  /\ SubSeq(stack, 1, k) \in Seq(FrameSet) /\ Len(SubSeq(stack, 1, k)) = k
             /\ \A i \in 1 .. k : SubSeq(stack, 1, k)[i] = stack[i]
  BY <1>0
<1>3. Len(stack) - 1 \in 0 .. Len(stack)
  BY <1>1
<1>4. Below \in Seq(FrameSet) /\ Len(Below) = Len(stack) - 1
      /\ \A i \in 1 .. Len(stack) - 1 : Below[i] = stack[i]
  BY <1>2, <1>3 DEF Below
<1> QED
  BY <1>1, <1>4 DEF Top, Visiting

\* The stack after the top loop has gone on by one dependency.
Advanced == Append(Below, NextDependency(Top))

\* The stack after the top loop has taken its next dependency.
LEMMA AdvancedFacts ==
    ASSUME SearchTypeOK, stack # <<>>
    PROVE  /\ Advanced \in Seq(FrameSet) /\ Len(Advanced) = Len(stack)
           /\ \A i \in 1 .. Len(stack) : Advanced[i].id = stack[i].id
           /\ \A i \in 1 .. Len(stack) : i < Len(stack) => Advanced[i] = stack[i]
           /\ Advanced[Len(stack)].at = Top.at + 1
<1>1. NextDependency(Top) \in FrameSet /\ NextDependency(Top).id = Top.id
      /\ NextDependency(Top).at = Top.at + 1
  BY TopFacts DEF NextDependency, FrameSet
<1>2. /\ Len(Below) = Len(stack) - 1 /\ Below \in Seq(FrameSet) /\ Len(stack) \in Nat \ {0}
      /\ \A i \in 1 .. Len(stack) - 1 : Below[i] = stack[i]
  BY TopFacts
<1>3. Advanced \in Seq(FrameSet) /\ Len(Advanced) = Len(stack)
  BY <1>1, <1>2 DEF Advanced
<1>4. \A i \in 1 .. Len(stack) - 1 : Advanced[i] = stack[i]
  BY <1>1, <1>2 DEF Advanced
<1>5. Advanced[Len(stack)] = NextDependency(Top)
  BY <1>1, <1>2 DEF Advanced
<1>6. \A i \in 1 .. Len(stack) : i = Len(stack) \/ i \in 1 .. Len(stack) - 1
  BY <1>2
<1>7. \A i \in 1 .. Len(stack) : i < Len(stack) => i \in 1 .. Len(stack) - 1
  BY <1>2
<1> QED
  BY <1>1, <1>3, <1>4, <1>5, <1>6, <1>7 DEF Top

-----------------------------------------------------------------------------
(* Invariance                                                              *)

\* A valid registration list, as far as the search uses it.
LEMMA Checked ==
    ASSUME OrderInv, result = "running"
    PROVE  DependenciesOK /\ IdsOK /\ Blank \notin Ids
  BY DEF OrderInv, CheckedOK, IdsOK

\* OrderedOK and CycleReal survive whatever leaves ordered and visited alone.
LEMMA KeptOrder ==
    ASSUME OrderedOK, UNCHANGED <<components, visited, sorted>>
    PROVE  OrderedOK'
<1>1. Ids' = Ids
  BY DEF Ids
<1> QED
  BY <1>1 DEF OrderedOK, Members, DependencySet, DependenciesOf

\* A frame's condition reads the registrations, the frames and visited only.
LEMMA SameFrame ==
    ASSUME components' = components, visited' = visited, NEW k,
           FrameOK(stack', visited, k)
    PROVE  FrameOK(stack, visited, k)'
  BY DEF FrameOK, DependenciesOf

\* A visit of a component that is not finished and not on the stack.
LEMMA PushStep ==
    ASSUME OrderInv, result = "running", NEW frames \in Seq(FrameSet), NEW id \in Ids,
           id \notin visited, id \notin Visiting,
           Len(frames) = Len(stack),
           \A i \in 1 .. Len(stack) : frames[i].id = stack[i].id,
           \A i \in 1 .. Len(stack) : i < Len(stack) => frames[i] = stack[i],
           Len(stack) > 0 =>
              /\ Top.at <= Len(DependenciesOf(Top.id))
              /\ frames[Len(stack)].at = Top.at + 1
              /\ id = DependenciesOf(Top.id)[Top.at],
           stack' = Append(frames, Frame(id)),
           UNCHANGED <<components, visited, sorted, result>>
    PROVE  /\ StackOK' /\ stack' \in Seq(FrameSet)
           /\ Visiting' = Visiting \cup {id}
<1>0. Len(stack) \in Nat /\ id \in Id /\ DependenciesOf(id) \in Seq(Id) /\ Len(DependenciesOf(id)) \in Nat
  BY Checked, DepsFacts DEF OrderInv, SearchTypeOK
<1>1. Frame(id) \in FrameSet /\ Frame(id).id = id /\ Frame(id).at = 1
  BY <1>0 DEF Frame, FrameSet
<1>2. /\ stack' \in Seq(FrameSet) /\ Len(stack') = Len(stack) + 1
      /\ \A i \in 1 .. Len(stack) : stack'[i] = frames[i]
      /\ stack'[Len(stack) + 1] = Frame(id)
  BY <1>0, <1>1
<1>3. \A i \in 1 .. Len(stack') : i = Len(stack) + 1 \/ i \in 1 .. Len(stack)
  BY <1>0, <1>2
<1>4. \A i \in 1 .. Len(stack) : stack'[i].id = stack[i].id /\ i \in 1 .. Len(stack')
  BY <1>0, <1>2
<1>5. Visiting' = Visiting \cup {id}
  <2>1. ASSUME NEW i \in 1 .. Len(stack') PROVE stack'[i].id \in Visiting \cup {id}
    BY <1>1, <1>2, <1>3, <1>4 DEF Visiting
  <2>2. id \in Visiting'
    BY <1>0, <1>1, <1>2 DEF Visiting
  <2>3. Visiting \subseteq Visiting'
    BY <1>4 DEF Visiting
  <2> QED
    BY SMTT(30), <2>1, <2>2, <2>3 DEF Visiting
<1>6. Visiting' \subseteq Ids' /\ Visiting' \cap visited' = {}
  BY <1>5, SameGraph DEF OrderInv, StackOK
<1>7. \A i, j \in 1 .. Len(stack') : stack'[i].id = stack'[j].id => i = j
  <2>1. \A i \in 1 .. Len(stack) : stack'[i].id # id
    BY <1>4 DEF Visiting
  <2> QED
    BY <1>1, <1>2, <1>3, <1>4, <2>1 DEF OrderInv, StackOK
<1>8. ASSUME NEW k \in 1 .. Len(stack')
      PROVE  FrameOK(stack', visited, k)
  <2>1. CASE k = Len(stack) + 1
    BY <1>0, <1>1, <1>2, <2>1 DEF FrameOK
  <2>2. CASE k \in 1 .. Len(stack) /\ k < Len(stack)
    <3>1. k \in 1 .. Len(stack) /\ k + 1 \in 1 .. Len(stack) /\ k < Len(stack') /\ stack'[k] = stack[k]
          /\ stack'[k + 1].id = stack[k + 1].id
      BY <1>0, <1>2, <1>4, <2>2
    <3>2. FrameOK(stack, visited, k)
      BY <2>2 DEF OrderInv, StackOK
    <3> QED
      BY <2>2, <3>1, <3>2 DEF FrameOK
  <2>3. CASE k = Len(stack) /\ k > 0
    <3> DEFINE deps == DependenciesOf(Top.id)
    <3>1. /\ stack'[k].id = Top.id /\ stack'[k].at = Top.at + 1 /\ stack'[k + 1].id = id
          /\ k < Len(stack') /\ Top.at <= Len(deps) /\ deps[Top.at] = id
      BY <1>0, <1>1, <1>2, <1>4, <2>3 DEF Top
    <3>2. Top.at \in Nat \ {0} /\ Top.id \in Ids
      <4>1. stack # <<>>
        BY <2>3
      <4> QED
        BY <4>1, TopFacts DEF OrderInv, StackOK, FrameSet
    <3>3. Len(deps) \in Nat
      BY <3>2, Checked, DepsFacts DEF OrderInv
    <3>4. \A m \in 1 .. Len(deps) : m < Top.at => deps[m] \in visited
      <4>1. FrameOK(stack, visited, Len(stack)) /\ ~(Len(stack) < Len(stack))
        BY <1>0, <2>3 DEF OrderInv, StackOK
      <4> QED
        BY <4>1 DEF FrameOK, Top
    <3> HIDE DEF deps
    <3>5. \A m \in 1 .. Len(deps) : m < Top.at + 1 => m < Top.at \/ m = Top.at
      BY <3>2
    <3>6. Top.at + 1 <= Len(deps) + 1 /\ Top.at + 1 > 1 /\ Top.at + 1 - 1 = Top.at
      BY <3>1, <3>2, <3>3
    <3>7. DependenciesOf(stack'[k].id) = deps
      BY <3>1 DEF deps
    <3> QED
      <4>1. stack'[k].at - 1 = Top.at
        BY <3>1, <3>2
      <4>2. \A m \in 1 .. Len(deps) :
               m < stack'[k].at => deps[m] \in visited \/ m = stack'[k].at - 1
        BY <3>1, <3>4, <3>5, <4>1
      <4>3. /\ stack'[k].at <= Len(deps) + 1 /\ stack'[k].at > 1
            /\ deps[stack'[k].at - 1] = stack'[k + 1].id
        BY <3>1, <3>6, <4>1
      <4> QED
        BY <3>1, <3>7, <4>2, <4>3 DEF FrameOK
  <2>4. \/ k = Len(stack) + 1
        \/ k \in 1 .. Len(stack) /\ k < Len(stack)
        \/ k = Len(stack) /\ k > 0
    BY <1>0, <1>3
  <2> QED
    BY <2>1, <2>2, <2>3, <2>4
<1>9. StackOK'
  BY <1>6, <1>7, <1>8, SameFrame DEF StackOK
<1> QED
  BY <1>2, <1>5, <1>9

\* The invariant after a step that leaves the finished components alone.
LEMMA SearchStep ==
    ASSUME OrderInv, result = "running", VisitRoot \/ VisitDependency
    PROVE  OrderInv'
<1>1. /\ UNCHANGED <<components, visited, sorted>>
      /\ DependenciesOK /\ IdsOK /\ Blank \notin Ids /\ OrderedOK'
  BY Checked, KeptOrder DEF OrderInv, VisitRoot, VisitDependency
<1>2. Ids' = Ids /\ DependenciesOK' /\ IdsOK'
  BY <1>1, SameGraph
<1>3. stack \in Seq(FrameSet) /\ Len(stack) \in Nat /\ Len(components) \in Nat
      /\ root \in 1 .. Len(components) + 1
  BY DEF OrderInv, SearchTypeOK, FrameSet
<1>t. ASSUME stack' \in Seq(FrameSet), root' \in 1 .. Len(components) + 1,
             result' \in {"running", "cycle"}
      PROVE  SearchTypeOK' /\ CheckedOK'
  BY <1>1, <1>2, <1>t DEF OrderInv, SearchTypeOK, CheckedOK, FrameSet
<1>4. CASE VisitRoot
  <2> DEFINE id == components[root].id
  <2>1. stack = <<>> /\ root \in 1 .. Len(components) /\ root' = root + 1 /\ Visit(<<>>, id)
    BY <1>3, <1>4 DEF VisitRoot
  <2>2. id \in Ids /\ Visiting = {} /\ root' \in 1 .. Len(components) + 1
    BY <1>3, <2>1 DEF Ids, Visiting
  <2> HIDE DEF id
  <2>r. ASSUME id \in visited' \cup Visiting', Visiting \subseteq Visiting', result' = "running"
        PROVE  RootOK'
    <3>1. \A i \in 1 .. Len(components) : i < root' => i < root \/ i = root
      BY <1>3, <2>1
    <3> QED
      BY <1>1, <2>1, <2>r, <3>1 DEF OrderInv, RootOK, id
  <2>3. CASE id \in visited
    <3>1. stack' = <<>> /\ result' = result
      BY <2>1, <2>3 DEF Visit
    <3>2. Visiting' = {} /\ stack' \in Seq(FrameSet)
      BY <3>1 DEF Visiting
    <3>3. StackOK'
      BY <3>1, <3>2 DEF StackOK
    <3> QED
      BY <1>1, <1>t, <2>2, <2>3, <2>r, <3>1, <3>2, <3>3 DEF OrderInv, CycleReal
  <2>4. CASE id \notin visited
    <3>1. stack' = Append(<<>>, Frame(id)) /\ result' = result
      BY <2>1, <2>2, <2>4 DEF Visit
    <3>2. StackOK' /\ stack' \in Seq(FrameSet) /\ Visiting' = Visiting \cup {id}
      <4>1. <<>> \in Seq(FrameSet) /\ Len(<<>>) = 0 /\ Len(stack) = 0
        BY <2>1
      <4> DEFINE none == <<>>
      <4>2. none \in Seq(FrameSet) /\ Len(none) = Len(stack) /\ stack' = Append(none, Frame(id))
        BY <3>1, <4>1
      <4> HIDE DEF none
      <4>3. (\A i \in 1 .. Len(stack) : FALSE) /\ ~(Len(stack) > 0) /\ id \notin Visiting
        BY <2>2, <4>1
      <4> QED
        BY <1>1, <2>2, <2>4, <3>1, <4>2, <4>3, PushStep
    <3> QED
      BY <1>1, <1>t, <2>2, <2>r, <3>1, <3>2 DEF OrderInv, CycleReal
  <2> QED
    BY <2>3, <2>4
<1>5. CASE VisitDependency
  <2> DEFINE deps == DependenciesOf(Top.id)
             id == deps[Top.at]
  <2>1. stack # <<>> /\ Top.at <= Len(deps) /\ root' = root /\ Visit(Advanced, id)
    BY <1>5 DEF VisitDependency, Advanced
  <2>2. /\ Len(stack) \in Nat \ {0} /\ Top.at \in Nat \ {0} /\ Top.id \in Ids
    BY <2>1, TopFacts DEF OrderInv, StackOK, FrameSet
  <2>3. deps \in Seq(Id) /\ Len(deps) \in Nat /\ id \in Ids
    BY <1>1, <2>1, <2>2, DepsFacts DEF OrderInv
  <2>4. /\ Advanced \in Seq(FrameSet) /\ Len(Advanced) = Len(stack)
        /\ \A i \in 1 .. Len(stack) : Advanced[i].id = stack[i].id
        /\ \A i \in 1 .. Len(stack) : i < Len(stack) => Advanced[i] = stack[i]
        /\ Advanced[Len(stack)].at = Top.at + 1
    BY <2>1, AdvancedFacts DEF OrderInv
  <2>f. FrameOK(stack, visited, Len(stack))
    BY <2>2 DEF OrderInv, StackOK
  <2>5. CASE id \in visited
    <3>1. stack' = Advanced /\ result' = result
      BY <2>1, <2>5 DEF Visit
    <3>2. Visiting' = Visiting
      BY <2>4, <3>1 DEF Visiting
    <3>3. ASSUME NEW k \in 1 .. Len(stack') PROVE FrameOK(stack', visited, k)
      <4>1. CASE k < Len(stack)
        <5>1. k \in 1 .. Len(stack) /\ k + 1 \in 1 .. Len(stack)
          BY <2>2, <2>4, <3>1, <4>1
        <5>2. stack'[k] = stack[k] /\ stack'[k + 1].id = stack[k + 1].id /\ Len(stack') = Len(stack)
          BY <2>4, <3>1, <4>1, <5>1
        <5>3. FrameOK(stack, visited, k)
          BY <5>1 DEF OrderInv, StackOK
        <5> QED
          BY <5>2, <5>3 DEF FrameOK
      <4>2. CASE k = Len(stack)
        <5>1. stack'[k].id = Top.id /\ stack'[k].at = Top.at + 1 /\ ~(k < Len(stack'))
          BY <2>2, <2>4, <3>1, <4>2 DEF Top
        <5>2. \A m \in 1 .. Len(deps) : m < Top.at => deps[m] \in visited
          BY <2>2, <2>f DEF FrameOK, Top
        <5> HIDE DEF deps
        <5>3. \A m \in 1 .. Len(deps) : m < Top.at + 1 => deps[m] \in visited
          <6>1. \A m \in 1 .. Len(deps) : m < Top.at + 1 => m < Top.at \/ m = Top.at
            BY <2>2
          <6> QED
            BY <2>5, <5>2, <6>1
        <5>4. Top.at + 1 <= Len(deps) + 1
          BY <2>1, <2>2, <2>3
        <5>5. DependenciesOf(stack'[k].id) = deps
          BY <5>1 DEF deps
        <5> QED
          BY <5>1, <5>3, <5>4, <5>5 DEF FrameOK
      <4> QED
        BY <2>2, <2>4, <3>1, <4>1, <4>2
    <3>4. StackOK'
      <4>1. Visiting' \subseteq Ids' /\ Visiting' \cap visited' = {}
        BY <1>1, <1>2, <3>2 DEF OrderInv, StackOK
      <4>2. \A i, j \in 1 .. Len(stack') : stack'[i].id = stack'[j].id => i = j
        BY <2>4, <3>1 DEF OrderInv, StackOK
      <4> QED
        BY <1>1, <3>3, <4>1, <4>2, SameFrame DEF StackOK
    <3>5. RootOK'
      BY <1>1, <2>1, <3>1, <3>2 DEF OrderInv, RootOK
    <3> QED
      BY <1>1, <1>3, <1>t, <2>1, <2>4, <3>1, <3>4, <3>5 DEF OrderInv, CycleReal
  <2>6. CASE id \notin visited /\ id \in Visiting
    <3>1. stack' = Advanced /\ result' = "cycle"
      BY <2>1, <2>6 DEF Visit
    <3>2. Visiting' = Visiting
      BY <2>4, <3>1 DEF Visiting
    <3>3. StackOK'
      <4>1. Visiting' \subseteq Ids' /\ Visiting' \cap visited' = {}
        BY <1>1, <1>2, <3>2 DEF OrderInv, StackOK
      <4>2. \A i, j \in 1 .. Len(stack') : stack'[i].id = stack'[j].id => i = j
        BY <2>4, <3>1 DEF OrderInv, StackOK
      <4> QED
        BY <3>1, <4>1, <4>2 DEF StackOK
    <3>4. PICK a \in 1 .. Len(stack) : stack[a].id = id
      BY <2>6 DEF Visiting
    <3> DEFINE S == {stack[k].id : k \in a .. Len(stack)}
    <3>5. S \in SUBSET Ids /\ S # {}
      <4>1. \A k \in a .. Len(stack) : k \in 1 .. Len(stack)
        BY <3>4
      <4>2. a \in a .. Len(stack)
        BY <2>2, <3>4
      <4> QED
        BY <4>1, <4>2 DEF OrderInv, StackOK, Visiting
    <3>6. ASSUME NEW k \in a .. Len(stack)
          PROVE  DependencySet(stack[k].id) \cap S # {}
      <4>0. k \in 1 .. Len(stack)
        BY <3>4
      <4>1. CASE k = Len(stack)
        <5>1. id \in DependencySet(stack[k].id)
          BY <2>1, <2>2, <4>1 DEF DependencySet, Top
        <5>2. id \in S
          BY <2>2, <3>4
        <5> QED
          BY <5>1, <5>2
      <4>2. CASE k < Len(stack)
        <5>1. FrameOK(stack, visited, k)
          BY <4>0 DEF OrderInv, StackOK
        <5>2. stack[k].at \in Nat /\ stack[k].id \in Ids
          <6>1. stack[k] \in FrameSet
            BY <1>3, <4>0
          <6>2. stack[k].id \in Visiting
            BY <4>0 DEF Visiting
          <6> QED
            BY <6>1, <6>2 DEF FrameSet, OrderInv, StackOK
        <5>3. Len(DependenciesOf(stack[k].id)) \in Nat
          BY <1>1, <5>2, DepsFacts DEF OrderInv
        <5>4. stack[k].at - 1 \in 1 .. Len(DependenciesOf(stack[k].id))
              /\ DependenciesOf(stack[k].id)[stack[k].at - 1] = stack[k + 1].id
          BY <4>2, <5>1, <5>2, <5>3 DEF FrameOK
        <5>5. stack[k + 1].id \in DependencySet(stack[k].id)
          BY <5>4 DEF DependencySet
        <5>6. k + 1 \in a .. Len(stack)
          BY <2>2, <3>4, <4>2
        <5> QED
          BY <5>5, <5>6
      <4> QED
        BY <2>2, <4>0, <4>1, <4>2
    <3>7. CycleReal'
      <4>1. \A x \in S : DependencySet(x) \cap S # {}
        BY <3>6
      <4> HIDE DEF S
      <4>2. \A x : DependencySet(x)' = DependencySet(x)
        BY <1>1, SameGraph
      <4> QED
        BY <1>2, <3>5, <4>1, <4>2 DEF CycleReal
    <3>8. RootOK'
      BY <3>1 DEF RootOK
    <3> QED
      BY <1>1, <1>3, <1>t, <2>1, <2>4, <3>1, <3>3, <3>7, <3>8 DEF OrderInv
  <2>7. CASE id \notin visited /\ id \notin Visiting
    <3>1. stack' = Append(Advanced, Frame(id)) /\ result' = result
      BY <2>1, <2>7 DEF Visit
    <3>2. StackOK' /\ stack' \in Seq(FrameSet) /\ Visiting' = Visiting \cup {id}
      BY <1>1, <2>1, <2>3, <2>4, <2>7, <3>1, PushStep
    <3>3. RootOK'
      BY <1>1, <2>1, <3>1, <3>2 DEF OrderInv, RootOK
    <3> QED
      BY <1>1, <1>3, <1>t, <2>1, <3>1, <3>2, <3>3 DEF OrderInv, CycleReal
  <2> QED
    BY <2>5, <2>6, <2>7
<1> QED
  BY <1>4, <1>5

\* The loop of a visit is over: its component is finished.
LEMMA LeaveStep ==
    ASSUME OrderInv, Leave
    PROVE  OrderInv'
<1> DEFINE id == Top.id
           deps == DependenciesOf(id)
<1>1. /\ result = "running" /\ stack # <<>> /\ Top.at > Len(deps) /\ stack' = Below
      /\ visited' = visited \cup {id} /\ sorted' = Append(sorted, id)
      /\ UNCHANGED <<components, root, result>>
  BY DEF Leave, PushLast
<1>2. DependenciesOK /\ IdsOK /\ Blank \notin Ids
  BY <1>1, Checked
<1>3. Ids' = Ids /\ DependenciesOK' /\ IdsOK'
  BY <1>1, <1>2, SameGraph
<1>4. /\ Len(stack) \in Nat \ {0} /\ Top \in FrameSet /\ Below \in Seq(FrameSet)
      /\ Len(Below) = Len(stack) - 1
      /\ \A i \in 1 .. Len(stack) - 1 : Below[i] = stack[i]
  BY <1>1, TopFacts DEF OrderInv
<1>5. id \in Ids /\ id \in Id /\ id \notin visited
  <2>1. id \in Visiting
    BY <1>1, TopFacts DEF OrderInv
  <2> QED
    BY <1>2, <2>1, DepsFacts DEF OrderInv, StackOK
<1>6. deps \in Seq(Id) /\ Len(deps) \in Nat
  BY <1>2, <1>5, DepsFacts DEF OrderInv
<1>7. \A m \in 1 .. Len(deps) : deps[m] \in visited
  <2>1. FrameOK(stack, visited, Len(stack)) /\ ~(Len(stack) < Len(stack)) /\ Top.at \in Nat
    BY <1>1, <1>4 DEF OrderInv, StackOK, FrameSet
  <2>2. \A m \in 1 .. Len(deps) : m < Top.at
    BY <1>1, <1>6, <2>1
  <2> QED
    BY <2>1, <2>2 DEF FrameOK, Top
<1>8. DependencySet(id) \subseteq visited
  BY <1>7 DEF DependencySet
<1> HIDE DEF id, deps
<1>9. /\ sorted \in Seq(Id) /\ Len(sorted) \in Nat /\ sorted' \in Seq(Id)
      /\ Len(sorted') = Len(sorted) + 1 /\ sorted'[Len(sorted) + 1] = id
      /\ \A i \in 1 .. Len(sorted) : sorted'[i] = sorted[i]
  BY <1>1, <1>5 DEF OrderInv, SearchTypeOK
<1>10. \A i \in 1 .. Len(sorted') : i = Len(sorted) + 1 \/ i \in 1 .. Len(sorted)
  BY <1>9
<1>11. \A i \in 1 .. Len(sorted) : i \in 1 .. Len(sorted') /\ i < Len(sorted) + 1
  BY <1>9
<1>12. OrderedOK'
  <2>1. Members(sorted') = Members(sorted) \cup {id}
    <3>1. Len(sorted) + 1 \in 1 .. Len(sorted')
      BY <1>9
    <3> QED
      BY <1>9, <1>10, <1>11, <3>1 DEF Members
  <2>2. Members(sorted') = visited' /\ visited' \subseteq Ids'
    BY <1>1, <1>3, <1>5, <2>1 DEF OrderInv, OrderedOK
  <2>3. \A i \in 1 .. Len(sorted) : sorted[i] # id
    BY <1>5 DEF OrderInv, OrderedOK, Members
  <2>4. \A i, j \in 1 .. Len(sorted') : sorted'[i] = sorted'[j] => i = j
    BY <1>9, <1>10, <2>3 DEF OrderInv, OrderedOK
  <2>5. ASSUME NEW i \in 1 .. Len(sorted'), NEW d \in DependencySet(sorted'[i])
        PROVE  \E j \in 1 .. Len(sorted') : j < i /\ sorted'[j] = d
    <3>1. CASE i = Len(sorted) + 1
      <4>1. d \in Members(sorted)
        BY <1>8, <1>9, <2>5, <3>1 DEF OrderInv, OrderedOK
      <4>2. PICK j \in 1 .. Len(sorted) : sorted[j] = d
        BY <4>1 DEF Members
      <4> QED
        BY <1>9, <1>11, <3>1, <4>2
    <3>2. CASE i \in 1 .. Len(sorted)
      <4>1. PICK j \in 1 .. Len(sorted) : j < i /\ sorted[j] = d
        BY <1>9, <2>5, <3>2 DEF OrderInv, OrderedOK
      <4> QED
        BY <1>9, <1>11, <4>1
    <3> QED
      BY <1>10, <3>1, <3>2
  <2>6. ASSUME NEW i \in 1 .. Len(sorted')
        PROVE  DependencySet(sorted[i])' = DependencySet(sorted'[i])
    BY <1>1 DEF DependencySet, DependenciesOf
  <2> QED
    BY <2>2, <2>4, <2>5, <2>6 DEF OrderedOK
<1>13. /\ Len(stack') = Len(stack) - 1
       /\ \A i \in 1 .. Len(stack') : i \in 1 .. Len(stack) /\ i < Len(stack) /\ stack'[i] = stack[i]
  BY <1>1, <1>4
<1>14. Visiting \subseteq Visiting' \cup {id} /\ Visiting' \subseteq Visiting /\ id \notin Visiting'
  <2>1. Visiting' \subseteq Visiting
    BY <1>13 DEF Visiting
  <2>2. ASSUME NEW i \in 1 .. Len(stack) PROVE stack[i].id \in Visiting' \cup {id}
    <3>1. CASE i = Len(stack)
      BY <3>1 DEF id, Top
    <3>2. CASE i < Len(stack)
      <4>1. i \in 1 .. Len(stack')
        BY <1>4, <1>13, <3>2
      <4> QED
        BY <1>13, <4>1 DEF Visiting
    <3> QED
      BY <1>4, <3>1, <3>2
  <2>3. ASSUME NEW i \in 1 .. Len(stack'), stack'[i].id = id PROVE FALSE
    BY <1>4, <1>13, <2>3 DEF OrderInv, StackOK, id, Top
  <2> QED
    BY <2>1, <2>2, <2>3 DEF Visiting
<1>15. StackOK'
  <2>1. Visiting' \subseteq Ids' /\ Visiting' \cap visited' = {}
    BY <1>1, <1>3, <1>14 DEF OrderInv, StackOK
  <2>2. \A i, j \in 1 .. Len(stack') : stack'[i].id = stack'[j].id => i = j
    BY <1>13 DEF OrderInv, StackOK
  <2>3. ASSUME NEW k \in 1 .. Len(stack') PROVE FrameOK(stack', visited', k)
    <3>1. FrameOK(stack, visited, k) /\ stack'[k] = stack[k] /\ k < Len(stack)
      BY <1>1, <1>13 DEF OrderInv, StackOK
    <3>2. CASE k < Len(stack')
      <4>1. k + 1 \in 1 .. Len(stack')
        BY <1>4, <1>13, <3>2
      <4> QED
        BY <1>1, <1>13, <3>1, <3>2, <4>1 DEF FrameOK
    <3>3. CASE ~(k < Len(stack'))
      <4>1. k + 1 = Len(stack)
        BY <1>4, <1>13, <3>1, <3>3
      <4>2. DependenciesOf(stack[k].id)[stack[k].at - 1] = id
        BY <3>1, <4>1 DEF FrameOK, id, Top
      <4> QED
        BY <1>1, <3>1, <3>3, <4>2 DEF FrameOK
    <3> QED
      BY <3>2, <3>3
  <2>4. ASSUME NEW k \in 1 .. Len(stack') PROVE FrameOK(stack, visited, k)'
    BY <1>1, <2>3 DEF FrameOK, DependenciesOf
  <2> QED
    BY <2>1, <2>2, <2>4 DEF StackOK
<1>16. RootOK'
  BY <1>1, <1>14 DEF OrderInv, RootOK
<1>17. SearchTypeOK' /\ CheckedOK'
  BY <1>1, <1>2, <1>3, <1>4, <1>5, <1>9 DEF OrderInv, SearchTypeOK, CheckedOK, FrameSet
<1> QED
  BY <1>1, <1>12, <1>15, <1>16, <1>17 DEF OrderInv, CycleReal

-----------------------------------------------------------------------------
(* Theorems                                                                *)

\* OrderInv holds in every reachable state.
THEOREM SearchInvariant == SearchSpec => []OrderInv
  <1>1. SearchInit => OrderInv
    <2> SUFFICES ASSUME SearchInit PROVE OrderInv
      OBVIOUS
    <2>1. components \in Seq([id : Id \cup {Blank}, dependencies : Seq(Id)])
      BY RegistrationsAssumption DEF SearchInit
    <2>2. Len(components) \in Nat /\ Len(stack) = 0 /\ Len(sorted) = 0
      BY <2>1 DEF SearchInit
    <2>3. SearchTypeOK
      <3>1. root \in 1 .. Len(components) + 1
        BY <2>2 DEF SearchInit
      <3>2. <<>> \in Seq([id : Id, at : Nat \ {0}]) /\ <<>> \in Seq(Id)
        OBVIOUS
      <3> QED
        BY <2>1, <3>1, <3>2 DEF SearchInit, SearchTypeOK
    <2>4. CheckedOK /\ RootOK /\ CycleReal
      BY DEF SearchInit, CheckedOK, RootOK, CycleReal
    <2>5. Visiting = {} /\ Members(sorted) = {}
      BY <2>2 DEF Visiting, Members
    <2>6. StackOK /\ OrderedOK
      BY <2>2, <2>5 DEF SearchInit, StackOK, OrderedOK
    <2> QED
      BY <2>3, <2>4, <2>6 DEF OrderInv
  <1>2. OrderInv /\ [SearchNext]_searchVars => OrderInv'
    <2> SUFFICES ASSUME OrderInv, [SearchNext]_searchVars PROVE OrderInv'
      OBVIOUS
    <2>s. ASSUME UNCHANGED <<components, stack, root, visited, sorted>>
          PROVE  /\ OrderedOK' /\ Visiting' = Visiting /\ Ids' = Ids
                 /\ (result' = "running" => result = "running") => StackOK'
      <3>1. OrderedOK' /\ Ids' = Ids
        BY <2>s, KeptOrder, SameGraph DEF OrderInv
      <3>2. Visiting' = Visiting
        BY <2>s DEF Visiting
      <3>3. \A k : FrameOK(stack, visited, k) => FrameOK(stack, visited, k)'
        BY <2>s DEF FrameOK, DependenciesOf
      <3> QED
        BY <2>s, <3>1, <3>2, <3>3 DEF OrderInv, StackOK
    <2>1. CASE AssertValid
      <3>1. stack = <<>> /\ visited = {} /\ sorted = <<>> /\ root = 1 /\ result = "unchecked"
            /\ UNCHANGED <<components, stack, root, visited, sorted>>
        BY <2>1 DEF AssertValid, OrderInv, CheckedOK
      <3>2. result' \in {"running", "invalid"} /\ (result' = "running" => IdsOK /\ DependenciesOK)
        BY <2>1 DEF AssertValid
      <3>3. CheckedOK'
        BY <3>1, <3>2, SameGraph DEF CheckedOK
      <3>4. RootOK'
        <4>1. Len(components) \in Nat
          BY DEF OrderInv, SearchTypeOK
        <4> QED
          BY <3>1, <3>2, <4>1 DEF RootOK
      <3>5. StackOK'
        <4>1. Len(stack') = 0 /\ Visiting' = {}
          BY <3>1 DEF Visiting
        <4> QED
          BY <3>1, <4>1 DEF StackOK
      <3>6. SearchTypeOK' /\ CycleReal'
        BY <3>1, <3>2 DEF OrderInv, SearchTypeOK, CycleReal
      <3> QED
        BY <2>s, <3>1, <3>3, <3>4, <3>5, <3>6 DEF OrderInv
    <2>2. CASE VisitRoot \/ VisitDependency
      BY <2>2, SearchStep DEF VisitRoot, VisitDependency
    <2>3. CASE Leave
      BY <2>3, LeaveStep
    <2>4. CASE Return
      <3>1. /\ stack = <<>> /\ root > Len(components) /\ result = "running" /\ result' = "ordered"
            /\ UNCHANGED <<components, stack, root, visited, sorted>>
        BY <2>4 DEF Return
      <3>2. Ids \subseteq visited
        <4>1. Visiting = {}
          BY <3>1 DEF Visiting
        <4>2. \A i \in 1 .. Len(components) : i < root
          BY <3>1 DEF OrderInv, SearchTypeOK
        <4> QED
          BY <3>1, <4>1, <4>2 DEF OrderInv, RootOK, Ids
      <3>3. RootOK'
        BY <2>s, <3>1, <3>2 DEF RootOK
      <3>4. SearchTypeOK' /\ CycleReal'
        BY <3>1 DEF OrderInv, SearchTypeOK, CycleReal
      <3>5. CheckedOK'
        BY <3>1, SameGraph DEF OrderInv, CheckedOK
      <3> QED
        BY <2>s, <3>1, <3>3, <3>4, <3>5 DEF OrderInv
    <2>5. CASE UNCHANGED searchVars
      <3>1. UNCHANGED <<components, stack, root, visited, sorted>> /\ result' = result
        BY <2>5 DEF searchVars
      <3>2. CheckedOK' /\ SearchTypeOK'
        BY <3>1, SameGraph DEF OrderInv, CheckedOK, SearchTypeOK
      <3>3. RootOK'
        BY <2>s, <3>1 DEF OrderInv, RootOK
      <3>4. CycleReal'
        <4>1. \A x : DependencySet(x)' = DependencySet(x)
          BY <3>1, SameGraph
        <4> QED
          BY <2>s, <3>1, <4>1 DEF OrderInv, CycleReal
      <3> QED
        BY <2>s, <3>1, <3>2, <3>3, <3>4 DEF OrderInv
    <2> QED
      BY <2>1, <2>2, <2>3, <2>4, <2>5 DEF SearchNext
  <1> QED
    BY <1>1, <1>2, PTL DEF SearchSpec

\* The variables of the search keep their types.
THEOREM SearchTypeCorrect == SearchSpec => []SearchTypeOK
  <1>1. OrderInv => SearchTypeOK
    BY DEF OrderInv
  <1> QED
    BY SearchInvariant, <1>1, PTL

\* What orderPlatformComponents() returns is a dependency order of the
\* registered components: the assumption PlatformShell rests on.
THEOREM OrderIsCorrect == SearchSpec => []OrderCorrect
  <1>1. OrderInv => OrderCorrect
    <2> SUFFICES ASSUME OrderInv, result = "ordered" PROVE OrderCorrect
      BY DEF OrderCorrect
    <2>1. Members(sorted) = Ids
      BY DEF OrderInv, RootOK, OrderedOK
    <2> QED
      BY <2>1 DEF OrderInv, OrderedOK, OrderCorrect, Members
  <1> QED
    BY SearchInvariant, <1>1, PTL

\* A reported cycle is a cycle of the graph.
THEOREM CycleIsReal == SearchSpec => []CycleReal
  <1>1. OrderInv => CycleReal
    BY DEF OrderInv
  <1> QED
    BY SearchInvariant, <1>1, PTL

\* The lookup of a visited component never fails.
THEOREM LookupSucceeds == SearchSpec => []NeverMissing
  <1>1. OrderInv => NeverMissing
    BY DEF OrderInv, StackOK, NeverMissing
  <1> QED
    BY SearchInvariant, <1>1, PTL

\* Whatever is registered, orderPlatformComponents() gives the right answer.
THEOREM OrderIsSound == SearchSpec => []OrderSound
  BY SearchTypeCorrect, OrderIsCorrect, CycleIsReal, LookupSucceeds, PTL
     DEF OrderSound
=============================================================================
