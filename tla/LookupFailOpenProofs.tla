------------------------- MODULE LookupFailOpenProofs -------------------------
(***************************************************************************)
(* The safety properties of LookupFailOpen, for any finite set of requests *)
(* and any timeouts, thresholds and limits the policy accepts.             *)
(***************************************************************************)
EXTENDS LookupFailOpen, FiniteSetTheorems, TLAPS

\* What the steps preserve: the listed properties need each other.
Inv == TypeOK /\ ProbesBounded /\ SlotsAreLive /\ OpenHasCause /\ CountIsRun

\* Ages stay within the timeout and only grow, whatever the delay.
LEMMA AtMostBounds ==
  ASSUME NEW n \in Nat, NEW d \in Nat, NEW b \in Nat, n <= b
  PROVE  AtMost(n + d, b) \in 0..b /\ AtMost(n + d, b) >= n
  BY DEF AtMost

\* The ages after any delay are well typed.
LEMMA AgedType ==
  ASSUME TypeOK, NEW r \in Reqs, NEW d \in Nat
  PROVE  Aged(r, d) \in 0..Timeout /\ (r \in deferred => Aged(r, d) >= age[r])
  BY AtMostBounds, PolicyAssumption DEF TypeOK, Aged

\* So is the time a request has waited when its lookup is still unresolved.
LEMMA WaitedType ==
  ASSUME TypeOK, NEW r \in Reqs, NEW d \in Nat
  PROVE  Waited(r, d) \in 0..Timeout /\ (r \in deferred => Waited(r, d) >= age[r])
  BY AtMostBounds, PolicyAssumption DEF TypeOK, Waited, AtMost

\* The circuit is judged by the history once the count is.
LEMMA CountGivesCause ==
  ASSUME TypeOK', CountIsRun', CircuitOpen' => tripped'
  PROVE  OpenHasCause'
<1>1. timeouts' \in 0..Threshold /\ Threshold \in Nat \ {0}
  BY PolicyAssumption DEF TypeOK
<1>2. ASSUME timeouts' = Threshold PROVE \A i \in 1..Threshold : lately'[i] = "late"
  BY <1>2 DEF CountIsRun
<1>3. ASSUME timeouts' # Threshold PROVE \E i \in 1..Threshold : lately'[i] # "late"
  <2>1. timeouts' < Threshold
    BY <1>1, <1>3
  <2>2. timeouts' + 1 \in 1..Threshold
    <3>1. \A n \in 0..Threshold : n < Threshold => n + 1 \in 1..Threshold
      BY PolicyAssumption
    <3> QED
      BY <1>1, <2>1, <3>1
  <2> QED
    BY <2>1, <2>2 DEF CountIsRun
<1> QED
  BY <1>2, <1>3 DEF OpenHasCause, CountIsRun

\* Steps that leave the policy's judgement alone keep its cause.
LEMMA JudgementKept ==
  ASSUME Inv, UNCHANGED <<timeouts, tripped, lately>>, CircuitOpen' => CircuitOpen
  PROVE  OpenHasCause' /\ CountIsRun'
  BY DEF Inv, OpenHasCause, CountIsRun

\* Nothing is deferred and the circuit is closed at first.
LEMMA InitInv == Init => Inv
<1> SUFFICES ASSUME Init PROVE Inv
  OBVIOUS
<1>1. TypeOK
  <2>1. tripped \in BOOLEAN
    BY Zenon DEF Init
  <2>2. 0 \in 0..Timeout /\ 0 \in 0..Threshold /\ 0 \in 0..Breaker
    BY PolicyAssumption
  <2> QED
    BY <2>1, <2>2 DEF Init, TypeOK
<1>2. ProbesBounded
  BY FS_EmptySet, PolicyAssumption DEF Init, ProbesBounded
<1>3. SlotsAreLive
  BY DEF Init, SlotsAreLive
<1>4. CountIsRun
  BY PolicyAssumption DEF Init, CountIsRun
<1>5. OpenHasCause
  <2>1. 1 \in 1..Threshold
    BY PolicyAssumption
  <2> QED
    BY <2>1 DEF Init, OpenHasCause, CircuitOpen
<1> QED
  BY <1>1, <1>2, <1>3, <1>4, <1>5 DEF Inv

\* Steps that take no slot leave the bound alone.
LEMMA FewerSlots ==
  ASSUME TypeOK, ProbesBounded, deferred' \subseteq deferred
  PROVE  ProbesBounded'
<1>1. IsFiniteSet(deferred) /\ IsFiniteSet(deferred')
  BY ReqsAssumption, FS_Subset DEF TypeOK
<1>2. Cardinality(deferred') <= Cardinality(deferred)
  BY <1>1, FS_Subset
<1>3. Cardinality(deferred) \in Nat /\ Cardinality(deferred') \in Nat
  BY <1>1, FS_CardinalityType
<1> QED
  BY <1>2, <1>3, PolicyAssumption DEF ProbesBounded

\* The one step that takes a slot: the lookup is unresolved for the first time.
LEMMA DeferKeepsInv ==
  ASSUME Inv, NEW r \in Reqs, NEW d \in 0..MaxDelay, AskDeferred(r, d)
  PROVE  Inv'
<1>d. d \in Nat
  BY BoundAssumption
<1>1. TypeOK'
  <2>1. age' \in [Reqs -> 0..Timeout]
    BY <1>d, AgedType, WaitedType DEF Inv, AskDeferred
  <2>2. deferred' \in SUBSET Reqs /\ started' \in SUBSET Reqs
    BY DEF Inv, TypeOK, AskDeferred
  <2>3. answer' \in [Reqs -> {"none", "retry", "decided"}]
    BY DEF Inv, TypeOK, AskDeferred, Answers
  <2> QED
    BY <2>1, <2>2, <2>3 DEF Inv, TypeOK, AskDeferred
<1>2. ProbesBounded'
  <2>1. CASE r \in deferred
    BY <2>1, FewerSlots DEF Inv, AskDeferred
  <2>2. CASE r \notin deferred
    <3>1. IsFiniteSet(deferred)
      BY ReqsAssumption, FS_Subset DEF Inv, TypeOK
    <3>2. Cardinality(deferred') = Cardinality(deferred) + 1
      BY <2>2, <3>1, FS_AddElement DEF AskDeferred
    <3>3. ~(Cardinality(deferred) >= MaxConcurrent)
      BY <2>2 DEF AskDeferred, LookupAllowed, TooManyProbes
    <3>4. Cardinality(deferred) \in Nat
      BY <3>1, FS_CardinalityType
    <3> QED
      BY <3>2, <3>3, <3>4, PolicyAssumption DEF ProbesBounded
  <2> QED
    BY <2>1, <2>2
<1>3. SlotsAreLive'
  BY DEF Inv, TypeOK, SlotsAreLive, AskDeferred, LookupAllowed, Asks, Answers
<1>4. OpenHasCause' /\ CountIsRun'
  BY JudgementKept DEF CircuitOpen, AskDeferred
<1> QED
  BY <1>1, <1>2, <1>3, <1>4 DEF Inv

\* The history keeps its type when an outcome is recorded.
LEMMA HistoryType ==
  ASSUME Inv, NEW o \in {"late", "healthy"}, Recorded(o)
  PROVE  lately' \in [1..Threshold -> {"none", "late", "healthy"}]
<1>1. lately \in [1..Threshold -> {"none", "late", "healthy"}] /\ Threshold \in Nat \ {0}
  BY PolicyAssumption DEF Inv, TypeOK
<1>2. \A i \in 1..Threshold : i # 1 => i - 1 \in 1..Threshold
  BY <1>1
<1> QED
  BY <1>1, <1>2 DEF Recorded

\* A timeout makes the newest run of late lookups one longer, and trips the
\* circuit when that makes timeout_threshold of them.
LEMMA LateKeepsRun ==
  ASSUME Inv, Recorded("late"), timeouts' = AtMost(timeouts + 1, Threshold),
         IF Trips THEN tripped' = TRUE ELSE UNCHANGED tripped
  PROVE  CountIsRun'
<1>1. timeouts \in 0..Threshold /\ Threshold \in Nat \ {0}
  BY PolicyAssumption DEF Inv, TypeOK
<1>2. \A i \in 1..Threshold : lately'[i] = IF i = 1 THEN "late" ELSE lately[i - 1]
  BY DEF Recorded
<1>3. tripped' <=> timeouts' = Threshold
  BY <1>1 DEF Inv, CountIsRun, Trips, AtMost
<1>4. \A i \in 1..timeouts' : lately'[i] = "late"
  <2> SUFFICES ASSUME NEW i \in 1..timeouts' PROVE lately'[i] = "late"
    OBVIOUS
  <2>1. i \in 1..Threshold /\ (i # 1 => i - 1 \in 1..timeouts)
    BY <1>1 DEF AtMost
  <2> QED
    BY <1>2, <2>1 DEF Inv, CountIsRun
<1>5. ASSUME timeouts' < Threshold PROVE lately'[timeouts' + 1] # "late"
  <2>1. timeouts' = timeouts + 1 /\ timeouts < Threshold /\ timeouts' + 1 \in 1..Threshold
    BY <1>1, <1>5 DEF AtMost
  <2>2. lately'[timeouts' + 1] = lately[timeouts + 1]
    BY <1>1, <1>2, <2>1
  <2> QED
    BY <2>1, <2>2 DEF Inv, CountIsRun
<1> QED
  BY <1>3, <1>4, <1>5 DEF CountIsRun

\* The other queries give the slot back or do not touch it.
LEMMA AskKeepsInv ==
  ASSUME Inv, NEW r \in Reqs, Ask(r)
  PROVE  Inv'
<1>1. CASE AskDelayed(r)
  <2>1. TypeOK' /\ deferred' \subseteq deferred
    BY <1>1 DEF Inv, TypeOK, AskDelayed, Answers, policy
  <2>2. SlotsAreLive'
    BY <1>1 DEF Inv, TypeOK, SlotsAreLive, AskDelayed, Answers, policy
  <2>3. OpenHasCause' /\ CountIsRun'
    BY <1>1, JudgementKept DEF CircuitOpen, AskDelayed, policy
  <2> QED
    BY <2>1, <2>2, <2>3, FewerSlots DEF Inv
<1>2. CASE AskBypassed(r)
  <2>1. TypeOK' /\ deferred' \subseteq deferred
    BY <1>2 DEF Inv, TypeOK, AskBypassed, Answers, policy
  <2>2. SlotsAreLive'
    BY <1>2 DEF Inv, TypeOK, SlotsAreLive, AskBypassed, Answers, Asks, policy
  <2>3. OpenHasCause' /\ CountIsRun'
    BY <1>2, JudgementKept DEF CircuitOpen, AskBypassed, policy
  <2> QED
    BY <2>1, <2>2, <2>3, FewerSlots DEF Inv
<1>3. CASE AskRefused(r)
  <2>1. TypeOK' /\ deferred' \subseteq deferred
    BY <1>3, PolicyAssumption DEF Inv, TypeOK, AskRefused, Answers, Forget
  <2>2. SlotsAreLive'
    BY <1>3 DEF Inv, TypeOK, SlotsAreLive, AskRefused, Answers, Forget
  <2>3. OpenHasCause' /\ CountIsRun'
    BY <1>3, JudgementKept DEF CircuitOpen, AskRefused
  <2> QED
    BY <2>1, <2>2, <2>3, FewerSlots DEF Inv
<1>4. ASSUME NEW d \in 0..MaxDelay, AskAnswered(r, d) PROVE Inv'
  <2>d. d \in Nat
    BY BoundAssumption
  <2>1. age' \in [Reqs -> 0..Timeout]
    BY <1>4, <2>d, AgedType, PolicyAssumption DEF Inv, AskAnswered
  <2>t. timeouts' \in 0..Threshold
    BY <1>4, PolicyAssumption DEF Inv, TypeOK, AskAnswered
  <2>p. tripped' \in BOOLEAN
    BY <1>4 DEF Inv, TypeOK, AskAnswered
  <2>a. answer' \in [Reqs -> {"none", "retry", "decided"}]
    BY <1>4 DEF Inv, TypeOK, AskAnswered, Answers
  <2>h. lately' \in [1..Threshold -> {"none", "late", "healthy"}]
    BY <1>4, HistoryType DEF Inv, TypeOK, AskAnswered
  <2>2. TypeOK' /\ deferred' \subseteq deferred
    BY <1>4, <2>1, <2>t, <2>p, <2>a, <2>h DEF Inv, TypeOK, AskAnswered
  <2>3. SlotsAreLive'
    BY <1>4 DEF Inv, TypeOK, SlotsAreLive, AskAnswered, Answers
  <2>4. OpenHasCause' /\ CountIsRun'
    <3>1. ~CircuitOpen'
      BY <1>4 DEF CircuitOpen, AskAnswered, LookupAllowed
    <3>2. CASE ForgetsTimeouts(r)
      <4>1. timeouts' = 0 /\ tripped' = FALSE /\ Recorded("healthy")
        BY <1>4, <3>2 DEF AskAnswered, ForgetsTimeouts
      <4>2. CountIsRun'
        BY <4>1, PolicyAssumption DEF CountIsRun, Recorded
      <4> QED
        BY <2>2, <3>1, <4>2, CountGivesCause
    <3>3. CASE ~ForgetsTimeouts(r)
      <4>1. UNCHANGED <<timeouts, tripped, lately>>
        BY <1>4, <3>3 DEF AskAnswered, ForgetsTimeouts
      <4> QED
        BY <3>1, <4>1, JudgementKept
    <3> QED
      BY <3>2, <3>3
  <2> QED
    BY <2>2, <2>3, <2>4, FewerSlots DEF Inv
<1>5. ASSUME NEW d \in 0..MaxDelay, AskTimedOut(r, d) PROVE Inv'
  <2>d. d \in Nat
    BY BoundAssumption
  <2>1. age' \in [Reqs -> 0..Timeout]
    BY <1>5, <2>d, AgedType, PolicyAssumption DEF Inv, AskTimedOut
  <2>2. timeouts' \in 0..Threshold /\ (Trips => timeouts' = Threshold)
    BY <1>5, PolicyAssumption DEF Inv, TypeOK, AskTimedOut, AtMost, Trips
  <2>p. tripped' \in BOOLEAN
    BY <1>5, Zenon DEF Inv, TypeOK, AskTimedOut
  <2>l. openLeft' \in 0..Breaker
    BY <1>5, PolicyAssumption DEF Inv, TypeOK, AskTimedOut
  <2>a. answer' \in [Reqs -> {"none", "retry", "decided"}]
    BY <1>5 DEF Inv, TypeOK, AskTimedOut, Answers
  <2>h. lately' \in [1..Threshold -> {"none", "late", "healthy"}]
    BY <1>5, HistoryType DEF Inv, AskTimedOut
  <2>3. TypeOK' /\ deferred' \subseteq deferred
    BY <1>5, <2>1, <2>2, <2>p, <2>l, <2>a, <2>h DEF Inv, TypeOK, AskTimedOut
  <2>4. SlotsAreLive'
    BY <1>5 DEF Inv, TypeOK, SlotsAreLive, AskTimedOut, Answers
  <2>5. CountIsRun'
    BY <1>5, LateKeepsRun DEF AskTimedOut
  <2>6. CircuitOpen' => tripped'
    BY <1>5 DEF CircuitOpen, AskTimedOut, LookupAllowed
  <2>7. OpenHasCause'
    BY <2>3, <2>5, <2>6, CountGivesCause
  <2> QED
    BY <2>3, <2>4, <2>5, <2>7, FewerSlots DEF Inv
<1> QED
  BY <1>1, <1>2, <1>3, <1>4, <1>5, DeferKeepsInv DEF Ask

\* Nor do the clock and the request's life outside the policy take a slot.
LEMMA StepKeepsInv == Inv /\ [Next]_vars => Inv'
<1> SUFFICES ASSUME Inv, [Next]_vars PROVE Inv'
  OBVIOUS
<1>1. CASE Tick
  <2>1. age' \in [Reqs -> 0..Timeout]
    BY <1>1, AgedType DEF Inv, Tick, Elapse
  <2>2. openLeft' \in 0..Breaker /\ (openLeft' > 0 => openLeft > 0)
    BY <1>1, PolicyAssumption DEF Inv, TypeOK, Tick, Elapse, LeftAfter
  <2>3. TypeOK' /\ deferred' \subseteq deferred
    BY <1>1, <2>1, <2>2 DEF Inv, TypeOK, Tick
  <2>4. SlotsAreLive'
    BY <1>1 DEF Inv, SlotsAreLive, Tick
  <2>5. OpenHasCause' /\ CountIsRun'
    BY <1>1, <2>2, JudgementKept DEF CircuitOpen, Tick
  <2> QED
    BY <2>3, <2>4, <2>5, FewerSlots DEF Inv
<1>2. ASSUME NEW r \in Reqs, RequestFinished(r) PROVE Inv'
  <2>1. TypeOK' /\ deferred' \subseteq deferred
    BY <1>2, PolicyAssumption DEF Inv, TypeOK, RequestFinished, Forget
  <2>2. SlotsAreLive'
    BY <1>2 DEF Inv, TypeOK, SlotsAreLive, RequestFinished, Forget
  <2>3. OpenHasCause' /\ CountIsRun'
    BY <1>2, JudgementKept DEF CircuitOpen, RequestFinished
  <2> QED
    BY <2>1, <2>2, <2>3, FewerSlots DEF Inv
<1>3. ASSUME NEW r \in Reqs,
             Arrive(r) \/ Schedule(r) \/ Preempt(r) \/ StartTransfers(r) \/ TransfersEnd(r)
      PROVE  Inv'
  <2>1. TypeOK' /\ deferred' \subseteq deferred
    BY <1>3 DEF Inv, TypeOK, Arrive, Schedule, Preempt, StartTransfers, TransfersEnd, policy
  <2>2. SlotsAreLive'
    BY <1>3 DEF Inv, TypeOK, SlotsAreLive,
       Arrive, Schedule, Preempt, StartTransfers, TransfersEnd, policy
  <2>3. OpenHasCause' /\ CountIsRun'
    BY <1>3, JudgementKept DEF CircuitOpen,
       Arrive, Schedule, Preempt, StartTransfers, TransfersEnd, policy
  <2> QED
    BY <2>1, <2>2, <2>3, FewerSlots DEF Inv
<1>4. CASE UNCHANGED vars
  BY <1>4 DEF vars, Inv, TypeOK, ProbesBounded, SlotsAreLive, OpenHasCause, CountIsRun, CircuitOpen
<1> QED
  BY <1>1, <1>2, <1>3, <1>4, AskKeepsInv DEF Next

\* Types, the bound on concurrent probes, the liveness of every slot and the
\* cause of an open circuit hold together in every reachable state.
THEOREM InvHolds == Spec => []Inv
  BY InitInv, StepKeepsInv, PTL DEF Spec

\* At most max_concurrent_lookups requests wait on external metadata.
THEOREM ProbesBoundedHolds == Spec => []ProbesBounded
<1>1. Inv => ProbesBounded
  BY DEF Inv
<1> QED
  BY <1>1, InvHolds, PTL

\* A slot belongs to a waiting request that was told to ask again.
THEOREM SlotsAreLiveHolds == Spec => []SlotsAreLive
<1>1. Inv => SlotsAreLive
  BY DEF Inv
<1> QED
  BY <1>1, InvHolds, PTL

\* A deferral only gets older: no step moves its deadline.
THEOREM DeadlineFixedHolds == Spec => DeadlineFixed
<1> DEFINE Older == \A r \in deferred \cap deferred' : age'[r] >= age[r]
<1>1. ASSUME Inv, [Next]_vars PROVE Older
  <2> SUFFICES ASSUME NEW q \in deferred \cap deferred' PROVE age'[q] >= age[q]
    OBVIOUS
  <2>q. q \in Reqs /\ age[q] \in 0..Timeout /\ age \in [Reqs -> 0..Timeout]
    BY <1>1 DEF Inv, TypeOK
  <2>1. CASE Tick
    BY <1>1, <2>1, <2>q, AgedType DEF Inv, Tick, Elapse
  <2>2. ASSUME NEW r \in Reqs, AskRefused(r) \/ RequestFinished(r) PROVE age'[q] >= age[q]
    BY <2>2, <2>q DEF AskRefused, RequestFinished, Forget
  <2>3. ASSUME NEW r \in Reqs, NEW d \in 0..MaxDelay,
               AskAnswered(r, d) \/ AskDeferred(r, d) \/ AskTimedOut(r, d)
        PROVE  age'[q] >= age[q]
    BY <1>1, <2>3, <2>q, AgedType, WaitedType, BoundAssumption
    DEF Inv, AskAnswered, AskDeferred, AskTimedOut
  <2>4. CASE UNCHANGED age
    BY <2>4, <2>q
  <2>5. ASSUME NEW r \in Reqs,
               \/ AskDelayed(r) \/ AskBypassed(r) \/ Arrive(r) \/ Schedule(r)
               \/ Preempt(r) \/ StartTransfers(r) \/ TransfersEnd(r)
        PROVE  UNCHANGED age
    BY <2>5 DEF AskDelayed, AskBypassed, Arrive, Schedule, Preempt, StartTransfers,
       TransfersEnd, policy
  <2>6. UNCHANGED vars => UNCHANGED age
    BY DEF vars
  <2> QED
    BY <1>1, <2>1, <2>2, <2>3, <2>4, <2>5, <2>6 DEF Next, Ask
<1>2. Inv /\ [Next]_vars => [Older]_vars
  BY <1>1
<1> QED
  BY <1>2, InvHolds, PTL DEF Spec, DeadlineFixed

\* The circuit is tripped exactly when the last timeout_threshold lookups that
\* count ran into their deadline, with no answer to a request that had waited
\* among them and no answer at all since it tripped.
THEOREM OpenHasCauseHolds == Spec => []OpenHasCause
<1>1. Inv => OpenHasCause
  BY DEF Inv
<1> QED
  BY <1>1, InvHolds, PTL

\* While the circuit is open no step takes a slot, counts a timeout or closes
\* the circuit: a lookup that would is not made.
THEOREM OpenMeansNoProbeHolds == Spec => OpenMeansNoProbe
<1> DEFINE Quiet == CircuitOpen => /\ deferred' \subseteq deferred
                                  /\ timeouts' = timeouts
                                  /\ tripped'
<1>1. ASSUME Inv, [Next]_vars PROVE Quiet
  <2> SUFFICES ASSUME CircuitOpen
               PROVE deferred' \subseteq deferred /\ timeouts' = timeouts /\ tripped'
    OBVIOUS
  <2>t. tripped
    BY <1>1 DEF Inv, OpenHasCause
  <2>1. ASSUME NEW r \in Reqs, NEW d \in 0..MaxDelay,
               AskAnswered(r, d) \/ AskDeferred(r, d) \/ AskTimedOut(r, d)
        PROVE  FALSE
    BY <2>1 DEF AskAnswered, AskDeferred, AskTimedOut, LookupAllowed
  <2>2. ASSUME NEW r \in Reqs, AskRefused(r) \/ RequestFinished(r)
        PROVE  deferred' \subseteq deferred /\ timeouts' = timeouts /\ tripped'
    BY <2>2, <2>t DEF AskRefused, RequestFinished, Forget
  <2>3. ASSUME NEW r \in Reqs,
               \/ AskDelayed(r) \/ AskBypassed(r) \/ Arrive(r) \/ Schedule(r)
               \/ Preempt(r) \/ StartTransfers(r) \/ TransfersEnd(r)
        PROVE  UNCHANGED <<deferred, timeouts, tripped>>
    BY <2>3 DEF AskDelayed, AskBypassed, Arrive, Schedule, Preempt, StartTransfers,
       TransfersEnd, policy
  <2>4. CASE Tick \/ UNCHANGED vars
    BY <2>4, <2>t DEF Tick, vars
  <2> QED
    BY <1>1, <2>t, <2>1, <2>2, <2>3, <2>4 DEF Next, Ask
<1>2. Inv /\ [Next]_vars => [Quiet]_vars
  BY <1>1
<1> QED
  BY <1>2, InvHolds, PTL DEF Spec, OpenMeansNoProbe
===============================================================================
