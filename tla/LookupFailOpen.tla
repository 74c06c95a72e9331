---------------------------- MODULE LookupFailOpen ----------------------------
(***************************************************************************)
(* The scheduler's fail-open path for optional external KV lookups:        *)
(* LookupFailOpenPolicy (patches/kv_lookup_fail_open.py) driven by         *)
(* get_num_new_matched_tokens of the offloading scheduler, which asks      *)
(* about a waiting request again on every scheduling opportunity.  The     *)
(* scheduler is one thread, so one query is one step; the clock may        *)
(* advance inside it, while the lookup runs.                               *)
(*                                                                         *)
(* Times are kept relative to the clock: a deferral by its age (capped at  *)
(* Timeout, where it stops mattering), the circuit by what is left of it.  *)
(* _consecutive_timeouts grows without a bound in the code, while the      *)
(* circuit trips again and again; the only thing done with it is a         *)
(* comparison with timeout_threshold, so the model stops it there.         *)
(***************************************************************************)
EXTENDS Naturals, FiniteSets

CONSTANTS
  Reqs,            \* the requests
  Timeout,         \* timeout_seconds
  Breaker,         \* circuit_breaker_seconds
  Threshold,       \* timeout_threshold
  MaxConcurrent,   \* max_concurrent_lookups
  MaxDelay         \* bound: how far the clock may advance inside one query

\* LookupFailOpenPolicy.__init__ refuses anything else.
ASSUME PolicyAssumption ==
  /\ Timeout \in Nat \ {0} /\ Breaker \in Nat \ {0}
  /\ Threshold \in Nat \ {0} /\ MaxConcurrent \in Nat \ {0}
ASSUME BoundAssumption == MaxDelay \in Nat
ASSUME ReqsAssumption == IsFiniteSet(Reqs)

VARIABLES
  deferred,   \* the keys of _deferred
  age,        \* for a deferred request: now - its start, at most Timeout
  timeouts,   \* _consecutive_timeouts, stopped at Threshold by the model
  tripped,    \* _circuit_open_until # 0: open, or half open once expired
  openLeft,   \* what is left of the open circuit, 0 when it is not open
  lately,     \* history: how the last Threshold lookups that tell something of
              \* the storage ended, the newest first; no action reads it
  started,    \* requests with a deferred_lookup_start_time
  bypassed,   \* requests with external_lookup_bypassed
  phase,      \* where the request is in the engine
  moving,     \* requests with transfer_jobs in flight
  answer      \* what the last query told the scheduler

policy == <<deferred, age, timeouts, tripped, openLeft, lately>>
vars == <<deferred, age, timeouts, tripped, openLeft, lately, started, bypassed, phase, moving, answer>>

Init == /\ deferred = {}
        /\ age = [r \in Reqs |-> 0]
        /\ timeouts = 0
        /\ tripped = FALSE
        /\ openLeft = 0
        /\ lately = [i \in 1..Threshold |-> "none"]
        /\ started = {}
        /\ bypassed = {}
        /\ phase = [r \in Reqs |-> "absent"]
        /\ moving = {}
        /\ answer = [r \in Reqs |-> "none"]

AtMost(n, bound) == IF n < bound THEN n ELSE bound

Aged(r, d) == IF r \in deferred THEN AtMost(age[r] + d, Timeout) ELSE 0
LeftAfter(d) == IF d < openLeft THEN openLeft - d ELSE 0

\* The clock moves on by d.
Elapse(d) == /\ age' = [r \in Reqs |-> Aged(r, d)]
             /\ openLeft' = LeftAfter(d)

CircuitOpen == openLeft > 0

\* circuit_bypass_reason refuses a request that has no deferral yet when
\* max_concurrent_lookups others have one.
OneProbeMore(r) == r \notin deferred /\ Cardinality(deferred) > MaxConcurrent    \* mutant
TooManyProbes(r) == r \notin deferred /\ Cardinality(deferred) >= MaxConcurrent

KeepSlot(r) == UNCHANGED <<deferred, age>>    \* mutant
Forget(r) == /\ deferred' = deferred \ {r}
             /\ age' = [age EXCEPT ![r] = 0]

Asks(r) == phase[r] = "waiting" /\ r \notin moving
Answers(r, a) == answer' = [answer EXCEPT ![r] = a]

\* A preempted request whose stores are still in flight is asked about later;
\* the policy is not consulted.
AskDelayed(r) ==
  /\ phase[r] = "waiting" /\ r \in moving
  /\ Answers(r, "retry")
  /\ UNCHANGED <<policy, started, bypassed, phase, moving>>

\* A request that failed open once computes its prefix locally from then on.
AskBypassed(r) ==
  /\ Asks(r) /\ r \in bypassed
  /\ Answers(r, "decided")
  /\ UNCHANGED <<policy, started, bypassed, phase, moving>>

\* circuit_bypass_reason names a reason: no lookup is made.
AskRefused(r) ==
  /\ Asks(r) /\ r \notin bypassed
  /\ CircuitOpen \/ TooManyProbes(r)
  /\ bypassed' = bypassed \cup {r}
  /\ Forget(r)
  /\ Answers(r, "decided")
  /\ UNCHANGED <<timeouts, tripped, openLeft, lately, started, phase, moving>>

\* Mutant: an open circuit is not looked at.
AllowedByBoundOnly(r) == Asks(r) /\ r \notin bypassed /\ ~TooManyProbes(r)

LookupAllowed(r) ==
  /\ Asks(r) /\ r \notin bypassed
  /\ ~CircuitOpen /\ ~TooManyProbes(r)

\* What the circuit is judged by: a lookup that ran into its deadline is "late";
\* an answer is "healthy" when its request had waited for it or when it probes a
\* circuit that has tripped.  An answer at once while the circuit is closed tells
\* nothing: resolve() leaves the count alone.
Recorded(o) == lately' = [i \in 1..Threshold |-> IF i = 1 THEN o ELSE lately[i - 1]]

ForgetsWhenTripped(r) == tripped    \* mutant: a healthy answer before that is not looked at
ForgetsTimeouts(r) == r \in deferred \/ tripped

\* The lookup answers after d; resolve() ends the deferral and, when there was
\* one or the circuit is half open, forgets the past timeouts.
AskAnswered(r, d) ==
  /\ LookupAllowed(r)
  /\ deferred' = deferred \ {r}
  /\ age' = [q \in Reqs |-> IF q = r THEN 0 ELSE Aged(q, d)]
  /\ UNCHANGED openLeft
  /\ IF ForgetsTimeouts(r)
       THEN timeouts' = 0 /\ tripped' = FALSE
       ELSE UNCHANGED <<timeouts, tripped>>
  /\ IF r \in deferred \/ tripped THEN Recorded("healthy") ELSE UNCHANGED lately
  /\ started' = started \ {r}
  /\ Answers(r, "decided")
  /\ UNCHANGED <<bypassed, phase, moving>>

\* How long r has waited when the lookup that took d is still unresolved: a
\* first deferral starts when the lookup does.
WaitedAnew(r, d) == AtMost(d, Timeout)    \* mutant: each query restarts the clock
Waited(r, d) == IF r \in deferred THEN AtMost(age[r] + d, Timeout) ELSE AtMost(d, Timeout)

\* The lookup is unresolved and the budget is not spent: ask again later.
AskDeferred(r, d) ==
  /\ LookupAllowed(r)
  /\ Waited(r, d) < Timeout
  /\ deferred' = deferred \cup {r}
  /\ age' = [q \in Reqs |-> IF q = r THEN Waited(r, d) ELSE Aged(q, d)]
  /\ UNCHANGED openLeft
  /\ started' = started \cup {r}
  /\ Answers(r, "retry")
  /\ UNCHANGED <<timeouts, tripped, lately, bypassed, phase, moving>>

Trips == timeouts + 1 >= Threshold

\* The lookup is unresolved and the budget is spent: bypass_reason answers
\* "deadline" and may open the circuit.
AskTimedOut(r, d) ==
  /\ LookupAllowed(r)
  /\ Waited(r, d) = Timeout
  /\ deferred' = deferred \ {r}
  /\ age' = [q \in Reqs |-> IF q = r THEN 0 ELSE Aged(q, d)]
  /\ timeouts' = AtMost(timeouts + 1, Threshold)
  /\ Recorded("late")
  /\ IF Trips
       THEN tripped' = TRUE /\ openLeft' = Breaker
       ELSE UNCHANGED <<tripped, openLeft>>
  /\ bypassed' = bypassed \cup {r}
  /\ started' = started \ {r}
  /\ Answers(r, "decided")
  /\ UNCHANGED <<phase, moving>>

Ask(r) == \/ AskDelayed(r) \/ AskBypassed(r) \/ AskRefused(r)
          \/ \E d \in 0..MaxDelay : AskAnswered(r, d) \/ AskDeferred(r, d) \/ AskTimedOut(r, d)

\* on_new_request
Arrive(r) ==
  /\ phase[r] = "absent"
  /\ phase' = [phase EXCEPT ![r] = "waiting"]
  /\ UNCHANGED <<policy, started, bypassed, moving, answer>>

\* The engine schedules a request it has a decision for, and may preempt it:
\* the next query starts over, with what the request remembers.
Schedule(r) ==
  /\ phase[r] = "waiting" /\ answer[r] = "decided"
  /\ phase' = [phase EXCEPT ![r] = "running"]
  /\ UNCHANGED <<policy, started, bypassed, moving, answer>>

Preempt(r) ==
  /\ phase[r] = "running"
  /\ phase' = [phase EXCEPT ![r] = "waiting"]
  /\ UNCHANGED <<policy, started, bypassed, moving, answer>>

\* A running request stores chunks; the transfers end by themselves.
StartTransfers(r) ==
  /\ phase[r] = "running" /\ r \notin moving
  /\ moving' = moving \cup {r}
  /\ UNCHANGED <<policy, started, bypassed, phase, answer>>

TransfersEnd(r) ==
  /\ r \in moving
  /\ moving' = moving \ {r}
  /\ UNCHANGED <<policy, started, bypassed, phase, answer>>

\* request_finished, also for an aborted request; a later request with the
\* same name starts from a fresh RequestOffloadState.
RequestFinished(r) ==
  /\ phase[r] \in {"waiting", "running"}
  /\ phase' = [phase EXCEPT ![r] = "absent"]
  /\ Forget(r)
  /\ started' = started \ {r}
  /\ bypassed' = bypassed \ {r}
  /\ answer' = [answer EXCEPT ![r] = "none"]
  /\ moving' = moving \ {r}
  /\ UNCHANGED <<timeouts, tripped, openLeft, lately>>

\* The clock; steps that would change nothing are left out.
Tick == /\ Elapse(1)
        /\ <<age, openLeft>>' # <<age, openLeft>>
        /\ UNCHANGED <<deferred, timeouts, tripped, lately, started, bypassed, phase, moving, answer>>

Next == \/ Tick
        \/ \E r \in Reqs : \/ Ask(r) \/ Arrive(r) \/ Schedule(r) \/ Preempt(r)
                            \/ StartTransfers(r) \/ TransfersEnd(r) \/ RequestFinished(r)

Spec == Init /\ [][Next]_vars

\* Time passes, transfers end, and the engine asks about every waiting request
\* again and again.  Nothing is assumed of the storage: a lookup may never answer.
FairSpec ==
  /\ Spec /\ WF_vars(Tick)
  /\ \A r \in Reqs : WF_vars(Ask(r)) /\ WF_vars(TransfersEnd(r))

-------------------------------------------------------------------------------
\* Every variable keeps its type; the proofs start from it.
TypeOK ==
  /\ deferred \in SUBSET Reqs /\ started \in SUBSET Reqs /\ bypassed \in SUBSET Reqs
  /\ moving \in SUBSET Reqs
  /\ age \in [Reqs -> 0..Timeout]
  /\ timeouts \in 0..Threshold
  /\ tripped \in BOOLEAN
  /\ openLeft \in 0..Breaker
  /\ lately \in [1..Threshold -> {"none", "late", "healthy"}]
  /\ phase \in [Reqs -> {"absent", "waiting", "running"}]
  /\ answer \in [Reqs -> {"none", "retry", "decided"}]

\* No more requests wait on external metadata than max_concurrent_lookups.
ProbesBounded == Cardinality(deferred) <= MaxConcurrent

\* A slot is never leaked: whoever holds one is a waiting request that was told
\* to ask again and has not failed open; and the request's own start time is that
\* of its deferral, until a refusal ends the deferral for good.
SlotsAreLive ==
  /\ \A r \in deferred : /\ phase[r] = "waiting" /\ answer[r] = "retry"
                         /\ r \notin bypassed \cup moving
  /\ started \ bypassed = deferred

\* The circuit is tripped - open, or half open until a probe answers - exactly
\* when the last timeout_threshold lookups that tell something of the storage all
\* ran into their deadline: no answer that a request had waited for came among
\* them, and no answer at all since it tripped.  Answers at once, to requests that
\* never waited, do not count while it is closed: they may lie between the timeouts.
OpenHasCause ==
  /\ CircuitOpen => tripped
  /\ tripped <=> \A i \in 1..Threshold : lately[i] = "late"

\* What makes OpenHasCause inductive: the count is the length of the newest run
\* of late lookups, as far as the history goes.
CountIsRun ==
  /\ tripped <=> timeouts = Threshold
  /\ \A i \in 1..timeouts : lately[i] = "late"
  /\ timeouts < Threshold => lately[timeouts + 1] # "late"

\* While the circuit is open nobody starts to wait on storage, no timeout is
\* counted, and no answer closes the circuit before its time is up.
OpenMeansNoProbe ==
  [][CircuitOpen => /\ deferred' \subseteq deferred
                    /\ timeouts' = timeouts
                    /\ tripped']_vars

\* A deadline does not move on later scheduler ticks: a deferral only gets
\* older for as long as it lasts.
DeadlineFixed ==
  [][\A r \in deferred \cap deferred' : age'[r] >= age[r]]_vars

\* A request told to ask again is decided sooner or later, even when the lookup
\* never answers, other requests come and go and the circuit opens and closes.
RetryEnds == \A r \in Reqs : (answer[r] = "retry") ~> (answer[r] # "retry")
===============================================================================
