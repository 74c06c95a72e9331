---------------------------- MODULE OffloadProofs ----------------------------
(***************************************************************************)
(* Proofs about Offload, for any requests, pool and cache sizes, chunk     *)
(* size, prompts and bounds: the connector's books on requests, jobs and   *)
(* blocks, the way of the jobs between scheduler and worker, and the block *)
(* tables.  ContentProofs goes on to what is in the blocks and slots.      *)
(***************************************************************************)
EXTENDS Offload, TLAPS, FiniteSetTheorems, SequenceTheorems

Statuses == {"new", "waiting", "loading", "running", "stopped", "aborted"}
Active(r) == status[r] \in {"waiting", "loading", "running"}

\* The connector knows every request that is under way, and only those get jobs.
RequestsAreKnown ==
  /\ status \in [Requests -> Statuses] /\ sched \in [Requests -> Nat] /\ tracked \subseteq Requests
  /\ \A r \in Requests : /\ Active(r) => r \in tracked
                         /\ sched[r] # 0 => status[r] = "running"
  /\ toStore \subseteq tracked /\ (phase # "build" => toStore = {})
JobsAreKnown ==
  /\ counter \in Nat
  /\ \A j \in DOMAIN jobs : j \in Nat /\ j < counter /\ jobs[j].req \in tracked

\* Who is over and still known is about to be signalled, or waits for its jobs.
EndsAreKnown ==
  /\ finishedIds \subseteq Requests /\ signaled \subseteq Requests
  /\ \A r \in finishedIds \cup signaled : Finished(r)
  /\ \A r \in tracked : Finished(r) => r \in finishedIds \/ (r \in signaled /\ JobsOf(r) # {})

\* The watched pairs are those the completions will remove, no more and no less.
WatchedFor(j) == jobs[j].sliding \cup (IF Finished(jobs[j].req) THEN jobs[j].other ELSE {})
WatchIsExact == \A b, j : <<b, j>> \in watch <=> j \in DOMAIN jobs /\ b \in WatchedFor(j)
WatchIsPairs == \A x \in watch : \E b, j : x = <<b, j>>

\* A chunk is marked as being loaded for a load job that there is.
LoadsAreMarked ==
  \A k \in beingLoaded : \E j \in DOMAIN jobs : ~jobs[j].store /\ k \in jobs[j].keys

Books == /\ RequestsAreKnown /\ JobsAreKnown /\ EndsAreKnown
         /\ WatchIsExact /\ WatchIsPairs /\ LoadsAreMarked

-------------------------------------------------------------------------------
\* Steps that leave the books alone, but for requests that need no store job.
LEMMA BooksKept ==
  ASSUME Books, toStore' \subseteq toStore, phase' = phase \/ (phase # "build" /\ phase' # "build"),
         UNCHANGED <<status, sched, finishedIds, tracked, signaled, jobs, counter, watch, beingLoaded>>
  PROVE  Books'
<1>1. RequestsAreKnown'
  BY DEF Books, RequestsAreKnown, Active
<1>2. JobsAreKnown' /\ EndsAreKnown'
  BY DEF Books, JobsAreKnown, EndsAreKnown, Finished, JobsOf
<1>3. WatchIsExact' /\ WatchIsPairs' /\ LoadsAreMarked'
  BY DEF Books, WatchIsExact, WatchIsPairs, LoadsAreMarked, WatchedFor, Finished
<1> QED
  BY <1>1, <1>2, <1>3 DEF Books

\* A request that is not over goes on, or begins.
LEMMA RequestMoves ==
  ASSUME Books, NEW r \in Requests, ~Finished(r),
         status' \in [Requests -> Statuses], sched' \in [Requests -> Nat],
         status'[r] \in {"waiting", "loading", "running"},
         sched'[r] # 0 => status'[r] = "running",
         \A q \in Requests \ {r} : status'[q] = status[q] /\ sched'[q] = sched[q],
         tracked' = tracked \cup {r},
         UNCHANGED <<finishedIds, phase, signaled, jobs, counter, watch, beingLoaded, toStore>>
  PROVE  Books'
<1>1. \A q \in Requests : Finished(q)' <=> Finished(q)
  BY DEF Finished
<1>2. RequestsAreKnown'
  BY DEF Books, RequestsAreKnown, Active
<1>3. JobsAreKnown'
  BY DEF Books, JobsAreKnown
<1>4. EndsAreKnown'
  <2>1. \A q : JobsOf(q)' = JobsOf(q)
    BY DEF JobsOf
  <2>2. ~Finished(r)'
    BY <1>1
  <2> QED
    BY <1>1, <2>1, <2>2 DEF Books, RequestsAreKnown, EndsAreKnown
<1>5. \A j \in DOMAIN jobs : WatchedFor(j)' = WatchedFor(j)
  <2>1. \A j \in DOMAIN jobs : jobs[j].req \in Requests
    BY DEF Books, JobsAreKnown, RequestsAreKnown
  <2> QED
    BY <1>1, <2>1 DEF WatchedFor
<1>6. WatchIsExact' /\ WatchIsPairs' /\ LoadsAreMarked'
  BY <1>5 DEF Books, WatchIsExact, WatchIsPairs, LoadsAreMarked
<1> QED
  BY <1>2, <1>3, <1>4, <1>6 DEF Books

\* _jobs with one more: the new id is nobody's.
LEMMA WithJobIs ==
  ASSUME JobsAreKnown, NEW job, jobs' = WithJob(job)
  PROVE  /\ counter \notin DOMAIN jobs /\ DOMAIN jobs' = DOMAIN jobs \cup {counter}
         /\ jobs'[counter] = job /\ \A j \in DOMAIN jobs : jobs'[j] = jobs[j]
<1>1. counter \notin DOMAIN jobs
  BY DEF JobsAreKnown
<1> QED
  BY <1>1 DEF WithJob

\* A job of a known request is entered in all books at once.
LEMMA JobMade ==
  ASSUME Books, NEW r \in tracked, NEW job, job.req = r, jobs' = WithJob(job),
         counter' = counter + 1,
         status' = status \/ (~Finished(r) /\ status' = [status EXCEPT ![r] = "loading"]),
         status' # status => sched[r] = 0,
         NEW W, W = job.sliding \cup (IF Finished(r) THEN job.other ELSE {}),
         watch' = watch \cup (W \X {counter}),
         beingLoaded' = beingLoaded \cup (IF job.store THEN {} ELSE job.keys),
         toStore' \subseteq toStore,
         UNCHANGED <<sched, finishedIds, phase, tracked, signaled>>
  PROVE  Books'
<1>1. /\ counter \notin DOMAIN jobs /\ DOMAIN jobs' = DOMAIN jobs \cup {counter}
      /\ jobs'[counter] = job /\ \A j \in DOMAIN jobs : jobs'[j] = jobs[j]
  BY WithJobIs DEF Books
<1>2. /\ tracked \subseteq Requests /\ status \in [Requests -> Statuses]
      /\ \A j \in DOMAIN jobs : jobs[j].req \in Requests
  BY DEF Books, RequestsAreKnown, JobsAreKnown
<1>3. /\ status' \in [Requests -> Statuses]
      /\ \A q \in Requests : /\ Finished(q)' <=> Finished(q)
                             /\ status'[q] = status[q] \/ (q = r /\ status'[q] = "loading")
  BY <1>2 DEF Finished, Statuses
<1>4. RequestsAreKnown'
  BY <1>3 DEF Books, RequestsAreKnown, Active
<1>5. JobsAreKnown'
  BY <1>1 DEF Books, JobsAreKnown
<1>6. EndsAreKnown'
  <2>1. ASSUME NEW q PROVE JobsOf(q) \subseteq JobsOf(q)'
    BY <1>1 DEF JobsOf
  <2> QED
    BY <1>2, <1>3, <2>1 DEF Books, EndsAreKnown
<1>7. /\ \A j \in DOMAIN jobs : WatchedFor(j)' = WatchedFor(j)
      /\ \A j : j = counter => WatchedFor(j)' = W
  <2>1. \A j \in DOMAIN jobs : WatchedFor(j)' = WatchedFor(j)
    BY <1>1, <1>2, <1>3 DEF WatchedFor
  <2>2. jobs'[counter].req = r /\ (Finished(r)' <=> Finished(r))
    BY <1>1, <1>2, <1>3
  <2>3. jobs'[counter].sliding = job.sliding /\ jobs'[counter].other = job.other
    BY <1>1
  <2>4. ASSUME NEW j, j = counter PROVE WatchedFor(j)' = W
    <3>1. jobs'[j].req = r /\ jobs'[j].sliding = job.sliding /\ jobs'[j].other = job.other
      BY <2>2, <2>3, <2>4
    <3> QED
      BY <2>2, <3>1 DEF WatchedFor
  <2> QED
    BY <2>1, <2>4
<1>8. WatchIsExact' /\ WatchIsPairs'
  <2>1. ASSUME NEW b, NEW j
        PROVE  <<b, j>> \in watch' <=> j \in DOMAIN jobs' /\ b \in WatchedFor(j)'
    <3>1. <<b, j>> \in watch' <=> <<b, j>> \in watch \/ (j = counter /\ b \in W)
      OBVIOUS
    <3>2. <<b, j>> \in watch <=> j \in DOMAIN jobs /\ b \in WatchedFor(j)
      BY DEF Books, WatchIsExact
    <3> QED
      BY <1>1, <1>7, <3>1, <3>2
  <2>2. WatchIsPairs'
    BY DEF Books, WatchIsPairs
  <2> QED
    BY <2>1, <2>2 DEF WatchIsExact
<1>9. LoadsAreMarked'
  BY <1>1 DEF Books, LoadsAreMarked
<1> QED
  BY <1>4, <1>5, <1>6, <1>8, <1>9 DEF Books

\* A request that ends is watched over: its jobs' blocks are its own no more.
LEMMA RequestEnds ==
  ASSUME Books, NEW r \in tracked, ~Finished(r), NEW how \in {"stopped", "aborted"},
         RequestFinished(r, how), sched' \in [Requests -> Nat], sched'[r] = 0,
         \A q \in Requests \ {r} : sched'[q] = sched[q],
         UNCHANGED <<phase, tracked, signaled, jobs, counter, beingLoaded, toStore>>
  PROVE  Books'
<1>1. /\ status' = [status EXCEPT ![r] = how]
      /\ watch' = watch \cup UNION {jobs[j].other \X {j} : j \in JobsOf(r)}
      /\ finishedIds' = finishedIds \cup {r}
  BY DEF RequestFinished
<1>2. /\ tracked \subseteq Requests /\ status \in [Requests -> Statuses]
      /\ \A j \in DOMAIN jobs : jobs[j].req \in Requests
  BY DEF Books, RequestsAreKnown, JobsAreKnown
<1>3. /\ status' \in [Requests -> Statuses] /\ Finished(r)'
      /\ \A q \in Requests \ {r} : status'[q] = status[q] /\ (Finished(q)' <=> Finished(q))
  BY <1>1, <1>2 DEF Finished, Statuses
<1>4. RequestsAreKnown'
  BY <1>3 DEF Books, RequestsAreKnown, Active, Finished
<1>5. JobsAreKnown'
  BY DEF Books, JobsAreKnown
<1>6. EndsAreKnown'
  <2>1. \A q : JobsOf(q)' = JobsOf(q)
    BY DEF JobsOf
  <2> QED
    BY <1>1, <1>2, <1>3, <2>1 DEF Books, EndsAreKnown
<1>7. ASSUME NEW j \in DOMAIN jobs
      PROVE  WatchedFor(j)' = WatchedFor(j) \cup (IF j \in JobsOf(r) THEN jobs[j].other ELSE {})
  <2>1. jobs[j].req = r <=> j \in JobsOf(r)
    BY DEF JobsOf
  <2> QED
    BY <1>2, <1>3, <2>1 DEF WatchedFor
<1>8. WatchIsExact' /\ WatchIsPairs'
  <2>1. ASSUME NEW b, NEW j
        PROVE  <<b, j>> \in watch' <=> j \in DOMAIN jobs' /\ b \in WatchedFor(j)'
    <3>1. <<b, j>> \in UNION {jobs[i].other \X {i} : i \in JobsOf(r)}
             <=> j \in JobsOf(r) /\ b \in jobs[j].other
      OBVIOUS
    <3>2. <<b, j>> \in watch <=> j \in DOMAIN jobs /\ b \in WatchedFor(j)
      BY DEF Books, WatchIsExact
    <3>3. JobsOf(r) \subseteq DOMAIN jobs
      BY DEF JobsOf
    <3> QED
      BY <1>1, <1>7, <3>1, <3>2, <3>3
  <2>2. WatchIsPairs'
    <3>1. \A x \in UNION {jobs[j].other \X {j} : j \in JobsOf(r)} : \E b, j : x = <<b, j>>
      OBVIOUS
    <3> QED
      BY <1>1, <3>1 DEF Books, WatchIsPairs
  <2> QED
    BY <2>1, <2>2 DEF WatchIsExact
<1>9. LoadsAreMarked'
  BY DEF Books, LoadsAreMarked
<1> QED
  BY <1>4, <1>5, <1>6, <1>8, <1>9 DEF Books

\* A completion removes its job, and what was entered for it alone.
LEMMA CompletionKeeps ==
  ASSUME Books, NEW t, ConnectorOutput(t)
  PROVE  Books'
<1> DEFINE j == t.id
           job == jobs[j]
<1>1. /\ UNCHANGED <<sched, finishedIds, phase, signaled, counter, toStore>>
      /\ \A r \in Requests : sched[r] = 0
      /\ phase = "out"
  BY DEF ConnectorOutput
<1>2. /\ tracked \subseteq Requests /\ status \in [Requests -> Statuses]
      /\ \A i \in DOMAIN jobs : jobs[i].req \in Requests
  BY DEF Books, RequestsAreKnown, JobsAreKnown
<1>3. /\ status' \in [Requests -> Statuses]
      /\ \A q \in Requests : /\ Finished(q)' <=> Finished(q)
                             /\ Active(q)' <=> Active(q)
  <2>1. status' = status \/ \E q : status[q] = "loading" /\ status' = [status EXCEPT ![q] = "running"]
    BY DEF ConnectorOutput, LoadArrived
  <2> QED
    BY <1>2, <2>1 DEF Finished, Active, Statuses
<1>4. CASE UNCHANGED <<jobs, beingLoaded, watch, tracked>>
  <2>1. RequestsAreKnown'
    BY <1>1, <1>3, <1>4 DEF Books, RequestsAreKnown
  <2>2. JobsAreKnown' /\ LoadsAreMarked' /\ WatchIsPairs'
    BY <1>1, <1>4 DEF Books, JobsAreKnown, LoadsAreMarked, WatchIsPairs
  <2>3. EndsAreKnown'
    BY <1>1, <1>2, <1>3, <1>4 DEF Books, EndsAreKnown, JobsOf
  <2>4. \A i \in DOMAIN jobs : WatchedFor(i)' = WatchedFor(i)
    BY <1>2, <1>3, <1>4 DEF WatchedFor
  <2>5. WatchIsExact'
    BY <1>4, <2>4 DEF Books, WatchIsExact
  <2> QED
    BY <2>1, <2>2, <2>3, <2>5 DEF Books
<1>5. CASE ~(j < threshold)
  <2>1. /\ jobs' = [i \in DOMAIN jobs \ {j} |-> jobs[i]]
        /\ beingLoaded' = IF job.store THEN beingLoaded ELSE beingLoaded \ job.keys
        /\ watch' = watch \ ((job.sliding \cup IF Finished(job.req) THEN job.other ELSE {}) \X {j})
        /\ tracked' = IF job.req \in signaled /\ JobsOf(job.req) = {j}
                        THEN tracked \ {job.req} ELSE tracked
    BY <1>5 DEF ConnectorOutput
  <2> HIDE DEF j
  <2>2. /\ DOMAIN jobs' = DOMAIN jobs \ {j} /\ \A i \in DOMAIN jobs' : jobs'[i] = jobs[i]
    BY <2>1
  <2>3. \A q : JobsOf(q)' = JobsOf(q) \ {j}
    BY <2>2 DEF JobsOf
  <2>4. ASSUME NEW r \in tracked \ tracked' PROVE Finished(r) /\ JobsOf(r) = {j}
    BY <2>1, <2>4 DEF Books, EndsAreKnown
  <2>5. tracked' \subseteq tracked
    BY <2>1
  <2>6. RequestsAreKnown'
    <3>1. toStore = {}
      BY <1>1 DEF Books, RequestsAreKnown
    <3>2. \A r \in Requests : Active(r) => r \in tracked'
      <4>1. \A r \in Requests : ~(Active(r) /\ Finished(r))
        BY DEF Active, Finished
      <4> QED
        BY <2>4, <4>1 DEF Books, RequestsAreKnown
    <3> QED
      BY <1>1, <1>3, <2>5, <3>1, <3>2 DEF Books, RequestsAreKnown
  <2>7. JobsAreKnown'
    <3>1. ASSUME NEW i \in DOMAIN jobs, i # j PROVE jobs[i].req \in tracked'
      <4>1. i \in JobsOf(jobs[i].req) /\ jobs[i].req \in tracked
        BY DEF JobsOf, Books, JobsAreKnown
      <4> QED
        BY <2>4, <3>1, <4>1
    <3> QED
      BY <1>1, <2>2, <3>1 DEF Books, JobsAreKnown
  <2>8. EndsAreKnown'
    <3>1. ASSUME NEW r \in tracked', Finished(r), r \notin finishedIds
          PROVE  r \in signaled /\ JobsOf(r) \ {j} # {}
      <4>1. r \in signaled /\ JobsOf(r) # {}
        BY <2>5, <3>1 DEF Books, EndsAreKnown
      <4>2. JobsOf(r) # {j}
        <5>1. ASSUME JobsOf(r) = {j} PROVE FALSE
          <6>1. job.req = r
            BY <5>1 DEF JobsOf
          <6> QED
            BY <2>1, <3>1, <4>1, <5>1, <6>1
        <5> QED
          BY <5>1
      <4> QED
        BY <4>1, <4>2
    <3>2. tracked' \subseteq Requests
      BY <1>2, <2>5
    <3> QED
      BY <1>1, <1>3, <2>3, <3>1, <3>2 DEF Books, EndsAreKnown
  <2>9. ASSUME NEW b, NEW i PROVE <<b, i>> \in watch' <=> i \in DOMAIN jobs' /\ b \in WatchedFor(i)'
    <3>1. <<b, i>> \in watch <=> i \in DOMAIN jobs /\ b \in WatchedFor(i)
      BY DEF Books, WatchIsExact
    <3>2. <<b, i>> \in watch' <=> <<b, i>> \in watch /\ ~(i = j /\ b \in WatchedFor(i))
      BY <2>1 DEF WatchedFor
    <3>3. i \in DOMAIN jobs' => WatchedFor(i)' = WatchedFor(i)
      BY <1>2, <1>3, <2>2 DEF WatchedFor
    <3> QED
      BY <2>2, <3>1, <3>2, <3>3
  <2>10. WatchIsPairs'
    BY <2>1 DEF Books, WatchIsPairs
  <2>11. LoadsAreMarked'
    <3>1. ASSUME NEW k \in beingLoaded'
          PROVE  \E i \in DOMAIN jobs \ {j} : ~jobs[i].store /\ k \in jobs[i].keys
      <4>1. PICK i \in DOMAIN jobs : ~jobs[i].store /\ k \in jobs[i].keys
        BY <2>1, <3>1 DEF Books, LoadsAreMarked
      <4>2. i # j
        BY <2>1, <3>1, <4>1
      <4> QED
        BY <4>1, <4>2
    <3> QED
      BY <2>2, <3>1 DEF LoadsAreMarked
  <2> QED
    BY <2>6, <2>7, <2>8, <2>9, <2>10, <2>11 DEF Books, WatchIsExact
<1> QED
  BY <1>4, <1>5 DEF ConnectorOutput

\* The step's metadata: who is to be looked at is known, and who is over is told.
LEMMA MetaKeeps ==
  ASSUME Books, StartMeta \/ EndMeta
  PROVE  Books'
<1>1. UNCHANGED <<status, sched, jobs, counter, watch, beingLoaded>>
  <2>1. CASE StartMeta
    BY <2>1, Zenon DEF StartMeta
  <2>2. CASE EndMeta
    BY <2>2 DEF EndMeta
  <2> QED
    BY <2>1, <2>2, Zenon
<1>2. \A q : (Finished(q)' <=> Finished(q)) /\ JobsOf(q)' = JobsOf(q)
  BY <1>1 DEF Finished, JobsOf
<1>3. WatchIsExact' /\ WatchIsPairs' /\ LoadsAreMarked'
  BY <1>1, <1>2 DEF Books, WatchIsExact, WatchIsPairs, LoadsAreMarked, WatchedFor
<1>4. CASE StartMeta
  <2>1. /\ toStore' = {r \in Requests : sched[r] # 0} \cup (finishedIds \cap tracked)
        /\ phase' = "build" /\ UNCHANGED <<tracked, signaled, finishedIds>>
    BY <1>4 DEF StartMeta, Scheduled
  <2>2. RequestsAreKnown'
    BY <1>1, <2>1 DEF Books, RequestsAreKnown, Active
  <2>3. JobsAreKnown' /\ EndsAreKnown'
    BY <1>1, <1>2, <2>1 DEF Books, JobsAreKnown, EndsAreKnown
  <2> QED
    BY <1>3, <2>2, <2>3, ZenonT(60) DEF Books
<1>5. CASE EndMeta
  <2>1. /\ toStore = {} /\ toStore' = {} /\ finishedIds' = {}
        /\ signaled' = signaled \cup (finishedIds \cap tracked)
        /\ tracked' = tracked \ {r \in finishedIds : JobsOf(r) = {}}
    BY <1>5 DEF EndMeta
  <2>2. RequestsAreKnown'
    <3>1. \A r \in finishedIds : Finished(r) /\ ~Active(r)
      BY DEF Books, EndsAreKnown, Finished, Active
    <3> QED
      BY <1>1, <2>1, <3>1 DEF Books, RequestsAreKnown, Active
  <2>3. JobsAreKnown'
    <3>1. \A j \in DOMAIN jobs : JobsOf(jobs[j].req) # {}
      BY DEF JobsOf
    <3> QED
      BY <1>1, <2>1, <3>1 DEF Books, JobsAreKnown
  <2>4. EndsAreKnown'
    BY <1>2, <2>1 DEF Books, EndsAreKnown
  <2> QED
    BY <1>3, <2>2, <2>3, <2>4 DEF Books
<1> QED
  BY <1>4, <1>5

\* reset_cache forgets all jobs, with who was over and waited for them.
LEMMA ResetKeeps ==
  ASSUME Books, ResetCache
  PROVE  Books'
<1>1. /\ UNCHANGED <<status, sched, finishedIds, phase, signaled, counter, toStore>>
      /\ jobs' = <<>> /\ watch' = {} /\ beingLoaded' = {} /\ phase = "sched"
      /\ tracked' = {r \in tracked : ~Finished(r)}
  BY DEF ResetCache, BetweenSteps
<1>2. DOMAIN jobs' = {} /\ \A q : Finished(q)' <=> Finished(q)
  BY <1>1 DEF Finished
<1>3. RequestsAreKnown'
  BY <1>1 DEF Books, RequestsAreKnown, Active, Finished
<1>4. JobsAreKnown' /\ EndsAreKnown'
  BY <1>1, <1>2 DEF Books, JobsAreKnown, EndsAreKnown
<1>5. WatchIsExact' /\ WatchIsPairs' /\ LoadsAreMarked'
  BY <1>1, <1>2 DEF WatchIsExact, WatchIsPairs, LoadsAreMarked
<1> QED
  BY <1>3, <1>4, <1>5 DEF Books

\* vLLM schedules: a request comes, waits, runs, loads or is preempted.
LEMMA SchedulingKeeps ==
  ASSUME Books, NEW r \in Requests, Scheduling(r)
  PROVE  Books'
<1>1. /\ tracked \subseteq Requests /\ status \in [Requests -> Statuses]
      /\ sched \in [Requests -> Nat] /\ \A q \in Requests : Active(q) => q \in tracked
  BY DEF Books, RequestsAreKnown
<1>2. MaxTokens \in Nat
  BY SchedulerAssumption
<1>3. CASE OnNewRequest(r)
  <2>1. /\ status[r] = "new" /\ status' = [status EXCEPT ![r] = "waiting"] /\ sched' = sched
        /\ tracked' = tracked \cup {r}
        /\ UNCHANGED <<finishedIds, phase, signaled, jobs, counter, watch, beingLoaded, toStore>>
        /\ sched[r] = 0
    BY <1>3 DEF OnNewRequest, BetweenSteps
  <2> QED
    BY <1>1, <2>1, RequestMoves DEF Finished, Statuses
<1>4. CASE GetMatchedWaits(r)
  BY <1>4, BooksKept DEF GetMatchedWaits, extVars
<1>5. CASE ScheduleLoad(r)
  <2>1. \E moves : jobs' = WithJob([req |-> r, store |-> FALSE, moves |-> moves,
                             keys |-> HitKeys(LongestHit(r)), sliding |-> {}, other |-> {}])
    BY <1>5 DEF ScheduleLoad
  <2>2. /\ status[r] = "waiting" /\ status' = [status EXCEPT ![r] = "loading"]
        /\ counter' = counter + 1 /\ beingLoaded' = beingLoaded \cup HitKeys(LongestHit(r))
        /\ UNCHANGED <<sched, finishedIds, phase, tracked, signaled, watch, toStore>>
    BY <1>5 DEF ScheduleLoad
  <2>3. r \in tracked /\ ~Finished(r) /\ sched[r] = 0
    BY <1>1, <2>2 DEF Active, Finished, Books, RequestsAreKnown
  <2>4. watch' = watch \cup ({} \X {counter})
    BY <2>2
  <2>5. PICK job : /\ jobs' = WithJob(job) /\ job.req = r /\ ~job.store
                   /\ job.keys = HitKeys(LongestHit(r)) /\ job.sliding = {} /\ job.other = {}
    BY <2>1
  <2>6. {} = job.sliding \cup (IF Finished(r) THEN job.other ELSE {})
    BY <2>5
  <2>7. beingLoaded' = beingLoaded \cup (IF job.store THEN {} ELSE job.keys)
    BY <2>2, <2>5
  <2> QED
    BY <2>2, <2>3, <2>4, <2>5, <2>6, <2>7, JobMade
<1>6. CASE Preempt(r)
  <2>1. /\ status[r] = "running" /\ status' = [status EXCEPT ![r] = "waiting"] /\ sched' = sched
        /\ sched[r] = 0
        /\ UNCHANGED <<finishedIds, phase, tracked, signaled, jobs, counter, watch, beingLoaded, toStore>>
    BY <1>6 DEF Preempt, conVars
  <2>2. tracked' = tracked \cup {r}
    BY <1>1, <2>1 DEF Active
  <2> QED
    BY <1>1, <2>1, <2>2, RequestMoves DEF Finished, Statuses
<1>7. CASE Abort(r)
  <2>1. /\ Active(r) /\ sched[r] = 0 /\ RequestFinished(r, "aborted")
        /\ UNCHANGED <<sched, phase, tracked, signaled, jobs, counter, beingLoaded, toStore>>
    BY <1>7 DEF Abort, BetweenSteps, Active
  <2>2. r \in tracked /\ ~Finished(r) /\ "aborted" \in {"stopped", "aborted"}
    BY <1>1, <2>1 DEF Active, Finished
  <2> QED
    BY <1>1, <2>1, <2>2, RequestEnds
<1>8. ASSUME NEW n \in 1..MaxTokens, ScheduleWaiting(r, n) PROVE Books'
  <2>1. /\ status[r] = "waiting" /\ status' = [status EXCEPT ![r] = "running"]
        /\ sched' = [sched EXCEPT ![r] = n] /\ n \in Nat
        /\ UNCHANGED <<finishedIds, phase, tracked, signaled, jobs, counter, watch, beingLoaded, toStore>>
    BY <1>2, <1>8 DEF ScheduleWaiting
  <2>2. tracked' = tracked \cup {r}
    BY <1>1, <2>1 DEF Active
  <2> QED
    BY <1>1, <2>1, <2>2, RequestMoves DEF Finished, Statuses
<1>9. ASSUME NEW n \in 1..MaxTokens, ScheduleRunning(r, n) PROVE Books'
  <2>1. /\ status[r] = "running" /\ status' = status
        /\ sched' = [sched EXCEPT ![r] = n] /\ n \in Nat
        /\ UNCHANGED <<finishedIds, phase, tracked, signaled, jobs, counter, watch, beingLoaded, toStore>>
    BY <1>2, <1>9 DEF ScheduleRunning, conVars
  <2>2. tracked' = tracked \cup {r}
    BY <1>1, <2>1 DEF Active
  <2> QED
    BY <1>1, <2>1, <2>2, RequestMoves DEF Finished, Statuses
<1> QED
  BY <1>3, <1>4, <1>5, <1>6, <1>7, <1>8, <1>9 DEF Scheduling

\* One request's part in the making of store jobs.
LEMMA StoreJobKeeps ==
  ASSUME Books, NEW r \in Requests, StoreJob(r)
  PROVE  Books'
<1>1. CASE StoreNothing(r)
  BY <1>1, BooksKept DEF StoreNothing, extVars
<1>2. CASE StoreRefused(r)
  BY <1>2, BooksKept DEF StoreRefused, extVars
<1>3. ASSUME NEW e \in SUBSET Evictable, StoreChunks(r, e) PROVE Books'
  <2>1. PICK job, over :
          /\ job.req = r /\ job.store /\ jobs' = WithJob(job)
          /\ over = (IF Finished(r) THEN job.other ELSE {})
          /\ watch' = watch \cup ((job.sliding \cup over) \X {counter})
    <3> DEFINE keys  == {k \in NewKeys(r) : ~Present(k)}
               free  == FreeSlots \cup {slotOf[k] : k \in e}
               order == SetToSeq(keys)
               Slot(k) == Lowest(free, Len(order))[CHOOSE i \in DOMAIN order : order[i] = k]
               moves == {[key |-> k, block |-> blockIds[r][k[1]][k[2] + 1], slot |-> Slot(k)] :
                            k \in keys}
               BlocksIn(g) == {m.block : m \in {x \in moves : x.key[1] = g}}
               job == [req |-> r, store |-> TRUE, moves |-> moves, keys |-> keys,
                       sliding |-> BlocksIn("sliding"), other |-> BlocksIn("full")]
    <3>1. /\ jobs' = WithJob(job)
          /\ watch' = watch \cup ((BlocksIn("sliding") \cup
                                     (IF Finished(r) THEN BlocksIn("full") ELSE {})) \X {counter})
      BY <1>3, Zenon DEF StoreChunks
    <3> HIDE DEF keys, free, moves, BlocksIn
    <3>2. /\ job.req = r /\ job.store
          /\ job.sliding = BlocksIn("sliding") /\ job.other = BlocksIn("full")
      OBVIOUS
    <3> HIDE DEF job
    <3> QED
      BY <3>1, <3>2
  <2>2. /\ r \in toStore /\ counter' = counter + 1 /\ toStore' = toStore \ {r}
        /\ UNCHANGED <<status, sched, finishedIds, phase, tracked, signaled, beingLoaded>>
    BY <1>3 DEF StoreChunks, extVars
  <2>3. r \in tracked
    BY <2>2 DEF Books, RequestsAreKnown
  <2>4. beingLoaded' = beingLoaded \cup (IF job.store THEN {} ELSE job.keys)
    BY <2>1, <2>2
  <2>5. job.sliding \cup over = job.sliding \cup (IF Finished(r) THEN job.other ELSE {})
    BY <2>1
  <2> QED
    BY <2>1, <2>2, <2>3, <2>4, <2>5, JobMade
<1> QED
  BY <1>1, <1>2, <1>3 DEF StoreJob

\* A request that was scheduled has its tokens, and may stop.
LEMMA OutputKeeps ==
  ASSUME Books, NEW r \in Requests, NEW stops \in BOOLEAN, RequestOutput(r, stops)
  PROVE  Books'
<1>1. /\ sched[r] # 0 /\ sched' = [sched EXCEPT ![r] = 0]
      /\ UNCHANGED <<phase, tracked, signaled, jobs, counter, beingLoaded, toStore>>
  BY DEF RequestOutput
<1>2. /\ RequestFinished(r, "stopped") \/ UNCHANGED <<status, watch, finishedIds>>
  BY Zenon DEF RequestOutput
<1>3. /\ tracked \subseteq Requests /\ status \in [Requests -> Statuses]
      /\ sched \in [Requests -> Nat] /\ status[r] = "running" /\ r \in tracked
  BY <1>1 DEF Books, RequestsAreKnown, Active
<1>4. /\ sched' \in [Requests -> Nat] /\ sched'[r] = 0 /\ ~Finished(r)
      /\ \A q \in Requests \ {r} : sched'[q] = sched[q]
  BY <1>1, <1>3 DEF Finished
<1>5. CASE RequestFinished(r, "stopped")
  <2>1. "stopped" \in {"stopped", "aborted"}
    OBVIOUS
  <2> QED
    BY <1>1, <1>3, <1>4, <1>5, <2>1, RequestEnds
<1>6. CASE UNCHANGED <<status, watch, finishedIds>>
  <2>1. tracked' = tracked \cup {r} /\ status'[r] = "running"
    BY <1>1, <1>3, <1>6
  <2> QED
    BY <1>1, <1>3, <1>4, <1>6, <2>1, RequestMoves
<1> QED
  BY <1>2, <1>5, <1>6

\* The workers and the GPU do not touch the books.
LEMMA WorkersKeep ==
  ASSUME Books, SubmitStores \/ Forward \/ Collect \/ EndStep \/ GpuCopy \/ UNCHANGED vars
  PROVE  Books'
<1>1. CASE SubmitStores
  BY <1>1, BooksKept DEF SubmitStores, conVars
<1>2. CASE Forward
  <2>1. /\ phase = "flush" /\ phase' = "collect"
        /\ UNCHANGED <<status, sched, finishedIds, tracked, signaled, jobs, counter, watch,
                       beingLoaded, toStore>>
    BY <1>2, Zenon DEF Forward
  <2> QED
    BY <2>1, BooksKept
<1>3. CASE Collect
  BY <1>3, BooksKept DEF Collect, conVars
<1>4. CASE EndStep
  BY <1>4, BooksKept DEF EndStep, conVars
<1>5. CASE GpuCopy \/ UNCHANGED vars
  <2>1. UNCHANGED schedVars
    BY <1>5 DEF GpuCopy, vars
  <2> QED
    BY <2>1, BooksKept DEF schedVars, extVars, conVars
<1> QED
  BY <1>1, <1>2, <1>3, <1>4, <1>5

\* Every step keeps the books.
LEMMA StepKeepsBooks == Books /\ [Next]_vars => Books'
<1> SUFFICES ASSUME Books, [Next]_vars PROVE Books'
  OBVIOUS
<1>1. CASE ResetCache
  BY <1>1, ResetKeeps
<1>2. ASSUME NEW r \in Requests, Scheduling(r) PROVE Books'
  BY <1>2, SchedulingKeeps
<1>3. CASE StartMeta \/ EndMeta
  BY <1>3, MetaKeeps
<1>4. ASSUME NEW r \in Requests, StoreJob(r) PROVE Books'
  BY <1>4, StoreJobKeeps
<1>5. ASSUME NEW r \in Requests, NEW stops \in BOOLEAN, RequestOutput(r, stops) PROVE Books'
  BY <1>5, OutputKeeps
<1>6. ASSUME NEW t \in completed, GiveOutput(t) PROVE Books'
  BY <1>6, CompletionKeeps DEF GiveOutput
<1>7. CASE SubmitStores \/ Forward \/ Collect \/ EndStep \/ GpuCopy \/ UNCHANGED vars
  BY <1>7, WorkersKeep
<1> QED
  BY <1>1, <1>2, <1>3, <1>4, <1>5, <1>6, <1>7 DEF Next, EngineStep

\* At the start the books are empty.
LEMMA InitBooks == Init => Books
<1> SUFFICES ASSUME Init PROVE Books
  OBVIOUS
<1>1. SchedInit
  BY DEF Init
<1>2. /\ status = [r \in Requests |-> "new"] /\ sched = [r \in Requests |-> 0]
      /\ tracked = {} /\ toStore = {} /\ signaled = {} /\ finishedIds = {} /\ counter = 0
      /\ DOMAIN jobs = {} /\ watch = {} /\ beingLoaded = {}
  BY <1>1 DEF SchedInit
<1>3. RequestsAreKnown
  BY <1>2 DEF RequestsAreKnown, Active, Statuses
<1>4. JobsAreKnown /\ EndsAreKnown
  BY <1>2 DEF JobsAreKnown, EndsAreKnown
<1>5. WatchIsExact /\ WatchIsPairs /\ LoadsAreMarked
  BY <1>2 DEF WatchIsExact, WatchIsPairs, LoadsAreMarked
<1> QED
  BY <1>3, <1>4, <1>5 DEF Books

\* The books are kept in every reachable state.
THEOREM BooksHold == Spec => []Books
  BY InitBooks, StepKeepsBooks, PTL DEF Spec

\* When the engine stops stepping, nobody who is over is remembered, and no block is
\* watched and no chunk marked for a job.
THEOREM NothingLeftBehindHolds == Spec => []NothingLeftBehind
<1>1. Books => NothingLeftBehind
  <2> SUFFICES ASSUME Books, BetweenSteps, ~EngineSteps
               PROVE  /\ \A r \in Requests : Finished(r) => r \notin tracked
                      /\ watch = {} /\ beingLoaded = {}
    BY DEF NothingLeftBehind
  <2>1. DOMAIN jobs = {} /\ finishedIds = {}
    BY DEF EngineSteps
  <2>2. \A r : JobsOf(r) = {}
    BY <2>1 DEF JobsOf
  <2>3. \A r \in Requests : Finished(r) => r \notin tracked
    BY <2>1, <2>2 DEF Books, EndsAreKnown
  <2>4. watch = {}
    BY <2>1 DEF Books, WatchIsExact, WatchIsPairs
  <2>5. beingLoaded = {}
    BY <2>1 DEF Books, LoadsAreMarked
  <2> QED
    BY <2>3, <2>4, <2>5
<1> QED
  BY <1>1, BooksHold, PTL

(***************************************************************************)
(* Where the jobs are.  From the moment it is made until its output is     *)
(* given, a job is on its way in one place, once: waiting for the metadata *)
(* or in it, deferred, a transfer of one direction, or collected; and its  *)
(* number is nobody else's, whatever is reset, preempted or aborted        *)
(* meanwhile.                                                              *)
(***************************************************************************)

\* The order in which jobs are submitted: as many before one as have smaller numbers.
Rank(X, t) == Cardinality({u \in X : u.id < t.id})
Numbers(X, n) == \A t \in X : t.id \in 0..(n - 1)
Single(X) == \A t, u \in X : t.id = u.id => t = u
Ids(X) == {t.id : t \in X}

\* Entries with numbers of their own below n are finitely many.
LEMMA SingleFinite ==
  ASSUME NEW X, NEW n \in Nat, Numbers(X, n), Single(X)
  PROVE  IsFiniteSet(X)
<1> DEFINE f == [t \in X |-> t.id]
<1>1. f \in Injection(X, 0..(n - 1))
  BY DEF Injection, IsInjective, Numbers, Single
<1>2. IsFiniteSet(0..(n - 1))
  BY FS_Interval
<1> HIDE DEF f
<1> QED
  BY <1>1, <1>2, FS_Injection

\* Ranks are the numbers from 0 on, each once.
LEMMA RanksAre ==
  ASSUME NEW X, NEW n \in Nat, Numbers(X, n), Single(X)
  PROVE  /\ Cardinality(X) \in Nat
         /\ \A t \in X : Rank(X, t) \in Nat /\ Rank(X, t) + 1 \in 1..Cardinality(X)
         /\ \A t, u \in X : Rank(X, t) = Rank(X, u) => t = u
         /\ \A i \in 1..Cardinality(X) : \E t \in X : Rank(X, t) = i - 1
         /\ \A t, u \in X : t.id < u.id => Rank(X, t) < Rank(X, u)
<1> DEFINE Less(t) == {u \in X : u.id < t.id}
           c == Cardinality(X)
           f == [t \in X |-> Rank(X, t) + 1]
<1>1. IsFiniteSet(X) /\ c \in Nat
  BY SingleFinite, FS_CardinalityType
<1>2. ASSUME NEW t \in X
      PROVE  Rank(X, t) \in Nat /\ Rank(X, t) < c
  <2>1. Less(t) \in SUBSET X /\ t \in X \ Less(t)
    BY DEF Numbers
  <2> HIDE DEF Less, c
  <2>2. IsFiniteSet(Less(t)) /\ Cardinality(Less(t)) <= Cardinality(X) /\ Cardinality(Less(t)) # Cardinality(X)
    BY <1>1, <2>1, FS_Subset
  <2>3. Cardinality(Less(t)) \in Nat
    BY <2>2, FS_CardinalityType
  <2>4. Rank(X, t) = Cardinality(Less(t))
    BY DEF Rank, Less
  <2> QED
    BY <1>1, <2>2, <2>3, <2>4 DEF c
<1>3. ASSUME NEW t \in X, NEW u \in X, t.id < u.id PROVE Rank(X, t) < Rank(X, u)
  <2>1. Less(t) \in SUBSET Less(u) /\ t \in Less(u) \ Less(t)
    BY <1>3 DEF Numbers
  <2>2. Less(u) \in SUBSET X
    OBVIOUS
  <2> HIDE DEF Less, c
  <2>3. IsFiniteSet(Less(u))
    BY <1>1, <2>2, FS_Subset
  <2>4. Cardinality(Less(t)) <= Cardinality(Less(u)) /\ Cardinality(Less(t)) # Cardinality(Less(u))
    BY <2>1, <2>3, FS_Subset
  <2>5. Rank(X, t) = Cardinality(Less(t)) /\ Rank(X, u) = Cardinality(Less(u))
    BY DEF Rank, Less
  <2> QED
    BY <1>2, <2>4, <2>5
<1>4. ASSUME NEW t \in X, NEW u \in X, Rank(X, t) = Rank(X, u) PROVE t = u
  <2>1. ~(t.id < u.id) /\ ~(u.id < t.id)
    BY <1>2, <1>3, <1>4
  <2> QED
    BY <2>1 DEF Numbers, Single
<1>5. f \in Injection(X, 1..c)
  BY <1>1, <1>2, <1>4 DEF Injection, IsInjective
<1>6. f \in Surjection(X, 1..c)
  <2>1. IsFiniteSet(1..c) /\ Cardinality(1..c) = c
    BY <1>1, FS_Interval
  <2> HIDE DEF f
  <2> QED
    BY <1>5, <2>1, FS_Injection DEF c
<1>7. ASSUME NEW i \in 1..c PROVE \E t \in X : Rank(X, t) = i - 1
  <2>1. PICK t \in X : f[t] = i
    BY <1>6 DEF Surjection
  <2>2. Rank(X, t) + 1 = i
    BY <2>1
  <2> QED
    BY <1>2, <2>2
<1> QED
  BY <1>1, <1>2, <1>3, <1>4, <1>7

\* A submission carries each job once, under its number.
LEMMA SubmittedIs ==
  ASSUME NEW X, NEW n \in Nat, Numbers(X, n), Single(X), NEW dir, NEW s, s = Submitted(X, dir)
  PROVE  /\ \E m \in Nat : DOMAIN s = 1..m /\ s = [i \in 1..m |-> s[i]]
         /\ \A i \in DOMAIN s : \E t \in X : s[i].id = t.id /\ s[i].job = t.job
         /\ \A t \in X : \E i \in DOMAIN s : s[i].id = t.id
         /\ \A i, k \in DOMAIN s : s[i].id = s[k].id => i = k
<1> DEFINE c == Cardinality(X)
           q == InOrder(X)
<1>1. /\ c \in Nat
      /\ \A t, u \in X : Rank(X, t) = Rank(X, u) => t = u
      /\ \A i \in 1..c : \E t \in X : Rank(X, t) = i - 1
      /\ \A t \in X : Rank(X, t) + 1 \in 1..c
  BY RanksAre
<1>2. \A i \in 1..c : q[i] = CHOOSE t \in X : Rank(X, t) = i - 1
  BY DEF InOrder, Rank
<1>3. \A i \in 1..c : q[i] \in X /\ Rank(X, q[i]) = i - 1
  BY <1>1, <1>2
<1>4. /\ DOMAIN s = 1..c /\ s = [i \in 1..c |-> s[i]]
      /\ \A i \in 1..c : s[i].id = q[i].id /\ s[i].job = q[i].job
  BY DEF Submitted, Transfer
<1> HIDE DEF c, q
<1>5. \A i, k \in 1..c : q[i].id = q[k].id => i = k
  <2>1. \A i, k \in 1..c : q[i].id = q[k].id => q[i] = q[k]
    BY <1>3 DEF Single
  <2> QED
    BY <1>3, <2>1
<1>6. \A t \in X : \E i \in 1..c : q[i] = t
  <2> SUFFICES ASSUME NEW t \in X PROVE \E i \in 1..c : q[i] = t
    OBVIOUS
  <2>1. PICK i \in 1..c : i = Rank(X, t) + 1
    BY <1>1
  <2>2. Rank(X, t) \in Nat
    BY RanksAre
  <2>3. q[i] \in X /\ Rank(X, q[i]) = Rank(X, t)
    BY <1>3, <2>1, <2>2
  <2> QED
    BY <1>1, <2>3
<1>7. \A i \in DOMAIN s : \E t \in X : s[i].id = t.id /\ s[i].job = t.job
  BY <1>3, <1>4
<1>8. \A t \in X : \E i \in DOMAIN s : s[i].id = t.id
  BY <1>4, <1>6
<1>9. \A i, k \in DOMAIN s : s[i].id = s[k].id => i = k
  BY <1>4, <1>5
<1> QED
  BY <1>1, <1>4, <1>7, <1>8, <1>9

-------------------------------------------------------------------------------
\* Queues of transfers in which no job comes twice.
EachOnce(q) == \A i, k \in DOMAIN q : q[i].id = q[k].id => i = k
Queue(q) == q \in Seq(Range(q)) /\ EachOnce(q)

\* A queue grows by other jobs.
LEMMA QueueGrows ==
  ASSUME NEW q, Queue(q), NEW s, NEW m \in Nat, s = [i \in 1..m |-> s[i]], EachOnce(s),
         Ids(Range(q)) \cap Ids(Range(s)) = {}
  PROVE  Queue(q \o s) /\ Range(q \o s) = Range(q) \cup Range(s)
<1> DEFINE E == Range(q) \cup Range(s)
           r == q \o s
<1>1. q \in Seq(E) /\ Len(q) \in Nat /\ DOMAIN q = 1..Len(q)
  <2>1. q \in Seq(Range(q))
    BY DEF Queue
  <2>2. Len(q) \in Nat /\ DOMAIN q = 1..Len(q)
    BY <2>1
  <2>3. Range(q) \subseteq E
    OBVIOUS
  <2> HIDE DEF E
  <2>4. q \in Seq(E)
    BY <2>1, <2>3, SeqMonotonic
  <2> QED
    BY <2>2, <2>4
<1>2. s \in Seq(E) /\ Len(s) = m /\ DOMAIN s = 1..m
  <2>1. DOMAIN s = 1..m /\ \A i \in 1..m : s[i] \in E
    BY DEF Range
  <2> HIDE DEF E
  <2>2. s \in [1..m -> E]
    BY <2>1
  <2> QED
    BY <2>1, <2>2
<1>3. /\ r \in Seq(E) /\ Len(r) = Len(q) + m
      /\ \A i \in 1..(Len(q) + m) : r[i] = IF i <= Len(q) THEN q[i] ELSE s[i - Len(q)]
  <2> HIDE DEF E
  <2> QED
    BY <1>1, <1>2, ConcatProperties
<1>4. DOMAIN r = 1..(Len(q) + m)
  BY <1>3
<1> HIDE DEF r
<1> DEFINE c == Len(q)
<1>5. /\ c \in Nat /\ DOMAIN q = 1..c /\ DOMAIN r = 1..(c + m)
      /\ \A i \in 1..(c + m) : (i <= c => r[i] = q[i]) /\ (~(i <= c) => r[i] = s[i - c])
  BY <1>1, <1>3, <1>4
<1> HIDE DEF c
<1>6. DOMAIN s = 1..m /\ \A i \in 1..m : s[i] \in Range(s)
  BY DEF Range
<1>7. Range(r) = E
  <2>1. \A i \in DOMAIN r : r[i] \in E
    <3>1. \A i \in DOMAIN q : q[i] \in E
      BY DEF Range
    <3>2. \A i \in DOMAIN s : s[i] \in E
      BY DEF Range
    <3>3. ASSUME NEW i \in DOMAIN r PROVE r[i] \in E
      <4>1. i \in Int /\ 1 <= i /\ i <= c + m
        BY <1>5
      <4>2. CASE i <= c
        <5>1. i \in DOMAIN q /\ r[i] = q[i]
          BY <1>5, <4>1, <4>2
        <5> QED
          BY <3>1, <5>1
      <4>3. CASE ~(i <= c)
        <5>1. i - c \in 1..m /\ i \in 1..(c + m)
          BY <1>5, <4>1, <4>3
        <5>2. i - c \in DOMAIN s /\ r[i] = s[i - c]
          BY <1>5, <1>6, <4>3, <5>1
        <5> QED
          BY <3>2, <5>2
      <4> QED
        BY <4>2, <4>3
    <3> QED
      BY <3>3
  <2>2. \A i \in DOMAIN q : i \in DOMAIN r /\ r[i] = q[i]
    BY <1>5
  <2>3. ASSUME NEW i \in DOMAIN s PROVE \E x \in DOMAIN r : r[x] = s[i]
    <3>1. i + c \in 1..(c + m) /\ ~(i + c <= c) /\ i + c - c = i
      BY <1>5, <1>6
    <3>2. i + c \in DOMAIN r /\ r[i + c] = s[i]
      BY <1>5, <3>1, SMTT(30)
    <3> QED
      BY <3>2
  <2> QED
    BY <2>1, <2>2, <2>3 DEF Range
<1>8. EachOnce(r)
  <2>1. ASSUME NEW i \in DOMAIN q, NEW k \in DOMAIN s PROVE q[i].id # s[k].id
    <3>1. q[i] \in Range(q) /\ s[k] \in Range(s)
      BY DEF Range
    <3>2. q[i].id \in Ids(Range(q)) /\ s[k].id \in Ids(Range(s))
      BY <3>1 DEF Ids
    <3> QED
      BY <3>2
  <2>2. ASSUME NEW i \in DOMAIN r, NEW k \in DOMAIN r, r[i].id = r[k].id PROVE i = k
    <3>1. ASSUME NEW x \in DOMAIN r
          PROVE  \/ x \in DOMAIN q /\ r[x] = q[x]
                 \/ x - c \in DOMAIN s /\ r[x] = s[x - c] /\ ~(x <= c)
      <4>1. x \in Int /\ 1 <= x /\ x <= c + m
        BY <1>5
      <4>2. CASE x <= c
        BY <1>5, <4>1, <4>2
      <4>3. CASE ~(x <= c)
        <5>1. x - c \in 1..m /\ x \in 1..(c + m)
          BY <1>5, <4>1, <4>3
        <5> QED
          BY <1>5, <1>6, <4>3, <5>1
      <4> QED
        BY <4>2, <4>3
    <3>2. CASE i \in DOMAIN q /\ r[i] = q[i]
      <4>1. ~(k - c \in DOMAIN s /\ r[k] = s[k - c])
        BY <2>1, <2>2, <3>2
      <4>2. k \in DOMAIN q /\ r[k] = q[k]
        BY <3>1, <4>1
      <4>3. q[i].id = q[k].id
        BY <2>2, <3>2, <4>2
      <4> QED
        BY <3>2, <4>2, <4>3 DEF Queue, EachOnce
    <3>3. CASE i - c \in DOMAIN s /\ r[i] = s[i - c] /\ ~(i <= c)
      <4>1. k - c \in DOMAIN s /\ r[k] = s[k - c]
        <5>1. ~(k \in DOMAIN q /\ r[k] = q[k])
          BY <2>1, <2>2, <3>3
        <5> QED
          BY <3>1, <5>1
      <4>2. i - c = k - c
        BY <2>2, <3>3, <4>1 DEF EachOnce
      <4>3. i \in Int /\ k \in Int
        BY <1>5
      <4> QED
        BY <1>5, <4>2, <4>3
    <3> QED
      BY <3>1, <3>2, <3>3
  <2> QED
    BY <2>2 DEF EachOnce
<1> QED
  BY <1>3, <1>7, <1>8 DEF Queue, r

\* A queue is cut in two.
LEMMA QueueCut ==
  ASSUME NEW q, Queue(q), NEW n \in 0..Len(q), NEW a, a = SubSeq(q, 1, n),
         NEW b, b = SubSeq(q, n + 1, Len(q))
  PROVE  /\ Queue(b) /\ Single(Range(a)) /\ Range(q) = Range(a) \cup Range(b)
         /\ Ids(Range(a)) \cap Ids(Range(b)) = {}
<1>1. q \in Seq(Range(q)) /\ Len(q) \in Nat /\ DOMAIN q = 1..Len(q)
      /\ \A i \in 1..Len(q) : q[i] \in Range(q)
  BY DEF Queue
<1>2. /\ a \in Seq(Range(q)) /\ Len(a) = n /\ \A i \in 1..n : a[i] = q[i]
  BY <1>1, SubSeqProperties
<1>3. /\ b \in Seq(Range(q)) /\ Len(b) = Len(q) - n
      /\ \A i \in 1..(Len(q) - n) : b[i] = q[i + n]
  <2> DEFINE m == n + 1
             l == Len(q)
  <2>1. \A i \in m..l : q[i] \in Range(q)
    BY <1>1
  <2>2. m \in Int /\ l \in Int /\ b = SubSeq(q, m, l)
    BY <1>1
  <2>3. m = n + 1 /\ l = Len(q) /\ n \in Nat /\ l \in Nat /\ n <= l
    BY <1>1
  <2> HIDE DEF m, l
  <2>4. /\ b \in Seq(Range(q)) /\ (m <= l => Len(b) = l - m + 1) /\ (~(m <= l) => Len(b) = 0)
        /\ \A i \in 1..(l - m + 1) : b[i] = q[m + i - 1]
    <3>1. SubSeq(q, m, l) \in Seq(Range(q)) /\ Len(SubSeq(q, m, l)) = (IF m <= l THEN l - m + 1 ELSE 0)
          /\ \A i \in 1..(l - m + 1) : SubSeq(q, m, l)[i] = q[m + i - 1]
      BY <1>1, <2>1, <2>2, SubSeqProperties
    <3> QED
      BY <2>2, <3>1
  <2>5. l - m + 1 = Len(q) - n /\ \A i \in 1..(Len(q) - n) : m + i - 1 = i + n
    BY <1>1, <2>3
  <2>6. Len(b) = Len(q) - n
    <3>1. CASE m <= l
      BY <2>4, <2>5, <3>1
    <3>2. CASE ~(m <= l)
      <4>1. n = l
        BY <2>3, <3>2
      <4>2. Len(b) = 0 /\ l - n = 0
        BY <2>3, <2>4, <3>2, <4>1
      <4> QED
        BY <2>3, <4>2
    <3> QED
      BY <3>1, <3>2
  <2>7. \A i \in 1..(Len(q) - n) : b[i] = q[i + n]
    BY <2>4, <2>5
  <2> QED
    BY <2>4, <2>6, <2>7
<1>4. DOMAIN a = 1..n /\ DOMAIN b = 1..(Len(q) - n)
  BY <1>2, <1>3
<1>5. \A i \in DOMAIN a : a[i] = q[i] /\ i \in DOMAIN q
  BY <1>1, <1>2, <1>4, SMTT(30)
<1>6. ASSUME NEW i \in DOMAIN b PROVE b[i] = q[i + n] /\ i + n \in DOMAIN q /\ i \in Int
  <2>1. i \in 1..(Len(q) - n)
    BY <1>4
  <2>2. i + n \in 1..Len(q) /\ i \in Int
    BY <1>1, <2>1
  <2> QED
    BY <1>1, <1>3, <2>1, <2>2
<1>7. Range(q) = Range(a) \cup Range(b)
  <2>1. ASSUME NEW i \in DOMAIN q PROVE q[i] \in Range(a) \cup Range(b)
    <3>1. CASE i <= n
      <4>1. i \in DOMAIN a /\ a[i] = q[i]
        BY <1>1, <1>2, <1>4, <3>1
      <4> QED
        BY <4>1 DEF Range
    <3>2. CASE ~(i <= n)
      <4>1. i - n \in 1..(Len(q) - n) /\ i - n + n = i
        BY <1>1, <3>2
      <4>2. b[i - n] = q[i] /\ i - n \in DOMAIN b
        BY <1>3, <1>4, <4>1
      <4> QED
        BY <4>2 DEF Range
    <3> QED
      BY <3>1, <3>2
  <2>2. Range(a) \subseteq Range(q) /\ Range(b) \subseteq Range(q)
    BY <1>5, <1>6 DEF Range
  <2>3. Range(q) \subseteq Range(a) \cup Range(b)
    BY <2>1 DEF Range
  <2> QED
    BY <2>2, <2>3
<1>8. Single(Range(a))
  BY <1>5 DEF Single, Range, Queue, EachOnce
<1>9. Ids(Range(a)) \cap Ids(Range(b)) = {}
  <2>1. ASSUME NEW i \in DOMAIN a, NEW k \in DOMAIN b, a[i].id = b[k].id PROVE FALSE
    <3>1. i = k + n
      BY <1>5, <1>6, <2>1 DEF Queue, EachOnce
    <3> QED
      BY <1>4, <3>1
  <2> QED
    BY <2>1 DEF Ids, Range
<1>10. EachOnce(b)
  <2>1. ASSUME NEW i \in DOMAIN b, NEW k \in DOMAIN b, b[i].id = b[k].id PROVE i = k
    <3>1. i + n = k + n
      BY <1>6, <2>1 DEF Queue, EachOnce
    <3> QED
      BY <1>6, <3>1
  <2> QED
    BY <2>1 DEF EachOnce
<1>11. b \in Seq(Range(b))
  <2>1. DOMAIN b = 1..Len(b) /\ Len(b) \in Nat
    BY <1>3
  <2>2. \A i \in DOMAIN b : b[i] \in Range(b)
    BY DEF Range
  <2>3. b = [i \in 1..Len(b) |-> b[i]]
    BY <1>3
  <2> DEFINE S == Range(b)
             c == Len(b)
  <2> HIDE DEF S, c
  <2>4. b \in [1..c -> S] /\ c \in Nat
    BY <2>1, <2>2, <2>3 DEF S, c
  <2>5. b \in Seq(S)
    BY <2>4, SeqDef, Zenon
  <2> QED
    BY <2>5 DEF S
<1> QED
  BY <1>7, <1>8, <1>9, <1>10, <1>11 DEF Queue

\* One of them is the first.
LEMMA FirstOf ==
  ASSUME NEW X, NEW n \in Nat, Numbers(X, n), Single(X), X # {}
  PROVE  \E t \in X : \A u \in X : ~(u.id < t.id)
<1>1. Cardinality(X) # 0 /\ Cardinality(X) \in Nat /\ IsFiniteSet(X)
  BY SingleFinite, RanksAre, FS_EmptySet
<1>2. PICK t \in X : Rank(X, t) = 1 - 1
  BY <1>1, RanksAre
<1> DEFINE Less == {u \in X : u.id < t.id}
<1>3. Less \in SUBSET X
  OBVIOUS
<1>4. Cardinality(Less) = 0
  BY <1>2 DEF Rank
<1> HIDE DEF Less
<1>5. Less = {}
  BY <1>1, <1>3, <1>4, FS_Subset, FS_EmptySet
<1> QED
  BY <1>5 DEF Less

\* What is done and collected is a prefix.
LEMMA PrefixIs ==
  ASSUME NEW d, Queue(transfers[d])
  PROVE  /\ DonePrefix(d) \in 0..Len(transfers[d])
         /\ \A i \in 1..DonePrefix(d) : transfers[d][i].done
         /\ DonePrefix(d) < Len(transfers[d]) => ~transfers[d][DonePrefix(d) + 1].done
<1> DEFINE q == transfers[d]
           Open == {i \in DOMAIN q : ~q[i].done}
           Good(n) == /\ \A i \in 1..n : q[i].done
                      /\ n < Len(q) => ~q[n + 1].done
<1>1. Len(q) \in Nat /\ DOMAIN q = 1..Len(q)
  BY DEF Queue
<1>2. \E n \in 0..Len(q) : Good(n)
  <2>1. CASE Open = {}
    BY <1>1, <2>1
  <2>2. CASE Open # {}
    <3>1. PICK i \in Open : \A k \in Open : ~(k < i)
      <4> DEFINE X == {[id |-> i] : i \in Open}
      <4>1. \A i \in Open : [id |-> i].id = i /\ i \in 0..Len(q)
        BY <1>1
      <4>2. \A t \in X : t.id \in Open /\ t = [id |-> t.id]
        OBVIOUS
      <4>3. \A i \in Open : [id |-> i] \in X
        OBVIOUS
      <4>4. X # {}
        BY <2>2, <4>3
      <4> HIDE DEF X, Open
      <4>5. Single(X)
        BY <4>2, Zenon DEF Single
      <4>6. Numbers(X, Len(q) + 1) /\ Len(q) + 1 \in Nat
        BY <1>1, <4>1, <4>2 DEF Numbers
      <4>7. PICK t \in X : \A u \in X : ~(u.id < t.id)
        BY <4>4, <4>5, <4>6, FirstOf
      <4>8. t.id \in Open
        BY <4>2
      <4>9. \A k \in Open : ~(k < t.id)
        BY <4>1, <4>3, <4>7
      <4> QED
        BY <4>8, <4>9
    <3>2. i \in 1..Len(q) /\ ~q[i].done /\ \A k \in 1..(i - 1) : q[k].done
      BY <1>1, <3>1
    <3> QED
      BY <1>1, <3>2
  <2> QED
    BY <2>1, <2>2
<1>3. DonePrefix(d) = CHOOSE n \in 0..Len(q) : Good(n)
  BY DEF DonePrefix
<1> HIDE DEF Good, q
<1>4. DonePrefix(d) \in 0..Len(q) /\ Good(DonePrefix(d))
  BY <1>2, <1>3
<1> QED
  BY <1>4 DEF q, Good

-------------------------------------------------------------------------------
\* Where a job can be on its way: made and not yet handed to the worker, or in the
\* metadata it works on; deferred to the next step; a transfer; collected.
Entries(js) == {[id |-> j, job |-> jobs[j]] : j \in js}
ToLoad == Entries(newLoads) \cup (IF phase \in {"exec", "flush"} THEN meta.loads ELSE {})
ToSave == Entries(newStores) \cup (IF phase = "exec" THEN meta.stores ELSE {})
Sent(d) == Range(transfers[d])
UnderWay == ToLoad \cup ToSave \cup deferred \cup Sent("store") \cup Sent("load") \cup completed

\* Ways are empty outside the part of the step that fills and empties them.
InPhase ==
  /\ phase \in {"sched", "build"} \/ newLoads = {}
  /\ phase = "build" \/ newStores = {}
  /\ phase = "out" \/ completed = {}
  /\ newLoads \cup newStores \subseteq DOMAIN jobs

\* What is on its way has a number given out, and since the last reset it is the
\* connector's job of that number; and each of these jobs is on its way.
Numbered ==
  /\ counter \in Nat /\ threshold \in Nat /\ threshold <= counter
  /\ \A t \in UnderWay :
        /\ t.id \in 0..(counter - 1)
        /\ t.id >= threshold => t.id \in DOMAIN jobs /\ jobs[t.id] = t.job
  /\ \A j \in DOMAIN jobs : j >= threshold /\ j \in Ids(UnderWay)

\* No number is in two places, or twice in one.
Apart(L, S, D, Q, R, C) ==
  /\ L \cap (S \cup D \cup Q \cup R \cup C) = {}
  /\ S \cap (D \cup Q \cup R \cup C) = {}
  /\ D \cap (Q \cup R \cup C) = {}
  /\ Q \cap (R \cup C) = {}
  /\ R \cap C = {}
IsTransfer(t) == t = [id |-> t.id, job |-> t.job, staging |-> t.staging, done |-> t.done]
Moving(q) == Queue(q) /\ \A t \in Range(q) : IsTransfer(t)
OneWay ==
  /\ Single(ToLoad) /\ Single(ToSave) /\ Single(deferred) /\ Single(completed)
  /\ transfers = [d \in Directions |-> transfers[d]]
  /\ \A d \in Directions : Moving(transfers[d])
  /\ Apart(Ids(ToLoad), Ids(ToSave), Ids(deferred), Ids(Sent("store")), Ids(Sent("load")),
           Ids(completed))

Travel == InPhase /\ Numbered /\ OneWay

\* Steps that leave all where it is.
LEMMA TravelKept ==
  ASSUME Travel, ToLoad' = ToLoad, ToSave' = ToSave, InPhase',
         UNCHANGED <<deferred, transfers, completed, jobs, counter, threshold>>
  PROVE  Travel'
<1>1. UnderWay' = UnderWay /\ Sent("store")' = Sent("store") /\ Sent("load")' = Sent("load")
  BY DEF UnderWay, Sent
<1>2. Numbered'
  BY <1>1 DEF Travel, Numbered
<1>3. \A d \in Directions : Sent(d)' = Sent(d)
  BY DEF Sent
<1>4. OneWay'
  BY <1>1, <1>3 DEF Travel, OneWay
<1> QED
  BY <1>2, <1>4 DEF Travel

\* The ways of a step that keeps the jobs to hand over.
LEMMA WaysKept ==
  ASSUME Travel, UNCHANGED <<newLoads, newStores, jobs, deferred, transfers, completed, counter, threshold>>,
         \/ UNCHANGED <<phase, meta>>
         \/ /\ {phase, phase'} \cap {"exec", "flush"} = {}
            /\ phase' \in {"sched", "build"} \/ newLoads = {}
            /\ phase' = "build" \/ newStores = {}
            /\ phase' = "out" \/ completed = {}
  PROVE  Travel'
<1>1. Entries(newLoads)' = Entries(newLoads) /\ Entries(newStores)' = Entries(newStores)
  BY DEF Entries
<1>2. ToLoad' = ToLoad /\ ToSave' = ToSave
  BY <1>1 DEF ToLoad, ToSave
<1>3. InPhase'
  BY DEF Travel, InPhase
<1> QED
  BY <1>2, <1>3, TravelKept

\* What moves on is what was there, and nothing is left behind.
LEMMA NumbersKept ==
  ASSUME Numbered, UNCHANGED <<jobs, counter, threshold>>,
         \A t \in UnderWay' : \E u \in UnderWay : t.id = u.id /\ t.job = u.job,
         Ids(UnderWay) \subseteq Ids(UnderWay')
  PROVE  Numbered'
BY DEF Numbered

\* A new job sets out under a number nobody has.
LEMMA JobSetsOut ==
  ASSUME Travel, NEW job, jobs' = WithJob(job), counter' = counter + 1,
         UNCHANGED <<phase, meta, threshold, deferred, transfers, completed>>,
         \/ phase = "sched" /\ newLoads' = newLoads \cup {counter} /\ newStores' = newStores
         \/ phase = "build" /\ newStores' = newStores \cup {counter} /\ newLoads' = newLoads
  PROVE  Travel'
<1> DEFINE new == [id |-> counter, job |-> job]
<1>1. counter \in Nat /\ threshold \in Nat /\ threshold <= counter
      /\ (\A t \in UnderWay : t.id \in 0..(counter - 1))
      /\ newLoads \cup newStores \subseteq DOMAIN jobs
  BY DEF Travel, Numbered, InPhase
<1>2. counter \notin Ids(UnderWay) /\ counter \notin DOMAIN jobs
  <2>1. counter \notin Ids(UnderWay)
    BY <1>1 DEF Ids
  <2> QED
    BY <2>1 DEF Travel, Numbered
<1>3. /\ DOMAIN jobs' = DOMAIN jobs \cup {counter} /\ jobs'[counter] = job
      /\ \A j \in DOMAIN jobs : jobs'[j] = jobs[j]
  BY <1>2 DEF WithJob
<1>4. \A js \in SUBSET DOMAIN jobs : /\ {[id |-> j, job |-> jobs'[j]] : j \in js} = Entries(js)
        /\ {[id |-> j, job |-> jobs'[j]] : j \in js \cup {counter}} = Entries(js) \cup {new}
  BY <1>3 DEF Entries
<1>5. \/ ToLoad' = ToLoad \cup {new} /\ ToSave' = ToSave
      \/ ToSave' = ToSave \cup {new} /\ ToLoad' = ToLoad
  BY <1>1, <1>4 DEF ToLoad, ToSave, Entries
<1>6. new.id = counter /\ new.job = job /\ Sent("store")' = Sent("store") /\ Sent("load")' = Sent("load")
  BY DEF Sent
<1> HIDE DEF new
<1>7. UnderWay' = UnderWay \cup {new}
  BY <1>5, <1>6 DEF UnderWay
<1>8. InPhase'
  BY <1>3 DEF Travel, InPhase
<1>9. Numbered'
  <2>1. ASSUME NEW t \in UnderWay'
        PROVE  t.id \in 0..counter /\ (t.id >= threshold => t.id \in DOMAIN jobs' /\ jobs'[t.id] = t.job)
    <3>1. CASE t = new
      BY <1>1, <1>3, <1>6, <3>1
    <3>2. CASE t \in UnderWay
      BY <1>1, <1>3, <3>2 DEF Travel, Numbered
    <3> QED
      BY <1>7, <3>1, <3>2
  <2>2. Ids(UnderWay') = Ids(UnderWay) \cup {counter}
    BY <1>6, <1>7 DEF Ids
  <2>3. \A j \in DOMAIN jobs' : j >= threshold /\ j \in Ids(UnderWay')
    BY <1>1, <1>3, <2>2 DEF Travel, Numbered
  <2>4. counter' \in Nat /\ threshold' <= counter' /\ counter' - 1 = counter
    BY <1>1
  <2> QED
    BY <1>1, <2>1, <2>3, <2>4 DEF Numbered, Ids
<1>10. OneWay'
  <2>1. ASSUME NEW X, X \subseteq UnderWay, Single(X)
        PROVE  Single(X \cup {new}) /\ Ids(X \cup {new}) = Ids(X) \cup {counter}
    BY <1>2, <1>6, <2>1 DEF Single, Ids
  <2>2. /\ ToLoad \subseteq UnderWay /\ ToSave \subseteq UnderWay
        /\ Single(ToLoad) /\ Single(ToSave) /\ Single(deferred) /\ Single(completed)
    BY DEF UnderWay, Travel, OneWay
  <2>3. /\ counter \notin Ids(ToLoad) /\ counter \notin Ids(ToSave) /\ counter \notin Ids(deferred)
        /\ counter \notin Ids(Sent("store")) /\ counter \notin Ids(Sent("load"))
        /\ counter \notin Ids(completed)
    BY <1>2 DEF UnderWay, Ids
  <2>5. Apart(Ids(ToLoad), Ids(ToSave), Ids(deferred), Ids(Sent("store")), Ids(Sent("load")), Ids(completed))
    BY DEF Travel, OneWay
  <2>6. /\ transfers' = [d \in Directions |-> transfers'[d]]
        /\ \A d \in Directions : Moving(transfers'[d])
    BY DEF Travel, OneWay
  <2>7. CASE ToLoad' = ToLoad \cup {new} /\ ToSave' = ToSave
    <3>1. Single(ToLoad') /\ Ids(ToLoad') = Ids(ToLoad) \cup {counter}
      BY <2>1, <2>2, <2>7
    <3>2. Apart(Ids(ToLoad'), Ids(ToSave), Ids(deferred), Ids(Sent("store")), Ids(Sent("load")), Ids(completed))
      BY <2>3, <2>5, <3>1, ZenonT(60) DEF Apart
    <3> QED
      BY <1>6, <2>2, <2>6, <2>7, <3>1, <3>2 DEF OneWay, Single, Ids
  <2>8. CASE ToSave' = ToSave \cup {new} /\ ToLoad' = ToLoad
    <3>1. Single(ToSave') /\ Ids(ToSave') = Ids(ToSave) \cup {counter}
      BY <2>1, <2>2, <2>8
    <3>2. Apart(Ids(ToLoad), Ids(ToSave'), Ids(deferred), Ids(Sent("store")), Ids(Sent("load")), Ids(completed))
      BY <2>3, <2>5, <3>1, ZenonT(60) DEF Apart
    <3> QED
      BY <1>6, <2>2, <2>6, <2>8, <3>1, <3>2 DEF OneWay, Single, Ids
  <2> QED
    BY <1>5, <2>7, <2>8
<1> QED
  BY <1>8, <1>9, <1>10 DEF Travel

\* The metadata takes over what was made for it.
LEMMA MetaTakesOver ==
  ASSUME Travel, EndMeta, UNCHANGED <<handlerVars, deferred, completed>>
  PROVE  Travel'
<1>1. /\ meta'.loads = Entries(newLoads) /\ meta'.stores = Entries(newStores)
      /\ newLoads' = {} /\ newStores' = {} /\ phase = "build" /\ phase' = "exec"
      /\ UNCHANGED <<jobs, counter, threshold>>
  BY DEF EndMeta, Entries
<1>2. Entries(newLoads)' = {} /\ Entries(newStores)' = {}
  BY <1>1 DEF Entries
<1>3. ToLoad' = ToLoad /\ ToSave' = ToSave
  BY <1>1, <1>2 DEF ToLoad, ToSave
<1>4. InPhase'
  BY <1>1 DEF Travel, InPhase
<1> QED
  BY <1>1, <1>3, <1>4, TravelKept DEF handlerVars

\* A reset gives up all numbers given out so far.
LEMMA ResetTravels ==
  ASSUME Travel, ResetCache, UNCHANGED <<handlerVars, deferred, completed>>
  PROVE  Travel'
<1>1. /\ phase = "sched" /\ newLoads = {} /\ jobs' = <<>> /\ threshold' = counter
      /\ UNCHANGED <<phase, counter, newLoads, newStores, meta, transfers>>
  BY DEF ResetCache, BetweenSteps, handlerVars
<1>2. newStores = {} /\ DOMAIN jobs' = {}
  BY <1>1 DEF Travel, InPhase
<1>3. Entries(newLoads)' = {} /\ Entries(newStores)' = {} /\ Entries(newLoads) = {} /\ Entries(newStores) = {}
  BY <1>1, <1>2 DEF Entries
<1>4. ToLoad' = ToLoad /\ ToSave' = ToSave
  BY <1>1, <1>3 DEF ToLoad, ToSave
<1>5. \A d : Sent(d)' = Sent(d)
  BY <1>1 DEF Sent
<1>6. UnderWay' = UnderWay
  BY <1>4, <1>5 DEF UnderWay
<1>7. InPhase'
  BY <1>1, <1>2 DEF Travel, InPhase
<1>8. Numbered'
  BY <1>1, <1>2, <1>6 DEF Travel, Numbered
<1>9. OneWay'
  BY <1>1, <1>4, <1>5 DEF Travel, OneWay
<1> QED
  BY <1>7, <1>8, <1>9 DEF Travel

\* A direction's queue takes a submission.
Takes(q, X, r) ==
  /\ Ids(Range(r)) = Ids(Range(q)) \cup Ids(X)
  /\ \A t \in Range(r) : t \in Range(q) \/ \E u \in X : t.id = u.id /\ t.job = u.job
LEMMA QueueTakes ==
  ASSUME NEW q, Moving(q), NEW X, NEW n \in Nat, Numbers(X, n), Single(X),
         Ids(Range(q)) \cap Ids(X) = {}, NEW dir, NEW r, r = q \o Submitted(X, dir)
  PROVE  Moving(r) /\ Takes(q, X, r)
<1> DEFINE s == Submitted(X, dir)
<1>1. \A i \in DOMAIN s : IsTransfer(s[i])
  BY DEF Submitted, Transfer, IsTransfer
<1> HIDE DEF s
<1>2. /\ \E m \in Nat : DOMAIN s = 1..m /\ s = [i \in 1..m |-> s[i]]
      /\ \A i \in DOMAIN s : \E t \in X : s[i].id = t.id /\ s[i].job = t.job
      /\ \A t \in X : \E i \in DOMAIN s : s[i].id = t.id
      /\ \A i, k \in DOMAIN s : s[i].id = s[k].id => i = k
  BY SubmittedIs DEF s
<1>3. Ids(Range(s)) = Ids(X)
  <2>1. \A t \in Range(s) : \E u \in X : t.id = u.id
    BY <1>2 DEF Range
  <2>2. \A u \in X : \E t \in Range(s) : t.id = u.id
    BY <1>2 DEF Range
  <2> QED
    BY <2>1, <2>2 DEF Ids
<1>4. PICK m \in Nat : s = [i \in 1..m |-> s[i]]
  BY <1>2
<1>5. EachOnce(s)
  BY <1>2 DEF EachOnce
<1>6. Queue(r) /\ Range(r) = Range(q) \cup Range(s)
  BY <1>3, <1>4, <1>5, QueueGrows DEF s, Moving
<1>7. \A t \in Range(s) : IsTransfer(t) /\ \E u \in X : t.id = u.id /\ t.job = u.job
  BY <1>1, <1>2 DEF Range
<1>8. Ids(Range(r)) = Ids(Range(q)) \cup Ids(Range(s))
  BY <1>6 DEF Ids
<1>9. Moving(r)
  BY <1>6, <1>7 DEF Moving
<1>10. Takes(q, X, r)
  BY <1>3, <1>6, <1>7, <1>8 DEF Takes
<1> QED
  BY <1>9, <1>10

\* The stores of the step before are submitted, and those that are to be flushed.
LEMMA StoresTravel ==
  ASSUME Travel, SubmitStores
  PROVE  Travel'
<1> DEFINE now  == {s \in meta.stores : s.id \in meta.flush}
           X    == deferred \cup now
           rest == meta.stores \ now
<1>1. /\ phase = "exec" /\ phase' = "flush" /\ deferred' = rest
      /\ transfers' = [transfers EXCEPT !["store"] = @ \o Submitted(X, "store")]
      /\ UNCHANGED <<jobs, counter, threshold, newLoads, newStores, meta, completed>>
  BY DEF SubmitStores, conVars
<1>2. now \cup rest = meta.stores /\ now \cap rest = {}
  OBVIOUS
<1> HIDE DEF now, rest
<1>3. newLoads = {} /\ newStores = {} /\ completed = {} /\ InPhase'
  BY <1>1 DEF Travel, InPhase
<1>4. Entries(newStores) = {} /\ Entries(newLoads) = {} /\ Entries(newStores)' = {} /\ Entries(newLoads)' = {}
  BY <1>1, <1>3 DEF Entries
<1>5. ToLoad' = ToLoad /\ ToSave' = {} /\ ToSave = meta.stores
  BY <1>1, <1>4 DEF ToLoad, ToSave
<1>6. /\ Single(meta.stores) /\ Single(deferred)
      /\ Apart(Ids(ToLoad), Ids(meta.stores), Ids(deferred), Ids(Sent("store")),
               Ids(Sent("load")), Ids(completed))
      /\ Moving(transfers["store"]) /\ Moving(transfers["load"])
      /\ transfers = [d \in Directions |-> transfers[d]]
  BY <1>5 DEF Travel, OneWay, Directions
<1>7. Ids(meta.stores) = Ids(now) \cup Ids(rest) /\ Ids(X) = Ids(deferred) \cup Ids(now)
  BY <1>2 DEF Ids
<1>8. Single(X) /\ Single(rest) /\ Ids(now) \cap Ids(rest) = {}
  <2>1. Single(now) /\ Single(rest) /\ Ids(now) \cap Ids(rest) = {}
    BY <1>2, <1>6 DEF Single, Ids
  <2>2. Ids(now) \cap Ids(deferred) = {}
    BY <1>6, <1>7 DEF Apart
  <2> QED
    BY <1>6, <2>1, <2>2 DEF Single, Ids
<1>9. Numbers(X, counter) /\ counter \in Nat /\ X \subseteq UnderWay
  <2>1. X \subseteq UnderWay
    BY <1>2, <1>5 DEF UnderWay
  <2> QED
    BY <2>1 DEF Travel, Numbered, Numbers
<1>10. Ids(Range(transfers["store"])) \cap Ids(X) = {}
  BY <1>6, <1>7 DEF Apart, Sent
<1> HIDE DEF X
<1>11. /\ transfers' = [d \in Directions |-> transfers'[d]]
       /\ transfers'["store"] = transfers["store"] \o Submitted(X, "store")
       /\ transfers'["load"] = transfers["load"]
  BY <1>1, <1>6 DEF Directions
<1>12. Moving(transfers'["store"]) /\ Takes(transfers["store"], X, transfers'["store"])
  <2> DEFINE q == transfers["store"]
             r == transfers'["store"]
  <2>1. Moving(q) /\ Ids(Range(q)) \cap Ids(X) = {} /\ r = q \o Submitted(X, "store")
    BY <1>6, <1>10, <1>11
  <2> HIDE DEF q, r
  <2>2. Moving(r) /\ Takes(q, X, r)
    BY <1>8, <1>9, <2>1, QueueTakes
  <2> QED
    BY <2>2 DEF q, r
<1>13. Sent("load")' = Sent("load")
  BY <1>11 DEF Sent
<1>14. Numbered'
  <2>1. \A t \in UnderWay' : \E u \in UnderWay : t.id = u.id /\ t.job = u.job
    <3>1. \A t \in Sent("store")' : \E u \in UnderWay : t.id = u.id /\ t.job = u.job
      BY <1>9, <1>12 DEF UnderWay, Takes, Sent
    <3>2. \A t \in UnderWay' : t \in Sent("store")' \/ t \in UnderWay
      BY <1>1, <1>2, <1>5, <1>13 DEF UnderWay
    <3> QED
      BY <3>1, <3>2
  <2>2. Ids(UnderWay) \subseteq Ids(UnderWay')
    <3>1. /\ Ids(UnderWay) = Ids(ToLoad) \cup Ids(meta.stores) \cup Ids(deferred) \cup
                               Ids(Sent("store")) \cup Ids(Sent("load")) \cup Ids(completed)
          /\ Ids(UnderWay') = Ids(ToLoad') \cup Ids(ToSave') \cup Ids(deferred') \cup
                               Ids(Sent("store")') \cup Ids(Sent("load")') \cup Ids(completed')
      BY <1>5 DEF UnderWay, Ids
    <3>2. Ids(Sent("store")') = Ids(Sent("store")) \cup Ids(X)
      BY <1>12 DEF Takes, Sent
    <3> QED
      BY <1>1, <1>5, <1>7, <1>13, <3>1, <3>2
  <2> QED
    BY <1>1, <2>1, <2>2, NumbersKept DEF Travel
<1>15. Apart(Ids(ToLoad'), Ids(ToSave'), Ids(deferred'), Ids(Sent("store")'), Ids(Sent("load")'), Ids(completed'))
  <2>1. Ids(ToSave') = {}
    BY <1>5 DEF Ids
  <2>2. ToLoad' = ToLoad /\ deferred' = rest /\ completed' = completed
    BY <1>1, <1>5
  <2>3. Ids(Sent("store")') = Ids(Sent("store")) \cup Ids(X)
    BY <1>12 DEF Takes, Sent
  <2> QED
    BY <1>6, <1>7, <1>8, <1>13, <2>1, <2>2, <2>3 DEF Apart
<1>16. OneWay'
  <2>1. Single(ToLoad') /\ Single(ToSave') /\ Single(deferred') /\ Single(completed')
    BY <1>1, <1>5, <1>8 DEF Travel, OneWay, Single
  <2>2. \A d \in Directions : Moving(transfers'[d])
    BY <1>6, <1>11, <1>12 DEF Directions
  <2> QED
    BY <1>11, <1>15, <2>1, <2>2 DEF OneWay, Ids, Single
<1> QED
  BY <1>3, <1>14, <1>16 DEF Travel

\* The loads are submitted when the model runs.
LEMMA LoadsTravel ==
  ASSUME Travel, Forward
  PROVE  Travel'
<1> DEFINE X == meta.loads
<1>1. /\ phase = "flush" /\ phase' = "collect" /\ meta' = NoMeta
      /\ transfers' = [transfers EXCEPT !["load"] = @ \o Submitted(X, "load")]
      /\ UNCHANGED <<jobs, counter, threshold, newLoads, newStores, deferred, completed>>
  BY Zenon DEF Forward
<1> HIDE DEF X
<1>2. newLoads = {} /\ newStores = {} /\ completed = {} /\ InPhase'
  BY <1>1 DEF Travel, InPhase
<1>3. Entries(newStores) = {} /\ Entries(newLoads) = {} /\ Entries(newStores)' = {} /\ Entries(newLoads)' = {}
  BY <1>1, <1>2 DEF Entries
<1>4. ToLoad' = {} /\ ToLoad = X /\ ToSave' = {} /\ ToSave = {}
  BY <1>1, <1>3 DEF ToLoad, ToSave, X
<1>5. /\ Single(X)
      /\ Apart(Ids(X), Ids(ToSave), Ids(deferred), Ids(Sent("store")), Ids(Sent("load")), Ids(completed))
      /\ Moving(transfers["store"]) /\ Moving(transfers["load"])
      /\ transfers = [d \in Directions |-> transfers[d]]
  BY <1>4 DEF Travel, OneWay, Directions
<1>6. Numbers(X, counter) /\ counter \in Nat /\ X \subseteq UnderWay
  <2>1. X \subseteq UnderWay
    BY <1>4 DEF UnderWay
  <2> QED
    BY <2>1 DEF Travel, Numbered, Numbers
<1>7. Ids(Range(transfers["load"])) \cap Ids(X) = {}
  BY <1>5 DEF Apart, Sent
<1>8. /\ transfers' = [d \in Directions |-> transfers'[d]]
      /\ transfers'["load"] = transfers["load"] \o Submitted(X, "load")
      /\ transfers'["store"] = transfers["store"]
  BY <1>1, <1>5 DEF Directions
<1>9. Moving(transfers'["load"]) /\ Takes(transfers["load"], X, transfers'["load"])
  <2> DEFINE q == transfers["load"]
             r == transfers'["load"]
  <2>1. Moving(q) /\ Ids(Range(q)) \cap Ids(X) = {} /\ r = q \o Submitted(X, "load")
    BY <1>5, <1>7, <1>8
  <2> HIDE DEF q, r
  <2>2. Moving(r) /\ Takes(q, X, r)
    BY <1>5, <1>6, <2>1, QueueTakes
  <2> QED
    BY <2>2 DEF q, r
<1>10. Sent("store")' = Sent("store")
  BY <1>8 DEF Sent
<1>11. Ids(Sent("load")') = Ids(Sent("load")) \cup Ids(X)
  BY <1>9 DEF Takes, Sent
<1>12. Numbered'
  <2>1. \A t \in UnderWay' : \E u \in UnderWay : t.id = u.id /\ t.job = u.job
    <3>1. \A t \in Sent("load")' : \E u \in UnderWay : t.id = u.id /\ t.job = u.job
      BY <1>6, <1>9 DEF UnderWay, Takes, Sent
    <3>2. \A t \in UnderWay' : t \in Sent("load")' \/ t \in UnderWay
      BY <1>1, <1>4, <1>10 DEF UnderWay
    <3> QED
      BY <3>1, <3>2
  <2>2. Ids(UnderWay) \subseteq Ids(UnderWay')
    <3>1. /\ Ids(UnderWay) = Ids(X) \cup Ids(ToSave) \cup Ids(deferred) \cup
                               Ids(Sent("store")) \cup Ids(Sent("load")) \cup Ids(completed)
          /\ Ids(UnderWay') = Ids(ToLoad') \cup Ids(ToSave') \cup Ids(deferred') \cup
                               Ids(Sent("store")') \cup Ids(Sent("load")') \cup Ids(completed')
      BY <1>4 DEF UnderWay, Ids
    <3> QED
      BY <1>1, <1>4, <1>10, <1>11, <3>1
  <2> QED
    BY <1>1, <2>1, <2>2, NumbersKept DEF Travel
<1>13. Apart(Ids(ToLoad'), Ids(ToSave'), Ids(deferred'), Ids(Sent("store")'), Ids(Sent("load")'), Ids(completed'))
  <2>1. Ids(ToLoad') = {}
    BY <1>4 DEF Ids
  <2>2. ToSave' = ToSave /\ deferred' = deferred /\ completed' = completed
    BY <1>1, <1>4
  <2> QED
    BY <1>5, <1>10, <1>11, <2>1, <2>2 DEF Apart
<1>14. OneWay'
  <2>1. Single(ToLoad') /\ Single(ToSave') /\ Single(deferred') /\ Single(completed')
    BY <1>1, <1>4 DEF Travel, OneWay, Single
  <2>2. \A d \in Directions : Moving(transfers'[d])
    BY <1>5, <1>8, <1>9 DEF Directions
  <2> QED
    BY <1>8, <1>13, <2>1, <2>2 DEF OneWay, Ids, Single
<1> QED
  BY <1>2, <1>12, <1>14 DEF Travel

\* A transfer that is marked as done stays where it is.
LEMMA QueueMarks ==
  ASSUME NEW q, Moving(q), NEW i, NEW x,
         i \in DOMAIN q => IsTransfer(x) /\ x.id = q[i].id /\ x.job = q[i].job,
         NEW r, r = [q EXCEPT ![i] = x]
  PROVE  Moving(r) /\ Takes(q, Range(q), r)
<1>1. q \in Seq(Range(q)) /\ EachOnce(q) /\ \A t \in Range(q) : IsTransfer(t)
  BY DEF Moving, Queue
<1>2. Len(q) \in Nat /\ DOMAIN q = 1..Len(q)
  BY <1>1
<1>3. /\ DOMAIN r = DOMAIN q /\ r = [k \in DOMAIN q |-> r[k]]
      /\ \A k \in DOMAIN q : IsTransfer(r[k]) /\ r[k].id = q[k].id /\ r[k].job = q[k].job
  BY <1>1 DEF Range
<1>4. \A t \in Range(r) : IsTransfer(t) /\ \E u \in Range(q) : t.id = u.id /\ t.job = u.job
  BY <1>3 DEF Range
<1>5. Ids(Range(r)) = Ids(Range(q))
  BY <1>3 DEF Ids, Range
<1>6. EachOnce(r)
  BY <1>1, <1>3 DEF EachOnce
<1>7. r \in Seq(Range(r))
  <2> DEFINE S == Range(r)
             c == Len(q)
  <2>1. \A k \in DOMAIN r : r[k] \in S
    BY DEF Range
  <2> HIDE DEF S, c
  <2>2. c \in Nat /\ r \in [1..c -> S]
    BY <1>2, <1>3, <2>1 DEF c
  <2>3. r \in Seq(S)
    BY <2>2, SeqDef, Zenon
  <2> QED
    BY <2>3 DEF S
<1> QED
  BY <1>4, <1>5, <1>6, <1>7 DEF Moving, Queue, Takes

\* What the GPU's copies change of a transfer.
LEMMA MarkedIs ==
  ASSUME NEW t, IsTransfer(t), NEW f
  PROVE  \A x : \/ x = [t EXCEPT !.done = TRUE]
                \/ x = [t EXCEPT !.done = TRUE, !.staging = f]
                => IsTransfer(x) /\ x.id = t.id /\ x.job = t.job
<1>1. PICK a, b, c, e : t = [id |-> a, job |-> b, staging |-> c, done |-> e]
  BY DEF IsTransfer
<1>2. ASSUME NEW v, NEW x, x = [t EXCEPT !.done = v]
      PROVE  x = [id |-> a, job |-> b, staging |-> c, done |-> v]
  BY <1>1, <1>2
<1>3. ASSUME NEW v, NEW x, x = [t EXCEPT !.done = v, !.staging = f]
      PROVE  x = [id |-> a, job |-> b, staging |-> f, done |-> v]
  BY <1>1, <1>3
<1> SUFFICES ASSUME NEW x, \/ x = [t EXCEPT !.done = TRUE]
                            \/ x = [t EXCEPT !.done = TRUE, !.staging = f]
             PROVE  IsTransfer(x) /\ x.id = t.id /\ x.job = t.job
  OBVIOUS
<1> DEFINE v == TRUE
<1>4. x = [t EXCEPT !.done = v] \/ x = [t EXCEPT !.done = v, !.staging = f]
  OBVIOUS
<1> HIDE DEF v
<1>5. \E g : x = [id |-> a, job |-> b, staging |-> g, done |-> v]
  BY <1>2, <1>3, <1>4
<1> QED
  BY <1>1, <1>5 DEF IsTransfer

\* A copy of the GPU marks a transfer.
LEMMA CopyTravels ==
  ASSUME Travel, GpuCopy
  PROVE  Travel'
<1>1. UNCHANGED <<phase, meta, jobs, counter, threshold, newLoads, newStores, deferred, completed>>
  BY DEF GpuCopy, schedVars, extVars, conVars
<1>2. transfers = [d \in Directions |-> transfers[d]] /\ \A d \in Directions : Moving(transfers[d])
  BY DEF Travel, OneWay
<1>3. PICK d \in Directions : \E r : /\ transfers' = [transfers EXCEPT ![d] = r]
                                     /\ Moving(r) /\ Takes(transfers[d], Range(transfers[d]), r)
  <2>1. ASSUME NEW d \in Directions, NEW i, NEW x,
               i \in DOMAIN transfers[d] => /\ IsTransfer(x) /\ x.id = transfers[d][i].id
                                            /\ x.job = transfers[d][i].job,
               transfers' = [transfers EXCEPT ![d] = [transfers[d] EXCEPT ![i] = x]]
        PROVE  \E r : /\ transfers' = [transfers EXCEPT ![d] = r]
                      /\ Moving(r) /\ Takes(transfers[d], Range(transfers[d]), r)
    <3> DEFINE q == transfers[d]
               r == [q EXCEPT ![i] = x]
    <3>1. Moving(q) /\ (i \in DOMAIN q => IsTransfer(x) /\ x.id = q[i].id /\ x.job = q[i].job)
      BY <1>2, <2>1
    <3> HIDE DEF q
    <3>2. Moving(r) /\ Takes(q, Range(q), r)
      BY <3>1, QueueMarks
    <3>3. transfers' = [transfers EXCEPT ![d] = r]
      BY <2>1 DEF q
    <3> HIDE DEF r
    <3> QED
      BY <3>2, <3>3 DEF q
  <2>2. \A e \in Directions : \A i \in DOMAIN transfers[e] : IsTransfer(transfers[e][i])
    BY <1>2 DEF Moving, Range
  <2>3. CASE StoreCopied
    <3> DEFINE i == FirstRunning("store")
               t == transfers["store"][i]
               f == [m \in DOMAIN t.staging |-> gpu[m.block]]
               x == [t EXCEPT !.done = TRUE, !.staging = f]
    <3>1. transfers' = [transfers EXCEPT !["store"] = [transfers["store"] EXCEPT ![i] = x]]
      BY <1>2, <2>3 DEF StoreCopied, Directions
    <3>2. i \in DOMAIN transfers["store"] => IsTransfer(x) /\ x.id = t.id /\ x.job = t.job
      BY <2>2, MarkedIs DEF Directions
    <3> HIDE DEF i, x
    <3> QED
      BY <2>1, <3>1, <3>2 DEF Directions
  <2>4. CASE LoadCopied
    <3> DEFINE i == FirstRunning("load")
               t == transfers["load"][i]
               x == [t EXCEPT !.done = TRUE]
    <3>1. transfers' = [transfers EXCEPT !["load"] = [transfers["load"] EXCEPT ![i] = x]]
      BY <1>2, <2>4 DEF LoadCopied, Directions
    <3>2. i \in DOMAIN transfers["load"] => IsTransfer(x) /\ x.id = t.id /\ x.job = t.job
      BY <2>2, MarkedIs DEF Directions
    <3> HIDE DEF i, x
    <3> QED
      BY <2>1, <3>1, <3>2 DEF Directions
  <2> QED
    BY <2>3, <2>4 DEF GpuCopy
<1>4. PICK r : /\ transfers' = [transfers EXCEPT ![d] = r]
               /\ Moving(r) /\ Takes(transfers[d], Range(transfers[d]), r)
  BY <1>3
<1>5. /\ transfers' = [e \in Directions |-> transfers'[e]] /\ transfers'[d] = r
      /\ \A e \in Directions : e = d \/ transfers'[e] = transfers[e]
  BY <1>2, <1>4
<1>6. ASSUME NEW e \in Directions
      PROVE  /\ Moving(transfers'[e]) /\ Ids(Sent(e)') = Ids(Sent(e))
             /\ \A t \in Sent(e)' : \E u \in Sent(e) : t.id = u.id /\ t.job = u.job
  BY <1>2, <1>4, <1>5 DEF Sent, Takes
<1>7. Entries(newLoads)' = Entries(newLoads) /\ Entries(newStores)' = Entries(newStores)
  BY <1>1 DEF Entries
<1>8. ToLoad' = ToLoad /\ ToSave' = ToSave /\ InPhase'
  BY <1>1, <1>7 DEF ToLoad, ToSave, Travel, InPhase
<1>9. Numbered'
  <2>1. \A t \in UnderWay' : \E u \in UnderWay : t.id = u.id /\ t.job = u.job
    BY <1>1, <1>6, <1>8 DEF UnderWay, Directions
  <2>2. Ids(UnderWay) \subseteq Ids(UnderWay')
    <3>1. /\ Ids(UnderWay) = Ids(ToLoad) \cup Ids(ToSave) \cup Ids(deferred) \cup
                               Ids(Sent("store")) \cup Ids(Sent("load")) \cup Ids(completed)
          /\ Ids(UnderWay') = Ids(ToLoad') \cup Ids(ToSave') \cup Ids(deferred') \cup
                               Ids(Sent("store")') \cup Ids(Sent("load")') \cup Ids(completed')
      BY DEF UnderWay, Ids
    <3> QED
      BY <1>1, <1>6, <1>8, <3>1 DEF Directions
  <2> QED
    BY <1>1, <2>1, <2>2, NumbersKept DEF Travel
<1>10. OneWay'
  BY <1>1, <1>5, <1>6, <1>8 DEF Travel, OneWay, Directions, Ids, Single
<1> QED
  BY <1>8, <1>9, <1>10 DEF Travel

\* What is collected leaves the queues.
LEMMA CollectTravels ==
  ASSUME Travel, Collect
  PROVE  Travel'
<1> DEFINE qs == transfers["store"]
           ql == transfers["load"]
           ns == DonePrefix("store")
           nl == DonePrefix("load")
           as == SubSeq(qs, 1, ns)
           al == SubSeq(ql, 1, nl)
           bs == SubSeq(qs, ns + 1, Len(qs))
           bl == SubSeq(ql, nl + 1, Len(ql))
<1>1. /\ phase = "collect" /\ phase' = "out"
      /\ UNCHANGED <<jobs, counter, threshold, newLoads, newStores, meta, deferred>>
      /\ completed' = Range(as) \cup Range(al)
      /\ transfers' = [d \in Directions |-> IF d = "store" THEN bs ELSE bl]
  <2>1. completed' = UNION {Range(SubSeq(transfers[d], 1, DonePrefix(d))) : d \in Directions}
    BY DEF Collect, Collected
  <2>2. transfers' = [d \in Directions |-> SubSeq(transfers[d], DonePrefix(d) + 1, Len(transfers[d]))]
    BY DEF Collect, GetFinished
  <2>3. phase = "collect" /\ phase' = "out"
        /\ UNCHANGED <<jobs, counter, threshold, newLoads, newStores, meta, deferred>>
    BY DEF Collect, conVars
  <2> QED
    BY <2>1, <2>2, <2>3, Zenon DEF Directions
<1>2. Moving(qs) /\ Moving(ql) /\ Single(ToLoad) /\ Single(ToSave) /\ Single(deferred)
      /\ Apart(Ids(ToLoad), Ids(ToSave), Ids(deferred), Ids(Range(qs)), Ids(Range(ql)), Ids(completed))
  BY DEF Travel, OneWay, Directions, Sent
<1>3. newLoads = {} /\ newStores = {} /\ completed = {} /\ InPhase'
  BY <1>1 DEF Travel, InPhase
<1>4. ns \in 0..Len(qs) /\ nl \in 0..Len(ql)
  BY <1>2, PrefixIs DEF Moving
<1> HIDE DEF qs, ql, ns, nl
<1> HIDE DEF as, al, bs, bl
<1>5. /\ Queue(bs) /\ Single(Range(as)) /\ Range(qs) = Range(as) \cup Range(bs)
      /\ Ids(Range(as)) \cap Ids(Range(bs)) = {}
  BY <1>2, <1>4, QueueCut DEF Moving, as, bs
<1>6. /\ Queue(bl) /\ Single(Range(al)) /\ Range(ql) = Range(al) \cup Range(bl)
      /\ Ids(Range(al)) \cap Ids(Range(bl)) = {}
  BY <1>2, <1>4, QueueCut DEF Moving, al, bl
<1>7. Moving(bs) /\ Moving(bl)
  BY <1>2, <1>5, <1>6 DEF Moving
<1>8. /\ Sent("store") = Range(qs) /\ Sent("load") = Range(ql)
      /\ Sent("store")' = Range(bs) /\ Sent("load")' = Range(bl)
  BY <1>1 DEF Sent, qs, ql, Directions
<1>9. Entries(newLoads)' = Entries(newLoads) /\ Entries(newStores)' = Entries(newStores)
  BY <1>1 DEF Entries
<1>10. ToLoad' = ToLoad /\ ToSave' = ToSave
  BY <1>1, <1>9 DEF ToLoad, ToSave
<1>11. UnderWay' = UnderWay
  <2>1. completed' = Range(as) \cup Range(al) /\ deferred' = deferred /\ completed = {}
    BY <1>1, <1>3
  <2>2. /\ UnderWay = ToLoad \cup ToSave \cup deferred \cup Range(qs) \cup Range(ql) \cup completed
        /\ UnderWay' = ToLoad' \cup ToSave' \cup deferred' \cup Range(bs) \cup Range(bl) \cup completed'
    BY <1>8 DEF UnderWay
  <2>3. Range(qs) = Range(as) \cup Range(bs) /\ Range(ql) = Range(al) \cup Range(bl)
    BY <1>5, <1>6
  <2> QED
    BY <1>10, <2>1, <2>2, <2>3
<1>12. Numbered'
  BY <1>1, <1>11 DEF Travel, Numbered
<1>13. /\ Ids(Range(qs)) = Ids(Range(as)) \cup Ids(Range(bs))
       /\ Ids(Range(ql)) = Ids(Range(al)) \cup Ids(Range(bl))
       /\ Ids(completed') = Ids(Range(as)) \cup Ids(Range(al))
  BY <1>1, <1>5, <1>6 DEF Ids
<1>14. Ids(Range(as)) \cap Ids(Range(al)) = {}
  BY <1>2, <1>13 DEF Apart
<1>15. Single(completed')
  <2>1. ASSUME NEW t \in completed', NEW u \in completed', t.id = u.id PROVE t = u
    <3>1. ~(t \in Range(as) /\ u \in Range(al)) /\ ~(t \in Range(al) /\ u \in Range(as))
      BY <1>14, <2>1 DEF Ids
    <3> QED
      BY <1>1, <1>5, <1>6, <2>1, <3>1 DEF Single
  <2> QED
    BY <2>1 DEF Single
<1>16. Apart(Ids(ToLoad'), Ids(ToSave'), Ids(deferred'), Ids(Sent("store")'), Ids(Sent("load")'), Ids(completed'))
  <2>1. Ids(ToLoad') = Ids(ToLoad) /\ Ids(ToSave') = Ids(ToSave) /\ Ids(deferred') = Ids(deferred)
    BY <1>1, <1>10
  <2> QED
    BY <1>2, <1>5, <1>6, <1>8, <1>13, <2>1 DEF Apart
<1>17. OneWay'
  <2>1. Single(ToLoad') /\ Single(ToSave') /\ Single(deferred')
    BY <1>1, <1>2, <1>10
  <2>2. transfers' = [d \in Directions |-> transfers'[d]] /\ \A d \in Directions : Moving(transfers'[d])
    BY <1>1, <1>7
  <2> QED
    BY <1>15, <1>16, <2>1, <2>2 DEF OneWay, Single, Ids
<1> QED
  BY <1>3, <1>12, <1>17 DEF Travel

\* A job whose output is given is done with, and no other has its number.
LEMMA OutputTravels ==
  ASSUME Travel, NEW t \in completed, GiveOutput(t)
  PROVE  Travel'
<1>1. /\ phase = "out" /\ completed' = completed \ {t} /\ t \in UnderWay
      /\ UNCHANGED <<phase, meta, counter, threshold, newLoads, newStores, deferred, transfers>>
  BY DEF GiveOutput, ConnectorOutput, handlerVars, UnderWay
<1>2. \/ UNCHANGED jobs /\ t.id < threshold
      \/ jobs' = [i \in DOMAIN jobs \ {t.id} |-> jobs[i]]
  BY DEF GiveOutput, ConnectorOutput
<1>3. newLoads = {} /\ newStores = {} /\ InPhase'
  BY <1>1 DEF Travel, InPhase
<1>4. Entries(newStores) = {} /\ Entries(newLoads) = {} /\ Entries(newStores)' = {} /\ Entries(newLoads)' = {}
  BY <1>1, <1>3 DEF Entries
<1>5. ToLoad' = ToLoad /\ ToSave' = ToSave /\ \A d : Sent(d)' = Sent(d)
  BY <1>1, <1>4 DEF ToLoad, ToSave, Sent
<1>6. ASSUME NEW u \in UnderWay, u.id = t.id PROVE u = t
  <2>1. /\ Apart(Ids(ToLoad), Ids(ToSave), Ids(deferred), Ids(Sent("store")), Ids(Sent("load")), Ids(completed))
        /\ Single(completed)
    BY DEF Travel, OneWay
  <2>2. t.id \in Ids(completed)
    BY DEF Ids
  <2>3. /\ t.id \notin Ids(ToLoad) /\ t.id \notin Ids(ToSave) /\ t.id \notin Ids(deferred)
        /\ t.id \notin Ids(Sent("store")) /\ t.id \notin Ids(Sent("load"))
    BY <2>1, <2>2 DEF Apart
  <2>4. u \in completed
    BY <1>6, <2>3 DEF Ids, UnderWay
  <2> QED
    BY <1>6, <2>1, <2>4 DEF Single
<1>7. UnderWay' \subseteq UnderWay /\ UnderWay \subseteq UnderWay' \cup {t} /\ t \notin UnderWay'
  <2>1. UnderWay' \subseteq UnderWay /\ UnderWay \subseteq UnderWay' \cup {t}
    BY <1>1, <1>5 DEF UnderWay
  <2>2. t.id \in Ids(completed)
    BY DEF Ids
  <2>3. /\ t.id \notin Ids(ToLoad) /\ t.id \notin Ids(ToSave) /\ t.id \notin Ids(deferred)
        /\ t.id \notin Ids(Sent("store")) /\ t.id \notin Ids(Sent("load"))
    BY <2>2 DEF Travel, OneWay, Apart
  <2>4. t \notin UnderWay'
    BY <1>1, <1>5, <2>3 DEF Ids, UnderWay
  <2> QED
    BY <2>1, <2>4
<1>8. \A u \in UnderWay' : u \in UnderWay /\ u.id # t.id
  BY <1>6, <1>7
<1>9. /\ counter \in Nat /\ threshold \in Nat /\ threshold <= counter
      /\ \A u \in UnderWay :
            /\ u.id \in 0..(counter - 1)
            /\ u.id >= threshold => u.id \in DOMAIN jobs /\ jobs[u.id] = u.job
      /\ \A j \in DOMAIN jobs : j >= threshold /\ j \in Ids(UnderWay)
  BY DEF Travel, Numbered
<1>10. /\ DOMAIN jobs' = DOMAIN jobs \ {t.id}
       /\ \A j \in DOMAIN jobs' : jobs'[j] = jobs[j]
  <2>1. CASE UNCHANGED jobs /\ t.id < threshold
    <3>1. t.id \notin DOMAIN jobs
      BY <1>1, <1>9, <2>1
    <3> QED
      BY <2>1, <3>1
  <2>2. CASE jobs' = [i \in DOMAIN jobs \ {t.id} |-> jobs[i]]
    BY <2>2
  <2> QED
    BY <1>2, <2>1, <2>2
<1>11. Numbered'
  <2>1. \A j \in DOMAIN jobs' : j \in Ids(UnderWay')
    BY <1>7, <1>9, <1>10 DEF Ids
  <2>2. ASSUME NEW u \in UnderWay'
        PROVE  /\ u.id \in 0..(counter - 1)
               /\ u.id >= threshold => u.id \in DOMAIN jobs' /\ jobs'[u.id] = u.job
    BY <1>8, <1>9, <1>10
  <2> QED
    BY <1>1, <1>9, <1>10, <2>1, <2>2 DEF Numbered, Ids
<1>12. OneWay'
  <2>1. Ids(completed') \subseteq Ids(completed) /\ (Single(completed) => Single(completed'))
    BY <1>1 DEF Ids, Single
  <2>2. Apart(Ids(ToLoad), Ids(ToSave), Ids(deferred), Ids(Sent("store")), Ids(Sent("load")), Ids(completed'))
    BY <2>1 DEF Travel, OneWay, Apart
  <2>3. /\ Single(ToLoad) /\ Single(ToSave) /\ Single(deferred) /\ Single(completed')
        /\ transfers = [d \in Directions |-> transfers[d]]
        /\ \A d \in Directions : Moving(transfers[d])
    BY <2>1 DEF Travel, OneWay
  <2> QED
    BY <1>1, <1>5, <2>2, <2>3 DEF OneWay, Ids, Single
<1> QED
  BY <1>3, <1>11, <1>12 DEF Travel

\* Every step takes the jobs on their way.
LEMMA StepKeepsTravel == Travel /\ [Next]_vars => Travel'
<1> SUFFICES ASSUME Travel, [Next]_vars PROVE Travel'
  OBVIOUS
<1> DEFINE Idle == UNCHANGED <<handlerVars, deferred, completed>>
<1>1. CASE ResetCache /\ Idle
  BY <1>1, ResetTravels
<1>2. ASSUME NEW r \in Requests, Scheduling(r), Idle PROVE Travel'
  <2>1. UNCHANGED <<deferred, transfers, completed>>
    BY <1>2 DEF handlerVars
  <2>2. CASE OnNewRequest(r) \/ GetMatchedWaits(r) \/ Preempt(r) \/ Abort(r)
             \/ \E n \in 1..MaxTokens : ScheduleWaiting(r, n) \/ ScheduleRunning(r, n)
    <3>1. UNCHANGED <<newLoads, newStores, jobs, counter, threshold, phase, meta>>
      BY <2>2 DEF OnNewRequest, GetMatchedWaits, Preempt, Abort, ScheduleWaiting, ScheduleRunning,
                  extVars, conVars
    <3> QED
      BY <2>1, <3>1, WaysKept
  <2>3. CASE ScheduleLoad(r)
    <3>1. PICK job : jobs' = WithJob(job)
      BY <2>3 DEF ScheduleLoad
    <3>2. /\ phase = "sched" /\ newLoads' = newLoads \cup {counter} /\ counter' = counter + 1
          /\ UNCHANGED <<phase, meta, threshold, newStores>>
      BY <2>3 DEF ScheduleLoad
    <3> QED
      BY <2>1, <3>1, <3>2, JobSetsOut
  <2> QED
    BY <1>2, <2>2, <2>3 DEF Scheduling
<1>3. CASE (StartMeta \/ EndMeta) /\ Idle
  <2>1. CASE StartMeta
    <3>1. /\ phase = "sched" /\ phase' = "build"
          /\ UNCHANGED <<newLoads, newStores, jobs, counter, threshold>>
      BY <2>1, Zenon DEF StartMeta
    <3>2. UNCHANGED <<deferred, transfers, completed>> /\ completed = {}
      BY <1>3, <3>1 DEF handlerVars, Travel, InPhase
    <3> QED
      BY <3>1, <3>2, WaysKept
  <2>2. CASE EndMeta
    BY <1>3, <2>2, MetaTakesOver
  <2> QED
    BY <1>3, <2>1, <2>2
<1>4. ASSUME NEW r \in Requests, StoreJob(r), Idle PROVE Travel'
  <2>1. UNCHANGED <<deferred, transfers, completed>>
    BY <1>4 DEF handlerVars
  <2>2. CASE StoreNothing(r) \/ StoreRefused(r)
    <3>1. UNCHANGED <<newLoads, newStores, jobs, counter, threshold, phase, meta>>
      BY <2>2 DEF StoreNothing, StoreRefused, extVars
    <3> QED
      BY <2>1, <3>1, WaysKept
  <2>3. ASSUME NEW e \in SUBSET Evictable, StoreChunks(r, e) PROVE Travel'
    <3>1. \E job : jobs' = WithJob(job)
      BY <2>3, Zenon DEF StoreChunks
    <3>2. /\ phase = "build" /\ newStores' = newStores \cup {counter} /\ counter' = counter + 1
          /\ UNCHANGED <<phase, meta, threshold, newLoads>>
      BY <2>3 DEF StoreChunks, extVars
    <3> QED
      BY <2>1, <3>1, <3>2, JobSetsOut
  <2> QED
    BY <1>4, <2>2, <2>3 DEF StoreJob
<1>5. ASSUME NEW r \in Requests, NEW stops \in BOOLEAN, RequestOutput(r, stops), Idle PROVE Travel'
  <2>1. UNCHANGED <<newLoads, newStores, jobs, counter, threshold, phase, meta>>
    BY <1>5 DEF RequestOutput
  <2>2. UNCHANGED <<deferred, transfers, completed>>
    BY <1>5 DEF handlerVars
  <2> QED
    BY <2>1, <2>2, WaysKept
<1>6. CASE SubmitStores \/ Forward \/ Collect \/ GpuCopy
  BY <1>6, StoresTravel, LoadsTravel, CollectTravels, CopyTravels
<1>7. CASE EndStep
  <2>1. /\ phase = "out" /\ phase' = "sched" /\ completed = {}
        /\ UNCHANGED <<newLoads, newStores, jobs, deferred, transfers, completed, counter, threshold>>
    BY <1>7 DEF EndStep, conVars, handlerVars
  <2>2. newStores = {}
    BY <2>1 DEF Travel, InPhase
  <2> QED
    BY <2>1, <2>2, WaysKept
<1>8. ASSUME NEW t \in completed, GiveOutput(t) PROVE Travel'
  BY <1>8, OutputTravels
<1>9. CASE UNCHANGED vars
  <2>1. UNCHANGED <<newLoads, newStores, jobs, deferred, transfers, completed, counter, threshold, phase, meta>>
    BY <1>9 DEF vars, schedVars, extVars, conVars, handlerVars
  <2> QED
    BY <2>1, WaysKept
<1> QED
  BY <1>1, <1>2, <1>3, <1>4, <1>5, <1>6, <1>7, <1>8, <1>9 DEF Next, EngineStep

\* At the start nothing is on its way.
LEMMA InitTravel == Init => Travel
<1> SUFFICES ASSUME Init PROVE Travel
  OBVIOUS
<1>1. /\ phase = "sched" /\ newLoads = {} /\ newStores = {} /\ counter = 0 /\ threshold = 0
      /\ DOMAIN jobs = {} /\ deferred = {} /\ completed = {}
      /\ transfers = [d \in Directions |-> <<>>]
  BY DEF Init, SchedInit
<1>2. Entries(newLoads) = {} /\ Entries(newStores) = {}
  BY <1>1 DEF Entries
<1>3. ToLoad = {} /\ ToSave = {}
  BY <1>1, <1>2 DEF ToLoad, ToSave
<1>4. \A d \in Directions : Sent(d) = {} /\ transfers[d] = <<>>
  BY <1>1 DEF Sent, Range
<1>5. UnderWay = {} /\ Ids({}) = {} /\ Single({})
  BY <1>1, <1>3, <1>4 DEF UnderWay, Ids, Single, Directions
<1>6. Moving(<<>>)
  BY DEF Moving, Queue, EachOnce, Range
<1>7. InPhase /\ Numbered
  BY <1>1, <1>5 DEF InPhase, Numbered
<1>8. OneWay
  BY <1>1, <1>3, <1>4, <1>5, <1>6 DEF OneWay, Apart, Directions
<1> QED
  BY <1>7, <1>8 DEF Travel

\* Every job the connector has is on its way, in one place, under its own number.
THEOREM TravelHolds == Spec => []Travel
  BY InitTravel, StepKeepsTravel, PTL DEF Spec

\* Whenever a job completes, its request is known and its blocks are watched, those
\* of the requests that are over included; and a completion that is not from before
\* a reset finds its job, the very one the worker did.
THEOREM CompletionsResolveHolds == Spec => []CompletionsResolve
<1>1. Books /\ Travel => CompletionsResolve
  <2> SUFFICES ASSUME Books, Travel PROVE CompletionsResolve
    OBVIOUS
  <2>1. ASSUME NEW j \in DOMAIN jobs
        PROVE  /\ jobs[j].sliding \X {j} \subseteq watch
               /\ Finished(jobs[j].req) => jobs[j].other \X {j} \subseteq watch
               /\ jobs[j].req \in tracked
    <3>1. \A b \in WatchedFor(j) : <<b, j>> \in watch
      BY DEF Books, WatchIsExact
    <3> QED
      BY <3>1 DEF WatchedFor, Books, JobsAreKnown
  <2>2. \A t \in completed : t.id >= threshold => t.id \in DOMAIN jobs /\ jobs[t.id] = t.job
    BY DEF Travel, Numbered, UnderWay
  <2> QED
    BY <2>1, <2>2 DEF CompletionsResolve
<1> QED
  BY <1>1, BooksHold, TravelHolds, PTL

(***************************************************************************)
(* Chunks, the numbers that are handed out lowest first, and allocation.   *)
(***************************************************************************)

\* Products, for a factor that is not known.
LEMMA Products ==
  ASSUME NEW a \in Nat, NEW b \in Nat, NEW t \in Nat \ {0}
  PROVE  /\ a * t \in Nat /\ (a + 1) * t = a * t + t
         /\ a < b <=> a * t < b * t
         /\ a < b <=> a * t + t <= b * t
<1>1. a * t \in Nat /\ (a + 1) * t = a * t + t
  OBVIOUS
<1>2. a < b <=> a * t < b * t
  OBVIOUS
<1>3. a < b <=> a * t + t <= b * t
  OBVIOUS
<1> QED
  BY <1>1, <1>2, <1>3

\* Whole chunks are counted by a division.
LEMMA Floor ==
  ASSUME NEW n \in Nat, NEW t \in Nat \ {0}
  PROVE  /\ n \div t \in Nat /\ (n \div t) * t <= n /\ n = (n \div t) * t + (n % t)
         /\ n % t \in Nat
         /\ \A k \in Nat : k < n \div t <=> (k + 1) * t <= n
<1> DEFINE q == n \div t
<1>1. q \in Nat /\ n % t \in 0..(t-1) /\ n = t * q + (n % t)
  OBVIOUS
<1>2. q * t <= n /\ n < q * t + t /\ n = q * t + (n % t)
  BY <1>1
<1> HIDE DEF q
<1>3. ASSUME NEW k \in Nat PROVE k < q <=> (k + 1) * t <= n
  <2>1. /\ (k + 1) * t = k * t + t /\ k * t \in Nat /\ q * t \in Nat
        /\ k < q <=> k * t + t <= q * t
        /\ q < k + 1 <=> q * t + t <= (k + 1) * t
    BY <1>1, Products
  <2>2. k < q => (k + 1) * t <= n
    BY <1>1, <1>2, <2>1
  <2>3. ~(k < q) => ~((k + 1) * t <= n)
    BY <1>1, <1>2, <2>1
  <2> QED
    BY <2>2, <2>3
<1> QED
  BY <1>1, <1>2, <1>3 DEF q

\* Chunk k of a text of n tokens is whole, or begun.
Full(k, n)  == (k[2] + 1) * TokensPerChunk <= n
Begun(k, n) == k[2] * TokensPerChunk < n

\* A chunk has at least one token.
LEMMA ChunkSize == TokensPerChunk \in Nat \ {0}
BY SchedulerAssumption

\* Begun chunks are counted by ChunksIn.
LEMMA Ceiling ==
  ASSUME NEW n \in Nat
  PROVE  /\ ChunksIn(n) \in Nat
         /\ \A k \in Nat : k < ChunksIn(n) <=> k * TokensPerChunk < n
<1> DEFINE t == TokensPerChunk
<1>1. t \in Nat \ {0}
  BY ChunkSize
<1> HIDE DEF t
<1>2. /\ (n + t - 1) \div t \in Nat
      /\ \A k \in Nat : k < (n + t - 1) \div t <=> (k + 1) * t <= n + t - 1
  <2> DEFINE m == n + t - 1
  <2>1. m \in Nat
    BY <1>1
  <2> HIDE DEF m
  <2>2. m \div t \in Nat /\ \A k \in Nat : k < m \div t <=> (k + 1) * t <= m
    BY <1>1, <2>1, Floor
  <2> QED
    BY <2>2 DEF m
<1>3. ASSUME NEW k \in Nat PROVE (k + 1) * t <= n + t - 1 <=> k * t < n
  <2>1. k * t \in Nat /\ (k + 1) * t = k * t + t
    BY <1>1, Products
  <2> QED
    BY <1>1, <2>1
<1> QED
  BY <1>2, <1>3 DEF ChunksIn, t

\* A text of h chunks has h chunks, and no other number of tokens counts more.
LEMMA Multiples ==
  ASSUME NEW h \in Nat
  PROVE  h * TokensPerChunk \in Nat /\ ChunksIn(h * TokensPerChunk) = h
<1> DEFINE t == TokensPerChunk
           c == ChunksIn(h * t)
<1>1. t \in Nat \ {0}
  BY ChunkSize
<1>2. h * t \in Nat
  BY <1>1, Products
<1>3. c \in Nat /\ \A k \in Nat : k < c <=> k * t < h * t
  BY <1>2, Ceiling
<1> HIDE DEF c, t
<1>4. \A k \in Nat : k * t < h * t <=> k < h
  BY <1>1, Products
<1>5. ~(c < h) /\ ~(h < c)
  BY <1>3, <1>4
<1> QED
  BY <1>2, <1>3, <1>5 DEF c, t

\* More tokens are in no fewer chunks.
LEMMA ChunksGrow ==
  ASSUME NEW m \in Nat, NEW n \in Nat, m <= n
  PROVE  ChunksIn(m) \in Nat /\ ChunksIn(n) \in Nat /\ ChunksIn(m) <= ChunksIn(n)
<1> DEFINE t == TokensPerChunk
           a == ChunksIn(m)
           b == ChunksIn(n)
<1>1. /\ a \in Nat /\ b \in Nat
      /\ \A k \in Nat : (k < a <=> k * t < m) /\ (k < b <=> k * t < n)
  BY Ceiling
<1>2. t \in Nat \ {0}
  BY ChunkSize
<1> HIDE DEF a, b, t
<1>3. ~(b < a)
  <2>1. b * t \in Nat
    BY <1>1, <1>2, Products
  <2> QED
    BY <1>1, <2>1
<1> QED
  BY <1>1, <1>3 DEF a, b

\* The chunks that the window has left behind are whole.
LEMMA LeftBehind ==
  ASSUME NEW c \in Nat
  PROVE  /\ FirstLive(c) \in Nat /\ FirstLive(c) <= ChunksIn(c)
         /\ \A i \in Nat : i < FirstLive(c) => (i + 1) * TokensPerChunk <= c
<1> DEFINE t == TokensPerChunk
           f == FirstLive(c)
           b == ChunksIn(c)
<1>1. t \in Nat \ {0}
  BY ChunkSize
<1>2. f \in Nat /\ \A i \in Nat : i < f => (i + 1) * t <= c
  <2> HIDE DEF t
  <2>0. f = IF c < t THEN 0 ELSE (c - t + 1) \div t
    BY DEF FirstLive, t
  <2> HIDE DEF f
  <2>1. CASE c < t
    BY <2>0, <2>1
  <2>2. CASE ~(c < t)
    <3> DEFINE m == c - t + 1
    <3>1. m \in Nat /\ m <= c
      BY <1>1, <2>2
    <3> HIDE DEF m
    <3>2. m \div t \in Nat /\ \A i \in Nat : i < m \div t <=> (i + 1) * t <= m
      BY <1>1, <3>1, Floor
    <3>3. f = m \div t
      BY <2>0, <2>2 DEF m
    <3>4. \A i \in Nat : (i + 1) * t \in Nat
      BY <1>1
    <3> QED
      BY <3>1, <3>2, <3>3, <3>4
  <2> QED
    BY <2>1, <2>2
<1>3. b \in Nat /\ \A k \in Nat : k < b <=> k * t < c
  BY Ceiling
<1> HIDE DEF b, f, t
<1>4. ~(b < f)
  <2>1. b * t \in Nat /\ (b + 1) * t = b * t + t
    BY <1>1, <1>3, Products
  <2> QED
    BY <1>1, <1>2, <1>3, <2>1
<1> QED
  BY <1>2, <1>3, <1>4 DEF b, f, t

\* The numbers of a set, as entries.
AsEntries(S) == {[id |-> x] : x \in S}

\* The n lowest numbers are numbers of the set, each another one.
LEMMA LowestAre ==
  ASSUME NEW m \in Nat, NEW S \in SUBSET (0..m), NEW n \in Nat, n <= Cardinality(S)
  PROVE  /\ IsFiniteSet(S) /\ Cardinality(S) \in Nat
         /\ Lowest(S, n) \in [1..n -> S]
         /\ \A i, k \in 1..n : Lowest(S, n)[i] = Lowest(S, n)[k] => i = k
<1> DEFINE X == AsEntries(S)
           Below(x) == {y \in S : y < x}
<1>1. /\ \A x \in S : [id |-> x] \in X /\ [id |-> x].id = x
      /\ \A t \in X : t.id \in S /\ t = [id |-> t.id]
  BY DEF AsEntries
<1>2. IsFiniteSet(S) /\ Cardinality(S) \in Nat
  <2>1. IsFiniteSet(0..m)
    BY FS_Interval
  <2> QED
    BY <2>1, FS_Subset, FS_CardinalityType
<1>3. Numbers(X, m + 1) /\ Single(X)
  <2> HIDE DEF X
  <2>1. Single(X)
    BY <1>1, Zenon DEF Single
  <2> QED
    BY <1>1, <2>1 DEF Numbers
<1>4. Cardinality(X) = Cardinality(S)
  <2> DEFINE f == [x \in S |-> [id |-> x]]
  <2>1. f \in Bijection(S, X)
    <3> HIDE DEF X
    <3>1. f \in Injection(S, X)
      BY <1>1 DEF Injection, IsInjective
    <3>2. \A t \in X : \E x \in S : f[x] = t
      BY <1>1
    <3> QED
      BY <3>1, <3>2 DEF Bijection, Surjection, Injection
  <2> HIDE DEF X, f
  <2> QED
    BY <1>2, <2>1, FS_Bijection DEF ExistsBijection
<1>5. \A x \in S : Rank(X, [id |-> x]) = Cardinality(Below(x))
  <2> SUFFICES ASSUME NEW x \in S PROVE Rank(X, [id |-> x]) = Cardinality(Below(x))
    OBVIOUS
  <2> DEFINE U == {u \in X : u.id < x}
             f == [y \in Below(x) |-> [id |-> y]]
  <2>1. f \in Bijection(Below(x), U)
    <3>1. /\ \A y \in Below(x) : y \in S /\ y < x
          /\ \A y \in S : y < x => y \in Below(x)
      OBVIOUS
    <3>2. /\ \A u \in U : u \in X /\ u.id < x
          /\ \A u \in X : u.id < x => u \in U
      OBVIOUS
    <3> HIDE DEF X, U, Below
    <3>3. \A y \in Below(x) : [id |-> y] \in U
      BY <1>1, <3>1, <3>2
    <3>4. \A u \in U : u.id \in Below(x)
      BY <1>1, <3>1, <3>2
    <3>5. f \in Injection(Below(x), U)
      BY <1>1, <3>1, <3>3 DEF Injection, IsInjective
    <3>6. \A u \in U : f[u.id] = u
      BY <1>1, <3>2, <3>4
    <3>7. f \in Surjection(Below(x), U)
      BY <3>3, <3>4, <3>6 DEF Surjection
    <3> QED
      BY <3>5, <3>7 DEF Bijection
  <2>2. Rank(X, [id |-> x]) = Cardinality(U)
    BY DEF Rank
  <2>3. IsFiniteSet(Below(x))
    BY <1>2, FS_Subset
  <2> HIDE DEF f, U, X, Below
  <2> QED
    BY <2>1, <2>2, <2>3, FS_Bijection DEF ExistsBijection
<1> HIDE DEF X, Below
<1>6. /\ Cardinality(X) \in Nat
      /\ \A t, u \in X : Rank(X, t) = Rank(X, u) => t = u
      /\ \A i \in 1..Cardinality(X) : \E t \in X : Rank(X, t) = i - 1
  BY <1>3, RanksAre
<1>7. \A i \in 1..n : \E x \in S : Cardinality(Below(x)) = i - 1
  BY <1>1, <1>2, <1>4, <1>5, <1>6
<1>8. \A i \in 1..n : Lowest(S, n)[i] = CHOOSE x \in S : Cardinality(Below(x)) = i - 1
  BY DEF Lowest, Below
<1>9. \A i \in 1..n : Lowest(S, n)[i] \in S /\ Cardinality(Below(Lowest(S, n)[i])) = i - 1
  BY <1>7, <1>8
<1>10. Lowest(S, n) \in [1..n -> S]
  <2>1. Lowest(S, n) = [i \in 1..n |-> CHOOSE x \in S : Cardinality(Below(x)) = i - 1]
    BY DEF Lowest, Below
  <2> QED
    BY <1>7, <2>1
<1> QED
  BY <1>2, <1>9, <1>10

\* The keys: a group and a chunk index each, and finitely many.
LEMMA KeysAre ==
  /\ IsFiniteSet(Keys) /\ MaxTokens \in Nat /\ ChunksIn(MaxTokens) \in Nat
  /\ \A k \in Keys : /\ k[1] \in Groups /\ k[2] \in Nat /\ k = <<k[1], k[2]>>
                     /\ k[2] + 1 \in 1..ChunksIn(MaxTokens)
  /\ \A g \in Groups, i \in 1..ChunksIn(MaxTokens) : <<g, i - 1>> \in Keys
<1>1. MaxTokens \in Nat
  BY SchedulerAssumption
<1>2. ChunksIn(MaxTokens) \in Nat
  BY <1>1, Ceiling
<1> DEFINE C == ChunksIn(MaxTokens)
<1>3. Chunks = 0..(C - 1)
  BY DEF Chunks
<1> HIDE DEF C
<1>4. IsFiniteSet(Chunks) /\ IsFiniteSet(Groups)
  <2>1. IsFiniteSet(Chunks)
    BY <1>2, <1>3, FS_Interval DEF C
  <2>2. Groups = {"full"} \cup {"sliding"}
    BY DEF Groups
  <2>3. IsFiniteSet({"full"})
    BY FS_Singleton
  <2> QED
    BY <2>1, <2>2, <2>3, FS_AddElement
<1>5. IsFiniteSet(Keys)
  BY <1>4, FS_Product DEF Keys
<1>6. ASSUME NEW k \in Keys
      PROVE  /\ k[1] \in Groups /\ k[2] \in Nat /\ k = <<k[1], k[2]>>
             /\ k[2] + 1 \in 1..C
  BY <1>2, <1>3 DEF Keys, C
<1>7. ASSUME NEW g \in Groups, NEW i \in 1..C PROVE <<g, i - 1>> \in Keys
  BY <1>2, <1>3 DEF Keys, C
<1> QED
  BY <1>1, <1>2, <1>5, <1>6, <1>7 DEF C

\* A finite set's elements in some order, each once.
LEMMA OrderIs ==
  ASSUME NEW S, IsFiniteSet(S)
  PROVE  /\ Cardinality(S) \in Nat /\ SetToSeq(S) \in [1..Cardinality(S) -> S]
         /\ Len(SetToSeq(S)) = Cardinality(S)
         /\ \A x \in S : \E i \in 1..Cardinality(S) : SetToSeq(S)[i] = x
         /\ \A i, k \in 1..Cardinality(S) : SetToSeq(S)[i] = SetToSeq(S)[k] => i = k
<1> DEFINE c == Cardinality(S)
           s == SetToSeq(S)
<1>1. c \in Nat /\ Bijection(1..c, S) # {}
  BY FS_CardinalityType DEF ExistsBijection
<1>2. \E f \in [1..c -> S] : IsInjective(f)
  BY <1>1 DEF Bijection, Injection
<1>3. s \in [1..c -> S] /\ IsInjective(s)
  BY <1>2 DEF SetToSeq
<1>4. s \in Bijection(1..c, S)
  <2> HIDE DEF s
  <2>1. s \in Injection(1..c, S)
    BY <1>3 DEF Injection
  <2>2. IsFiniteSet(1..c) /\ Cardinality(1..c) = c
    BY <1>1, FS_Interval
  <2>3. s \in Surjection(1..c, S)
    BY <2>1, <2>2, FS_Injection
  <2> QED
    BY <2>1, <2>3 DEF Bijection
<1>5. Len(s) = c
  <2> HIDE DEF s, c
  <2> QED
    BY <1>1, <1>3
<1> HIDE DEF s, c
<1>6. \A x \in S : \E i \in 1..c : s[i] = x
  BY <1>4 DEF Bijection, Surjection
<1>7. \A i, k \in 1..c : s[i] = s[k] => i = k
  BY <1>3 DEF IsInjective
<1> QED
  BY <1>1, <1>3, <1>5, <1>6, <1>7 DEF s, c

Table == [Groups -> Seq(0..NumBlocks)]
Exclusive ==
  \A q, p \in Requests, g, h \in Groups :
     \A i \in DOMAIN held[q][g], j \in DOMAIN held[p][h] :
        held[q][g][i] = held[p][h][j] /\ held[q][g][i] # 0 => q = p /\ g = h /\ i = j

\* What is known of a sequence over S.
LEMMA SequenceIs ==
  ASSUME NEW S, NEW s \in Seq(S)
  PROVE  /\ Len(s) \in Nat /\ DOMAIN s = 1..Len(s)
         /\ \A i \in 1..Len(s) : s[i] \in S
OBVIOUS

\* A function on 1..n with values in S is one.
LEMMA SequenceMade ==
  ASSUME NEW S, NEW n \in Nat, NEW s, s = [i \in 1..n |-> s[i]], \A i \in 1..n : s[i] \in S
  PROVE  s \in Seq(S) /\ Len(s) = n
OBVIOUS

\* They are an injection.
LEMMA LowestOnce ==
  \A u \in Nat : \A S \in SUBSET (0..u) : \A z \in Nat : z <= Cardinality(S) =>
     /\ Lowest(S, z) \in [1..z -> S]
     /\ \A i, k \in 1..z : Lowest(S, z)[i] = Lowest(S, z)[k] => i = k
<1> SUFFICES ASSUME NEW u \in Nat, NEW S \in SUBSET (0..u), NEW z \in Nat, z <= Cardinality(S)
             PROVE  /\ Lowest(S, z) \in [1..z -> S]
                    /\ \A i, k \in 1..z : Lowest(S, z)[i] = Lowest(S, z)[k] => i = k
  OBVIOUS
<1>1. Lowest(S, z) \in [1..z -> S]
  BY LowestAre, Zenon
<1>2. \A i, k \in 1..z : Lowest(S, z)[i] = Lowest(S, z)[k] => i = k
  BY LowestAre, ZenonT(60)
<1> QED
  BY <1>1, <1>2

\* The blocks of a request are what its tables list.
LEMMA BlocksOfHas ==
  ASSUME NEW q, NEW b
  PROVE  b \in BlocksOf(q) <=> b # 0 /\ \E g \in Groups : b \in Range(held[q][g])
BY DEF BlocksOf

\* Whether the window of c tokens has left entry i of a group behind.
Behind(g, i, c) == g = "sliding" /\ i <= FirstLive(c)

\* An allocation keeps the entries that are not left behind, and the new ones are
\* blocks nobody has, each once.
LEMMA AllocationIs ==
  ASSUME held \in [Requests -> Table], Exclusive, NEW r \in Requests,
         NEW c \in Nat, NEW n \in Nat, c <= n,
         \A g \in Groups : Len(held[r][g]) <= ChunksIn(n),
         NEW a, a = Allocation(r, c, n), a.fits
  PROVE  /\ a.table \in Table /\ \A g \in Groups : Len(a.table[g]) = ChunksIn(n)
         /\ \A g \in Groups, i \in 1..ChunksIn(n) :
              /\ Behind(g, i, c) => a.table[g][i] = 0
              /\ ~Behind(g, i, c) /\ i <= Len(held[r][g]) => a.table[g][i] = held[r][g][i]
              /\ ~Behind(g, i, c) /\ ~(i <= Len(held[r][g])) => a.table[g][i] # 0
         /\ \A g, h \in Groups, i, j \in 1..ChunksIn(n) :
              a.table[g][i] = a.table[h][j] /\ a.table[g][i] # 0 => g = h /\ i = j
         /\ \A q \in Requests \ {r}, g, h \in Groups, i \in 1..ChunksIn(n) : \A j \in DOMAIN held[q][h] :
              a.table[g][i] = held[q][h][j] => a.table[g][i] = 0
<1> DEFINE table == [g \in Groups |-> Trimmed(held[r][g], g, c)]
           L(g) == Len(held[r][g])
           N == ChunksIn(n)
           F == FirstLive(c)
           pool == FreeBlocks \cup (Range(held[r]["sliding"]) \ Range(table["sliding"]))
           nf == Needed(table["full"], "full", c, n)
           ns == Needed(table["sliding"], "sliding", c, n)
           New(g) == IF g = "full" THEN Lowest(pool, nf)
                     ELSE SubSeq(Lowest(pool, nf + ns), nf + 1, nf + ns)
           first(g) == IF g = "sliding" /\ F > L(g) THEN F ELSE L(g)
<1>1. Groups = {"full", "sliding"} /\ NumBlocks \in Nat \ {0}
  BY SchedulerAssumption DEF Groups
<1>2. /\ N \in Nat /\ F \in Nat /\ F <= N
  <2>1. N \in Nat /\ ChunksIn(c) <= N /\ ChunksIn(c) \in Nat
    BY ChunksGrow
  <2>2. F \in Nat /\ F <= ChunksIn(c)
    BY LeftBehind
  <2> HIDE DEF N, F
  <2> QED
    BY <2>1, <2>2
<1>3. \A g \in Groups : /\ held[r][g] \in Seq(0..NumBlocks) /\ L(g) \in Nat /\ DOMAIN held[r][g] = 1..L(g)
                        /\ \A i \in 1..L(g) : held[r][g][i] \in 0..NumBlocks
                        /\ L(g) <= N
  <2> SUFFICES ASSUME NEW g \in Groups
               PROVE  /\ held[r][g] \in Seq(0..NumBlocks) /\ L(g) \in Nat /\ DOMAIN held[r][g] = 1..L(g)
                      /\ \A i \in 1..L(g) : held[r][g][i] \in 0..NumBlocks
                      /\ L(g) <= N
    OBVIOUS
  <2>1. held[r][g] \in Seq(0..NumBlocks)
    BY DEF Table
  <2>2. L(g) <= N
    OBVIOUS
  <2>3. /\ L(g) \in Nat /\ DOMAIN held[r][g] = 1..L(g)
        /\ \A i \in 1..L(g) : held[r][g][i] \in 0..NumBlocks
    BY <2>1, SequenceIs
  <2> HIDE DEF L, N
  <2> QED
    BY <2>1, <2>2, <2>3
<1>4. ASSUME NEW g \in Groups
      PROVE  /\ DOMAIN table[g] = 1..L(g) /\ Len(table[g]) = L(g)
             /\ \A i \in 1..L(g) : table[g][i] = IF Behind(g, i, c) THEN 0 ELSE held[r][g][i]
  <2>1. table[g] = [i \in 1..L(g) |-> IF g = "sliding" /\ i <= F THEN 0 ELSE held[r][g][i]]
    BY <1>3 DEF Trimmed
  <2> HIDE DEF table, F
  <2>2. DOMAIN table[g] = 1..L(g)
    BY <2>1
  <2>3. Len(table[g]) = L(g)
    <3> HIDE DEF L
    <3>1. L(g) \in Nat
      BY <1>3 DEF L
    <3> QED
      BY <2>1, <3>1
  <2> QED
    BY <2>1, <2>2, <2>3 DEF Behind, F
<1>5. /\ nf = N - L("full") /\ nf \in Nat
      /\ ns = N - first("sliding") /\ ns \in Nat
      /\ \A g \in Groups : first(g) \in 0..N
  <2>1. nf = Cardinality((L("full") + 1)..N)
    BY <1>1, <1>4 DEF Needed
  <2>2. ns = Cardinality((first("sliding") + 1)..N)
    <3>1. ns = Cardinality({i \in (L("sliding") + 1)..N : i > F})
      BY <1>1, <1>4 DEF Needed
    <3>2. {i \in (L("sliding") + 1)..N : i > F} = (first("sliding") + 1)..N
      <4> HIDE DEF L, F, N
      <4>1. L("sliding") \in Nat /\ F \in Nat /\ N \in Nat
        BY <1>1, <1>2, <1>3 DEF L
      <4> QED
        BY <4>1
    <3> QED
      BY <3>1, <3>2
  <2>3. \A g \in Groups : first(g) \in 0..N
    <3> HIDE DEF L, F, N
    <3> QED
      BY <1>2, <1>3 DEF L
  <2> HIDE DEF nf, ns, first, L, N
  <2>4. L("full") \in 0..N /\ first("sliding") \in 0..N
    BY <1>1, <1>2, <1>3, <2>3
  <2>5. nf = N - L("full") /\ ns = N - first("sliding")
    <3>1. /\ L("full") + 1 \in Int /\ first("sliding") + 1 \in Int /\ N \in Int
      BY <1>2, <2>4
    <3>2. \A a1, b1 \in Int : Cardinality(a1..b1) = IF a1 > b1 THEN 0 ELSE b1 - a1 + 1
      BY FS_Interval
    <3>3. Cardinality((L("full") + 1)..N) = N - L("full")
      BY <1>2, <2>4, <3>1, <3>2, SMTT(30)
    <3>4. Cardinality((first("sliding") + 1)..N) = N - first("sliding")
      BY <1>2, <2>4, <3>1, <3>2, SMTT(30)
    <3> QED
      BY <2>1, <2>2, <3>3, <3>4
  <2> QED
    BY <1>2, <2>3, <2>4, <2>5
<1>6. /\ a.fits <=> Cardinality(pool) >= nf + ns
      /\ a.table = [g \in Groups |-> Extended(table[g], g, c, n, New(g))]
  <2>1. a = [fits |-> Cardinality(pool) >= nf + ns,
             table |-> IF Cardinality(pool) >= nf + ns
                         THEN [g \in Groups |-> Extended(table[g], g, c, n, New(g))] ELSE table]
    BY Zenon DEF Allocation
  <2> HIDE DEF pool, nf, ns, table, New
  <2>4. ASSUME NEW X, NEW Y, a = [fits |-> X, table |-> Y] PROVE a.fits = X
    BY <2>4
  <2>5. a.fits = (Cardinality(pool) >= nf + ns)
    BY <2>1, <2>4, Zenon
  <2>2. a.fits <=> Cardinality(pool) >= nf + ns
    BY <2>5, Zenon
  <2>3. a.table = IF Cardinality(pool) >= nf + ns
                    THEN [g \in Groups |-> Extended(table[g], g, c, n, New(g))] ELSE table
    BY <2>1
  <2> QED
    BY <2>2, <2>3
<1>7. /\ pool \subseteq Blocks
      /\ \A b \in pool : /\ \A q \in Requests \ {r}, h \in Groups : \A j \in DOMAIN held[q][h] : held[q][h][j] # b
                         /\ \A g \in Groups : \A i \in DOMAIN table[g] : table[g][i] # b
  <2> SUFFICES ASSUME NEW b \in pool
               PROVE  /\ b \in Blocks
                      /\ \A q \in Requests \ {r}, h \in Groups : \A j \in DOMAIN held[q][h] : held[q][h][j] # b
                      /\ \A g \in Groups : \A i \in DOMAIN table[g] : table[g][i] # b
    OBVIOUS
  <2>1. CASE b \in FreeBlocks
    <3>1. b \in Blocks /\ b # 0
      BY <1>1, <2>1 DEF FreeBlocks, Blocks
    <3>2. \A q \in Requests, h \in Groups : \A j \in DOMAIN held[q][h] : held[q][h][j] # b
      <4> SUFFICES ASSUME NEW q \in Requests, NEW h \in Groups, NEW j \in DOMAIN held[q][h], held[q][h][j] = b
                   PROVE  FALSE
        OBVIOUS
      <4>1. b \in Range(held[q][h])
        BY DEF Range
      <4>2. b \in BlocksOf(q)
        BY <3>1, <4>1, BlocksOfHas
      <4> QED
        BY <2>1, <4>2 DEF FreeBlocks
    <3>3. \A g \in Groups : \A i \in DOMAIN table[g] : table[g][i] # b
      <4> HIDE DEF table
      <4> QED
        BY <1>3, <1>4, <3>1, <3>2
    <3> QED
      BY <3>1, <3>2, <3>3
  <2>2. CASE b \in Range(held[r]["sliding"]) \ Range(table["sliding"])
    <3> HIDE DEF table
    <3>1. PICK i \in DOMAIN held[r]["sliding"] : held[r]["sliding"][i] = b
      BY <2>2 DEF Range
    <3>2. \A k \in DOMAIN table["sliding"] : table["sliding"][k] # b
      BY <2>2 DEF Range
    <3>3. table["sliding"][i] = 0 \/ table["sliding"][i] = b
      BY <1>1, <1>3, <1>4, <3>1
    <3>4. i \in DOMAIN table["sliding"]
      BY <1>1, <1>3, <1>4, <3>1
    <3>5. b # 0 /\ b \in 0..NumBlocks
      BY <1>1, <1>3, <3>1, <3>2, <3>3, <3>4
    <3>6. \A q \in Requests \ {r}, h \in Groups : \A j \in DOMAIN held[q][h] : held[q][h][j] # b
      BY <1>1, <3>1, <3>5 DEF Exclusive
    <3>7. \A j \in DOMAIN held[r]["full"] : held[r]["full"][j] # b
      BY <1>1, <3>1, <3>5 DEF Exclusive
    <3>8. \A j \in DOMAIN table["full"] : table["full"][j] # b
      BY <1>1, <1>3, <1>4, <3>5, <3>7
    <3>9. \A g \in Groups : \A k \in DOMAIN table[g] : table[g][k] # b
      BY <1>1, <3>2, <3>8
    <3> QED
      BY <1>1, <3>5, <3>6, <3>9 DEF Blocks
  <2> HIDE DEF table
  <2> QED
    BY <2>1, <2>2 DEF pool
<1> DEFINE e == Lowest(pool, nf + ns)
<1>8. /\ e \in [1..(nf + ns) -> pool]
      /\ \A j \in 1..(nf + ns) : e[j] \in pool
      /\ \A i, k \in 1..(nf + ns) : e[i] = e[k] => i = k
  <2>1. pool \in SUBSET (0..NumBlocks) /\ NumBlocks \in Nat
    BY <1>1, <1>7 DEF Blocks
  <2>2. nf + ns \in Nat
    BY <1>5
  <2> HIDE DEF pool, nf, ns
  <2>3. nf + ns <= Cardinality(pool)
    BY <1>6
  <2> DEFINE m == nf + ns
  <2>4. m \in Nat /\ m <= Cardinality(pool)
    BY <2>2, <2>3
  <2> HIDE DEF m
  <2>5. /\ Lowest(pool, m) \in [1..m -> pool]
        /\ \A i, k \in 1..m : Lowest(pool, m)[i] = Lowest(pool, m)[k] => i = k
    <3> DEFINE Once(S, z) == /\ Lowest(S, z) \in [1..z -> S]
                             /\ \A i, k \in 1..z : Lowest(S, z)[i] = Lowest(S, z)[k] => i = k
    <3>1. \A u \in Nat : \A S \in SUBSET (0..u) : \A z \in Nat : z <= Cardinality(S) => Once(S, z)
      BY LowestOnce
    <3> HIDE DEF Once
    <3>2. Once(pool, m)
      BY <2>1, <2>4, <3>1, Zenon
    <3> QED
      BY <3>2 DEF Once
  <2> QED
    BY <2>5 DEF m
<1>9. /\ \A j \in 1..nf : New("full")[j] = e[j]
      /\ \A j \in 1..ns : New("sliding")[j] = e[nf + j]
  <2> HIDE DEF pool, nf, ns
  <2>1. \A j \in 1..nf : New("full")[j] = e[j]
    BY <1>5 DEF Lowest
  <2>2. e \in Seq(pool) /\ Len(e) = nf + ns
    <3> HIDE DEF e
    <3>1. nf + ns \in Nat
      BY <1>5
    <3> QED
      BY <1>8, <3>1
  <2>3. \A j \in 1..ns : New("sliding")[j] = e[nf + j]
    <3>1. New("sliding") = SubSeq(e, nf + 1, nf + ns)
      OBVIOUS
    <3> HIDE DEF e, New
    <3>2. /\ nf \in Nat /\ ns \in Nat /\ nf + 1 \in Int /\ nf + ns \in Int
      BY <1>5
    <3>3. \A j \in 1..ns : SubSeq(e, nf + 1, nf + ns)[j] = e[nf + 1 + j - 1]
      <4>1. /\ nf + 1 \in 1..(Len(e) + 1) /\ nf + ns \in nf..Len(e)
        BY <2>2, <3>2
      <4> QED
        BY <2>2, <3>2, <4>1, SubSeqProperties
    <3> QED
      BY <3>1, <3>2, <3>3
  <2> QED
    BY <2>1, <2>3
<1> DEFINE at(g, i) == e[IF g = "full" THEN i - first(g) ELSE nf + (i - first(g))]
<1>10. ASSUME NEW g \in Groups
       PROVE  /\ Len(a.table[g]) = N /\ DOMAIN a.table[g] = 1..N
              /\ a.table[g] = [i \in 1..N |-> a.table[g][i]]
              /\ \A i \in 1..N : a.table[g][i] = IF Behind(g, i, c) THEN 0
                                                 ELSE IF i <= L(g) THEN held[r][g][i] ELSE at(g, i)
  <2> DEFINE null == IF g = "sliding" THEN F ELSE 0
             At(i) == IF i <= Len(table[g]) THEN table[g][i]
                      ELSE IF i <= null THEN 0
                      ELSE New(g)[i - (IF Len(table[g]) > null THEN Len(table[g]) ELSE null)]
  <2>1. a.table[g] = [i \in 1..N |-> At(i)]
    <3> HIDE DEF pool, nf, ns, table, New
    <3>1. a.table[g] = Extended(table[g], g, c, n, New(g))
      BY <1>6
    <3> QED
      BY <3>1 DEF Extended
  <2>2. ASSUME NEW i \in 1..N
        PROVE  At(i) = IF Behind(g, i, c) THEN 0 ELSE IF i <= L(g) THEN held[r][g][i] ELSE at(g, i)
    <3>1. CASE i <= L(g)
      <4>1. At(i) = table[g][i] /\ i \in 1..L(g)
        <5> HIDE DEF table, New, F
        <5> QED
          BY <1>2, <1>3, <1>4, <3>1
      <4> HIDE DEF table, At
      <4> QED
        BY <1>4, <3>1, <4>1
    <3>2. CASE ~(i <= L(g)) /\ i <= null
      <4>1. At(i) = 0 /\ Behind(g, i, c)
        <5> HIDE DEF table, New
        <5> QED
          BY <1>1, <1>4, <3>2 DEF Behind
      <4> QED
        BY <4>1
    <3>3. CASE ~(i <= L(g)) /\ ~(i <= null)
      <4>1. At(i) = New(g)[i - first(g)]
        <5> HIDE DEF table, New, F, L
        <5>1. L(g) \in Nat /\ F \in Nat
          BY <1>2, <1>3 DEF L
        <5>2. (IF L(g) > null THEN L(g) ELSE null) = first(g)
          BY <1>1, <5>1
        <5> QED
          BY <1>4, <3>3, <5>2 DEF L
      <4>2. i - first(g) \in 1..(IF g = "full" THEN nf ELSE ns)
        <5> HIDE DEF nf, ns, F, N, L
        <5>1. L(g) \in Nat /\ F \in Nat /\ N \in Nat
          BY <1>2, <1>3 DEF L
        <5>2. first(g) \in 0..N /\ i > first(g)
          BY <1>5, <3>3, <5>1
        <5> HIDE DEF first
        <5>3. g = "full" => nf = N - first(g)
          BY <1>5 DEF first
        <5>4. g = "sliding" => ns = N - first(g)
          BY <1>5
        <5> QED
          BY <1>1, <5>1, <5>2, <5>3, <5>4
      <4>3. New(g)[i - first(g)] = at(g, i)
        <5> HIDE DEF New, e, first, nf, ns
        <5> QED
          BY <1>1, <1>9, <4>2
      <4>4. ~Behind(g, i, c)
        BY <3>3 DEF Behind
      <4> HIDE DEF At, at
      <4> QED
        BY <3>3, <4>1, <4>3, <4>4
    <3> QED
      BY <3>1, <3>2, <3>3
  <2> HIDE DEF At, at, N
  <2>3. Len(a.table[g]) = N /\ DOMAIN a.table[g] = 1..N
    BY <1>2, <2>1
  <2> QED
    BY <2>1, <2>2, <2>3
<1>11. ASSUME NEW g \in Groups, NEW i \in 1..N, ~Behind(g, i, c), ~(i <= L(g))
       PROVE  /\ at(g, i) \in pool
              /\ \A h \in Groups, k \in 1..N : ~Behind(h, k, c) /\ ~(k <= L(h)) /\ at(g, i) = at(h, k)
                                               => g = h /\ i = k
  <2> DEFINE ix(h, k) == IF h = "full" THEN k - first(h) ELSE nf + (k - first(h))
  <2>1. ASSUME NEW h \in Groups, NEW k \in 1..N, ~Behind(h, k, c), ~(k <= L(h))
        PROVE  /\ ix(h, k) \in 1..(nf + ns) /\ (h = "full" <=> ix(h, k) <= nf)
               /\ first(h) \in Nat
    <3> HIDE DEF nf, ns, F, N, L
    <3>1. L(h) \in Nat /\ F \in Nat /\ N \in Nat
      BY <1>2, <1>3 DEF L
    <3>2. first(h) \in 0..N /\ k > first(h)
      BY <1>5, <2>1, <3>1 DEF Behind, F
    <3> HIDE DEF first
    <3>3. h = "full" => nf = N - first(h)
      BY <1>5 DEF first
    <3>4. h = "sliding" => ns = N - first(h)
      BY <1>5
    <3>5. CASE h = "full"
      BY <1>5, <3>1, <3>2, <3>3, <3>5
    <3>6. CASE h = "sliding"
      BY <1>5, <3>1, <3>2, <3>4, <3>6
    <3> QED
      BY <1>1, <3>5, <3>6
  <2>2. \A h \in Groups, k \in 1..N : at(h, k) = e[ix(h, k)]
    OBVIOUS
  <2>3. at(g, i) \in pool
    <3> HIDE DEF e, ix, at, pool
    <3> QED
      BY <1>8, <1>11, <2>1, <2>2
  <2>4. ASSUME NEW h \in Groups, NEW k \in 1..N, ~Behind(h, k, c), ~(k <= L(h)), at(g, i) = at(h, k)
        PROVE  g = h /\ i = k
    <3>1. ix(g, i) = ix(h, k)
      <4> HIDE DEF e, ix, at, pool
      <4> QED
        BY <1>8, <1>11, <2>1, <2>2, <2>4
    <3>2. (g = "full" <=> h = "full")
      <4> HIDE DEF ix, nf
      <4> QED
        BY <1>11, <2>1, <2>4, <3>1
    <3>3. g = h
      BY <1>1, <3>2
    <3>4. first(g) \in Nat /\ nf \in Nat
      <4> HIDE DEF ix, first
      <4> QED
        BY <1>5, <1>11, <2>1
    <3> HIDE DEF first, nf
    <3> QED
      BY <1>2, <3>1, <3>3, <3>4
  <2> HIDE DEF at
  <2> QED
    BY <2>3, <2>4
<1> HIDE DEF at, pool, table, N, F, e, nf, ns, New, first
<1>18. \A g \in Groups, i \in 1..N :
         /\ Behind(g, i, c) => a.table[g][i] = 0
         /\ ~Behind(g, i, c) /\ i <= L(g) => a.table[g][i] = held[r][g][i]
         /\ ~Behind(g, i, c) /\ ~(i <= L(g)) => a.table[g][i] = at(g, i) /\ at(g, i) \in pool
  BY <1>10, <1>11, Zenon
<1>19. \A g \in Groups, i \in 1..N : i <= L(g) /\ ~Behind(g, i, c) =>
         i \in DOMAIN table[g] /\ table[g][i] = a.table[g][i]
  <2>1. \A g \in Groups, i \in 1..N : i <= L(g) => i \in 1..L(g)
    BY <1>2, <1>3
  <2>2. \A g \in Groups, i \in 1..N : ~Behind(g, i, c) /\ i <= L(g) => a.table[g][i] = held[r][g][i]
    BY <1>18, Zenon
  <2>3. \A g \in Groups : /\ DOMAIN table[g] = 1..L(g)
                          /\ \A i \in 1..L(g) : ~Behind(g, i, c) => table[g][i] = held[r][g][i]
    BY <1>4
  <2> QED
    BY <2>1, <2>2, <2>3, Zenon
<1>12. ASSUME NEW g \in Groups, NEW i \in 1..N PROVE a.table[g][i] \in 0..NumBlocks
  <2>1. CASE Behind(g, i, c)
    BY <1>1, <1>18, <2>1
  <2>2. CASE ~Behind(g, i, c) /\ i <= L(g)
    <3>1. i \in 1..L(g)
      BY <1>2, <1>3, <2>2
    <3> QED
      BY <1>3, <1>18, <2>2, <3>1
  <2>3. CASE ~Behind(g, i, c) /\ ~(i <= L(g))
    <3>1. a.table[g][i] \in pool
      BY <1>18, <2>3, Zenon
    <3> QED
      BY <1>1, <1>7, <3>1 DEF Blocks
  <2> QED
    BY <2>1, <2>2, <2>3
<1>13. a.table \in Table
  <2>1. DOMAIN a.table = Groups /\ a.table = [g \in Groups |-> a.table[g]]
    BY <1>6
  <2>2. \A g \in Groups : a.table[g] \in Seq(0..NumBlocks)
    <3> SUFFICES ASSUME NEW g \in Groups PROVE a.table[g] \in Seq(0..NumBlocks)
      OBVIOUS
    <3> DEFINE t == a.table[g]
    <3>1. t = [i \in 1..N |-> t[i]] /\ \A i \in 1..N : t[i] \in 0..NumBlocks
      BY <1>10, <1>12
    <3> HIDE DEF t
    <3>2. t \in Seq(0..NumBlocks)
      BY <1>2, <3>1, SequenceMade
    <3> QED
      BY <3>2 DEF t
  <2> QED
    BY <2>1, <2>2 DEF Table
<1>14. \A g \in Groups, i \in 1..N :
         /\ Behind(g, i, c) => a.table[g][i] = 0
         /\ ~Behind(g, i, c) /\ i <= L(g) => a.table[g][i] = held[r][g][i]
         /\ ~Behind(g, i, c) /\ ~(i <= L(g)) => a.table[g][i] # 0
  BY <1>1, <1>7, <1>10, <1>11 DEF Blocks
<1>15. ASSUME NEW g \in Groups, NEW h \in Groups, NEW i \in 1..N, NEW j \in 1..N,
              a.table[g][i] = a.table[h][j], a.table[g][i] # 0
       PROVE  g = h /\ i = j
  <2>1. ~Behind(g, i, c) /\ ~Behind(h, j, c)
    BY <1>10, <1>15
  <2>2. CASE i <= L(g) /\ j <= L(h)
    <3>1. held[r][g][i] = held[r][h][j] /\ held[r][g][i] # 0
      BY <1>10, <1>15, <2>1, <2>2
    <3>2. i \in DOMAIN held[r][g] /\ j \in DOMAIN held[r][h]
      BY <1>2, <1>3, <2>2
    <3> QED
      BY <3>1, <3>2 DEF Exclusive
  <2>3. CASE ~(i <= L(g)) /\ ~(j <= L(h))
    <3>1. a.table[g][i] = at(g, i) /\ a.table[h][j] = at(h, j)
      BY <1>18, <2>1, <2>3, Zenon
    <3>2. at(g, i) = at(h, j)
      BY <1>15, <3>1
    <3> QED
      BY <1>11, <2>1, <2>3, <3>2, Zenon
  <2>4. ASSUME NEW g1 \in Groups, NEW h1 \in Groups, NEW i1 \in 1..N, NEW j1 \in 1..N,
               ~Behind(g1, i1, c), ~Behind(h1, j1, c), i1 <= L(g1), ~(j1 <= L(h1))
        PROVE  a.table[g1][i1] # a.table[h1][j1]
    <3>1. a.table[h1][j1] \in pool
      BY <1>18, <2>4, Zenon
    <3>2. i1 \in DOMAIN table[g1] /\ table[g1][i1] = a.table[g1][i1]
      BY <1>19, <2>4, Zenon
    <3> QED
      BY <1>7, <3>1, <3>2
  <2> QED
    BY <1>15, <2>1, <2>2, <2>3, <2>4
<1>16. ASSUME NEW q \in Requests \ {r}, NEW g \in Groups, NEW h \in Groups, NEW i \in 1..N, NEW j \in DOMAIN held[q][h],
              a.table[g][i] = held[q][h][j], a.table[g][i] # 0
       PROVE  FALSE
  <2>1. ~Behind(g, i, c)
    BY <1>10, <1>16
  <2>2. CASE i <= L(g)
    <3>1. held[r][g][i] = held[q][h][j] /\ held[r][g][i] # 0
      BY <1>10, <1>16, <2>1, <2>2
    <3>2. i \in DOMAIN held[r][g]
      BY <1>2, <1>3, <2>2
    <3> QED
      BY <3>1, <3>2 DEF Exclusive
  <2>3. CASE ~(i <= L(g))
    <3>1. a.table[g][i] \in pool
      BY <1>18, <2>1, <2>3, Zenon
    <3> QED
      BY <1>7, <1>16, <3>1
  <2> QED
    BY <2>2, <2>3
<1>17. \A g \in Groups : Len(a.table[g]) = N
  BY <1>10
<1> QED
  BY <1>13, <1>14, <1>15, <1>16, <1>17 DEF N, L

(***************************************************************************)
(* What each step does to the queues of transfers.                         *)
(***************************************************************************)

\* A queue r is what a submission of the jobs X makes of q.
Submits(q, X, dir, r) ==
  /\ Len(q) \in Nat /\ Len(r) \in Nat /\ Len(q) <= Len(r)
  /\ DOMAIN q = 1..Len(q) /\ DOMAIN r = 1..Len(r)
  /\ \A i \in 1..Len(q) : r[i] = q[i]
  /\ \A i \in (Len(q) + 1)..Len(r) :
       \E t \in X : r[i] = Transfer(t.id, t.job, Staged(dir, t.job))
  /\ \A t \in X : \E i \in (Len(q) + 1)..Len(r) :
       r[i] = Transfer(t.id, t.job, Staged(dir, t.job))
  /\ \A i, k \in (Len(q) + 1)..Len(r) : i < k => r[i].id < r[k].id

\* A direction's queue after a submission: what was there, then the jobs in the
\* order they were made.
LEMMA SubmissionIs ==
  ASSUME NEW q, Queue(q), NEW X, NEW n \in Nat, Numbers(X, n), Single(X), NEW dir,
         NEW r, r = q \o Submitted(X, dir)
  PROVE  Submits(q, X, dir, r)
<1> DEFINE c == Cardinality(X)
           o == InOrder(X)
           s == Submitted(X, dir)
           l == Len(q)
           Of(t) == Transfer(t.id, t.job, Staged(dir, t.job))
<1>1. /\ c \in Nat
      /\ \A t \in X : Rank(X, t) \in Nat /\ Rank(X, t) + 1 \in 1..c
      /\ \A t, u \in X : Rank(X, t) = Rank(X, u) => t = u
      /\ \A i \in 1..c : \E t \in X : Rank(X, t) = i - 1
      /\ \A t, u \in X : t.id < u.id => Rank(X, t) < Rank(X, u)
  BY RanksAre
<1>2. \A i \in 1..c : o[i] = CHOOSE t \in X : Rank(X, t) = i - 1
  BY DEF InOrder, Rank
<1>3. \A i \in 1..c : o[i] \in X /\ Rank(X, o[i]) = i - 1
  BY <1>1, <1>2
<1>4. s = [i \in 1..c |-> Of(o[i])]
  BY DEF Submitted
<1>5. l \in Nat /\ DOMAIN q = 1..l /\ q \in Seq(Range(q))
  BY DEF Queue
<1>6. s \in Seq({Of(t) : t \in X}) /\ Len(s) = c /\ \A i \in 1..c : s[i] = Of(o[i])
  <2> DEFINE R == {Of(t) : t \in X}
  <2>1. \A i \in 1..c : Of(o[i]) \in R
    BY <1>3
  <2>2. \A i \in 1..c : s[i] = Of(o[i])
    BY <1>4
  <2>3. s = [i \in 1..c |-> s[i]]
    BY <1>4
  <2> HIDE DEF R, s, o, Of, c
  <2>4. s \in Seq(R) /\ Len(s) = c
    BY <1>1, <2>1, <2>2, <2>3, SequenceMade
  <2> QED
    BY <2>2, <2>4 DEF R
<1> HIDE DEF c, o, s, Of
<1>7. /\ Len(r) = l + c /\ DOMAIN r = 1..(l + c)
      /\ \A i \in 1..l : r[i] = q[i]
      /\ \A i \in 1..c : r[l + i] = s[i]
  <2> DEFINE U == Range(q) \cup {Of(t) : t \in X}
  <2>1. q \in Seq(U) /\ s \in Seq(U)
    <3>1. \A i \in 1..l : q[i] \in Range(q)
      BY <1>5 DEF Range
    <3>2. \A i \in 1..Len(s) : s[i] \in {Of(t) : t \in X}
      BY <1>6
    <3> DEFINE A == Range(q)
               B == {Of(t) : t \in X}
    <3> HIDE DEF A, B
    <3>3. q \in Seq(A) /\ s \in Seq(B)
      BY <1>5, <1>6 DEF A, B
    <3>4. q \in Seq(A \cup B) /\ s \in Seq(A \cup B)
      BY <3>3
    <3> QED
      BY <3>4 DEF A, B
  <2>2. r = q \o s
    BY DEF s
  <2> HIDE DEF U, l
  <2>3. Len(r) = Len(q) + Len(s) /\ r \in Seq(U)
        /\ \A i \in 1..Len(r) : r[i] = IF i <= Len(q) THEN q[i] ELSE s[i - Len(q)]
    BY <2>1, <2>2, ConcatProperties
  <2>4. Len(r) = l + c /\ DOMAIN r = 1..(l + c)
    BY <1>6, <2>3 DEF l
  <2>5. \A i \in 1..l : r[i] = q[i]
    BY <1>1, <1>5, <1>6, <2>3, <2>4 DEF l
  <2>6. \A i \in 1..c : r[l + i] = s[i]
    <3> SUFFICES ASSUME NEW i \in 1..c PROVE r[l + i] = s[i]
      OBVIOUS
    <3>1. l + i \in 1..(l + c) /\ ~(l + i <= l) /\ (l + i) - l = i
      BY <1>1, <1>5
    <3> QED
      BY <1>6, <2>3, <2>4, <3>1 DEF l
  <2> QED
    BY <2>4, <2>5, <2>6
<1> HIDE DEF l
<1>8. ASSUME NEW i \in (l + 1)..(l + c)
      PROVE  i - l \in 1..c /\ r[i] = Of(o[i - l])
  <2>1. i - l \in 1..c /\ l + (i - l) = i
    BY <1>1, <1>5
  <2> QED
    BY <1>6, <1>7, <2>1
<1>9. ASSUME NEW i \in (l + 1)..(l + c) PROVE \E t \in X : r[i] = Of(t)
  BY <1>3, <1>8
<1>10. ASSUME NEW t \in X PROVE \E i \in (l + 1)..(l + c) : r[i] = Of(t)
  <2> DEFINE i == Rank(X, t) + 1
  <2>1. i \in 1..c /\ Rank(X, t) \in Nat
    BY <1>1
  <2>2. o[i] = t
    <3>1. o[i] \in X /\ Rank(X, o[i]) = Rank(X, t)
      BY <1>3, <2>1
    <3> QED
      BY <1>1, <3>1
  <2> HIDE DEF i
  <2>3. l + i \in (l + 1)..(l + c) /\ r[l + i] = Of(o[i])
    <3>1. l + i \in (l + 1)..(l + c)
      BY <1>1, <1>5, <2>1
    <3>2. r[l + i] = s[i] /\ s[i] = Of(o[i])
      BY <1>6, <1>7, <2>1
    <3> QED
      BY <3>1, <3>2
  <2> QED
    BY <2>2, <2>3
<1>11. ASSUME NEW i \in (l + 1)..(l + c), NEW k \in (l + 1)..(l + c), i < k
       PROVE  r[i].id < r[k].id
  <2> DEFINE t == o[i - l]
             u == o[k - l]
  <2>1. t \in X /\ u \in X /\ Rank(X, t) < Rank(X, u)
    <3>1. i - l \in 1..c /\ k - l \in 1..c /\ i - l < k - l
      BY <1>1, <1>5, <1>8, <1>11
    <3> QED
      BY <1>3, <3>1
  <2>2. r[i].id = t.id /\ r[k].id = u.id
    <3>1. \A x : Of(x).id = x.id
      BY DEF Of, Transfer
    <3> QED
      BY <1>8, <3>1
  <2> HIDE DEF t, u
  <2>3. t.id \in Nat /\ u.id \in Nat
    BY <2>1 DEF Numbers
  <2>4. ~(u.id < t.id) /\ t.id # u.id
    <3>1. Rank(X, t) \in Nat /\ Rank(X, u) \in Nat
      BY <1>1, <2>1
    <3>2. t.id = u.id => t = u
      BY <2>1 DEF Single
    <3> QED
      BY <1>1, <2>1, <3>1, <3>2
  <2> QED
    BY <2>2, <2>3, <2>4
<1>12. l \in Nat /\ Len(r) \in Nat /\ l <= Len(r) /\ Len(r) = l + c
  BY <1>1, <1>5, <1>7
<1>13. \A i, k \in (l + 1)..Len(r) : i < k => r[i].id < r[k].id
  BY <1>11, <1>12
<1>14. /\ \A i \in (l + 1)..Len(r) : \E t \in X : r[i] = Of(t)
       /\ \A t \in X : \E i \in (l + 1)..Len(r) : r[i] = Of(t)
  BY <1>9, <1>10, <1>12
<1>15. \A i \in 1..l : r[i] = q[i]
  BY <1>7
<1>16. DOMAIN q = 1..l /\ DOMAIN r = 1..Len(r)
  BY <1>5, <1>7, <1>12
<1> QED
  BY <1>12, <1>13, <1>14, <1>15, <1>16 DEF l, Of, Submits

\* Some number of a set is the lowest.
LEMMA LeastIs ==
  ASSUME NEW n \in Nat, NEW S \in SUBSET (0..n), S # {}
  PROVE  \E i \in S : \A k \in S : i <= k
<1> DEFINE X == AsEntries(S)
<1>1. /\ \A x \in S : [id |-> x] \in X /\ [id |-> x].id = x
      /\ \A t \in X : t.id \in S /\ t = [id |-> t.id]
  BY DEF AsEntries
<1>2. X # {}
  BY <1>1
<1> HIDE DEF X
<1>3. Single(X)
  BY <1>1, Zenon DEF Single
<1>4. Numbers(X, n + 1) /\ n + 1 \in Nat
  BY <1>1 DEF Numbers
<1>5. PICK t \in X : \A u \in X : ~(u.id < t.id)
  BY <1>2, <1>3, <1>4, FirstOf
<1>6. t.id \in S /\ \A k \in S : ~(k < t.id)
  BY <1>1, <1>5
<1>7. S \subseteq Nat
  OBVIOUS
<1> DEFINE i == t.id
<1>8. i \in S /\ \A k \in S : ~(k < i)
  BY <1>6
<1> HIDE DEF i
<1>9. \A k \in S : i <= k
  BY <1>7, <1>8
<1> QED
  BY <1>8, <1>9

\* What the next step's beginning submits.
Due == deferred \cup {t \in ToSave : t.id \in meta.flush}

\* The steps that move jobs, in terms of where these are.
LEMMA StoresSubmitted ==
  ASSUME Travel, SubmitStores
  PROVE  /\ phase = "exec" /\ phase' = "flush" /\ ToSave = meta.stores
         /\ ToSave' = {} /\ ToLoad' = ToLoad /\ completed = {} /\ completed' = {}
         /\ deferred' = {t \in ToSave : t.id \notin meta.flush}
         /\ transfers'["load"] = transfers["load"]
         /\ Submits(transfers["store"], Due, "store", transfers'["store"])
         /\ UNCHANGED <<meta, jobs, counter, threshold, gpu, cpu, newLoads, newStores>>
<1> DEFINE now  == {s \in meta.stores : s.id \in meta.flush}
           X    == deferred \cup now
           rest == meta.stores \ now
<1>1. /\ phase = "exec" /\ phase' = "flush" /\ deferred' = rest
      /\ transfers' = [transfers EXCEPT !["store"] = @ \o Submitted(X, "store")]
      /\ UNCHANGED <<jobs, counter, threshold, newLoads, newStores, meta, completed, gpu, cpu>>
  BY DEF SubmitStores, conVars
<1>2. now \cup rest = meta.stores /\ now \cap rest = {} /\ rest = {t \in meta.stores : t.id \notin meta.flush}
  OBVIOUS
<1>3. newLoads = {} /\ newStores = {} /\ completed = {}
  BY <1>1 DEF Travel, InPhase
<1>4. Entries(newStores) = {} /\ Entries(newLoads) = {} /\ Entries(newStores)' = {} /\ Entries(newLoads)' = {}
  BY <1>1, <1>3 DEF Entries
<1>5. ToLoad' = ToLoad /\ ToSave' = {} /\ ToSave = meta.stores
  BY <1>1, <1>4 DEF ToLoad, ToSave
<1>6. X = Due
  BY <1>5 DEF Due
<1> HIDE DEF now, rest
<1>7. /\ Single(meta.stores) /\ Single(deferred)
      /\ Apart(Ids(ToLoad), Ids(meta.stores), Ids(deferred), Ids(Sent("store")),
               Ids(Sent("load")), Ids(completed))
      /\ Moving(transfers["store"]) /\ Moving(transfers["load"])
      /\ transfers = [d \in Directions |-> transfers[d]]
  BY <1>5 DEF Travel, OneWay, Directions
<1>8. Single(X)
  <2>1. Single(now)
    BY <1>2, <1>7 DEF Single
  <2>2. Ids(now) \subseteq Ids(meta.stores)
    BY <1>2 DEF Ids
  <2>3. Ids(now) \cap Ids(deferred) = {}
    BY <1>7, <2>2 DEF Apart
  <2> QED
    BY <1>7, <2>1, <2>3 DEF Single, Ids
<1>9. Numbers(X, counter) /\ counter \in Nat
  <2>1. X \subseteq UnderWay
    BY <1>2, <1>5 DEF UnderWay
  <2> QED
    BY <2>1 DEF Travel, Numbered, Numbers
<1> HIDE DEF X
<1>10. /\ transfers'["store"] = transfers["store"] \o Submitted(X, "store")
       /\ transfers'["load"] = transfers["load"]
  BY <1>1, <1>7 DEF Directions
<1>11. Submits(transfers["store"], X, "store", transfers'["store"])
  <2> DEFINE q == transfers["store"]
             r == transfers'["store"]
  <2>1. Queue(q) /\ r = q \o Submitted(X, "store")
    BY <1>7, <1>10 DEF Moving
  <2> HIDE DEF q, r
  <2>2. Submits(q, X, "store", r)
    BY <1>8, <1>9, <2>1, SubmissionIs
  <2> QED
    BY <2>2 DEF q, r
<1> QED
  BY <1>1, <1>2, <1>3, <1>5, <1>6, <1>10, <1>11

\* Forward appends the metadata's loads to the queue of loads, staged from the
\* slots as they are.  Nothing waits in the metadata any more.
LEMMA LoadsSubmitted ==
  ASSUME Travel, Forward
  PROVE  /\ phase = "flush" /\ phase' = "collect" /\ Waited(meta.flush)
         /\ ToSave = {} /\ ToSave' = {} /\ ToLoad' = {} /\ completed = {} /\ completed' = {}
         /\ deferred' = deferred /\ transfers'["store"] = transfers["store"]
         /\ Submits(transfers["load"], ToLoad, "load", transfers'["load"])
         /\ UNCHANGED <<jobs, counter, threshold, cpu, newLoads, newStores>>
<1>1. /\ phase = "flush" /\ phase' = "collect" /\ Waited(meta.flush) /\ meta' = NoMeta
      /\ transfers' = [transfers EXCEPT !["load"] = @ \o Submitted(meta.loads, "load")]
      /\ UNCHANGED <<jobs, counter, threshold, newLoads, newStores, deferred, completed, cpu>>
  BY Zenon DEF Forward
<1>3. newLoads = {} /\ newStores = {} /\ completed = {}
  BY <1>1 DEF Travel, InPhase
<1>4. Entries(newStores) = {} /\ Entries(newLoads) = {} /\ Entries(newStores)' = {} /\ Entries(newLoads)' = {}
  BY <1>1, <1>3 DEF Entries
<1>5. ToLoad' = {} /\ ToSave' = {} /\ ToSave = {} /\ ToLoad = meta.loads
  BY <1>1, <1>4 DEF ToLoad, ToSave
<1>7. /\ Single(ToLoad) /\ Moving(transfers["store"]) /\ Moving(transfers["load"])
      /\ transfers = [d \in Directions |-> transfers[d]]
  BY <1>5 DEF Travel, OneWay, Directions
<1>9. Numbers(ToLoad, counter) /\ counter \in Nat
  BY DEF Travel, Numbered, Numbers, UnderWay
<1>10. /\ transfers'["load"] = transfers["load"] \o Submitted(ToLoad, "load")
       /\ transfers'["store"] = transfers["store"]
  BY <1>1, <1>5, <1>7 DEF Directions
<1>11. Submits(transfers["load"], ToLoad, "load", transfers'["load"])
  <2> DEFINE q == transfers["load"]
             r == transfers'["load"]
             X == ToLoad
  <2>1. Queue(q) /\ r = q \o Submitted(X, "load") /\ Single(X) /\ Numbers(X, counter)
    BY <1>7, <1>9, <1>10 DEF Moving
  <2> HIDE DEF q, r, X
  <2>2. Submits(q, X, "load", r)
    BY <1>9, <2>1, SubmissionIs
  <2> QED
    BY <2>2 DEF q, r, X
<1> QED
  BY <1>1, <1>3, <1>5, <1>10, <1>11

\* A queue r is what is made of q when its first transfer that is not done is.
Copies(q, i, r) ==
  /\ Len(q) \in Nat /\ DOMAIN q = 1..Len(q) /\ Len(r) = Len(q) /\ DOMAIN r = 1..Len(q)
  /\ i \in 1..Len(q) /\ ~q[i].done /\ \A k \in 1..Len(q) : k < i => q[k].done
  /\ r[i].id = q[i].id /\ r[i].job = q[i].job /\ r[i].done
  /\ \A k \in 1..Len(q) : k # i => r[k] = q[k]

\* A transfer's record after its copy.
LEMMA MarkedFully ==
  ASSUME NEW t, IsTransfer(t), NEW f, NEW x
  PROVE  /\ x = [t EXCEPT !.done = TRUE] => x.done /\ x.staging = t.staging
         /\ x = [t EXCEPT !.done = TRUE, !.staging = f] => x.done /\ x.staging = f
<1>1. PICK a, b, c, e : t = [id |-> a, job |-> b, staging |-> c, done |-> e]
  BY DEF IsTransfer
<1>2. ASSUME x = [t EXCEPT !.done = TRUE] PROVE x.done /\ x.staging = t.staging
  BY <1>1, <1>2
<1>3. ASSUME x = [t EXCEPT !.done = TRUE, !.staging = f] PROVE x.done /\ x.staging = f
  BY <1>1, <1>3
<1> QED
  BY <1>2, <1>3

\* The first transfer that is not done, if there is one.
LEMMA FirstRunningIs ==
  ASSUME NEW d, Queue(transfers[d]), NEW x \in DOMAIN transfers[d], ~transfers[d][x].done
  PROVE  /\ FirstRunning(d) \in DOMAIN transfers[d] /\ ~transfers[d][FirstRunning(d)].done
         /\ \A k \in DOMAIN transfers[d] : k < FirstRunning(d) => transfers[d][k].done
<1> DEFINE q == transfers[d]
           S == {i \in DOMAIN q : ~q[i].done}
           i == FirstRunning(d)
<1>1. Len(q) \in Nat /\ DOMAIN q = 1..Len(q)
  BY DEF Queue
<1>2. i = CHOOSE y \in S : \A z \in S : y <= z
  BY DEF FirstRunning
<1>3. x \in S /\ S \in SUBSET (0..Len(q))
  BY <1>1
<1>4. \A y \in DOMAIN q : y \in S <=> ~q[y].done
  OBVIOUS
<1>5. S \subseteq DOMAIN q
  OBVIOUS
<1> HIDE DEF S, q, i
<1>6. \E y \in S : \A z \in S : y <= z
  <2>1. S # {}
    BY <1>3
  <2> QED
    BY <1>1, <1>3, <2>1, LeastIs
<1>7. i \in S /\ \A z \in S : i <= z
  BY <1>2, <1>6
<1>8. \A k \in DOMAIN q : k < i => q[k].done
  <2> SUFFICES ASSUME NEW k \in DOMAIN q, k < i, ~q[k].done PROVE FALSE
    OBVIOUS
  <2>1. k \in S /\ k \in Nat /\ i \in Nat
    BY <1>1, <1>3, <1>4, <1>7
  <2> QED
    BY <1>7, <2>1
<1> QED
  BY <1>4, <1>5, <1>7, <1>8 DEF q, i

\* A marked transfer of a queue of transfers.
LEMMA MarkIs ==
  ASSUME NEW q, Moving(q), NEW i \in DOMAIN q, ~q[i].done, \A k \in DOMAIN q : k < i => q[k].done,
         NEW x, x.id = q[i].id, x.job = q[i].job, x.done, NEW r, r = [q EXCEPT ![i] = x]
  PROVE  Copies(q, i, r) /\ r[i] = x
<1>1. Len(q) \in Nat /\ DOMAIN q = 1..Len(q) /\ q \in Seq(Range(q))
  BY DEF Moving, Queue
<1>2. /\ DOMAIN r = DOMAIN q /\ r = [k \in DOMAIN q |-> r[k]]
      /\ r[i] = x /\ \A k \in DOMAIN q : k # i => r[k] = q[k]
  BY <1>1
<1>3. Len(r) = Len(q)
  <2> DEFINE n == Len(q)
  <2>1. n \in Nat /\ r = [k \in 1..n |-> r[k]]
    BY <1>1, <1>2
  <2> HIDE DEF n
  <2>2. Len(r) = n
    BY <2>1
  <2> QED
    BY <2>2 DEF n
<1> QED
  BY <1>1, <1>2, <1>3 DEF Copies

\* StoreCopied marks the first store not done; its staging buffer has the blocks.
LEMMA StoreCopyIs ==
  ASSUME Travel, StoreCopied
  PROVE  /\ \E i : LET q == transfers["store"]
                       r == transfers'["store"]
                   IN  /\ Copies(q, i, r)
                       /\ r[i].staging = [m \in DOMAIN q[i].staging |-> gpu[m.block]]
         /\ transfers'["load"] = transfers["load"] /\ UNCHANGED <<gpu, cpu>>
<1> DEFINE q == transfers["store"]
           i == FirstRunning("store")
           t == q[i]
           f == [m \in DOMAIN t.staging |-> gpu[m.block]]
           x == [t EXCEPT !.done = TRUE, !.staging = f]
           r == [q EXCEPT ![i] = x]
<1>1. /\ transfers = [d \in Directions |-> transfers[d]] /\ Moving(q)
  BY DEF Travel, OneWay, Directions
<1>2. transfers' = [transfers EXCEPT !["store"] = r] /\ UNCHANGED <<gpu, cpu>>
  BY <1>1 DEF StoreCopied, Directions
<1>3. PICK z \in DOMAIN q : ~q[z].done
  BY DEF StoreCopied
<1>4. i \in DOMAIN q /\ ~q[i].done /\ \A k \in DOMAIN q : k < i => q[k].done
  <2>1. Queue(q)
    BY <1>1 DEF Moving
  <2> QED
    BY <1>3, <2>1, FirstRunningIs
<1>5. transfers'["store"] = r /\ transfers'["load"] = transfers["load"]
  <2> HIDE DEF r
  <2> QED
    BY <1>1, <1>2 DEF Directions
<1>6. IsTransfer(t)
  BY <1>1, <1>4 DEF Moving, Range
<1> HIDE DEF t, f, i, q
<1>7. x.id = t.id /\ x.job = t.job
  BY <1>6, MarkedIs
<1>8. x.done /\ x.staging = f
  BY <1>6, MarkedFully
<1> HIDE DEF x
<1>9. Copies(q, i, r) /\ r[i] = x
  BY <1>1, <1>4, <1>7, <1>8, MarkIs DEF t
<1> HIDE DEF r
<1> QED
  BY <1>2, <1>5, <1>8, <1>9 DEF f, t, q

\* What the GPU blocks hold when a load's copy is made.
Loaded(t) ==
  [b \in DOMAIN gpu |-> IF {m \in t.job.moves : m.block = b} = {} THEN gpu[b]
                        ELSE t.staging[CHOOSE m \in {m \in t.job.moves : m.block = b} : TRUE]]

\* LoadCopied marks the first load not done; its staging buffer is in the blocks.
LEMMA LoadCopyIs ==
  ASSUME Travel, LoadCopied
  PROVE  /\ \E i : LET q == transfers["load"]
                       r == transfers'["load"]
                   IN  /\ Copies(q, i, r) /\ r[i].staging = q[i].staging
                       /\ gpu' = Loaded(q[i])
         /\ transfers'["store"] = transfers["store"] /\ cpu' = cpu
<1> DEFINE q == transfers["load"]
           i == FirstRunning("load")
           t == q[i]
           x == [t EXCEPT !.done = TRUE]
           r == [q EXCEPT ![i] = x]
<1>1. /\ transfers = [d \in Directions |-> transfers[d]] /\ Moving(q)
  BY DEF Travel, OneWay, Directions
<1>2. transfers' = [transfers EXCEPT !["load"] = r] /\ cpu' = cpu
  BY <1>1 DEF LoadCopied, Directions
<1>3. PICK z \in DOMAIN q : ~q[z].done
  BY DEF LoadCopied
<1>4. i \in DOMAIN q /\ ~q[i].done /\ \A k \in DOMAIN q : k < i => q[k].done
  <2>1. Queue(q)
    BY <1>1 DEF Moving
  <2> QED
    BY <1>3, <2>1, FirstRunningIs
<1>5. transfers'["load"] = r /\ transfers'["store"] = transfers["store"]
  <2> HIDE DEF r
  <2> QED
    BY <1>1, <1>2 DEF Directions
<1>6. IsTransfer(t)
  BY <1>1, <1>4 DEF Moving, Range
<1>10. gpu' = Loaded(t)
  BY Zenon DEF LoadCopied, Loaded
<1> HIDE DEF t, i, q
<1>7. x.id = t.id /\ x.job = t.job
  BY <1>6, MarkedIs
<1>8. x.done /\ x.staging = t.staging
  BY <1>6, MarkedFully
<1> HIDE DEF x
<1>9. Copies(q, i, r) /\ r[i] = x
  BY <1>1, <1>4, <1>7, <1>8, MarkIs DEF t
<1> HIDE DEF r
<1> QED
  BY <1>2, <1>5, <1>8, <1>9, <1>10 DEF t, q

\* A queue r is what is left of q when its first n transfers are collected.
Collects(q, n, r) ==
  /\ Len(q) \in Nat /\ DOMAIN q = 1..Len(q) /\ n \in 0..Len(q)
  /\ \A i \in 1..n : q[i].done
  /\ n < Len(q) => ~q[n + 1].done
  /\ Len(r) = Len(q) - n /\ DOMAIN r = 1..(Len(q) - n)
  /\ \A i \in 1..(Len(q) - n) : r[i] = q[i + n]

\* Collect takes the done prefix of both queues.
LEMMA CollectIs ==
  ASSUME Travel, Collect
  PROVE  /\ phase = "collect" /\ phase' = "out" /\ completed = {}
         /\ ToLoad' = {} /\ ToLoad = {} /\ ToSave' = {} /\ ToSave = {}
         /\ cpu' = CopiedOut(DonePrefix("store"))
         /\ \A d \in Directions : Collects(transfers[d], DonePrefix(d), transfers'[d])
         /\ completed' = {transfers["store"][i] : i \in 1..DonePrefix("store")}
                           \cup {transfers["load"][i] : i \in 1..DonePrefix("load")}
         /\ UNCHANGED <<gpu, deferred, jobs, counter, threshold, meta, newLoads, newStores>>
<1>1. /\ phase = "collect" /\ phase' = "out" /\ cpu' = CopiedOut(DonePrefix("store"))
      /\ UNCHANGED <<gpu, jobs, counter, threshold, newLoads, newStores, meta, deferred>>
      /\ completed' = UNION {Range(SubSeq(transfers[d], 1, DonePrefix(d))) : d \in Directions}
      /\ transfers' = [d \in Directions |-> SubSeq(transfers[d], DonePrefix(d) + 1, Len(transfers[d]))]
  BY DEF Collect, GetFinished, Collected, conVars
<1>2. newLoads = {} /\ newStores = {} /\ completed = {}
  BY <1>1 DEF Travel, InPhase
<1>3. Entries(newStores) = {} /\ Entries(newLoads) = {} /\ Entries(newStores)' = {} /\ Entries(newLoads)' = {}
  BY <1>1, <1>2 DEF Entries
<1>4. ToLoad' = {} /\ ToLoad = {} /\ ToSave' = {} /\ ToSave = {}
  BY <1>1, <1>3 DEF ToLoad, ToSave
<1>5. ASSUME NEW d \in Directions
      PROVE  /\ Collects(transfers[d], DonePrefix(d), transfers'[d])
             /\ Range(SubSeq(transfers[d], 1, DonePrefix(d))) = {transfers[d][i] : i \in 1..DonePrefix(d)}
  <2> DEFINE q == transfers[d]
             n == DonePrefix(d)
             l == Len(q)
             a == SubSeq(q, 1, n)
             b == SubSeq(q, n + 1, l)
  <2>1. /\ q \in Seq(Range(q)) /\ l \in Nat /\ DOMAIN q = 1..l
        /\ \A i \in 1..l : q[i] \in Range(q)
    BY DEF Travel, OneWay, Moving, Queue
  <2>2. /\ n \in 0..l /\ \A i \in 1..n : q[i].done
        /\ n < l => ~q[n + 1].done
    <3>1. Queue(transfers[d])
      BY DEF Travel, OneWay, Moving
    <3> QED
      BY <3>1, PrefixIs
  <2>3. transfers'[d] = b
    BY <1>1
  <2> HIDE DEF q, n, l, b, a
  <2>4. /\ b \in Seq(Range(q)) /\ Len(b) = l - n
        /\ \A i \in 1..(l - n) : b[i] = q[i + n]
    <3>1. /\ n + 1 \in Int /\ l \in Int
          /\ \A i \in (n + 1)..l : q[i] \in Range(q)
      BY <2>1, <2>2
    <3>2. /\ SubSeq(q, n + 1, l) \in Seq(Range(q))
          /\ Len(SubSeq(q, n + 1, l)) = IF n + 1 <= l THEN l - (n + 1) + 1 ELSE 0
          /\ \A i \in 1..(l - (n + 1) + 1) : SubSeq(q, n + 1, l)[i] = q[n + 1 + i - 1]
      BY <3>1, SubSeqProperties
    <3> QED
      BY <2>1, <2>2, <3>2 DEF b
  <2>5. /\ a \in Seq(Range(q)) /\ Len(a) = n /\ \A i \in 1..n : a[i] = q[i]
    <3>1. /\ 1 \in Int /\ n \in Int
          /\ \A i \in 1..n : q[i] \in Range(q)
      BY <2>1, <2>2
    <3>2. /\ SubSeq(q, 1, n) \in Seq(Range(q))
          /\ Len(SubSeq(q, 1, n)) = IF 1 <= n THEN n - 1 + 1 ELSE 0
          /\ \A i \in 1..(n - 1 + 1) : SubSeq(q, 1, n)[i] = q[1 + i - 1]
      BY <3>1, SubSeqProperties
    <3> QED
      BY <2>1, <2>2, <3>2 DEF a
  <2>6. DOMAIN b = 1..(l - n) /\ DOMAIN a = 1..n
    BY <2>4, <2>5
  <2>7. Collects(q, n, b)
    BY <2>1, <2>2, <2>4, <2>6 DEF Collects, l
  <2>8. Range(a) = {q[i] : i \in 1..n}
    BY <2>5, <2>6 DEF Range
  <2> QED
    BY <2>3, <2>7, <2>8 DEF q, n, a
<1>6. completed' = {transfers["store"][i] : i \in 1..DonePrefix("store")}
                     \cup {transfers["load"][i] : i \in 1..DonePrefix("load")}
  <2> DEFINE R(d) == Range(SubSeq(transfers[d], 1, DonePrefix(d)))
             S == {transfers["store"][i] : i \in 1..DonePrefix("store")}
             L == {transfers["load"][i] : i \in 1..DonePrefix("load")}
  <2>1. R("store") = S /\ R("load") = L
    BY <1>5, Zenon DEF Directions
  <2>2. completed' = UNION {R(d) : d \in Directions}
    BY <1>1
  <2> HIDE DEF R, S, L
  <2>3. UNION {R(d) : d \in Directions} = R("store") \cup R("load")
    BY DEF Directions
  <2> QED
    BY <2>1, <2>2, <2>3 DEF S, L
<1>7. \A d \in Directions : Collects(transfers[d], DonePrefix(d), transfers'[d])
  BY <1>5
<1> QED
  BY <1>1, <1>2, <1>4, <1>6, <1>7

\* Each direction has the jobs of its kind.
Kinds ==
  /\ \A t \in ToLoad \cup Sent("load") : ~t.job.store
  /\ \A t \in ToSave \cup deferred \cup Sent("store") : t.job.store

\* The loads on their way, until the connector hears of them.
Loads == ToLoad \cup Sent("load") \cup {t \in completed : ~t.job.store}

\* Y has the jobs of X, under their numbers.
Same(X, Y) ==
  /\ \A t \in Y : \E u \in X : t.id = u.id /\ t.job = u.job
  /\ \A u \in X : \E t \in Y : t.id = u.id /\ t.job = u.job

\* Where jobs are is not changed by steps that move none.
LEMMA WaysSame ==
  ASSUME UNCHANGED <<newLoads, newStores, jobs, transfers>>,
         UNCHANGED <<phase, meta>> \/ {phase, phase'} \cap {"exec", "flush"} = {}
  PROVE  /\ ToLoad' = ToLoad /\ ToSave' = ToSave
         /\ \A d : Sent(d)' = Sent(d)
<1>1. Entries(newLoads)' = Entries(newLoads) /\ Entries(newStores)' = Entries(newStores)
  BY DEF Entries
<1> QED
  BY <1>1 DEF ToLoad, ToSave, Sent

\* The engine's steps that move no job.
Quiet ==
  \/ ResetCache \/ StartMeta \/ EndMeta \/ EndStep \/ UNCHANGED vars
  \/ \E r \in Requests :
       \/ OnNewRequest(r) \/ GetMatchedWaits(r) \/ Preempt(r) \/ Abort(r)
       \/ \E n \in 1..MaxTokens : ScheduleWaiting(r, n) \/ ScheduleRunning(r, n)
       \/ StoreNothing(r) \/ StoreRefused(r)
       \/ \E stops \in BOOLEAN : RequestOutput(r, stops)

\* The steps that move no job: every job is on the way it was on.
LEMMA QuietWays ==
  ASSUME Travel, Quiet, UNCHANGED <<handlerVars, deferred, completed>>
  PROVE  /\ ToLoad' = ToLoad /\ ToSave' = ToSave
         /\ \A d : Sent(d)' = Sent(d)
         /\ UNCHANGED <<deferred, completed, transfers, gpu, cpu>>
<1>1. UNCHANGED <<deferred, completed, transfers, gpu, cpu>>
  BY DEF handlerVars
<1>2. CASE ResetCache
  <2>1. /\ newLoads = {} /\ UNCHANGED <<phase, newLoads, newStores, meta>> /\ phase = "sched"
    BY <1>2 DEF ResetCache, BetweenSteps
  <2>2. newStores = {}
    BY <2>1 DEF Travel, InPhase
  <2>3. Entries(newLoads)' = {} /\ Entries(newStores)' = {} /\ Entries(newLoads) = {} /\ Entries(newStores) = {}
    BY <2>1, <2>2 DEF Entries
  <2> QED
    BY <1>1, <2>1, <2>3 DEF ToLoad, ToSave, Sent
<1>3. CASE StartMeta
  <2>1. phase = "sched" /\ phase' = "build" /\ UNCHANGED <<newLoads, newStores, jobs>>
    BY <1>3, Zenon DEF StartMeta
  <2> QED
    BY <1>1, <2>1, WaysSame
<1>4. CASE EndMeta
  <2>1. /\ meta'.loads = Entries(newLoads) /\ meta'.stores = Entries(newStores)
        /\ newLoads' = {} /\ newStores' = {} /\ phase = "build" /\ phase' = "exec"
    BY <1>4 DEF EndMeta, Entries
  <2>2. Entries(newLoads)' = {} /\ Entries(newStores)' = {}
    BY <2>1 DEF Entries
  <2> QED
    BY <1>1, <2>1, <2>2 DEF ToLoad, ToSave, Sent
<1>5. CASE EndStep
  <2>1. phase = "out" /\ phase' = "sched" /\ UNCHANGED <<newLoads, newStores, jobs>>
    BY <1>5 DEF EndStep, conVars
  <2> QED
    BY <1>1, <2>1, WaysSame
<1>6. CASE UNCHANGED vars
  <2>1. UNCHANGED <<phase, meta, newLoads, newStores, jobs>>
    BY <1>6 DEF vars, schedVars, extVars, conVars
  <2> QED
    BY <1>1, <2>1, WaysSame
<1>7. ASSUME NEW r \in Requests,
       \/ OnNewRequest(r) \/ GetMatchedWaits(r) \/ Preempt(r) \/ Abort(r)
       \/ \E n \in 1..MaxTokens : ScheduleWaiting(r, n) \/ ScheduleRunning(r, n)
       \/ StoreNothing(r) \/ StoreRefused(r)
       \/ \E stops \in BOOLEAN : RequestOutput(r, stops)
      PROVE  UNCHANGED <<phase, meta, newLoads, newStores, jobs>>
  <2>1. CASE \/ OnNewRequest(r) \/ GetMatchedWaits(r) \/ Preempt(r) \/ Abort(r)
    BY <2>1 DEF OnNewRequest, GetMatchedWaits, Preempt, Abort, extVars, conVars
  <2>2. CASE \E n \in 1..MaxTokens : ScheduleWaiting(r, n) \/ ScheduleRunning(r, n)
    BY <2>2 DEF ScheduleWaiting, ScheduleRunning, extVars, conVars
  <2>3. CASE StoreNothing(r) \/ StoreRefused(r)
    BY <2>3 DEF StoreNothing, StoreRefused, extVars
  <2>4. CASE \E stops \in BOOLEAN : RequestOutput(r, stops)
    BY <2>4 DEF RequestOutput
  <2> QED
    BY <1>7, <2>1, <2>2, <2>3, <2>4
<1>8. CASE UNCHANGED <<phase, meta, newLoads, newStores, jobs>>
  BY <1>1, <1>8, WaysSame
<1> QED
  BY <1>2, <1>3, <1>4, <1>5, <1>6, <1>7, <1>8 DEF Quiet

\* A new job sets out.
SetsOut(job) ==
  /\ jobs' = WithJob(job) /\ UNCHANGED <<phase, meta, handlerVars, deferred, completed>>
NewEntry(job) == [id |-> counter, job |-> job]

\* The metadata's entries when jobs has one more.
LEMMA EntriesGrow ==
  ASSUME Travel, NEW job, jobs' = WithJob(job), NEW X \in SUBSET DOMAIN jobs
  PROVE  /\ {[id |-> j, job |-> jobs'[j]] : j \in X} = Entries(X)
         /\ {[id |-> j, job |-> jobs'[j]] : j \in X \cup {counter}} = Entries(X) \cup {NewEntry(job)}
<1>1. counter \notin DOMAIN jobs
  <2>1. counter \in Nat /\ \A j \in DOMAIN jobs : j \in Ids(UnderWay)
    BY DEF Travel, Numbered
  <2>2. \A t \in UnderWay : t.id \in 0..(counter - 1)
    BY DEF Travel, Numbered
  <2>3. counter \notin Ids(UnderWay)
    BY <2>1, <2>2 DEF Ids
  <2> QED
    BY <2>1, <2>3
<1>2. jobs'[counter] = job /\ \A j \in DOMAIN jobs : jobs'[j] = jobs[j]
  BY <1>1 DEF WithJob
<1> QED
  BY <1>2 DEF Entries, NewEntry

\* A new load is on its way to the worker, nothing else has moved.
LEMMA LoadSetsOut ==
  ASSUME Travel, NEW job, SetsOut(job), newLoads' = newLoads \cup {counter}, newStores' = newStores,
         phase = "sched"
  PROVE  ToLoad' = ToLoad \cup {NewEntry(job)} /\ ToSave' = ToSave /\ \A d : Sent(d)' = Sent(d)
<1>1. newLoads \in SUBSET DOMAIN jobs /\ newStores \in SUBSET DOMAIN jobs
  BY DEF Travel, InPhase
<1>2. /\ {[id |-> j, job |-> jobs'[j]] : j \in newLoads \cup {counter}} = Entries(newLoads) \cup {NewEntry(job)}
      /\ {[id |-> j, job |-> jobs'[j]] : j \in newStores} = Entries(newStores)
  BY <1>1, EntriesGrow DEF SetsOut
<1>3. Entries(newLoads)' = Entries(newLoads) \cup {NewEntry(job)} /\ Entries(newStores)' = Entries(newStores)
  BY <1>2 DEF Entries
<1> QED
  BY <1>3 DEF ToLoad, ToSave, Sent, SetsOut, handlerVars

\* So is a new store.
LEMMA StoreSetsOut ==
  ASSUME Travel, NEW job, SetsOut(job), newStores' = newStores \cup {counter}, newLoads' = newLoads,
         phase = "build"
  PROVE  ToSave' = ToSave \cup {NewEntry(job)} /\ ToLoad' = ToLoad /\ \A d : Sent(d)' = Sent(d)
<1>1. newLoads \in SUBSET DOMAIN jobs /\ newStores \in SUBSET DOMAIN jobs
  BY DEF Travel, InPhase
<1>2. /\ {[id |-> j, job |-> jobs'[j]] : j \in newStores \cup {counter}} = Entries(newStores) \cup {NewEntry(job)}
      /\ {[id |-> j, job |-> jobs'[j]] : j \in newLoads} = Entries(newLoads)
  BY <1>1, EntriesGrow DEF SetsOut
<1>3. Entries(newStores)' = Entries(newStores) \cup {NewEntry(job)} /\ Entries(newLoads)' = Entries(newLoads)
  BY <1>2 DEF Entries
<1> QED
  BY <1>3 DEF ToLoad, ToSave, Sent, SetsOut, handlerVars

\* The job of a new load: a hit's chunks, into the blocks just allocated.
LoadJob(r) ==
  LET h == LongestHit(r)
      c == h * TokensPerChunk
      a == Allocation(r, c, c)
  IN  [req |-> r, store |-> FALSE,
       moves |-> {[key |-> k, block |-> a.table[k[1]][k[2] + 1], slot |-> slotOf[k]] : k \in HitKeys(h)},
       keys |-> HitKeys(h), sliding |-> {}, other |-> {}]

\* ScheduleLoad makes LoadJob(r).
LEMMA LoadJobMade ==
  ASSUME NEW r, ScheduleLoad(r), UNCHANGED <<handlerVars, deferred, completed>>
  PROVE  /\ SetsOut(LoadJob(r)) /\ phase = "sched"
         /\ newLoads' = newLoads \cup {counter} /\ newStores' = newStores
  BY DEF ScheduleLoad, LoadJob, SetsOut

\* The job of a new store: the chunks the cache lacks, from the connector's copy of
\* the table, to slots that are free when chunks are evicted.
StoredKeys(r) == {k \in NewKeys(r) : ~Present(k)}
SlotFor(r, evicted, k) ==
  LET order == SetToSeq(StoredKeys(r))
  IN  Lowest(FreeSlots \cup {slotOf[l] : l \in evicted}, Len(order))[CHOOSE i \in DOMAIN order : order[i] = k]
StoreMoves(r, evicted) ==
  {[key |-> k, block |-> blockIds[r][k[1]][k[2] + 1], slot |-> SlotFor(r, evicted, k)] : k \in StoredKeys(r)}
BlocksFor(moves, g) == {m.block : m \in {x \in moves : x.key[1] = g}}
StoreJobOf(r, evicted) ==
  [req |-> r, store |-> TRUE, moves |-> StoreMoves(r, evicted), keys |-> StoredKeys(r),
   sliding |-> BlocksFor(StoreMoves(r, evicted), "sliding"),
   other |-> BlocksFor(StoreMoves(r, evicted), "full")]

\* StoreChunks makes StoreJobOf(r, evicted).
LEMMA StoreJobMade ==
  ASSUME NEW r, NEW evicted, StoreChunks(r, evicted), UNCHANGED <<handlerVars, deferred, completed>>
  PROVE  /\ SetsOut(StoreJobOf(r, evicted)) /\ phase = "build"
         /\ newStores' = newStores \cup {counter} /\ newLoads' = newLoads
<1> DEFINE keys  == {k \in NewKeys(r) : ~Present(k)}
           free  == FreeSlots \cup {slotOf[k] : k \in evicted}
           order == SetToSeq(keys)
           Slot(k) == Lowest(free, Len(order))[CHOOSE i \in DOMAIN order : order[i] = k]
           moves == {[key |-> k, block |-> blockIds[r][k[1]][k[2] + 1], slot |-> Slot(k)] : k \in keys}
           BlocksIn(g) == {m.block : m \in {x \in moves : x.key[1] = g}}
           job == [req |-> r, store |-> TRUE, moves |-> moves, keys |-> keys,
                   sliding |-> BlocksIn("sliding"), other |-> BlocksIn("full")]
<1>1. jobs' = WithJob(job)
  BY Zenon DEF StoreChunks
<1>2. job = StoreJobOf(r, evicted)
  BY Zenon DEF StoreJobOf, StoreMoves, SlotFor, StoredKeys, BlocksFor
<1> HIDE DEF job
<1>3. /\ phase = "build" /\ newStores' = newStores \cup {counter} /\ UNCHANGED <<newLoads, phase, meta>>
  BY DEF StoreChunks, extVars
<1> QED
  BY <1>1, <1>2, <1>3 DEF SetsOut

\* What a submission, a copy and a collection make of a queue's jobs.
LEMMA SubmitsJobs ==
  ASSUME NEW q, NEW X, NEW dir, NEW r, Submits(q, X, dir, r)
  PROVE  Same(Range(q) \cup X, Range(r))
<1>1. /\ DOMAIN q = 1..Len(q) /\ DOMAIN r = 1..Len(r) /\ Len(q) \in Nat /\ Len(r) \in Nat /\ Len(q) <= Len(r)
      /\ \A i \in 1..Len(q) : r[i] = q[i]
  BY DEF Submits
<1>2. ASSUME NEW i \in 1..Len(r)
      PROVE  \E u \in Range(q) \cup X : r[i].id = u.id /\ r[i].job = u.job
  <2>1. CASE i \in 1..Len(q)
    <3>1. r[i] \in Range(q)
      BY <1>1, <2>1 DEF Range
    <3> QED
      BY <3>1
  <2>2. CASE i \in (Len(q) + 1)..Len(r)
    <3>1. PICK t \in X : r[i] = Transfer(t.id, t.job, Staged(dir, t.job))
      BY <2>2, Zenon DEF Submits
    <3>2. r[i].id = t.id /\ r[i].job = t.job
      BY <3>1 DEF Transfer
    <3> QED
      BY <3>2
  <2> QED
    BY <1>1, <1>2, <2>1, <2>2
<1>3. ASSUME NEW u \in Range(q) \cup X
      PROVE  \E i \in 1..Len(r) : r[i].id = u.id /\ r[i].job = u.job
  <2>1. CASE u \in Range(q)
    <3>1. PICK i \in 1..Len(q) : u = q[i]
      BY <1>1, <2>1 DEF Range
    <3> QED
      BY <1>1, <3>1
  <2>2. CASE u \in X
    <3>1. PICK i \in (Len(q) + 1)..Len(r) : r[i] = Transfer(u.id, u.job, Staged(dir, u.job))
      BY <2>2, Zenon DEF Submits
    <3>2. r[i].id = u.id /\ r[i].job = u.job
      BY <3>1 DEF Transfer
    <3> QED
      BY <1>1, <3>2
  <2> QED
    BY <1>3, <2>1, <2>2
<1>4. Range(r) = {r[i] : i \in 1..Len(r)}
  BY <1>1 DEF Range
<1>5. ASSUME NEW t \in Range(r) PROVE \E u \in Range(q) \cup X : t.id = u.id /\ t.job = u.job
  BY <1>2, <1>4
<1>6. ASSUME NEW u \in Range(q) \cup X PROVE \E t \in Range(r) : t.id = u.id /\ t.job = u.job
  BY <1>3, <1>4
<1> QED
  BY <1>5, <1>6 DEF Same

\* A GPU copy leaves the queue's jobs alone.
LEMMA CopiesJobs ==
  ASSUME NEW q, NEW i, NEW r, Copies(q, i, r)
  PROVE  Same(Range(q), Range(r))
<1>1. /\ DOMAIN q = 1..Len(q) /\ DOMAIN r = 1..Len(q)
      /\ \A k \in 1..Len(q) : r[k].id = q[k].id /\ r[k].job = q[k].job
  BY DEF Copies
<1> QED
  BY <1>1 DEF Same, Range

\* A collection only removes jobs.
LEMMA CollectsJobs ==
  ASSUME NEW q, NEW n, NEW r, Collects(q, n, r)
  PROVE  /\ Range(q) = Range(r) \cup {q[i] : i \in 1..n}
<1>1. /\ Len(q) \in Nat /\ DOMAIN q = 1..Len(q) /\ n \in 0..Len(q) /\ DOMAIN r = 1..(Len(q) - n)
      /\ \A i \in 1..(Len(q) - n) : r[i] = q[i + n]
  BY DEF Collects
<1>2. ASSUME NEW x \in Range(q) PROVE x \in Range(r) \cup {q[i] : i \in 1..n}
  <2>1. PICK i \in 1..Len(q) : x = q[i]
    BY <1>1 DEF Range
  <2>2. CASE i <= n
    BY <1>1, <2>1, <2>2
  <2>3. CASE ~(i <= n)
    <3>1. i - n \in 1..(Len(q) - n) /\ (i - n) + n = i
      BY <1>1, <2>3
    <3>2. r[i - n] = q[i]
      BY <1>1, <3>1
    <3> QED
      BY <1>1, <2>1, <3>1, <3>2 DEF Range
  <2> QED
    BY <2>2, <2>3
<1>3. ASSUME NEW x \in Range(r) PROVE x \in Range(q)
  <2>1. PICK i \in 1..(Len(q) - n) : x = r[i]
    BY <1>1 DEF Range
  <2>2. i + n \in 1..Len(q)
    BY <1>1
  <2> QED
    BY <1>1, <2>1, <2>2 DEF Range
<1>4. \A i \in 1..n : q[i] \in Range(q)
  BY <1>1 DEF Range
<1> QED
  BY <1>2, <1>3, <1>4

\* Sets with the same jobs.
LEMMA SameIs ==
  ASSUME NEW X, NEW Y, NEW Z
  PROVE  /\ Same(X, X)
         /\ Same(X, Y) => Same(X \cup Z, Y \cup Z)
         /\ Same(X, Y) => Same(Z \cup X, Z \cup Y)
         /\ Same(X, Y) => \A P : (\A t \in X : t.job.store = P) => (\A t \in Y : t.job.store = P)
BY DEF Same

\* The workers' steps move jobs from one place to the next.
LEMMA WorkersMove ==
  ASSUME Travel, Kinds, SubmitStores \/ Forward \/ Collect \/ GpuCopy
  PROVE  Kinds' /\ Same(Loads, Loads') /\ Same(UnderWay, UnderWay')
<1>0. Same(Loads, Loads') /\ Same(UnderWay, UnderWay') /\ Kinds' <=>
        /\ Same(Loads, ToLoad' \cup Range(transfers'["load"]) \cup {t \in completed' : ~t.job.store})
        /\ Same(UnderWay, ToLoad' \cup ToSave' \cup deferred' \cup Range(transfers'["store"])
                             \cup Range(transfers'["load"]) \cup completed')
        /\ \A t \in ToLoad' \cup Range(transfers'["load"]) : ~t.job.store
        /\ \A t \in ToSave' \cup deferred' \cup Range(transfers'["store"]) : t.job.store
  BY DEF Loads, UnderWay, Kinds, Sent
<1>1. CASE SubmitStores
  <2>1. /\ ToSave' = {} /\ ToLoad' = ToLoad /\ completed = {} /\ completed' = {}
        /\ deferred' = {t \in ToSave : t.id \notin meta.flush}
        /\ transfers'["load"] = transfers["load"]
        /\ Submits(transfers["store"], Due, "store", transfers'["store"])
    BY <1>1, StoresSubmitted
  <2>2. Same(Sent("store") \cup Due, Range(transfers'["store"]))
    BY <2>1, SubmitsJobs DEF Sent
  <2>3. Due \cup deferred' = deferred \cup ToSave /\ Due \subseteq deferred \cup ToSave
    BY <2>1 DEF Due
  <2>4. Loads = ToLoad \cup Range(transfers'["load"]) \cup {t \in completed' : ~t.job.store}
    BY <2>1 DEF Loads, Sent
  <2>5. UnderWay = (ToLoad \cup deferred' \cup Sent("load")) \cup (Sent("store") \cup Due)
    BY <2>1, <2>3 DEF UnderWay
  <2>6. Same(UnderWay, (ToLoad \cup deferred' \cup Sent("load")) \cup Range(transfers'["store"]))
    BY <2>2, <2>5 DEF Same
  <2>7. ToLoad' \cup ToSave' \cup deferred' \cup Range(transfers'["store"])
                             \cup Range(transfers'["load"]) \cup completed'
         = (ToLoad \cup deferred' \cup Sent("load")) \cup Range(transfers'["store"])
    BY <2>1 DEF Sent
  <2>8. \A t \in ToLoad' \cup Range(transfers'["load"]) : ~t.job.store
    BY <2>1 DEF Kinds, Sent
  <2>9. \A t \in Range(transfers'["store"]) : t.job.store
    BY <2>2, <2>3 DEF Same, Kinds
  <2>10. \A t \in ToSave' \cup deferred' : t.job.store
    BY <2>1 DEF Kinds
  <2> QED
    BY <1>0, <2>1, <2>4, <2>6, <2>7, <2>8, <2>9, <2>10, SameIs
<1>2. CASE Forward
  <2>1. /\ ToSave = {} /\ ToSave' = {} /\ ToLoad' = {} /\ completed = {} /\ completed' = {}
        /\ deferred' = deferred /\ transfers'["store"] = transfers["store"]
        /\ Submits(transfers["load"], ToLoad, "load", transfers'["load"])
    BY <1>2, LoadsSubmitted
  <2>2. Same(Sent("load") \cup ToLoad, Range(transfers'["load"]))
    BY <2>1, SubmitsJobs DEF Sent
  <2>3. Loads = Sent("load") \cup ToLoad
    BY <2>1 DEF Loads
  <2>4. Same(Loads, ToLoad' \cup Range(transfers'["load"]) \cup {t \in completed' : ~t.job.store})
    BY <2>1, <2>2, <2>3
  <2>5. UnderWay = (deferred \cup Sent("store")) \cup (Sent("load") \cup ToLoad)
    BY <2>1 DEF UnderWay
  <2>6. Same(UnderWay, (deferred \cup Sent("store")) \cup Range(transfers'["load"]))
    BY <2>2, <2>5 DEF Same
  <2>7. ToLoad' \cup ToSave' \cup deferred' \cup Range(transfers'["store"])
                             \cup Range(transfers'["load"]) \cup completed'
         = (deferred \cup Sent("store")) \cup Range(transfers'["load"])
    BY <2>1 DEF Sent
  <2>8. \A t \in ToLoad' \cup Range(transfers'["load"]) : ~t.job.store
    BY <2>1, <2>2 DEF Kinds, Same
  <2>9. \A t \in ToSave' \cup deferred' \cup Range(transfers'["store"]) : t.job.store
    BY <2>1 DEF Kinds, Sent
  <2> QED
    BY <1>0, <2>4, <2>6, <2>7, <2>8, <2>9
<1>3. CASE Collect
  <2>1. /\ completed = {} /\ ToLoad' = {} /\ ToLoad = {} /\ ToSave' = {} /\ ToSave = {}
        /\ \A d \in Directions : Collects(transfers[d], DonePrefix(d), transfers'[d])
        /\ completed' = {transfers["store"][i] : i \in 1..DonePrefix("store")}
                           \cup {transfers["load"][i] : i \in 1..DonePrefix("load")}
        /\ deferred' = deferred
    BY <1>3, CollectIs
  <2> DEFINE S == {transfers["store"][i] : i \in 1..DonePrefix("store")}
             L == {transfers["load"][i] : i \in 1..DonePrefix("load")}
  <2> HIDE DEF S, L
  <2>2. completed' = S \cup L
    BY <2>1 DEF S, L
  <2>3. Sent("store") = Range(transfers'["store"]) \cup S /\ Sent("load") = Range(transfers'["load"]) \cup L
    BY <2>1, CollectsJobs, Zenon DEF S, L, Sent, Directions
  <2>4. (\A t \in S : t.job.store) /\ (\A t \in L : ~t.job.store)
    BY <2>3 DEF Kinds
  <2>5. {t \in completed' : ~t.job.store} = L
    BY <2>2, <2>4
  <2>6. Loads = ToLoad' \cup Range(transfers'["load"]) \cup {t \in completed' : ~t.job.store}
    BY <2>1, <2>3, <2>5 DEF Loads
  <2>7. UnderWay = ToLoad' \cup ToSave' \cup deferred' \cup Range(transfers'["store"])
                             \cup Range(transfers'["load"]) \cup completed'
    BY <2>1, <2>2, <2>3 DEF UnderWay
  <2>8. /\ \A t \in ToLoad' \cup Range(transfers'["load"]) : ~t.job.store
        /\ \A t \in ToSave' \cup deferred' \cup Range(transfers'["store"]) : t.job.store
    BY <2>1, <2>3 DEF Kinds
  <2> QED
    BY <1>0, <2>6, <2>7, <2>8, SameIs
<1>4. CASE GpuCopy
  <2>1. UNCHANGED <<newLoads, newStores, jobs, phase, meta, deferred, completed>>
    BY <1>4 DEF GpuCopy, schedVars, extVars, conVars
  <2>2. ToLoad' = ToLoad /\ ToSave' = ToSave
    BY <2>1 DEF ToLoad, ToSave, Entries
  <2>3. Same(Sent("store"), Range(transfers'["store"])) /\ Same(Sent("load"), Range(transfers'["load"]))
    <3>1. CASE StoreCopied
      BY <3>1, StoreCopyIs, CopiesJobs, SameIs, Zenon DEF Sent
    <3>2. CASE LoadCopied
      BY <3>2, LoadCopyIs, CopiesJobs, SameIs, Zenon DEF Sent
    <3> QED
      BY <1>4, <3>1, <3>2 DEF GpuCopy
  <2>4. Same(Loads, ToLoad' \cup Range(transfers'["load"]) \cup {t \in completed' : ~t.job.store})
    BY <2>1, <2>2, <2>3 DEF Same, Loads
  <2>5. Same(UnderWay, ToLoad' \cup ToSave' \cup deferred' \cup Range(transfers'["store"])
                             \cup Range(transfers'["load"]) \cup completed')
    BY <2>1, <2>2, <2>3 DEF Same, UnderWay
  <2>6. /\ \A t \in ToLoad' \cup Range(transfers'["load"]) : ~t.job.store
        /\ \A t \in ToSave' \cup deferred' \cup Range(transfers'["store"]) : t.job.store
    BY <2>1, <2>2, <2>3 DEF Kinds, Same
  <2> QED
    BY <1>0, <2>4, <2>5, <2>6
<1> QED
  BY <1>1, <1>2, <1>3, <1>4

\* A completion leaves its place.
LEMMA OutputWays ==
  ASSUME Travel, NEW t \in completed, GiveOutput(t)
  PROVE  /\ phase = "out" /\ phase' = "out" /\ completed' = completed \ {t}
         /\ ToLoad' = ToLoad /\ ToSave' = ToSave /\ \A d : Sent(d)' = Sent(d)
         /\ UNCHANGED <<deferred, transfers, gpu, cpu>>
<1>1. /\ phase = "out" /\ completed' = completed \ {t}
      /\ UNCHANGED <<phase, meta, newLoads, newStores, deferred, transfers, gpu, cpu>>
  BY DEF GiveOutput, ConnectorOutput, handlerVars
<1>2. newLoads = {} /\ newStores = {}
  BY <1>1 DEF Travel, InPhase
<1>3. Entries(newStores) = {} /\ Entries(newLoads) = {} /\ Entries(newStores)' = {} /\ Entries(newLoads)' = {}
  BY <1>1, <1>2 DEF Entries
<1> QED
  BY <1>1, <1>3 DEF ToLoad, ToSave, Sent

\* Each step is one of these.
LEMMA StepsAre ==
  ASSUME [Next]_vars
  PROVE  \/ Quiet /\ UNCHANGED <<handlerVars, deferred, completed>>
         \/ \E r \in Requests : ScheduleLoad(r) /\ UNCHANGED <<handlerVars, deferred, completed>>
         \/ \E r \in Requests : \E e \in SUBSET Evictable :
               StoreChunks(r, e) /\ UNCHANGED <<handlerVars, deferred, completed>>
         \/ SubmitStores \/ Forward \/ Collect \/ GpuCopy
         \/ \E t \in completed : GiveOutput(t)
<1>1. CASE EndStep
  BY <1>1 DEF EndStep, Quiet
<1>2. CASE UNCHANGED vars
  BY <1>2 DEF vars, Quiet
<1>3. ASSUME NEW r \in Requests, Scheduling(r), ~ScheduleLoad(r) PROVE Quiet
  BY <1>3, Zenon DEF Scheduling, Quiet
<1>4. ASSUME NEW r \in Requests, StoreJob(r), \A e \in SUBSET Evictable : ~StoreChunks(r, e) PROVE Quiet
  BY <1>4, Zenon DEF StoreJob, Quiet
<1>5. ASSUME ResetCache PROVE Quiet
  BY <1>5, Zenon DEF Quiet
<1>7. ASSUME StartMeta PROVE Quiet
  BY <1>7, Zenon DEF Quiet
<1>8. ASSUME EndMeta PROVE Quiet
  BY <1>8, Zenon DEF Quiet
<1>6. ASSUME NEW r \in Requests, NEW stops \in BOOLEAN, RequestOutput(r, stops) PROVE Quiet
  BY <1>6, Zenon DEF Quiet
<1> QED
  BY <1>1, <1>2, <1>3, <1>4, <1>5, <1>6, <1>7, <1>8, Zenon DEF Next, EngineStep

\* No step turns a load into a store.
LEMMA KindsKept == Travel /\ Kinds /\ [Next]_vars => Kinds'
<1> SUFFICES ASSUME Travel, Kinds, [Next]_vars PROVE Kinds'
  OBVIOUS
<1> DEFINE Idle == UNCHANGED <<handlerVars, deferred, completed>>
<1>1. CASE Quiet /\ Idle
  BY <1>1, QuietWays DEF Kinds
<1>2. ASSUME NEW r \in Requests, ScheduleLoad(r), Idle PROVE Kinds'
  <2>1. /\ ToLoad' = ToLoad \cup {NewEntry(LoadJob(r))} /\ ToSave' = ToSave
        /\ \A d : Sent(d)' = Sent(d)
    BY <1>2, LoadJobMade, LoadSetsOut
  <2>2. ~NewEntry(LoadJob(r)).job.store
    BY DEF NewEntry, LoadJob
  <2> QED
    BY <1>2, <2>1, <2>2 DEF Kinds
<1>3. ASSUME NEW r \in Requests, NEW e \in SUBSET Evictable, StoreChunks(r, e), Idle PROVE Kinds'
  <2>1. /\ ToSave' = ToSave \cup {NewEntry(StoreJobOf(r, e))} /\ ToLoad' = ToLoad
        /\ \A d : Sent(d)' = Sent(d)
    BY <1>3, StoreJobMade, StoreSetsOut
  <2>2. NewEntry(StoreJobOf(r, e)).job.store
    BY DEF NewEntry, StoreJobOf
  <2> QED
    BY <1>3, <2>1, <2>2 DEF Kinds
<1>4. CASE SubmitStores \/ Forward \/ Collect \/ GpuCopy
  BY <1>4, WorkersMove
<1>5. ASSUME NEW t \in completed, GiveOutput(t) PROVE Kinds'
  BY <1>5, OutputWays DEF Kinds
<1> QED
  BY <1>1, <1>2, <1>3, <1>4, <1>5, StepsAre, Zenon

\* Loads travel as loads, stores as stores, whatever is preempted, aborted or
\* reset meanwhile.
THEOREM KindsHold == Spec => []Kinds
<1>1. Init => Kinds
  <2> SUFFICES ASSUME Init PROVE Kinds
    OBVIOUS
  <2>1. /\ phase = "sched" /\ newLoads = {} /\ newStores = {} /\ deferred = {}
        /\ transfers = [d \in Directions |-> <<>>]
    BY DEF Init, SchedInit
  <2>2. Entries(newLoads) = {} /\ Entries(newStores) = {}
    BY <2>1 DEF Entries
  <2> QED
    BY <2>1, <2>2 DEF Kinds, ToLoad, ToSave, Sent, Range, Directions
<1> QED
  BY <1>1, KindsKept, TravelHolds, PTL DEF Spec

(***************************************************************************)
(* The block tables.  A running request's table covers the tokens          *)
(* scheduled, and the connector's copy is no longer than it; no block is   *)
(* in two places; a load under way writes blocks of its own request only,  *)
(* and a request that loads has one load, which fills its whole table.     *)
(***************************************************************************)

\* The tokens a request has blocks for.
Reach(r) == computed[r] + sched[r]

\* A request's tokens and tables, whatever the others do.
CountsOf(r) ==
  /\ 0 < total[r] /\ total[r] <= MaxTokens /\ (~Finished(r) => total[r] < MaxTokens)
  /\ Reach(r) <= total[r]
  /\ status[r] \in {"new", "waiting"} => computed[r] = 0
  /\ status[r] = "stopped" => total[r] = computed[r] + 1
TablesOf(r) ==
  \A g \in Groups :
     /\ status[r] = "running" => /\ Len(held[r][g]) = ChunksIn(Reach(r))
                                 /\ Len(blockIds[r][g]) <= Len(held[r][g])
     /\ status[r] = "loading" => /\ Len(held[r][g]) = ChunksIn(computed[r])
                                 /\ Len(blockIds[r][g]) = 0
     /\ status[r] \in {"new", "waiting", "stopped"} => Len(held[r][g]) = 0

\* A load writes its own request's blocks, all of those that it has.
Own(r, k, b) == k[2] + 1 \in DOMAIN held[r][k[1]] /\ held[r][k[1]][k[2] + 1] = b
Fills(r, job) ==
  \A k \in Keys : k[2] + 1 \in DOMAIN held[r][k[1]] /\ held[r][k[1]][k[2] + 1] # 0
                    => \E m \in job.moves : m.key = k
LoadOf(t, r) ==
  /\ status[r] \in {"loading", "aborted"}
  /\ \A m \in t.job.moves : m.key \in Keys /\ m.block \in Blocks /\ Own(r, m.key, m.block)
Covered(r) ==
  status[r] = "loading" => /\ computed[r] = ChunksIn(computed[r]) * TokensPerChunk
                           /\ \E t \in Loads : t.job.req = r /\ Fills(r, t.job)

TableTypes ==
  /\ computed \in [Requests -> Nat] /\ total \in [Requests -> Nat]
  /\ held \in [Requests -> Table] /\ blockIds \in [Requests -> Table]
TablesRight ==
  /\ TableTypes /\ Exclusive
  /\ \A r \in Requests : CountsOf(r) /\ TablesOf(r) /\ Covered(r)
  /\ \A t \in Loads : t.job.req \in Requests /\ LoadOf(t, t.job.req)
  /\ \A t, u \in Loads : t.job.req = u.job.req => t.id = u.id

\* A request of which nothing here is changed.
Untouched(q) ==
  /\ status'[q] = status[q] /\ computed'[q] = computed[q] /\ total'[q] = total[q]
  /\ held'[q] = held[q] /\ sched'[q] = sched[q] /\ blockIds'[q] = blockIds[q]

\* What holds of a request that a step leaves alone still holds.
LEMMA UntouchedKeeps ==
  ASSUME NEW q \in Requests, Untouched(q)
  PROVE  /\ CountsOf(q) => CountsOf(q)'
         /\ TablesOf(q) => TablesOf(q)'
         /\ (\A u \in Loads : u.job.req = q => \E t \in Loads' : t.job = u.job) => (Covered(q) => Covered(q)')
         /\ \A t, u : t.job = u.job /\ LoadOf(t, q) => LoadOf(u, q)'
<1>1. Reach(q)' = Reach(q)
  BY DEF Untouched, Reach
<1>2. CountsOf(q) => CountsOf(q)'
  BY <1>1 DEF Untouched, CountsOf, Finished
<1>3. TablesOf(q) => TablesOf(q)'
  <2> SUFFICES ASSUME TablesOf(q), NEW g \in Groups
      PROVE  /\ status'[q] = "running" => /\ Len(held'[q][g]) = ChunksIn(Reach(q)')
                                          /\ Len(blockIds'[q][g]) <= Len(held'[q][g])
             /\ status'[q] = "loading" => /\ Len(held'[q][g]) = ChunksIn(computed'[q])
                                          /\ Len(blockIds'[q][g]) = 0
             /\ status'[q] \in {"new", "waiting", "stopped"} => Len(held'[q][g]) = 0
    BY DEF TablesOf, ChunksIn
  <2> QED
    BY <1>1, Zenon DEF Untouched, TablesOf
<1>4. \A job : Fills(q, job) => Fills(q, job)'
  BY DEF Untouched, Fills
<1>5. ASSUME \A u \in Loads : u.job.req = q => \E t \in Loads' : t.job = u.job, Covered(q) PROVE Covered(q)'
  <2> SUFFICES ASSUME status'[q] = "loading"
      PROVE  /\ computed'[q] = ChunksIn(computed'[q]) * TokensPerChunk
             /\ \E t \in Loads' : t.job.req = q /\ Fills(q, t.job)'
    BY DEF Covered, ChunksIn
  <2>1. status[q] = "loading" /\ computed'[q] = computed[q]
    BY DEF Untouched
  <2>2. PICK t \in Loads : t.job.req = q /\ Fills(q, t.job)
    BY <1>5, <2>1 DEF Covered
  <2>3. PICK u \in Loads' : u.job = t.job
    BY <1>5, <2>2
  <2>4. u.job.req = q /\ Fills(q, u.job)'
    BY <1>4, <2>2, <2>3
  <2>5. computed[q] = ChunksIn(computed[q]) * TokensPerChunk
    BY <1>5, <2>1 DEF Covered
  <2> QED
    BY <2>1, <2>4, <2>5
<1>6. \A t, u : t.job = u.job /\ LoadOf(t, q) => LoadOf(u, q)'
  BY DEF Untouched, LoadOf, Own
<1> QED
  BY <1>2, <1>3, <1>5, <1>6

\* Nothing is changed, or one request goes on that has no load, or keeps what its
\* load needs.
LEMMA OneTouched ==
  ASSUME TablesRight, TableTypes', Exclusive', Same(Loads, Loads'), NEW r \in Requests,
         \A q \in Requests \ {r} : Untouched(q),
         CountsOf(r)', TablesOf(r)',
         \/ /\ \A t \in Loads : t.job.req # r
            /\ status'[r] # "loading"
         \/ /\ held'[r] = held[r] /\ computed'[r] = computed[r]
            /\ status'[r] = "aborted" \/ status'[r] = status[r]
  PROVE  TablesRight'
<1>0. \A u \in Loads : \E t \in Loads' : t.job = u.job
  BY DEF Same
<1>1. \A q \in Requests \ {r} : CountsOf(q)' /\ TablesOf(q)' /\ Covered(q)'
  BY <1>0, UntouchedKeeps, Zenon DEF TablesRight
<1>2. Covered(r)'
  <2>1. CASE status'[r] # "loading"
    BY <2>1 DEF Covered
  <2>2. CASE held'[r] = held[r] /\ computed'[r] = computed[r] /\ status'[r] = "loading" /\ status[r] = "loading"
    <3>1. computed[r] = ChunksIn(computed[r]) * TokensPerChunk
      BY <2>2 DEF TablesRight, Covered
    <3>2. PICK t \in Loads : t.job.req = r /\ Fills(r, t.job)
      BY <2>2 DEF TablesRight, Covered
    <3>3. PICK u \in Loads' : u.job = t.job
      BY DEF Same
    <3>4. Fills(r, t.job)'
      BY <2>2, <3>2 DEF Fills
    <3>5. u.job.req = r /\ Fills(r, u.job)'
      BY <3>2, <3>3, <3>4
    <3>6. computed'[r] = ChunksIn(computed'[r]) * TokensPerChunk
      BY <2>2, <3>1
    <3> QED
      BY <3>5, <3>6 DEF Covered, ChunksIn
  <2>3. status'[r] # "loading" \/
          (held'[r] = held[r] /\ computed'[r] = computed[r] /\ status'[r] = "loading" /\ status[r] = "loading")
    BY Zenon
  <2> QED
    BY <2>1, <2>2, <2>3
<1>3. ASSUME NEW t \in Loads' PROVE t.job.req \in Requests /\ LoadOf(t, t.job.req)'
  <2>1. PICK u \in Loads : t.job = u.job
    BY DEF Same
  <2>2. u.job.req \in Requests /\ LoadOf(u, u.job.req) /\ t.job.req = u.job.req
    BY <2>1 DEF TablesRight
  <2>3. CASE u.job.req # r
    <3>1. Untouched(u.job.req)
      BY <2>2, <2>3
    <3>2. LoadOf(t, u.job.req)'
      BY <2>1, <2>2, <3>1, UntouchedKeeps
    <3> QED
      BY <2>2, <3>2
  <2>4. CASE u.job.req = r
    <3>1. held'[r] = held[r] /\ (status'[r] = "aborted" \/ status'[r] = status[r])
      BY <2>4
    <3>2. LoadOf(t, r)'
      BY <2>1, <2>2, <2>4, <3>1 DEF LoadOf, Own
    <3> QED
      BY <2>2, <2>4, <3>2
  <2> QED
    BY <2>3, <2>4
<1>4. \A t, u \in Loads' : t.job.req = u.job.req => t.id = u.id
  BY DEF Same, TablesRight
<1> QED
  BY <1>1, <1>2, <1>3, <1>4 DEF TablesRight

\* Tables after one request's is another one.
LEMMA TableSet ==
  ASSUME held \in [Requests -> Table], Exclusive, NEW r \in Requests, NEW table \in Table,
         held' = [held EXCEPT ![r] = table],
         \A g, h \in Groups : \A i \in DOMAIN table[g], j \in DOMAIN table[h] :
            table[g][i] = table[h][j] /\ table[g][i] # 0 => g = h /\ i = j,
         \A q \in Requests \ {r}, g, h \in Groups : \A i \in DOMAIN table[g] : \A j \in DOMAIN held[q][h] :
            table[g][i] = held[q][h][j] => table[g][i] = 0
  PROVE  held' \in [Requests -> Table] /\ Exclusive'
<1>1. held' \in [Requests -> Table]
  OBVIOUS
<1>2. held'[r] = table /\ \A q \in Requests \ {r} : held'[q] = held[q]
  OBVIOUS
<1>3. ASSUME NEW q \in Requests, NEW p \in Requests, NEW g \in Groups, NEW h \in Groups,
             NEW i \in DOMAIN held'[q][g], NEW j \in DOMAIN held'[p][h],
             held'[q][g][i] = held'[p][h][j], held'[q][g][i] # 0
      PROVE  q = p /\ g = h /\ i = j
  <2>1. CASE q # r /\ p # r
    <3>1. held'[q] = held[q] /\ held'[p] = held[p]
      BY <1>2, <2>1
    <3>2. i \in DOMAIN held[q][g] /\ j \in DOMAIN held[p][h] /\ held[q][g][i] = held[p][h][j] /\ held[q][g][i] # 0
      BY <1>3, <3>1
    <3> QED
      BY <3>2 DEF Exclusive
  <2>2. CASE q = r /\ p = r
    BY <1>2, <1>3, <2>2, ZenonT(60)
  <2>3. ASSUME NEW x \in Requests \ {r}, NEW e \in Groups, NEW f \in Groups,
               NEW k \in DOMAIN table[e], NEW l \in DOMAIN held[x][f],
               table[e][k] = held[x][f][l]
        PROVE  table[e][k] = 0
    BY <2>3
  <2>4. CASE q = r /\ p # r
    <3>1. held'[q] = table /\ held'[p] = held[p] /\ p \in Requests \ {r}
      BY <1>2, <2>4
    <3>2. table[g][i] = held[p][h][j] /\ i \in DOMAIN table[g] /\ j \in DOMAIN held[p][h]
      BY <1>3, <3>1
    <3>3. table[g][i] = 0
      BY <2>3, <3>1, <3>2
    <3> QED
      BY <1>3, <3>1, <3>3
  <2>5. CASE q # r /\ p = r
    <3>1. held'[p] = table /\ held'[q] = held[q] /\ q \in Requests \ {r}
      BY <1>2, <2>5
    <3>2. table[h][j] = held[q][g][i] /\ j \in DOMAIN table[h] /\ i \in DOMAIN held[q][g]
      BY <1>3, <3>1
    <3>3. table[h][j] = 0
      BY <2>3, <3>1, <3>2
    <3> QED
      BY <1>3, <3>1, <3>2, <3>3
  <2> QED
    BY <2>1, <2>2, <2>4, <2>5
<1> QED
  BY <1>1, <1>3 DEF Exclusive

\* A table that is given up leaves the others as they are.
LEMMA TableFreed ==
  ASSUME held \in [Requests -> Table], Exclusive, NEW r \in Requests,
         held' = [held EXCEPT ![r] = NoBlocks]
  PROVE  held' \in [Requests -> Table] /\ Exclusive' /\ \A g \in Groups : Len(held'[r][g]) = 0
<1>1. NoBlocks \in Table /\ \A g \in Groups : NoBlocks[g] = <<>>
  BY DEF NoBlocks, Table
<1>2. \A g \in Groups : DOMAIN NoBlocks[g] = {}
  BY <1>1
<1>3. held' \in [Requests -> Table] /\ Exclusive'
  BY <1>1, <1>2, TableSet
<1> QED
  BY <1>1, <1>3

\* A nonempty set of numbers up to n has a greatest.
LEMMA GreatestIs ==
  ASSUME NEW n \in Nat, NEW S \in SUBSET (0..n), S # {}
  PROVE  \E i \in S : \A k \in S : k <= i
<1> DEFINE R == {i \in 0..n : n - i \in S}
<1>1. R \in SUBSET (0..n) /\ R # {}
  <2>1. PICK s : s \in S
    OBVIOUS
  <2>2. s \in 0..n
    BY <2>1
  <2>3. n - s \in 0..n /\ n - (n - s) = s
    BY <2>2
  <2>4. n - s \in R
    BY <2>1, <2>3
  <2> QED
    BY <2>4
<1>2. PICK i \in R : \A k \in R : i <= k
  BY <1>1, LeastIs
<1>3. ASSUME NEW k \in S PROVE k <= n - i
  <2>1. k \in 0..n /\ i \in 0..n
    BY <1>1
  <2>2. n - k \in 0..n /\ n - (n - k) = k
    BY <2>1
  <2>3. n - k \in R
    BY <2>2
  <2>4. i <= n - k
    BY <1>2, <2>3
  <2> QED
    BY <2>1, <2>4
<1>4. n - i \in S
  OBVIOUS
<1> QED
  BY <1>3, <1>4

\* What a hit of h chunks reads.
LEMMA HitKeysAre ==
  ASSUME NEW h \in Nat, h <= ChunksIn(MaxTokens), NEW k
  PROVE  k \in HitKeys(h) <=> /\ k \in Keys /\ k[2] + 1 \in 1..h
                              /\ ~Behind(k[1], k[2] + 1, h * TokensPerChunk)
<1> DEFINE c == h * TokensPerChunk
<1>1. c \in Nat /\ FirstLive(c) \in Nat /\ ChunksIn(MaxTokens) \in Nat
  BY Multiples, LeftBehind, KeysAre
<1> HIDE DEF c
<1>2. HitKeys(h) = {<<"full", i>> : i \in 0..(h - 1)} \cup {<<"sliding", i>> : i \in FirstLive(c)..(h - 1)}
  BY DEF HitKeys, c
<1>3. ASSUME k \in HitKeys(h)
      PROVE  k \in Keys /\ k[2] + 1 \in 1..h /\ ~Behind(k[1], k[2] + 1, c)
  <2>1. CASE k \in {<<"full", i>> : i \in 0..(h - 1)}
    <3>1. PICK i \in 0..(h - 1) : k = <<"full", i>>
      BY <2>1
    <3>2. <<"full", (i + 1) - 1>> \in Keys
      <4>1. i + 1 \in 1..ChunksIn(MaxTokens) /\ "full" \in Groups
        BY <1>1 DEF Groups
      <4> QED
        BY <4>1, KeysAre
    <3>3. (i + 1) - 1 = i /\ k[1] = "full" /\ k[2] = i
      BY <3>1
    <3> QED
      BY <3>1, <3>2, <3>3 DEF Behind
  <2>2. CASE k \in {<<"sliding", i>> : i \in FirstLive(c)..(h - 1)}
    <3>1. PICK i \in FirstLive(c)..(h - 1) : k = <<"sliding", i>>
      BY <2>2
    <3>2. i + 1 \in 1..ChunksIn(MaxTokens) /\ i + 1 \in 1..h /\ ~(i + 1 <= FirstLive(c))
      BY <1>1
    <3>3. <<"sliding", (i + 1) - 1>> \in Keys
      BY <3>2, KeysAre DEF Groups
    <3>4. (i + 1) - 1 = i /\ k[1] = "sliding" /\ k[2] = i
      BY <1>1, <3>1
    <3> QED
      BY <3>1, <3>2, <3>3, <3>4 DEF Behind
  <2> QED
    BY <1>2, <1>3, <2>1, <2>2
<1>4. ASSUME k \in Keys, k[2] + 1 \in 1..h, ~Behind(k[1], k[2] + 1, c)
      PROVE  k \in HitKeys(h)
  <2>1. k[1] \in Groups /\ k[2] \in Nat /\ k = <<k[1], k[2]>>
    BY <1>4, KeysAre
  <2>2. k[2] \in 0..(h - 1)
    BY <1>4, <2>1
  <2>3. CASE k[1] = "full"
    BY <1>2, <2>1, <2>2, <2>3
  <2>4. CASE k[1] = "sliding"
    <3>1. k[2] \in FirstLive(c)..(h - 1)
      BY <1>1, <1>4, <2>1, <2>2, <2>4 DEF Behind
    <3> QED
      BY <1>2, <2>1, <2>4, <3>1
  <2> QED
    BY <2>1, <2>3, <2>4 DEF Groups
<1> QED
  BY <1>3, <1>4 DEF c

\* The longest hit leaves a token to compute, and all it reads is there.
LEMMA HitIs ==
  ASSUME NEW r, total[r] \in Nat, 0 < total[r], total[r] <= MaxTokens, NEW h, h = LongestHit(r)
  PROVE  /\ h \in Nat /\ h * TokensPerChunk \in Nat /\ h * TokensPerChunk < total[r]
         /\ h <= ChunksIn(MaxTokens)
         /\ \A k \in HitKeys(h) : Present(k)
<1> DEFINE T == TokensPerChunk
           n == (total[r] - 1) \div T
           hits == {x \in 0..n : \A k \in HitKeys(x) : Present(k)}
<1>1. T \in Nat \ {0} /\ MaxTokens \in Nat /\ total[r] - 1 \in Nat
  BY ChunkSize, SchedulerAssumption
<1>2. n \in Nat /\ n * T <= total[r] - 1
  BY <1>1, Floor
<1>3. 0 \in hits
  <2>1. HitKeys(0) = {}
    <3>1. 0 \in Nat /\ 0 <= ChunksIn(MaxTokens) /\ 1..0 = {}
      BY KeysAre
    <3> QED
      BY <3>1, HitKeysAre
  <2> QED
    BY <1>2, <2>1
<1>4. hits \in SUBSET (0..n)
  OBVIOUS
<1>5. h = CHOOSE x \in hits : \A y \in hits : y <= x
  BY DEF LongestHit
<1> HIDE DEF hits
<1>6. h \in hits
  <2>1. \E x \in hits : \A y \in hits : y <= x
    <3> HIDE DEF n
    <3> QED
      BY <1>2, <1>3, <1>4, GreatestIs
  <2> QED
    BY <1>5, <2>1
<1>7. h \in 0..n /\ \A k \in HitKeys(h) : Present(k)
  BY <1>6 DEF hits
<1> HIDE DEF n
<1>8. h \in Nat /\ h <= n
  BY <1>2, <1>7
<1>9. h * T \in Nat /\ h * T <= n * T /\ n * T \in Nat
  <2>1. h * T \in Nat /\ n * T \in Nat
    BY <1>1, <1>2, <1>8, Products
  <2>2. ~(n < h) => ~(n * T < h * T)
    BY <1>1, <1>2, <1>8, Products
  <2> QED
    BY <1>2, <1>8, <2>1, <2>2
<1>10. h * T < total[r]
  BY <1>1, <1>2, <1>9
<1>11. h <= ChunksIn(MaxTokens)
  <2>1. ChunksIn(h * T) = h
    BY <1>8, Multiples
  <2>2. ChunksIn(h * T) <= ChunksIn(MaxTokens)
    BY <1>1, <1>9, <1>10, ChunksGrow
  <2> QED
    BY <2>1, <2>2
<1> QED
  BY <1>7, <1>8, <1>9, <1>10, <1>11

\* Steps that leave requests and blocks alone.
LEMMA TablesKept ==
  ASSUME TablesRight, Same(Loads, Loads'), UNCHANGED <<status, computed, total, held, sched, blockIds>>
  PROVE  TablesRight'
<1>1. \A q \in Requests : Untouched(q)
  BY DEF Untouched
<1>2. \A q \in Requests : CountsOf(q)' /\ TablesOf(q)' /\ Covered(q)'
  <2>1. \A u \in Loads : \E t \in Loads' : t.job = u.job
    BY DEF Same
  <2> QED
    BY <1>1, <2>1, UntouchedKeeps, Zenon DEF TablesRight
<1>3. ASSUME NEW t \in Loads' PROVE t.job.req \in Requests /\ LoadOf(t, t.job.req)'
  <2>1. PICK u \in Loads : t.job = u.job
    BY DEF Same
  <2>2. u.job.req \in Requests /\ LoadOf(u, u.job.req) /\ t.job.req = u.job.req
    BY <2>1 DEF TablesRight
  <2>3. LoadOf(t, u.job.req)'
    BY <1>1, <2>1, <2>2, UntouchedKeeps
  <2> QED
    BY <2>2, <2>3
<1>4. \A t, u \in Loads' : t.job.req = u.job.req => t.id = u.id
  BY DEF Same, TablesRight
<1>5. TableTypes' /\ Exclusive'
  BY DEF TablesRight, TableTypes, Exclusive
<1> QED
  BY <1>2, <1>3, <1>4, <1>5 DEF TablesRight

\* A request that neither loads nor was aborted has no load under way.
LEMMA NoLoadOf ==
  ASSUME TablesRight, NEW r, status[r] \notin {"loading", "aborted"}
  PROVE  \A t \in Loads : t.job.req # r
BY DEF TablesRight, LoadOf

\* The steps that move no job leave the loads as they are.
LEMMA SameLoads ==
  ASSUME Travel, Quiet, UNCHANGED <<handlerVars, deferred, completed>>
  PROVE  Same(Loads, Loads') /\ Loads' = Loads
<1>1. Loads' = Loads
  BY QuietWays DEF Loads
<1> QED
  BY <1>1, SameIs

\* OnNewRequest and GetMatchedWaits.
LEMMA NewTables ==
  ASSUME Books, TablesRight, NEW r \in Requests, OnNewRequest(r) \/ GetMatchedWaits(r),
         Same(Loads, Loads')
  PROVE  TablesRight'
<1>1. /\ UNCHANGED <<computed, total, held, sched>>
      /\ status' = status \/ (status[r] = "new" /\ status' = [status EXCEPT ![r] = "waiting"])
      /\ blockIds' = blockIds \/ blockIds' = [blockIds EXCEPT ![r] = NoBlocks]
      /\ status[r] \in {"new", "waiting"}
  BY DEF OnNewRequest, GetMatchedWaits, extVars
<1>2. status \in [Requests -> Statuses]
  BY DEF Books, RequestsAreKnown
<1>3. TableTypes' /\ Exclusive'
  <2>1. NoBlocks \in Table
    BY DEF NoBlocks, Table
  <2> QED
    BY <1>1, <2>1 DEF TablesRight, TableTypes, Exclusive
<1>4. \A q \in Requests \ {r} : Untouched(q)
  BY <1>1, <1>2 DEF Untouched, TablesRight, TableTypes
<1>5. status'[r] = "waiting" \/ status'[r] = status[r]
  BY <1>1, <1>2
<1>6. CountsOf(r)'
  BY <1>1, <1>5 DEF TablesRight, CountsOf, Reach, Finished
<1>7. TablesOf(r)'
  BY <1>1, <1>5 DEF TablesRight, TablesOf
<1>8. (\A t \in Loads : t.job.req # r) /\ status'[r] # "loading"
  BY <1>1, <1>5, NoLoadOf
<1> QED
  BY <1>3, <1>4, <1>6, <1>7, <1>8, OneTouched

\* Preempt and Abort.
LEMMA FreedTables ==
  ASSUME Books, TablesRight, NEW r \in Requests, Preempt(r) \/ Abort(r), Same(Loads, Loads')
  PROVE  TablesRight'
<1>1. /\ status \in [Requests -> Statuses]
      /\ TableTypes /\ Exclusive /\ CountsOf(r) /\ TablesOf(r)
  BY DEF Books, RequestsAreKnown, TablesRight
<1>2. CASE Preempt(r)
  <2>1. /\ status[r] = "running" /\ sched[r] = 0 /\ status' = [status EXCEPT ![r] = "waiting"]
        /\ computed' = [computed EXCEPT ![r] = 0] /\ held' = [held EXCEPT ![r] = NoBlocks]
        /\ UNCHANGED <<total, sched, blockIds>>
    BY <1>2 DEF Preempt, conVars
  <2>2. held' \in [Requests -> Table] /\ Exclusive' /\ \A g \in Groups : Len(held'[r][g]) = 0
    BY <1>1, <2>1, TableFreed DEF TableTypes
  <2>3. TableTypes' /\ status'[r] = "waiting" /\ computed'[r] = 0
    BY <1>1, <2>1, <2>2 DEF TableTypes
  <2>4. \A q \in Requests \ {r} : Untouched(q)
    BY <1>1, <2>1 DEF Untouched, TableTypes
  <2>5. CountsOf(r)'
    BY <1>1, <2>1, <2>3 DEF CountsOf, Reach, Finished, TableTypes
  <2>6. TablesOf(r)'
    BY <2>2, <2>3 DEF TablesOf
  <2>7. \A t \in Loads : t.job.req # r
    BY <2>1, NoLoadOf
  <2> QED
    BY <2>2, <2>3, <2>4, <2>5, <2>6, <2>7, OneTouched
<1>3. CASE Abort(r)
  <2>1. /\ status[r] \in {"waiting", "loading", "running"} /\ sched[r] = 0
        /\ status' = [status EXCEPT ![r] = "aborted"]
        /\ held' = IF status[r] = "loading" THEN held ELSE [held EXCEPT ![r] = NoBlocks]
        /\ UNCHANGED <<computed, total, sched, blockIds>>
    BY <1>3 DEF Abort, RequestFinished, BetweenSteps
  <2>2. status'[r] = "aborted" /\ \A q \in Requests \ {r} : status'[q] = status[q]
    BY <1>1, <2>1
  <2>3. held' \in [Requests -> Table] /\ Exclusive'
    <3>1. CASE status[r] = "loading"
      BY <1>1, <2>1, <3>1 DEF TableTypes, Exclusive
    <3>2. CASE status[r] # "loading"
      BY <1>1, <2>1, <3>2, TableFreed DEF TableTypes
    <3> QED
      BY <3>1, <3>2
  <2>4. TableTypes' /\ \A q \in Requests \ {r} : Untouched(q)
    BY <1>1, <2>1, <2>2, <2>3 DEF TableTypes, Untouched
  <2>5. CountsOf(r)'
    BY <1>1, <2>1, <2>2 DEF CountsOf, Reach, Finished
  <2>6. TablesOf(r)'
    BY <2>2 DEF TablesOf
  <2>7. \/ /\ \A t \in Loads : t.job.req # r
           /\ status'[r] # "loading"
        \/ held'[r] = held[r] /\ computed'[r] = computed[r] /\ status'[r] = "aborted"
    BY <2>1, <2>2, NoLoadOf
  <2> QED
    BY <2>3, <2>4, <2>5, <2>6, <2>7, OneTouched
<1> QED
  BY <1>2, <1>3

\* RequestOutput.
LEMMA OutputTables ==
  ASSUME Books, TablesRight, NEW r \in Requests, NEW stops \in BOOLEAN, RequestOutput(r, stops),
         Same(Loads, Loads')
  PROVE  TablesRight'
<1> DEFINE c == computed[r] + sched[r]
<1>1. /\ status \in [Requests -> Statuses] /\ sched \in [Requests -> Nat] /\ status[r] = "running" /\ sched[r] # 0
      /\ TableTypes /\ Exclusive /\ CountsOf(r) /\ TablesOf(r)
  BY DEF Books, RequestsAreKnown, TablesRight, RequestOutput
<1>2. /\ computed' = [computed EXCEPT ![r] = c]
      /\ total' = [total EXCEPT ![r] = IF c = total[r] THEN @ + 1 ELSE @]
      /\ sched' = [sched EXCEPT ![r] = 0] /\ blockIds' = blockIds
      /\ total'[r] = MaxTokens => stops
      /\ \/ ~stops /\ UNCHANGED <<status, held>>
         \/ /\ stops /\ c = total[r]
            /\ status' = [status EXCEPT ![r] = "stopped"] /\ held' = [held EXCEPT ![r] = NoBlocks]
  BY <1>1 DEF RequestOutput, RequestFinished
<1>3. /\ c \in Nat /\ computed[r] \in Nat /\ total[r] \in Nat /\ MaxTokens \in Nat
      /\ c <= total[r] /\ 0 < total[r] /\ total[r] < MaxTokens
  BY <1>1, SchedulerAssumption DEF TableTypes, CountsOf, Reach, Finished
<1>4. /\ computed'[r] = c /\ sched'[r] = 0 /\ total'[r] \in Nat /\ total[r] <= total'[r] /\ total'[r] <= MaxTokens
      /\ c = total[r] => total'[r] = c + 1
      /\ ~stops => total'[r] < MaxTokens
  BY <1>1, <1>2, <1>3 DEF TableTypes
<1>5. Reach(r)' = c
  BY <1>3, <1>4 DEF Reach
<1>6. /\ computed' \in [Requests -> Nat] /\ total' \in [Requests -> Nat] /\ blockIds' \in [Requests -> Table]
      /\ \A q \in Requests \ {r} : /\ computed'[q] = computed[q] /\ total'[q] = total[q] /\ sched'[q] = sched[q]
                                   /\ blockIds'[q] = blockIds[q]
  BY <1>1, <1>2, <1>3, <1>4 DEF TableTypes
<1>7. \A t \in Loads : t.job.req # r
  BY <1>1, NoLoadOf
<1>8. CASE ~stops
  <2>1. UNCHANGED <<status, held>>
    BY <1>2, <1>8
  <2>2. TableTypes' /\ Exclusive' /\ \A q \in Requests \ {r} : Untouched(q)
    BY <1>1, <1>6, <2>1 DEF TableTypes, Exclusive, Untouched
  <2>3. CountsOf(r)'
    BY <1>1, <1>3, <1>4, <1>5, <1>8, <2>1 DEF CountsOf, Finished
  <2>4. TablesOf(r)'
    <3>1. \A g \in Groups : Len(held[r][g]) = ChunksIn(c) /\ Len(blockIds[r][g]) <= Len(held[r][g])
      BY <1>1 DEF TablesOf, Reach
    <3>2. \A g \in Groups : /\ Len(held'[r][g]) = ChunksIn(Reach(r)')
                            /\ Len(blockIds'[r][g]) <= Len(held'[r][g])
      BY <1>2, <1>5, <2>1, <3>1
    <3> QED
      BY <1>1, <2>1, <3>2 DEF TablesOf, ChunksIn
  <2> QED
    BY <1>1, <1>7, <2>1, <2>2, <2>3, <2>4, OneTouched
<1>9. CASE stops
  <2>1. /\ c = total[r]
        /\ status' = [status EXCEPT ![r] = "stopped"] /\ held' = [held EXCEPT ![r] = NoBlocks]
    BY <1>2, <1>9
  <2>2. held' \in [Requests -> Table] /\ Exclusive' /\ \A g \in Groups : Len(held'[r][g]) = 0
    BY <1>1, <2>1, TableFreed DEF TableTypes
  <2>3. TableTypes' /\ status'[r] = "stopped" /\ \A q \in Requests \ {r} : Untouched(q)
    BY <1>1, <1>6, <2>1, <2>2 DEF TableTypes, Untouched
  <2>4. CountsOf(r)'
    BY <1>3, <1>4, <1>5, <2>1, <2>3 DEF CountsOf, Finished
  <2>5. TablesOf(r)'
    BY <2>2, <2>3 DEF TablesOf
  <2> QED
    BY <1>7, <2>2, <2>3, <2>4, <2>5, OneTouched
<1> QED
  BY <1>8, <1>9

\* Blocks for the tokens up to n, allocated when c are computed.
LEMMA TableGrows ==
  ASSUME held \in [Requests -> Table], Exclusive, NEW r \in Requests, NEW c \in Nat, NEW n \in Nat, c <= n,
         \A g \in Groups : Len(held[r][g]) <= ChunksIn(n),
         Allocation(r, c, n).fits, held' = [held EXCEPT ![r] = Allocation(r, c, n).table]
  PROVE  /\ held' \in [Requests -> Table] /\ Exclusive' /\ held'[r] = Allocation(r, c, n).table
         /\ \A g \in Groups : Len(held'[r][g]) = ChunksIn(n) /\ DOMAIN held'[r][g] = 1..ChunksIn(n)
         /\ \A g \in Groups, i \in 1..ChunksIn(n) :
              /\ Behind(g, i, c) => held'[r][g][i] = 0
              /\ ~Behind(g, i, c) /\ i <= Len(held[r][g]) => held'[r][g][i] = held[r][g][i]
              /\ ~Behind(g, i, c) /\ ~(i <= Len(held[r][g])) => held'[r][g][i] # 0
<1> DEFINE a == Allocation(r, c, n)
           table == a.table
           l == ChunksIn(n)
<1>8. a = Allocation(r, c, n) /\ a.fits
  OBVIOUS
<1> HIDE DEF a
<1>1. /\ table \in Table /\ \A g \in Groups : Len(table[g]) = l
      /\ \A g \in Groups, i \in 1..l :
              /\ Behind(g, i, c) => table[g][i] = 0
              /\ ~Behind(g, i, c) /\ i <= Len(held[r][g]) => table[g][i] = held[r][g][i]
              /\ ~Behind(g, i, c) /\ ~(i <= Len(held[r][g])) => table[g][i] # 0
      /\ \A g, h \in Groups, i, j \in 1..l : table[g][i] = table[h][j] /\ table[g][i] # 0 => g = h /\ i = j
      /\ \A q \in Requests \ {r}, g, h \in Groups, i \in 1..l : \A j \in DOMAIN held[q][h] :
              table[g][i] = held[q][h][j] => table[g][i] = 0
  BY <1>8, AllocationIs
<1>9. table = Allocation(r, c, n).table
  BY <1>8
<1> HIDE DEF table, l
<1>2. held' = [held EXCEPT ![r] = table] /\ held'[r] = table
  BY <1>9
<1>3. \A g \in Groups : DOMAIN table[g] = 1..l
  BY <1>1 DEF Table
<1>4. /\ \A g, h \in Groups : \A i \in DOMAIN table[g], j \in DOMAIN table[h] :
            table[g][i] = table[h][j] /\ table[g][i] # 0 => g = h /\ i = j
      /\ \A q \in Requests \ {r}, g, h \in Groups : \A i \in DOMAIN table[g] : \A j \in DOMAIN held[q][h] :
            table[g][i] = held[q][h][j] => table[g][i] = 0
  <2>1. \A g, h \in Groups : \A i \in DOMAIN table[g], j \in DOMAIN table[h] :
            table[g][i] = table[h][j] /\ table[g][i] # 0 => g = h /\ i = j
    BY <1>1, <1>3
  <2>2. ASSUME NEW q \in Requests \ {r}, NEW g \in Groups, NEW h \in Groups,
               NEW i \in DOMAIN table[g], NEW j \in DOMAIN held[q][h], table[g][i] = held[q][h][j]
        PROVE  table[g][i] = 0
    <3>1. i \in 1..l
      BY <1>3
    <3> QED
      BY <1>1, <2>2, <3>1
  <2> QED
    BY <2>1, <2>2
<1>5. held' \in [Requests -> Table] /\ Exclusive'
  BY <1>1, <1>2, <1>4, TableSet
<1>6. \A g \in Groups : Len(held'[r][g]) = l /\ DOMAIN held'[r][g] = 1..l
  BY <1>1, <1>2, <1>3
<1>7. \A g \in Groups, i \in 1..l :
              /\ Behind(g, i, c) => held'[r][g][i] = 0
              /\ ~Behind(g, i, c) /\ i <= Len(held[r][g]) => held'[r][g][i] = held[r][g][i]
              /\ ~Behind(g, i, c) /\ ~(i <= Len(held[r][g])) => held'[r][g][i] # 0
  BY <1>1, <1>2, Zenon
<1> QED
  BY <1>2, <1>5, <1>6, <1>7, <1>9, Zenon DEF l

\* A request that waits or runs gets blocks for n more tokens.
ScheduleMore(r, n) == ScheduleWaiting(r, n) \/ ScheduleRunning(r, n)
\* ScheduleWaiting and ScheduleRunning, as one step.
LEMMA MoreIs ==
  ASSUME Books, TablesRight, NEW r \in Requests, NEW n \in 1..MaxTokens, ScheduleMore(r, n)
  PROVE  /\ status[r] \in {"waiting", "running"} /\ sched[r] = 0 /\ n \in Nat /\ n # 0
         /\ computed[r] \in Nat /\ computed[r] + n \in Nat /\ computed[r] + n <= total[r]
         /\ status' = [status EXCEPT ![r] = "running"] /\ sched' = [sched EXCEPT ![r] = n]
         /\ Allocation(r, computed[r], computed[r] + n).fits
         /\ held' = [held EXCEPT ![r] = Allocation(r, computed[r], computed[r] + n).table]
         /\ \A g \in Groups : Len(held[r][g]) <= ChunksIn(computed[r] + n)
         /\ \/ status[r] = "waiting" /\ computed[r] = 0 /\ blockIds' = [blockIds EXCEPT ![r] = NoBlocks]
            \/ status[r] = "running" /\ blockIds' = blockIds
         /\ UNCHANGED <<computed, total, jobs, newLoads, allocated, flush, preempted, phase>>
         /\ phase = "sched"
<1>1. /\ TableTypes /\ CountsOf(r) /\ TablesOf(r) /\ status \in [Requests -> Statuses]
      /\ sched \in [Requests -> Nat] /\ (sched[r] # 0 => status[r] = "running")
      /\ n \in Nat /\ n # 0 /\ MaxTokens \in Nat
  BY SchedulerAssumption DEF TablesRight, Books, RequestsAreKnown
<1>2. computed[r] \in Nat /\ total[r] \in Nat /\ 0 + n = n
  BY <1>1 DEF TableTypes
<1>3. CASE ScheduleWaiting(r, n)
  <2>1. /\ status[r] = "waiting" /\ n <= total[r] /\ Allocation(r, 0, n).fits
        /\ status' = [status EXCEPT ![r] = "running"] /\ sched' = [sched EXCEPT ![r] = n]
        /\ held' = [held EXCEPT ![r] = Allocation(r, 0, n).table]
        /\ blockIds' = [blockIds EXCEPT ![r] = NoBlocks]
        /\ UNCHANGED <<computed, total, jobs, newLoads, allocated, flush, preempted, phase>> /\ phase = "sched"
    BY <1>3, Zenon DEF ScheduleWaiting
  <2>2. computed[r] = 0 /\ sched[r] = 0 /\ \A g \in Groups : Len(held[r][g]) = 0
    BY <1>1, <2>1 DEF CountsOf, TablesOf
  <2>3. \A g \in Groups : Len(held[r][g]) <= ChunksIn(n)
    BY <1>1, <2>2, Ceiling, SMTT(30)
  <2> QED
    BY <1>1, <1>2, <2>1, <2>2, <2>3
<1>4. CASE ScheduleRunning(r, n)
  <2>1. /\ status[r] = "running" /\ sched[r] = 0 /\ computed[r] + n <= total[r]
        /\ Allocation(r, computed[r], computed[r] + n).fits
        /\ sched' = [sched EXCEPT ![r] = n]
        /\ held' = [held EXCEPT ![r] = Allocation(r, computed[r], computed[r] + n).table]
        /\ UNCHANGED <<status, blockIds, computed, total, jobs, newLoads, allocated, flush, preempted, phase>>
        /\ phase = "sched"
    BY <1>4, Zenon DEF ScheduleRunning, conVars
  <2>2. status' = [status EXCEPT ![r] = "running"]
    BY <1>1, <2>1
  <2>3. Reach(r) = computed[r] /\ computed[r] + n \in Nat /\ computed[r] <= computed[r] + n
    BY <1>1, <1>2, <2>1 DEF Reach
  <2>4. \A g \in Groups : Len(held[r][g]) = ChunksIn(computed[r])
    BY <2>1, <2>3, <1>1 DEF TablesOf
  <2>5. \A g \in Groups : Len(held[r][g]) <= ChunksIn(computed[r] + n)
    BY <1>2, <2>3, <2>4, ChunksGrow
  <2> QED
    BY <1>1, <1>2, <2>1, <2>2, <2>3, <2>5
<1> QED
  BY <1>3, <1>4 DEF ScheduleMore

\* They keep the tables right.
LEMMA MoreTables ==
  ASSUME Books, TablesRight, NEW r \in Requests, NEW n \in 1..MaxTokens, ScheduleMore(r, n),
         Same(Loads, Loads')
  PROVE  TablesRight'
<1> DEFINE c == computed[r]
           a == Allocation(r, c, c + n)
<1>1. /\ status[r] \in {"waiting", "running"} /\ sched[r] = 0 /\ n \in Nat /\ n # 0
      /\ c \in Nat /\ c + n \in Nat /\ c + n <= total[r]
      /\ status' = [status EXCEPT ![r] = "running"] /\ sched' = [sched EXCEPT ![r] = n]
      /\ a.fits /\ held' = [held EXCEPT ![r] = a.table]
      /\ \A g \in Groups : Len(held[r][g]) <= ChunksIn(c + n)
      /\ \/ status[r] = "waiting" /\ computed[r] = 0 /\ blockIds' = [blockIds EXCEPT ![r] = NoBlocks]
         \/ status[r] = "running" /\ blockIds' = blockIds
      /\ UNCHANGED <<computed, total>>
  BY MoreIs
<1>2. /\ status \in [Requests -> Statuses] /\ sched \in [Requests -> Nat]
      /\ TableTypes /\ Exclusive /\ CountsOf(r) /\ TablesOf(r)
  BY DEF Books, RequestsAreKnown, TablesRight
<1>3. c <= c + n /\ held \in [Requests -> Table]
  BY <1>1, <1>2 DEF TableTypes
<1> DEFINE m == c + n
<1>4. /\ held' \in [Requests -> Table] /\ Exclusive' /\ \A g \in Groups : Len(held'[r][g]) = ChunksIn(m)
  <2> HIDE DEF a, m
  <2>1. a = Allocation(r, c, m) /\ c \in Nat /\ m \in Nat /\ c <= m /\ \A g \in Groups : Len(held[r][g]) <= ChunksIn(m)
    BY <1>1, <1>3 DEF a, m
  <2>2. a.fits /\ held' = [held EXCEPT ![r] = a.table]
    BY <1>1 DEF a, m
  <2> HIDE DEF c
  <2>3. /\ held' \in [Requests -> Table] /\ Exclusive'
        /\ \A g \in Groups : Len(held'[r][g]) = ChunksIn(m) /\ DOMAIN held'[r][g] = 1..ChunksIn(m)
    <3>1. held \in [Requests -> Table] /\ Exclusive /\ r \in Requests
      BY <1>2, <1>3
    <3>2. Allocation(r, c, m).fits /\ held' = [held EXCEPT ![r] = Allocation(r, c, m).table]
      BY <2>1, <2>2
    <3>3. held' \in [Requests -> Table]
      BY <3>1, <2>1, <3>2, TableGrows
    <3>4. Exclusive'
      BY <3>1, <2>1, <3>2, TableGrows
    <3>6. a.table \in Table /\ \A g \in Groups : Len(a.table[g]) = ChunksIn(m)
      BY <3>1, <2>1, <2>2, AllocationIs
    <3>7. held'[r] = a.table
      BY <3>1, <2>2
    <3>5. \A g \in Groups : Len(held'[r][g]) = ChunksIn(m) /\ DOMAIN held'[r][g] = 1..ChunksIn(m)
      BY <3>6, <3>7 DEF Table
    <3> QED
      BY <3>3, <3>4, <3>5
  <2> QED
    BY <2>3
<1> HIDE DEF a
<1>5. status'[r] = "running" /\ sched'[r] = n /\ computed'[r] = c /\ Reach(r)' = m
  BY <1>1, <1>2 DEF Reach
<1>6. TableTypes'
  <2>1. NoBlocks \in Table
    BY DEF NoBlocks, Table
  <2> QED
    BY <1>1, <1>2, <1>4, <2>1 DEF TableTypes
<1>7. \A q \in Requests \ {r} : Untouched(q)
  BY <1>1, <1>2 DEF Untouched, TableTypes
<1>8. CountsOf(r)'
  BY <1>1, <1>2, <1>5 DEF CountsOf, Finished
<1>9. TablesOf(r)'
  <2>1. \A g \in Groups : Len(blockIds'[r][g]) <= Len(held'[r][g])
    <3>1. ChunksIn(m) \in Nat
      BY <1>1, Ceiling
    <3>2. CASE status[r] = "waiting"
      <4>1. blockIds'[r] = NoBlocks
        BY <1>1, <1>2, <3>2 DEF TableTypes
      <4>2. \A g \in Groups : Len(blockIds'[r][g]) = 0
        BY <4>1 DEF NoBlocks
      <4> QED
        BY <1>4, <3>1, <4>2
    <3>3. CASE status[r] = "running"
      <4>1. blockIds' = blockIds
        BY <1>1, <3>3
      <4>2. \A g \in Groups : Len(blockIds[r][g]) <= Len(held[r][g]) /\ Len(held[r][g]) <= ChunksIn(m)
        BY <1>1, <1>2, <3>3 DEF TablesOf
      <4>3. \A g \in Groups : Len(blockIds[r][g]) \in Nat /\ Len(held[r][g]) \in Nat
        BY <1>2 DEF TableTypes, Table
      <4> QED
        BY <1>4, <3>1, <4>1, <4>2, <4>3
    <3> QED
      BY <1>1, <3>2, <3>3
  <2>2. \A g \in Groups : Len(held'[r][g]) = ChunksIn(Reach(r)')
    BY <1>4, <1>5
  <2> QED
    BY <1>5, <2>1, <2>2 DEF TablesOf, ChunksIn
<1>10. \A t \in Loads : t.job.req # r
  BY <1>1, NoLoadOf
<1> QED
  BY <1>4, <1>5, <1>6, <1>7, <1>8, <1>9, <1>10, OneTouched

\* A load's job reads a hit into a table that has just its chunks.
LoadTable(r) == LET c == LongestHit(r) * TokensPerChunk IN Allocation(r, c, c).table

\* ScheduleLoad: the table covers the hit, the load fills the blocks of its keys.
LEMMA ScheduleLoadIs ==
  ASSUME Books, TablesRight, NEW r \in Requests, ScheduleLoad(r), NEW h, h = LongestHit(r),
         NEW table, table = LoadTable(r)
  PROVE  /\ phase = "sched" /\ preempted = {} /\ status[r] = "waiting" /\ sched[r] = 0 /\ computed[r] = 0
         /\ h \in Nat /\ h * TokensPerChunk \in Nat /\ h * TokensPerChunk < total[r] /\ ChunksIn(h * TokensPerChunk) = h
         /\ h <= ChunksIn(MaxTokens) /\ (\A k \in HitKeys(h) : k \in ready)
         /\ table \in Table /\ (\A g \in Groups : Len(table[g]) = h /\ DOMAIN table[g] = 1..h)
         /\ (\A g \in Groups, i \in 1..h : table[g][i] = 0 <=> Behind(g, i, h * TokensPerChunk))
         /\ (\A g, g2 \in Groups, i, j \in 1..h : table[g][i] = table[g2][j] /\ table[g][i] # 0 => g = g2 /\ i = j)
         /\ (\A q \in Requests \ {r}, g, g2 \in Groups, i \in 1..h : \A j \in DOMAIN held[q][g2] :
                table[g][i] = held[q][g2][j] => table[g][i] = 0)
         /\ status' = [status EXCEPT ![r] = "loading"] /\ held' = [held EXCEPT ![r] = table]
         /\ computed' = [computed EXCEPT ![r] = h * TokensPerChunk]
         /\ blockIds' = [blockIds EXCEPT ![r] = NoBlocks]
         /\ nextStored' = [nextStored EXCEPT ![r] = [g \in Groups |-> h]]
         /\ allocated' = allocated \cup {m.block : m \in LoadJob(r).moves}
         /\ LoadJob(r).moves = {[key |-> k, block |-> table[k[1]][k[2] + 1], slot |-> slotOf[k]] : k \in HitKeys(h)}
         /\ LoadJob(r).keys = HitKeys(h) /\ LoadJob(r).req = r /\ ~LoadJob(r).store
         /\ UNCHANGED <<total, sched, flush, tracked, threshold, preempted, phase, finishedIds, toStore, slotOf, ready, meta, newStores>>
<1> DEFINE T == TokensPerChunk
           c == h * T
           a == Allocation(r, c, c)
<1>1. /\ phase = "sched" /\ preempted = {} /\ status[r] = "waiting" /\ ~LookupDefers(r) /\ a.fits
      /\ status' = [status EXCEPT ![r] = "loading"] /\ held' = [held EXCEPT ![r] = table]
      /\ computed' = [computed EXCEPT ![r] = c]
      /\ blockIds' = [blockIds EXCEPT ![r] = NoBlocks]
      /\ nextStored' = [nextStored EXCEPT ![r] = [g \in Groups |-> h]]
      /\ UNCHANGED <<total, sched, flush, tracked, threshold, preempted, phase, finishedIds, toStore, slotOf, ready, meta, newStores>>
  BY Zenon DEF ScheduleLoad, LoadTable, mgrVars
<1>2. /\ LoadJob(r).moves = {[key |-> k, block |-> table[k[1]][k[2] + 1], slot |-> slotOf[k]] : k \in HitKeys(h)}
      /\ LoadJob(r).keys = HitKeys(h) /\ LoadJob(r).req = r /\ ~LoadJob(r).store
  BY DEF LoadJob, LoadTable
<1>3. allocated' = allocated \cup {m.block : m \in LoadJob(r).moves}
  <2>1. allocated' = allocated \cup {m.block : m \in {[key |-> k, block |-> table[k[1]][k[2] + 1], slot |-> slotOf[k]] : k \in HitKeys(h)}}
    BY Zenon DEF ScheduleLoad, LoadTable
  <2> QED
    BY <1>2, <2>1
<1>4. /\ TableTypes /\ Exclusive /\ CountsOf(r) /\ TablesOf(r) /\ sched \in [Requests -> Nat]
      /\ sched[r] # 0 => status[r] = "running"
  BY DEF TablesRight, Books, RequestsAreKnown
<1>5. /\ computed[r] = 0 /\ sched[r] = 0 /\ total[r] \in Nat /\ 0 < total[r] /\ total[r] <= MaxTokens
      /\ held \in [Requests -> Table]
      /\ \A g \in Groups : Len(held[r][g]) = 0
  BY <1>1, <1>4 DEF CountsOf, TablesOf, TableTypes
<1>6. /\ h \in Nat /\ c \in Nat /\ c < total[r] /\ h <= ChunksIn(MaxTokens) /\ \A k \in HitKeys(h) : Present(k)
  BY <1>5, HitIs
<1>7. ChunksIn(c) = h
  BY <1>6, Multiples
<1>8. \A k \in HitKeys(h) : k \in ready
  BY <1>1 DEF LookupDefers
<1>9. table = a.table
  BY DEF LoadTable
<1> HIDE DEF a, c
<1>10. a = Allocation(r, c, c) /\ c <= c /\ \A g \in Groups : Len(held[r][g]) <= ChunksIn(c)
  BY <1>5, <1>6, <1>7 DEF a
<1>11. a.table \in Table
  BY <1>1, <1>4, <1>5, <1>6, <1>10, AllocationIs
<1>12. \A g \in Groups : Len(a.table[g]) = ChunksIn(c)
  BY <1>1, <1>4, <1>5, <1>6, <1>10, AllocationIs
<1>13. \A g \in Groups, i \in 1..ChunksIn(c) :
              /\ Behind(g, i, c) => a.table[g][i] = 0
              /\ ~Behind(g, i, c) /\ ~(i <= Len(held[r][g])) => a.table[g][i] # 0
  BY <1>1, <1>4, <1>5, <1>6, <1>10, AllocationIs, SMTT(30)
<1>14. \A g, g2 \in Groups, i, j \in 1..ChunksIn(c) :
              a.table[g][i] = a.table[g2][j] /\ a.table[g][i] # 0 => g = g2 /\ i = j
  BY <1>1, <1>4, <1>5, <1>6, <1>10, AllocationIs
<1>15. \A q \in Requests \ {r}, g, g2 \in Groups, i \in 1..ChunksIn(c) : \A j \in DOMAIN held[q][g2] :
              a.table[g][i] = held[q][g2][j] => a.table[g][i] = 0
  BY <1>1, <1>4, <1>5, <1>6, <1>10, AllocationIs, SMTT(30)
<1>16. /\ table \in Table /\ (\A g \in Groups : Len(table[g]) = h /\ DOMAIN table[g] = 1..h)
  <2>1. \A g \in Groups : Len(table[g]) = h
    BY <1>7, <1>9, <1>12, SMTT(30)
  <2> QED
    BY <1>9, <1>11, <2>1 DEF Table
<1>17. \A g \in Groups, i \in 1..h : table[g][i] = 0 <=> Behind(g, i, c)
  BY <1>5, <1>7, <1>9, <1>13
<1>18. /\ (\A g, g2 \in Groups, i, j \in 1..h : table[g][i] = table[g2][j] /\ table[g][i] # 0 => g = g2 /\ i = j)
       /\ (\A q \in Requests \ {r}, g, g2 \in Groups, i \in 1..h : \A j \in DOMAIN held[q][g2] :
                table[g][i] = held[q][g2][j] => table[g][i] = 0)
  BY <1>7, <1>9, <1>14, <1>15
<1>19. c = h * TokensPerChunk
  BY DEF c
<1>20. /\ phase = "sched" /\ preempted = {} /\ status[r] = "waiting" /\ sched[r] = 0 /\ computed[r] = 0
       /\ h \in Nat /\ h * TokensPerChunk \in Nat /\ h * TokensPerChunk < total[r] /\ ChunksIn(h * TokensPerChunk) = h
       /\ computed' = [computed EXCEPT ![r] = h * TokensPerChunk]
  BY <1>1, <1>5, <1>6, <1>7, <1>19
<1>21. \A g \in Groups, i \in 1..h : table[g][i] = 0 <=> Behind(g, i, h * TokensPerChunk)
  BY <1>17, <1>19
<1> QED
  BY <1>1, <1>2, <1>3, <1>6, <1>8, <1>16, <1>18, <1>20, <1>21

\* It keeps the tables right.
LEMMA LoadTables ==
  ASSUME Travel, Books, TablesRight, NEW r \in Requests, ScheduleLoad(r),
         UNCHANGED <<handlerVars, deferred, completed>>
  PROVE  TablesRight'
<1> DEFINE h == LongestHit(r)
           c == h * TokensPerChunk
           table == LoadTable(r)
<1>0. h = LongestHit(r) /\ table = LoadTable(r)
  OBVIOUS
<1> HIDE DEF h, table
<1>1. /\ status[r] = "waiting" /\ sched[r] = 0 /\ computed[r] = 0
      /\ h \in Nat /\ c \in Nat /\ c < total[r] /\ ChunksIn(c) = h /\ h <= ChunksIn(MaxTokens)
      /\ table \in Table /\ (\A g \in Groups : Len(table[g]) = h /\ DOMAIN table[g] = 1..h)
      /\ (\A g \in Groups, i \in 1..h : table[g][i] = 0 <=> Behind(g, i, c))
      /\ (\A g, g2 \in Groups, i, j \in 1..h : table[g][i] = table[g2][j] /\ table[g][i] # 0 => g = g2 /\ i = j)
      /\ (\A q \in Requests \ {r}, g, g2 \in Groups, i \in 1..h : \A j \in DOMAIN held[q][g2] :
                table[g][i] = held[q][g2][j] => table[g][i] = 0)
      /\ status' = [status EXCEPT ![r] = "loading"] /\ held' = [held EXCEPT ![r] = table]
      /\ computed' = [computed EXCEPT ![r] = c] /\ blockIds' = [blockIds EXCEPT ![r] = NoBlocks]
      /\ UNCHANGED <<total, sched>>
      /\ LoadJob(r).moves = {[key |-> k, block |-> table[k[1]][k[2] + 1], slot |-> slotOf[k]] : k \in HitKeys(h)}
      /\ LoadJob(r).req = r /\ ~LoadJob(r).store
  BY <1>0, ScheduleLoadIs
<1> HIDE DEF c
<1>2. /\ TableTypes /\ Exclusive /\ status \in [Requests -> Statuses] /\ sched \in [Requests -> Nat]
      /\ CountsOf(r)
  BY DEF TablesRight, Books, RequestsAreKnown
<1>3. PICK new : Loads' = Loads \cup {new} /\ new.job = LoadJob(r) /\ new.id = counter
  <2>1. /\ ToLoad' = ToLoad \cup {NewEntry(LoadJob(r))} /\ \A d : Sent(d)' = Sent(d)
    BY LoadJobMade, LoadSetsOut
  <2>2. Loads' = Loads \cup {NewEntry(LoadJob(r))}
    BY <2>1 DEF Loads
  <2>3. NewEntry(LoadJob(r)).job = LoadJob(r) /\ NewEntry(LoadJob(r)).id = counter
    BY DEF NewEntry
  <2> QED
    BY <2>2, <2>3
<1>4. held' \in [Requests -> Table] /\ Exclusive'
  <2>1. held \in [Requests -> Table]
    BY <1>2 DEF TableTypes
  <2>2. \A g, g2 \in Groups : \A i \in DOMAIN table[g], j \in DOMAIN table[g2] :
            table[g][i] = table[g2][j] /\ table[g][i] # 0 => g = g2 /\ i = j
    BY <1>1
  <2>3. \A q \in Requests \ {r}, g, g2 \in Groups : \A i \in DOMAIN table[g] : \A j \in DOMAIN held[q][g2] :
            table[g][i] = held[q][g2][j] => table[g][i] = 0
    <3> SUFFICES ASSUME NEW q \in Requests \ {r}, NEW g \in Groups, NEW g2 \in Groups,
               NEW i \in DOMAIN table[g], NEW j \in DOMAIN held[q][g2], table[g][i] = held[q][g2][j]
        PROVE  table[g][i] = 0
      OBVIOUS
    <3>1. i \in 1..h
      BY <1>1
    <3> QED
      BY <1>1, <3>1
  <2> QED
    BY <1>1, <1>2, <2>1, <2>2, <2>3, TableSet
<1>5. TableTypes'
  <2>1. NoBlocks \in Table
    BY DEF NoBlocks, Table
  <2> QED
    BY <1>1, <1>2, <1>4, <2>1 DEF TableTypes
<1>6. \A q \in Requests \ {r} : Untouched(q)
  BY <1>1, <1>2 DEF Untouched, TableTypes
<1>7. \A q \in Requests \ {r} : CountsOf(q)' /\ TablesOf(q)' /\ Covered(q)'
  <2>1. \A u \in Loads : \E t \in Loads' : t.job = u.job
    BY <1>3
  <2> QED
    BY <1>6, <2>1, UntouchedKeeps, Zenon DEF TablesRight
<1>8. status'[r] = "loading" /\ computed'[r] = c /\ held'[r] = table /\ blockIds'[r] = NoBlocks
  BY <1>1, <1>2 DEF TableTypes
<1>9. CountsOf(r)'
  <2>1. Reach(r)' = c
    BY <1>1, <1>8 DEF Reach
  <2>2. total[r] \in Nat /\ total[r] < MaxTokens /\ total[r] <= MaxTokens /\ 0 < total[r]
    BY <1>1, <1>2 DEF CountsOf, Finished, TableTypes
  <2> QED
    BY <1>1, <1>8, <2>1, <2>2 DEF CountsOf, Finished
<1>10. TablesOf(r)'
  <2>1. \A g \in Groups : Len(held'[r][g]) = ChunksIn(computed'[r]) /\ Len(blockIds'[r][g]) = 0
    BY <1>1, <1>8 DEF NoBlocks
  <2> QED
    BY <1>8, <2>1 DEF TablesOf, ChunksIn
<1>11. Covered(r)'
  <2>1. computed'[r] = ChunksIn(computed'[r]) * TokensPerChunk
    BY <1>1, <1>8 DEF c
  <2>2. ASSUME NEW k \in Keys, k[2] + 1 \in DOMAIN held'[r][k[1]], held'[r][k[1]][k[2] + 1] # 0
        PROVE  \E m \in LoadJob(r).moves : m.key = k
    <3>1. k[1] \in Groups
      BY KeysAre
    <3>2. k[2] + 1 \in 1..h /\ ~Behind(k[1], k[2] + 1, c)
      BY <1>1, <1>8, <2>2, <3>1
    <3>3. k \in HitKeys(h)
      BY <1>1, <3>2, HitKeysAre DEF c
    <3>4. [key |-> k, block |-> table[k[1]][k[2] + 1], slot |-> slotOf[k]] \in LoadJob(r).moves
      BY <1>1, <3>3
    <3> QED
      BY <3>4
  <2>3. Fills(r, new.job)'
    BY <1>3, <2>2 DEF Fills
  <2>4. new \in Loads' /\ new.job.req = r
    BY <1>1, <1>3
  <2> QED
    BY <2>1, <2>3, <2>4 DEF Covered, ChunksIn
<1>12. LoadOf(new, r)'
  <2>1. ASSUME NEW m \in LoadJob(r).moves
        PROVE  m.key \in Keys /\ m.block \in Blocks /\ Own(r, m.key, m.block)'
    <3>1. PICK k \in HitKeys(h) : m = [key |-> k, block |-> table[k[1]][k[2] + 1], slot |-> slotOf[k]]
      BY <1>1
    <3>2. k \in Keys /\ k[2] + 1 \in 1..h /\ ~Behind(k[1], k[2] + 1, c)
      BY <1>1, HitKeysAre DEF c
    <3>3. k[1] \in Groups
      BY <3>2, KeysAre
    <3>4. table[k[1]][k[2] + 1] # 0 /\ k[2] + 1 \in DOMAIN table[k[1]]
      BY <1>1, <3>2, <3>3
    <3>5. table[k[1]][k[2] + 1] \in 0..NumBlocks
      <4>1. table[k[1]] \in Seq(0..NumBlocks) /\ k[2] + 1 \in 1..Len(table[k[1]])
        BY <1>1, <3>2, <3>3 DEF Table
      <4> QED
        BY <4>1, SequenceIs
    <3>6. NumBlocks \in Nat
      BY SchedulerAssumption
    <3>7. m.key = k /\ m.block = table[k[1]][k[2] + 1]
      BY <3>1
    <3>8. m.block \in Blocks
      BY <3>4, <3>5, <3>6, <3>7 DEF Blocks
    <3> QED
      BY <1>8, <3>2, <3>4, <3>7, <3>8 DEF Own
  <2> QED
    BY <1>3, <1>8, <2>1 DEF LoadOf
<1>13. \A t \in Loads : t.job.req # r
  BY <1>1, NoLoadOf
<1>14. ASSUME NEW t \in Loads' PROVE t.job.req \in Requests /\ LoadOf(t, t.job.req)'
  <2>1. CASE t = new
    BY <1>1, <1>3, <1>12, <2>1
  <2>2. CASE t \in Loads
    <3>1. t.job.req \in Requests /\ LoadOf(t, t.job.req) /\ t.job.req # r
      BY <1>13, <2>2 DEF TablesRight
    <3> QED
      BY <1>6, <3>1, UntouchedKeeps
  <2> QED
    BY <1>3, <2>1, <2>2
<1>15. \A t, u \in Loads' : t.job.req = u.job.req => t.id = u.id
  BY <1>1, <1>3, <1>13 DEF TablesRight
<1> QED
  BY <1>4, <1>5, <1>7, <1>9, <1>10, <1>11, <1>14, <1>15 DEF TablesRight

\* The part of a sequence from place n + 1 on.
LEMMA RestIs ==
  ASSUME NEW S, NEW s \in Seq(S), NEW n \in Nat, n <= Len(s), NEW b, b = SubSeq(s, n + 1, Len(s))
  PROVE  /\ b \in Seq(S) /\ Len(b) = Len(s) - n
         /\ \A i \in 1..(Len(s) - n) : b[i] = s[n + i]
<1> DEFINE l == Len(s)
<1>1. l \in Nat /\ \A i \in 1..l : s[i] \in S
  OBVIOUS
<1> HIDE DEF l
<1>2. n + 1 \in Int /\ l \in Int /\ n <= l /\ \A i \in (n + 1)..l : s[i] \in S
  BY <1>1 DEF l
<1>3. /\ SubSeq(s, n + 1, l) \in Seq(S)
      /\ Len(SubSeq(s, n + 1, l)) = IF n + 1 <= l THEN l - (n + 1) + 1 ELSE 0
      /\ \A i \in 1..(l - (n + 1) + 1) : SubSeq(s, n + 1, l)[i] = s[n + 1 + i - 1]
  BY <1>2, SubSeqProperties
<1>4. b = SubSeq(s, n + 1, l)
  BY DEF l
<1> HIDE DEF l
<1>5. Len(b) = l - n
  BY <1>1, <1>2, <1>3, <1>4
<1>6. \A i \in 1..(l - n) : b[i] = s[n + i]
  <2> SUFFICES ASSUME NEW i \in 1..(l - n) PROVE b[i] = s[n + i]
    OBVIOUS
  <2>1. i \in 1..(l - (n + 1) + 1) /\ n + 1 + i - 1 = n + i
    BY <1>1, <1>2
  <2>2. SubSeq(s, n + 1, l)[i] = s[n + 1 + i - 1]
    BY <1>3, <2>1
  <2> QED
    BY <1>4, <2>1, <2>2
<1> QED
  BY <1>3, <1>4, <1>5, <1>6 DEF l

\* One after the other.
LEMMA Joined ==
  ASSUME NEW S, NEW s \in Seq(S), NEW t \in Seq(S), NEW b, b = s \o t
  PROVE  /\ b \in Seq(S) /\ Len(b) = Len(s) + Len(t)
         /\ \A i \in 1..Len(s) : b[i] = s[i]
         /\ \A i \in 1..Len(t) : b[Len(s) + i] = t[i]
<1>1. /\ b \in Seq(S) /\ Len(b) = Len(s) + Len(t)
      /\ \A i \in 1..(Len(s) + Len(t)) : b[i] = IF i <= Len(s) THEN s[i] ELSE t[i - Len(s)]
  BY ConcatProperties
<1>2. Len(s) \in Nat /\ Len(t) \in Nat
  OBVIOUS
<1>3. ASSUME NEW i \in 1..Len(t) PROVE b[Len(s) + i] = t[i]
  <2>1. Len(s) + i \in 1..(Len(s) + Len(t)) /\ ~(Len(s) + i <= Len(s)) /\ (Len(s) + i) - Len(s) = i
    BY <1>2
  <2> QED
    BY <1>1, <2>1
<1>4. ASSUME NEW i \in 1..Len(s) PROVE b[i] = s[i]
  <2>1. i \in 1..(Len(s) + Len(t)) /\ i <= Len(s)
    BY <1>2
  <2> QED
    BY <1>1, <2>1
<1> QED
  BY <1>1, <1>3, <1>4

\* The blocks a request got in this step.
FreshBlock(q, g, i, b) ==
  sched[q] # 0 /\ i \in DOMAIN held[q][g] /\ ~(i <= Len(blockIds[q][g])) /\ held[q][g][i] = b
\* Whether the copy's entry i is a sliding-window block given away in this step.
GivenAway(q, g, i) ==
  g = "sliding" /\ q \in tracked /\ i > nextStored[q][g] /\ blockIds[q][g][i] \in allocated'
\* The copy of a table t after a step's beginning.
Refreshed(q, g, t) ==
  /\ t \in Seq(0..NumBlocks)
  /\ Len(t) = IF sched[q] # 0 THEN Len(held[q][g]) ELSE Len(blockIds[q][g])
  /\ \A i \in 1..Len(blockIds[q][g]) : t[i] = IF GivenAway(q, g, i) THEN 0 ELSE blockIds[q][g][i]
  /\ \A i \in 1..Len(held[q][g]) : sched[q] # 0 /\ ~(i <= Len(blockIds[q][g])) => t[i] = held[q][g][i]

\* StartMeta: the copies of the tables are extended, and lose sliding-window blocks
\* that were given away in this step.
LEMMA StartMetaIs ==
  ASSUME Books, TablesRight, StartMeta
  PROVE  /\ phase = "sched" /\ phase' = "build"
         /\ \A b : b \in allocated' <=> b # 0 /\ (b \in allocated \/ \E q \in Requests, g \in Groups : \E i : FreshBlock(q, g, i, b))
         /\ blockIds' = [r \in Requests |-> [g \in Groups |-> blockIds'[r][g]]]
         /\ \A q \in Requests, g \in Groups : Refreshed(q, g, blockIds'[q][g])
         /\ \A j : j \in flush' <=> \/ j \in flush
                                    \/ \E r \in preempted : j \in JobsOf(r)
                                    \/ \E w \in watch : w[1] \in allocated' /\ w[2] = j
         /\ toStore' = Scheduled \cup (finishedIds \cap tracked)
         /\ UNCHANGED <<status, computed, total, held, sched, finishedIds, preempted,
                   preemptions, resets, tracked, signaled, nextStored, jobs,
                   counter, threshold, watch, beingLoaded, newLoads, newStores,
                   meta, mgrVars>>
<1> DEFINE New(r, g) == Zeroed(r, g) \o (IF r \in Scheduled THEN NewBlocks(r, g) ELSE <<>>)
<1>1. /\ phase = "sched" /\ phase' = "build"
      /\ allocated' = AllocatedNow
      /\ blockIds' = [r \in Requests |-> [g \in Groups |-> New(r, g)]]
      /\ flush' = flush \cup (UNION {JobsOf(r) : r \in preempted}) \cup {p[2] : p \in {w \in watch : w[1] \in AllocatedNow}}
      /\ toStore' = Scheduled \cup (finishedIds \cap tracked)
      /\ UNCHANGED <<status, computed, total, held, sched, finishedIds, preempted,
                   preemptions, resets, tracked, signaled, nextStored, jobs,
                   counter, threshold, watch, beingLoaded, newLoads, newStores,
                   meta, mgrVars>>
  BY Zenon DEF StartMeta
<1>1a. \A q \in Requests : q \in Scheduled <=> sched[q] # 0
  BY DEF Scheduled
<1>2. TableTypes /\ \A q \in Requests : TablesOf(q) /\ (sched[q] # 0 => status[q] = "running")
  BY DEF TablesRight, Books, RequestsAreKnown
<1>3. ASSUME NEW q \in Requests, NEW g \in Groups, sched[q] # 0
      PROVE  /\ NewBlocks(q, g) \in Seq(0..NumBlocks) /\ Len(NewBlocks(q, g)) = Len(held[q][g]) - Len(blockIds[q][g])
             /\ \A i \in 1..(Len(held[q][g]) - Len(blockIds[q][g])) : NewBlocks(q, g)[i] = held[q][g][Len(blockIds[q][g]) + i]
             /\ Len(held[q][g]) \in Nat /\ Len(blockIds[q][g]) \in Nat /\ Len(blockIds[q][g]) <= Len(held[q][g])
  <2>1. held[q][g] \in Seq(0..NumBlocks) /\ blockIds[q][g] \in Seq(0..NumBlocks)
    BY <1>2 DEF TableTypes, Table
  <2>2. Len(blockIds[q][g]) \in Nat /\ Len(held[q][g]) \in Nat
    BY <2>1
  <2>3. Len(blockIds[q][g]) <= Len(held[q][g])
    BY <1>2, <1>3 DEF TablesOf
  <2> DEFINE new == NewBlocks(q, g)
             n == Len(blockIds[q][g])
             s == held[q][g]
  <2>4. s \in Seq(0..NumBlocks) /\ n \in Nat /\ n <= Len(s) /\ new = SubSeq(s, n + 1, Len(s))
    BY <2>1, <2>2, <2>3 DEF NewBlocks
  <2> HIDE DEF new, n, s
  <2>5. /\ new \in Seq(0..NumBlocks) /\ Len(new) = Len(s) - n
        /\ \A i \in 1..(Len(s) - n) : new[i] = s[n + i]
    <3> DEFINE X == 0..NumBlocks
    <3>1. s \in Seq(X)
      BY <2>4
    <3> HIDE DEF X
    <3>2. /\ new \in Seq(X) /\ Len(new) = Len(s) - n
          /\ \A i \in 1..(Len(s) - n) : new[i] = s[n + i]
      BY <2>4, <3>1, RestIs
    <3> QED
      BY <3>2 DEF X
  <2> QED
    BY <2>2, <2>3, <2>5 DEF new, n, s
<1>4. ASSUME NEW q \in Requests, NEW g \in Groups, sched[q] # 0, NEW b
      PROVE  b \in Range(NewBlocks(q, g)) <=> \E i : FreshBlock(q, g, i, b)
  <2> DEFINE new == NewBlocks(q, g)
             n == Len(blockIds[q][g])
             s == held[q][g]
  <2>1. /\ new \in Seq(0..NumBlocks) /\ Len(new) = Len(s) - n /\ s \in Seq(0..NumBlocks)
        /\ \A i \in 1..(Len(s) - n) : new[i] = s[n + i]
        /\ Len(s) \in Nat /\ n \in Nat /\ n <= Len(s) /\ sched[q] # 0
    BY <1>2, <1>3, <1>4 DEF TableTypes, Table
  <2>2. \A i : FreshBlock(q, g, i, b) <=> i \in DOMAIN s /\ ~(i <= n) /\ s[i] = b
    BY <2>1 DEF FreshBlock
  <2> HIDE DEF new, n, s
  <2>3. DOMAIN new = 1..(Len(s) - n) /\ DOMAIN s = 1..Len(s)
    BY <2>1
  <2>4. ASSUME b \in Range(new) PROVE \E i : i \in DOMAIN s /\ ~(i <= n) /\ s[i] = b
    <3>1. PICK i \in 1..(Len(s) - n) : b = new[i]
      BY <2>3, <2>4 DEF Range
    <3>2. n + i \in 1..Len(s) /\ ~(n + i <= n) /\ s[n + i] = b
      BY <2>1, <3>1
    <3> QED
      BY <2>3, <3>2
  <2>5. ASSUME NEW i \in DOMAIN s, ~(i <= n), s[i] = b PROVE b \in Range(new)
    <3>1. i - n \in 1..(Len(s) - n) /\ n + (i - n) = i
      BY <2>1, <2>3, <2>5
    <3>2. new[i - n] = b
      BY <2>1, <2>5, <3>1
    <3> QED
      BY <2>3, <3>1, <3>2 DEF Range
  <2>6. b \in Range(new) <=> \E i : FreshBlock(q, g, i, b)
    BY <2>2, <2>4, <2>5
  <2> QED
    BY <2>6 DEF new
<1>5. ASSUME NEW q \in Requests, NEW g \in Groups
      PROVE  Refreshed(q, g, New(q, g))
  <2> DEFINE old == blockIds[q][g]
             s == held[q][g]
             k == Zeroed(q, g)
             m == IF q \in Scheduled THEN NewBlocks(q, g) ELSE <<>>
             Stale(i) == g = "sliding" /\ q \in tracked /\ i > nextStored[q][g] /\ old[i] \in AllocatedNow
             t == k \o m
  <2>1. old \in Seq(0..NumBlocks) /\ s \in Seq(0..NumBlocks)
    BY <1>2 DEF TableTypes, Table
  <2>2. Len(old) \in Nat /\ DOMAIN old = 1..Len(old) /\ \A i \in 1..Len(old) : old[i] \in 0..NumBlocks
    BY <2>1, SequenceIs
  <2>3. k = [i \in 1..Len(old) |-> IF Stale(i) THEN 0 ELSE old[i]]
    BY <2>2, Zenon DEF Zeroed
  <2>4. \A i \in 1..Len(old) : Stale(i) <=> GivenAway(q, g, i)
    <3>1. allocated' = AllocatedNow
      BY <1>1
    <3> QED
      BY <3>1, Zenon DEF GivenAway
  <2>5. NumBlocks \in Nat
    BY SchedulerAssumption
  <2>6. k = [i \in 1..Len(old) |-> k[i]] /\ \A i \in 1..Len(old) : k[i] \in 0..NumBlocks /\ k[i] = IF Stale(i) THEN 0 ELSE old[i]
    <3> HIDE DEF k, old
    <3> QED
      BY <2>2, <2>3, <2>5
  <2>7. /\ m \in Seq(0..NumBlocks) /\ Len(m) = (IF sched[q] # 0 THEN Len(s) - Len(old) ELSE 0)
        /\ sched[q] # 0 => /\ \A i \in 1..(Len(s) - Len(old)) : m[i] = s[Len(old) + i]
                           /\ Len(s) \in Nat /\ Len(old) <= Len(s)
    <3>1. CASE sched[q] # 0
      <4>1. m = NewBlocks(q, g)
        BY <1>1a, <3>1
      <4> HIDE DEF m
      <4> QED
        BY <1>3, <3>1, <4>1
    <3>2. CASE sched[q] = 0
      <4>1. m = <<>>
        BY <1>1a, <3>2
      <4> HIDE DEF m
      <4> QED
        BY <3>2, <4>1
    <3> QED
      BY <3>1, <3>2
  <2> HIDE DEF k, old, m, s, Stale
  <2>8. k \in Seq(0..NumBlocks) /\ Len(k) = Len(old)
    BY <2>2, <2>6, SequenceMade
  <2>8b. t = k \o m
    OBVIOUS
  <2> HIDE DEF t
  <2>9. /\ t \in Seq(0..NumBlocks) /\ Len(t) = Len(k) + Len(m)
        /\ \A i \in 1..Len(k) : t[i] = k[i]
        /\ \A i \in 1..Len(m) : t[Len(k) + i] = m[i]
    <3> DEFINE X == 0..NumBlocks
    <3>1. k \in Seq(X) /\ m \in Seq(X)
      BY <2>7, <2>8
    <3> HIDE DEF X
    <3>2. /\ t \in Seq(X) /\ Len(t) = Len(k) + Len(m)
          /\ \A i \in 1..Len(k) : t[i] = k[i]
          /\ \A i \in 1..Len(m) : t[Len(k) + i] = m[i]
      BY <2>8b, <3>1, Joined
    <3> QED
      BY <3>2 DEF X
  <2> HIDE DEF t
  <2>10. Len(t) = IF sched[q] # 0 THEN Len(s) ELSE Len(old)
    BY <2>2, <2>7, <2>8, <2>9
  <2>11. \A i \in 1..Len(old) : t[i] = IF GivenAway(q, g, i) THEN 0 ELSE old[i]
    BY <2>4, <2>6, <2>8, <2>9
  <2>12. ASSUME NEW i \in 1..Len(s), sched[q] # 0, ~(i <= Len(old)) PROVE t[i] = s[i]
    <3>1. i - Len(old) \in 1..(Len(s) - Len(old)) /\ Len(old) + (i - Len(old)) = i
      BY <2>2, <2>7, <2>12
    <3>2. Len(m) = Len(s) - Len(old) /\ m[i - Len(old)] = s[i]
      BY <2>7, <2>12, <3>1
    <3> QED
      BY <2>8, <2>9, <3>1, <3>2
  <2> QED
    BY <2>9, <2>10, <2>11, <2>12 DEF Refreshed, t, k, m, s, old
<1>6. ASSUME NEW b
      PROVE  b \in allocated' <=> b # 0 /\ (b \in allocated \/ \E q \in Requests, g \in Groups : \E i : FreshBlock(q, g, i, b))
  <2> DEFINE S == UNION {Range(NewBlocks(r, "full")) \cup Range(NewBlocks(r, "sliding")) : r \in Scheduled}
  <2>0a. b \in S <=> \E q \in Scheduled : b \in Range(NewBlocks(q, "full")) \/ b \in Range(NewBlocks(q, "sliding"))
    OBVIOUS
  <2>0b. b \in AllocatedNow <=> b # 0 /\ (b \in allocated \/ b \in S)
    BY Zenon DEF AllocatedNow
  <2>0c. \A q : (b \in Range(NewBlocks(q, "full")) \/ b \in Range(NewBlocks(q, "sliding")))
                <=> \E g \in Groups : b \in Range(NewBlocks(q, g))
    BY Zenon DEF Groups
  <2> HIDE DEF S
  <2>1. b \in AllocatedNow <=> b # 0 /\ (b \in allocated \/ \E q \in Scheduled, g \in Groups : b \in Range(NewBlocks(q, g)))
    BY <2>0a, <2>0b, <2>0c, Zenon
  <2>2. \A q \in Requests, g \in Groups : (\E i : FreshBlock(q, g, i, b)) => q \in Scheduled
    BY <1>1a DEF FreshBlock
  <2>3. (\E q \in Scheduled, g \in Groups : b \in Range(NewBlocks(q, g)))
           <=> \E q \in Requests, g \in Groups : \E i : FreshBlock(q, g, i, b)
    <3>1. ASSUME NEW q \in Scheduled, NEW g \in Groups, b \in Range(NewBlocks(q, g))
          PROVE  \E p \in Requests, h \in Groups : \E i : FreshBlock(p, h, i, b)
      <4>1. q \in Requests /\ sched[q] # 0
        BY DEF Scheduled
      <4>2. \E i : FreshBlock(q, g, i, b)
        BY <1>4, <3>1, <4>1
      <4> QED
        BY <4>1, <4>2
    <3>2. ASSUME NEW q \in Requests, NEW g \in Groups, \E i : FreshBlock(q, g, i, b)
          PROVE  \E p \in Scheduled, h \in Groups : b \in Range(NewBlocks(p, h))
      <4>1. q \in Scheduled
        BY <2>2, <3>2
      <4>2. b \in Range(NewBlocks(q, g))
        BY <1>1a, <1>4, <3>2, <4>1
      <4> QED
        BY <4>1, <4>2
    <3> QED
      BY <3>1, <3>2, Zenon
  <2> QED
    BY <1>1, <2>1, <2>3
<1>7. \A j : j \in flush' <=> \/ j \in flush
                              \/ \E r \in preempted : j \in JobsOf(r)
                              \/ \E w \in watch : w[1] \in allocated' /\ w[2] = j
  <2>1. flush' = flush \cup (UNION {JobsOf(r) : r \in preempted}) \cup {p[2] : p \in {w \in watch : w[1] \in AllocatedNow}}
    BY <1>1
  <2>2. \A j : j \in {p[2] : p \in {w \in watch : w[1] \in AllocatedNow}} <=> \E w \in watch : w[1] \in AllocatedNow /\ w[2] = j
    OBVIOUS
  <2>3. \A j : j \in UNION {JobsOf(r) : r \in preempted} <=> \E r \in preempted : j \in JobsOf(r)
    OBVIOUS
  <2>4. allocated' = AllocatedNow
    BY <1>1
  <2> QED
    BY <2>1, <2>2, <2>3, <2>4
<1>8. \A q \in Requests, g \in Groups : Refreshed(q, g, blockIds'[q][g])
  <2> SUFFICES ASSUME NEW q \in Requests, NEW g \in Groups PROVE Refreshed(q, g, blockIds'[q][g])
    OBVIOUS
  <2>1. blockIds'[q][g] = New(q, g)
    BY <1>1
  <2>2. Refreshed(q, g, New(q, g))
    BY <1>5, Zenon
  <2> QED
    BY <2>1, <2>2
<1>9. blockIds' = [r \in Requests |-> [g \in Groups |-> blockIds'[r][g]]]
  <2> QED
    BY <1>1
<1>10. /\ phase = "sched" /\ phase' = "build" /\ toStore' = Scheduled \cup (finishedIds \cap tracked)
       /\ UNCHANGED <<status, computed, total, held, sched, finishedIds, preempted,
                   preemptions, resets, tracked, signaled, nextStored, jobs,
                   counter, threshold, watch, beingLoaded, newLoads, newStores,
                   meta, mgrVars>>
  BY <1>1, Zenon
<1> QED
  BY <1>6, <1>7, <1>8, <1>9, <1>10, Zenon

\* StartMeta.
LEMMA StartTables ==
  ASSUME Books, TablesRight, StartMeta, Loads' = Loads
  PROVE  TablesRight'
<1>1. /\ UNCHANGED <<status, computed, total, held, sched>>
      /\ blockIds' = [r \in Requests |-> [g \in Groups |-> blockIds'[r][g]]]
      /\ \A q \in Requests, g \in Groups : Refreshed(q, g, blockIds'[q][g])
  BY StartMetaIs, Zenon
<1>2. TableTypes /\ Exclusive
  BY DEF TablesRight
<1>3. TableTypes'
  <2>1. \A q \in Requests, g \in Groups : blockIds'[q][g] \in Seq(0..NumBlocks)
    BY <1>1 DEF Refreshed
  <2>2. blockIds' \in [Requests -> [Groups -> Seq(0..NumBlocks)]]
    BY <1>1, <2>1, Zenon
  <2> QED
    BY <1>1, <1>2, <2>2 DEF TableTypes, Table
<1>4. Exclusive'
  BY <1>1, <1>2 DEF Exclusive
<1>5. ASSUME NEW q \in Requests PROVE CountsOf(q)' /\ TablesOf(q)' /\ Covered(q)'
  <2>1. CountsOf(q) /\ TablesOf(q) /\ Covered(q) /\ (sched[q] # 0 => status[q] = "running")
    BY DEF TablesRight, Books, RequestsAreKnown
  <2>2. CountsOf(q)' /\ Reach(q)' = Reach(q)
    BY <1>1, <2>1 DEF CountsOf, Reach, Finished
  <2>3. Covered(q)'
    BY <1>1, <2>1 DEF Covered, Fills, ChunksIn
  <2>4. ASSUME NEW g \in Groups PROVE Len(blockIds'[q][g]) = IF sched[q] # 0 THEN Len(held[q][g]) ELSE Len(blockIds[q][g])
    BY <1>1 DEF Refreshed
  <2>5. ASSUME NEW g \in Groups
        PROVE  /\ status[q] = "running" => /\ Len(held[q][g]) = ChunksIn(Reach(q))
                                           /\ Len(blockIds'[q][g]) <= Len(held[q][g])
               /\ status[q] = "loading" => /\ Len(held[q][g]) = ChunksIn(computed[q])
                                           /\ Len(blockIds'[q][g]) = 0
               /\ status[q] \in {"new", "waiting", "stopped"} => Len(held[q][g]) = 0
    <3>1. held[q][g] \in Seq(0..NumBlocks)
      BY <1>2 DEF TableTypes, Table
    <3>2. Len(held[q][g]) \in Nat
      BY <3>1
    <3>3. CASE sched[q] # 0
      BY <2>1, <2>4, <3>2, <3>3 DEF TablesOf
    <3>4. CASE sched[q] = 0
      BY <2>1, <2>4, <3>4 DEF TablesOf
    <3> QED
      BY <3>3, <3>4
  <2>6. TablesOf(q)'
    BY <1>1, <2>2, <2>5 DEF TablesOf, ChunksIn
  <2> QED
    BY <2>2, <2>3, <2>6
<1>6. ASSUME NEW t \in Loads' PROVE t.job.req \in Requests /\ LoadOf(t, t.job.req)'
  <2>1. t.job.req \in Requests /\ LoadOf(t, t.job.req)
    BY DEF TablesRight
  <2> QED
    BY <1>1, <2>1 DEF LoadOf, Own
<1>7. \A t, u \in Loads' : t.job.req = u.job.req => t.id = u.id
  BY DEF TablesRight
<1> QED
  BY <1>3, <1>4, <1>5, <1>6, <1>7 DEF TablesRight

\* What a completion leaves on its way.
LEMMA OthersStay ==
  ASSUME Travel, NEW t \in completed, GiveOutput(t)
  PROVE  /\ \A u \in Loads' : u \in Loads /\ u.id # t.id
         /\ \A u \in Loads : u = t \/ u \in Loads'
         /\ ~t.job.store => t \in Loads
<1>1. /\ completed' = completed \ {t} /\ ToLoad' = ToLoad /\ Sent("load")' = Sent("load")
  BY OutputWays, Zenon
<1>2. /\ Apart(Ids(ToLoad), Ids(ToSave), Ids(deferred), Ids(Sent("store")), Ids(Sent("load")), Ids(completed))
      /\ Single(completed)
  BY DEF Travel, OneWay
<1>3. t.id \in Ids(completed)
  BY DEF Ids
<1>4. t.id \notin Ids(ToLoad) /\ t.id \notin Ids(Sent("load"))
  BY <1>2, <1>3 DEF Apart
<1>5. \A u \in Loads' : u \in Loads /\ u.id # t.id
  BY <1>1, <1>2, <1>4 DEF Loads, Ids, Single
<1>6. \A u \in Loads : u = t \/ u \in Loads'
  BY <1>1 DEF Loads
<1> QED
  BY <1>5, <1>6 DEF Loads

\* GiveOutput.
LEMMA GivenTables ==
  ASSUME Travel, Books, TablesRight, NEW t \in completed, GiveOutput(t)
  PROVE  TablesRight'
<1>1. /\ \A u \in Loads' : u \in Loads /\ u.id # t.id
      /\ \A u \in Loads : u = t \/ u \in Loads'
      /\ ~t.job.store => t \in Loads
  BY OthersStay
<1>2. /\ UNCHANGED <<computed, total, sched, blockIds>> /\ \A q \in Requests : sched[q] = 0
      /\ t.job.store => UNCHANGED <<status, held>>
      /\ ~t.job.store => LoadArrived(t.job.req)
  BY DEF GiveOutput, ConnectorOutput
<1>3. CASE t.job.store
  <2>1. t \notin Loads
    <3>1. t.id \in Ids(completed)
      BY DEF Ids
    <3>2. t.id \notin Ids(ToLoad) /\ t.id \notin Ids(Sent("load"))
      BY <3>1 DEF Travel, OneWay, Apart
    <3> QED
      BY <1>3, <3>2 DEF Loads, Ids
  <2>2. Loads' = Loads
    BY <1>1, <2>1
  <2>3. Same(Loads, Loads')
    BY <2>2 DEF Same
  <2> QED
    BY <1>2, <1>3, <2>3, TablesKept
<1>4. CASE ~t.job.store
  <2> DEFINE r == t.job.req
  <2>1. t \in Loads /\ r \in Requests /\ LoadOf(t, r) /\ LoadArrived(r) /\ sched[r] = 0
    BY <1>1, <1>2, <1>4 DEF TablesRight
  <2>2. /\ status \in [Requests -> Statuses] /\ TableTypes /\ Exclusive /\ CountsOf(r) /\ TablesOf(r)
    BY <2>1 DEF Books, RequestsAreKnown, TablesRight
  <2>3. \A u \in Loads' : u.job.req # r
    BY <1>1, <2>1 DEF TablesRight
  <2>4. \/ /\ status[r] = "loading" /\ status' = [status EXCEPT ![r] = "running"] /\ held' = held
        \/ /\ status[r] = "aborted" /\ held' = [held EXCEPT ![r] = NoBlocks] /\ status' = status
    BY <2>1, Zenon DEF LoadArrived, LoadOf
  <2> HIDE DEF r
  <2>5. /\ held' \in [Requests -> Table] /\ Exclusive'
        /\ \A q \in Requests \ {r} : status'[q] = status[q] /\ held'[q] = held[q]
        /\ status[r] = "loading" => status'[r] = "running" /\ held'[r] = held[r]
        /\ status'[r] \in {"running", "aborted"} /\ (status'[r] = "running" => status[r] = "loading")
    <3>1. CASE status[r] = "loading"
      BY <2>1, <2>2, <2>4, <3>1 DEF TableTypes, Exclusive
    <3>2. CASE status[r] = "aborted"
      <4>1. held' = [held EXCEPT ![r] = NoBlocks] /\ status' = status
        BY <2>4, <3>2
      <4>2. held' \in [Requests -> Table] /\ Exclusive'
        BY <2>1, <2>2, <4>1, TableFreed DEF TableTypes
      <4>3. \A q \in Requests \ {r} : held'[q] = held[q]
        BY <2>2, <4>1 DEF TableTypes
      <4> QED
        BY <3>2, <4>1, <4>2, <4>3
    <3> QED
      BY <2>4, <3>1, <3>2
  <2>6. TableTypes' /\ \A q \in Requests \ {r} : Untouched(q)
    BY <1>2, <2>2, <2>5 DEF TableTypes, Untouched
  <2>7. \A q \in Requests \ {r} : \A u \in Loads : u.job.req = q => \E x \in Loads' : x.job = u.job
    BY <1>1 DEF r
  <2>8. \A q \in Requests \ {r} : CountsOf(q)' /\ TablesOf(q)' /\ Covered(q)'
    BY <2>6, <2>7, UntouchedKeeps, Zenon DEF TablesRight
  <2>9. Reach(r)' = computed[r] /\ Reach(r) = computed[r]
    BY <1>2, <2>1, <2>2 DEF Reach, TableTypes
  <2>10. CountsOf(r)'
    <3>1. Finished(r)' <=> Finished(r)
      BY <2>4, <2>5 DEF Finished
    <3> QED
      BY <1>2, <2>2, <2>5, <2>9, <3>1 DEF CountsOf
  <2>11. TablesOf(r)'
    <3>1. CASE status'[r] = "running"
      <4>1. status[r] = "loading" /\ held'[r] = held[r]
        BY <2>5, <3>1
      <4>2. ASSUME NEW g \in Groups PROVE Len(held'[r][g]) = ChunksIn(computed[r]) /\ Len(blockIds'[r][g]) <= Len(held'[r][g])
        <5>1. Len(held[r][g]) = ChunksIn(computed[r]) /\ Len(blockIds[r][g]) = 0
          BY <2>2, <4>1 DEF TablesOf
        <5>2. held[r][g] \in Seq(0..NumBlocks)
          BY <2>1, <2>2 DEF TableTypes, Table
        <5>3. Len(held[r][g]) \in Nat
          BY <5>2
        <5> QED
          BY <1>2, <4>1, <5>1, <5>3
      <4> QED
        BY <2>9, <3>1, <4>2 DEF TablesOf, ChunksIn
    <3>2. CASE status'[r] = "aborted"
      BY <3>2 DEF TablesOf
    <3> QED
      BY <2>5, <3>1, <3>2
  <2>12. Covered(r)'
    BY <2>5 DEF Covered
  <2>13. ASSUME NEW u \in Loads' PROVE u.job.req \in Requests /\ LoadOf(u, u.job.req)'
    <3>1. u \in Loads /\ u.job.req # r
      BY <1>1, <2>3
    <3>2. u.job.req \in Requests /\ LoadOf(u, u.job.req)
      BY <3>1 DEF TablesRight
    <3> QED
      BY <2>6, <3>1, <3>2, UntouchedKeeps
  <2>14. \A u, v \in Loads' : u.job.req = v.job.req => u.id = v.id
    BY <1>1 DEF TablesRight
  <2> QED
    BY <2>5, <2>6, <2>8, <2>10, <2>11, <2>12, <2>13, <2>14 DEF TablesRight
<1> QED
  BY <1>3, <1>4

\* The steps that move no job.
LEMMA QuietTables ==
  ASSUME Travel, Books, TablesRight, Quiet, UNCHANGED <<handlerVars, deferred, completed>>
  PROVE  TablesRight'
<1>1. Same(Loads, Loads') /\ Loads' = Loads
  BY SameLoads
<1>2. ASSUME UNCHANGED <<status, computed, total, held, sched, blockIds>> PROVE TablesRight'
  BY <1>1, <1>2, TablesKept
<1>3. ASSUME ResetCache PROVE TablesRight'
  <2>1. UNCHANGED <<status, computed, total, held, sched, blockIds>>
    BY <1>3 DEF ResetCache
  <2> QED
    BY <1>2, <2>1
<1>4. ASSUME StartMeta PROVE TablesRight'
  BY <1>1, <1>4, StartTables
<1>5. ASSUME EndMeta PROVE TablesRight'
  <2>1. UNCHANGED <<status, computed, total, held, sched, blockIds>>
    BY <1>5, Zenon DEF EndMeta
  <2> QED
    BY <1>2, <2>1
<1>6. ASSUME EndStep PROVE TablesRight'
  <2>1. UNCHANGED <<status, computed, total, held, sched, blockIds>>
    BY <1>6 DEF EndStep, conVars
  <2> QED
    BY <1>2, <2>1
<1>7. ASSUME UNCHANGED vars PROVE TablesRight'
  <2>1. UNCHANGED <<status, computed, total, held, sched, blockIds>>
    BY <1>7 DEF vars, schedVars, extVars, conVars
  <2> QED
    BY <1>2, <2>1
<1>8. ASSUME NEW r \in Requests, OnNewRequest(r) \/ GetMatchedWaits(r) PROVE TablesRight'
  BY <1>1, <1>8, NewTables
<1>9. ASSUME NEW r \in Requests, Preempt(r) \/ Abort(r) PROVE TablesRight'
  BY <1>1, <1>9, FreedTables
<1>10. ASSUME NEW r \in Requests, NEW n \in 1..MaxTokens, ScheduleWaiting(r, n) \/ ScheduleRunning(r, n) PROVE TablesRight'
  <2>1. ScheduleMore(r, n)
    BY <1>10, Zenon DEF ScheduleMore
  <2> QED
    BY <1>1, <2>1, MoreTables
<1>11. ASSUME NEW r \in Requests, StoreNothing(r) \/ StoreRefused(r) PROVE TablesRight'
  <2>1. UNCHANGED <<status, computed, total, held, sched, blockIds>>
    BY <1>11 DEF StoreNothing, StoreRefused, extVars
  <2> QED
    BY <1>2, <2>1
<1>12. ASSUME NEW r \in Requests, NEW stops \in BOOLEAN, RequestOutput(r, stops) PROVE TablesRight'
  BY <1>1, <1>12, OutputTables
<1> QED
  BY <1>3, <1>4, <1>5, <1>6, <1>7, <1>8, <1>9, <1>10, <1>11, <1>12, Zenon DEF Quiet

\* Every step keeps the tables right.
LEMMA StepKeepsTables == Travel /\ Kinds /\ Books /\ TablesRight /\ [Next]_vars => TablesRight'
<1> SUFFICES ASSUME Travel, Kinds, Books, TablesRight, [Next]_vars PROVE TablesRight'
  OBVIOUS
<1>1. ASSUME Quiet, UNCHANGED <<handlerVars, deferred, completed>> PROVE TablesRight'
  BY <1>1, QuietTables
<1>2. ASSUME NEW r \in Requests, ScheduleLoad(r), UNCHANGED <<handlerVars, deferred, completed>> PROVE TablesRight'
  BY <1>2, LoadTables
<1>3. ASSUME NEW r \in Requests, NEW e \in SUBSET Evictable, StoreChunks(r, e), UNCHANGED <<handlerVars, deferred, completed>>
      PROVE TablesRight'
  <2>1. UNCHANGED <<status, computed, total, held, sched, blockIds>>
    BY <1>3 DEF StoreChunks, extVars
  <2>2. ToLoad' = ToLoad /\ Sent("load")' = Sent("load")
    BY <1>3, StoreJobMade, StoreSetsOut
  <2>3. Loads' = Loads
    BY <1>3, <2>2 DEF Loads
  <2>4. Same(Loads, Loads')
    BY <2>3 DEF Same
  <2> QED
    BY <2>1, <2>4, TablesKept
<1>4. ASSUME SubmitStores \/ Forward \/ Collect \/ GpuCopy PROVE TablesRight'
  <2>1. Same(Loads, Loads')
    BY <1>4, WorkersMove, SMTT(30)
  <2>2. UNCHANGED <<status, computed, total, held, sched, blockIds>>
    BY <1>4 DEF SubmitStores, Forward, Collect, GpuCopy, schedVars, extVars, conVars
  <2> QED
    BY <2>1, <2>2, TablesKept
<1>5. ASSUME NEW t \in completed, GiveOutput(t) PROVE TablesRight'
  BY <1>5, GivenTables
<1> QED
  BY <1>1, <1>2, <1>3, <1>4, <1>5, StepsAre, Zenon

\* They are right when the program starts.
LEMMA InitTables == Init => TablesRight
<1> SUFFICES ASSUME Init PROVE TablesRight
  OBVIOUS
<1>1. /\ status = [r \in Requests |-> "new"] /\ computed = [r \in Requests |-> 0] /\ total = Prompt
      /\ held = [r \in Requests |-> NoBlocks] /\ blockIds = [r \in Requests |-> NoBlocks]
      /\ sched = [r \in Requests |-> 0]
      /\ phase = "sched" /\ newLoads = {} /\ completed = {} /\ transfers = [d \in Directions |-> <<>>]
  BY DEF Init, SchedInit
<1>2. Entries(newLoads) = {}
  BY <1>1 DEF Entries
<1>3. Loads = {}
  BY <1>1, <1>2 DEF Loads, ToLoad, Sent, Range, Directions
<1>4. NoBlocks \in Table /\ \A g \in Groups : NoBlocks[g] = <<>> /\ DOMAIN NoBlocks[g] = {} /\ Len(NoBlocks[g]) = 0
  BY DEF NoBlocks, Table
<1>5. TableTypes
  BY <1>1, <1>4, SchedulerAssumption DEF TableTypes
<1>6. Exclusive
  BY <1>1, <1>4 DEF Exclusive
<1>7. \A r \in Requests : CountsOf(r) /\ TablesOf(r) /\ Covered(r)
  <2> SUFFICES ASSUME NEW r \in Requests PROVE CountsOf(r) /\ TablesOf(r) /\ Covered(r)
    OBVIOUS
  <2>1. Prompt[r] \in Nat \ {0} /\ Prompt[r] < MaxTokens /\ MaxTokens \in Nat
    BY SchedulerAssumption
  <2> QED
    BY <1>1, <1>4, <2>1 DEF CountsOf, TablesOf, Covered, Reach, Finished
<1> QED
  BY <1>3, <1>5, <1>6, <1>7 DEF TablesRight

\* The block tables and the connector's copies of them: no block is in two places,
\* a running request's table covers the tokens scheduled, and a load under way
\* writes only blocks of its own request, which waits for it or was aborted.
THEOREM TablesHold == Spec => []TablesRight
  BY InitTables, StepKeepsTables, TravelHolds, BooksHold, KindsHold, PTL DEF Spec
=============================================================================
