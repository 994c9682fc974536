------------------------- MODULE RefreshLoadProofs -------------------------
(***************************************************************************)
(* Proofs about RefreshLoad, for every number of repositories, permits and *)
(* job lookups and every combination of features: its safety properties,   *)
(* and that it implements RefreshContract.                                 *)
(***************************************************************************)
EXTENDS RefreshLoad, FiniteSetTheorems, TLAPS

-----------------------------------------------------------------------------
(* The inductive invariant *)

\* The semaphore: its permits and its line have the jobs that say so.
SemaphoreInv ==
    /\ IsFiniteSet(holders) /\ Cardinality(holders) <= MaxConcurrency
    /\ \A j \in Jobs : j \in holders <=> at[j] \in Permitted
    /\ \A i \in 1..Len(queue) : at[queue[i]] \in Queued
    /\ \A i, k \in 1..Len(queue) : queue[i] = queue[k] => i = k

\* A repository's worker, before, while and after it has the details; and a
\* worker that has ended, whatever became of its failed run since.
Early == {"ready", "details?", "runs", "security", "release"}
Late == {"awaiting", "usage?", "usage"}
LookupSteps == {"lookup_ready", "lookup?", "lookup", "looked_up", "lookup_lost"}
Ended == {"done"} \cup LookupSteps

\* Each job is only ever where jobs of its kind can be.
KindsInv ==
    /\ \A j \in Simple : at[j] \in {"idle", "request", "failed", "done"}
    /\ at["HYGIENE"] \in {"idle", "ready", "hygiene?", "hygiene", "failed", "done"}
    /\ at["WORKERS"] \in {"idle", "gathering", "done"}
    /\ \A r \in Repos : at[r] \in {"idle", "failed"} \cup Early \cup Late \cup Ended
    /\ \A r \in Repos \ live : at[r] \in {"idle", "done"}

\* Before the repositories are listed nothing has happened, and after that
\* nothing is as if it had not.
StartInv ==
    IF latest = None
    THEN /\ main \in {"repositories", "outage", "failed"}
         /\ \A j \in Jobs : at[j] = "idle"
         /\ pending = {} /\ degraded = {} /\ lost = {}
         /\ \A s \in DOMAIN got : got[s] = {}
    ELSE /\ main \in {"parts", "lookups", "returned", "failed"}
         /\ \A j \in Jobs : at[j] # "idle"

\* The count of the workers that have details to fetch, and what is filled in.
CountInv ==
    /\ repos_left = Cardinality(live \ got["RELEASES"])
    /\ got["RELEASES"] \subseteq got["CI"] /\ got["RELEASES"] \subseteq got["SECURITY"]
    /\ \A r \in Repos : at[r] \in Early => r \in live \ got["RELEASES"]
    /\ \A r \in live : at[r] \in Late \cup Ended => r \in got["RELEASES"]
    /\ \A r \in live : at[r] \in Ended => r \in got["CI_USAGE"]

\* A section is pending exactly until the jobs that fetch it are done with it.
PendingInv ==
    /\ pending \subseteq SectionsToFetch(live)
    /\ main # "returned" => latest = pending
    /\ \A s \in SectionsToFetch(live) \ pending :
          /\ s \in PerRepoSections => live \subseteq got["RELEASES"]
          /\ s = "CI_USAGE" => live \subseteq got["CI_USAGE"]
          /\ s \in Simple \cup {"HYGIENE"} => at[s] = "done"
          /\ s = "FAILED_JOBS" => main = "returned"
    /\ live # {} /\ "CI" \in pending => live \ got["RELEASES"] # {}
    /\ \A j \in Simple \cup {"HYGIENE"} : at[j] = "done" => j \notin pending
    /\ at["WORKERS"] = "done" => pending \cap (PerRepoSections \cup {"CI_USAGE"}) = {}
    /\ \A r \in Repos : at[r] \in LookupSteps => "FAILED_JOBS" \in features
    /\ main = "returned" => /\ pending = {}
                            /\ \A j \in Jobs : at[j] \in {"done", "looked_up", "lookup_lost"}

\* What is lost is noted, or is about to be.
LossInv ==
    /\ degraded \subseteq lost
    /\ \A s \in lost \ degraded :
          \/ s = "CI_USAGE" /\ "HYGIENE" \in degraded
          \/ s = "FAILED_JOBS" /\ \E r \in live : at[r] = "lookup_lost"
                               /\ main # "returned"
    /\ (\E r \in live : at[r] = "lookup_lost") => "FAILED_JOBS" \in lost
    /\ HygieneOn /\ live # {} /\ at["HYGIENE"] = "done" => facts = live \/ "HYGIENE" \in degraded

IInv ==
    /\ TypeOK
    /\ SemaphoreInv
    /\ KindsInv
    /\ StartInv
    /\ latest # None => CountInv /\ PendingInv
    /\ LossInv

-----------------------------------------------------------------------------
(* What the semaphore does *)

SemaphoreType == holders \in SUBSET Jobs /\ queue \in Seq(Jobs) /\ at \in [Jobs -> Steps]

LEMMA GrantedType ==
    ASSUME NEW step \in Queued
    PROVE  Granted(step) \in Permitted
  BY DEF Queued, Granted, Permitted

LEMMA StepTypes ==
    /\ Permitted \cap Queued = {}
    /\ Permitted \subseteq Steps /\ Queued \subseteq Steps
  BY DEF Permitted, Queued, Steps, Requests, Ends

\* Whoever asks for a permit has one, or is in line; nobody else moves.
LEMMA Acquiring ==
    ASSUME SemaphoreType, SemaphoreInv, NEW j \in Jobs, NEW step \in Queued,
           at[j] \notin Permitted \cup Queued, Acquire(j, step)
    PROVE  /\ SemaphoreType' /\ SemaphoreInv'
           /\ at'[j] \in {step, Granted(step)}
           /\ \A k \in Jobs \ {j} : at'[k] = at[k]
  <1>1. CASE queue = <<>> /\ Cardinality(holders) < MaxConcurrency
    <2>1. /\ holders' = holders \cup {j} /\ queue' = queue
          /\ at' = [at EXCEPT ![j] = Granted(step)]
      BY <1>1 DEF Acquire
    <2>2. at' \in [Jobs -> Steps] /\ at'[j] = Granted(step) /\ \A k \in Jobs \ {j} : at'[k] = at[k]
      BY <2>1, GrantedType, StepTypes DEF SemaphoreType
    <2>3. SemaphoreType'
      BY <2>1, <2>2 DEF SemaphoreType
    <2>4. IsFiniteSet(holders') /\ Cardinality(holders') <= MaxConcurrency
      <3>1. j \notin holders
        BY DEF SemaphoreInv
      <3>2. IsFiniteSet(holders) /\ Cardinality(holders) \in Nat
        BY FS_CardinalityType DEF SemaphoreInv
      <3>3. IsFiniteSet(holders \cup {j}) /\ Cardinality(holders \cup {j}) = Cardinality(holders) + 1
        BY <3>1, <3>2, FS_AddElement
      <3> QED
        BY <1>1, <2>1, <3>2, <3>3, MaxConcurrencyAssumption
    <2>5. \A k \in Jobs : k \in holders' <=> at'[k] \in Permitted
      BY <2>1, <2>2, GrantedType DEF SemaphoreInv
    <2> QED
      BY <1>1, <2>1, <2>2, <2>3, <2>4, <2>5 DEF SemaphoreInv
  <1>2. CASE ~(queue = <<>> /\ Cardinality(holders) < MaxConcurrency)
    <2>1. /\ queue' = Append(queue, j) /\ holders' = holders
          /\ at' = [at EXCEPT ![j] = step]
      BY <1>2 DEF Acquire
    <2>2. at' \in [Jobs -> Steps] /\ at'[j] = step /\ \A k \in Jobs \ {j} : at'[k] = at[k]
      BY <2>1, StepTypes DEF SemaphoreType
    <2>3. SemaphoreType'
      BY <2>1, <2>2 DEF SemaphoreType
    <2>4. \A k \in Jobs : k \in holders' <=> at'[k] \in Permitted
      BY <2>1, <2>2, StepTypes DEF SemaphoreInv
    <2>5. \A i \in 1..Len(queue) : queue[i] \in Jobs /\ queue[i] # j
      BY DEF SemaphoreType, SemaphoreInv
    <2>6. \A i \in 1..Len(queue') : at'[queue'[i]] \in Queued
      BY <2>1, <2>2, <2>5 DEF SemaphoreType, SemaphoreInv
    <2>7. \A i, k \in 1..Len(queue') : queue'[i] = queue'[k] => i = k
      BY <2>1, <2>5 DEF SemaphoreType, SemaphoreInv
    <2> QED
      BY <2>1, <2>2, <2>3, <2>4, <2>6, <2>7 DEF SemaphoreInv
  <1> QED
    BY <1>1, <1>2

\* Whoever gives a permit back has moved on, and the first in line may have too.
LEMMA Releasing ==
    ASSUME SemaphoreType, SemaphoreInv, NEW j \in Jobs, at[j] \in Permitted,
           NEW step \in Steps \ (Permitted \cup Queued), Release(j, step)
    PROVE  /\ SemaphoreType' /\ SemaphoreInv'
           /\ at'[j] = step
           /\ \A k \in Jobs \ {j} : \/ at'[k] = at[k]
                                    \/ at[k] \in Queued /\ at'[k] = Granted(at[k])
  <1>1. CASE queue = <<>>
    <2>1. /\ holders' = holders \ {j} /\ queue' = queue
          /\ at' = [at EXCEPT ![j] = step]
      BY <1>1 DEF Release
    <2>2. at' \in [Jobs -> Steps] /\ at'[j] = step /\ \A k \in Jobs \ {j} : at'[k] = at[k]
      BY <2>1 DEF SemaphoreType
    <2>3. IsFiniteSet(holders') /\ Cardinality(holders') <= MaxConcurrency
      <3>1. IsFiniteSet(holders) /\ Cardinality(holders) \in Nat /\ j \in holders
        BY FS_CardinalityType DEF SemaphoreInv
      <3>2. IsFiniteSet(holders \ {j}) /\ Cardinality(holders \ {j}) = Cardinality(holders) - 1
        BY <3>1, FS_RemoveElement
      <3> QED
        BY <2>1, <3>1, <3>2, MaxConcurrencyAssumption DEF SemaphoreInv
    <2>4. \A k \in Jobs : k \in holders' <=> at'[k] \in Permitted
      BY <2>1, <2>2 DEF SemaphoreInv
    <2> QED
      BY <1>1, <2>1, <2>2, <2>3, <2>4 DEF SemaphoreInv, SemaphoreType
  <1>2. CASE queue # <<>>
    <2> DEFINE h == Head(queue)
    <2>1. /\ holders' = (holders \ {j}) \cup {h} /\ queue' = Tail(queue)
          /\ at' = [at EXCEPT ![j] = step, ![h] = Granted(@)]
      BY <1>2 DEF Release
    <2>2. Len(queue) \in Nat /\ 1 \in 1..Len(queue) /\ h = queue[1] /\ h \in Jobs
      BY <1>2 DEF SemaphoreType
    <2>3. at[h] \in Queued /\ h # j
      BY <2>2, StepTypes DEF SemaphoreInv
    <2>4. /\ at' \in [Jobs -> Steps] /\ at'[j] = step /\ at'[h] = Granted(at[h])
          /\ \A k \in Jobs \ {j, h} : at'[k] = at[k]
      BY <2>1, <2>2, <2>3, GrantedType, StepTypes DEF SemaphoreType
    <2>5. IsFiniteSet(holders') /\ Cardinality(holders') <= MaxConcurrency
      <3>1. IsFiniteSet(holders) /\ Cardinality(holders) \in Nat /\ j \in holders /\ h \notin holders
        BY <2>2, <2>3, StepTypes, FS_CardinalityType DEF SemaphoreInv
      <3>2. IsFiniteSet(holders \ {j}) /\ Cardinality(holders \ {j}) = Cardinality(holders) - 1
        BY <3>1, FS_RemoveElement
      <3>3. /\ IsFiniteSet((holders \ {j}) \cup {h})
            /\ Cardinality((holders \ {j}) \cup {h}) = Cardinality(holders \ {j}) + 1
        BY <3>1, <3>2, FS_AddElement
      <3> QED
        BY <2>1, <3>1, <3>2, <3>3, MaxConcurrencyAssumption DEF SemaphoreInv
    <2>6. \A k \in Jobs : k \in holders' <=> at'[k] \in Permitted
      BY <2>1, <2>2, <2>3, <2>4, GrantedType DEF SemaphoreInv
    <2>7. /\ queue' \in Seq(Jobs) /\ Len(queue') = Len(queue) - 1
          /\ \A i \in 1..Len(queue') : queue'[i] = queue[i + 1] /\ i + 1 \in 1..Len(queue)
      BY <1>2, <2>1, <2>2 DEF SemaphoreType
    <2>8. \A i, k \in 1..Len(queue') : queue'[i] = queue'[k] => i = k
      BY <2>7 DEF SemaphoreInv
    <2>9. \A i \in 1..Len(queue') : at'[queue'[i]] \in Queued
      <3> SUFFICES ASSUME NEW i \in 1..Len(queue')
                   PROVE  at'[queue'[i]] \in Queued
        OBVIOUS
      <3>1. queue'[i] = queue[i + 1] /\ i + 1 \in 1..Len(queue) /\ queue[i + 1] \in Jobs
        BY <2>7 DEF SemaphoreType
      <3>2. at[queue[i + 1]] \in Queued /\ queue[i + 1] # j
        BY <3>1, StepTypes DEF SemaphoreInv
      <3>3. queue[i + 1] # h
        <4>1. i + 1 # 1
          BY <2>2, <2>7
        <4> QED
          BY <4>1, <3>1, <2>2 DEF SemaphoreInv
      <3> QED
        BY <3>1, <3>2, <3>3, <2>4
    <2> QED
      BY <2>1, <2>3, <2>4, <2>5, <2>6, <2>7, <2>8, <2>9 DEF SemaphoreInv, SemaphoreType
  <1> QED
    BY <1>1, <1>2

-----------------------------------------------------------------------------
(* A permit that is granted does not change what is known of a job *)

SameStage(s, t) ==
    /\ \A stage \in {Early, Late, LookupSteps, {"hygiene?", "hygiene"}} : s \in stage <=> t \in stage
    /\ \A step \in {"idle", "request", "gathering", "failed", "done", "ready", "looked_up", "lookup_lost"} :
          s = step <=> t = step

LEMMA GrantedStage ==
    ASSUME NEW s \in Queued
    PROVE  SameStage(s, Granted(s))
  BY DEF Queued, Granted, SameStage, Early, Late, LookupSteps

\* The jobs other than j stay where they are, or are granted a permit.
OthersStay(j) == \A k \in Jobs \ {j} : SameStage(at[k], at'[k])

LEMMA AcquiringStays ==
    ASSUME SemaphoreType, SemaphoreInv, NEW j \in Jobs, NEW step \in Queued,
           at[j] \notin Permitted \cup Queued, Acquire(j, step)
    PROVE  /\ SemaphoreType' /\ SemaphoreInv' /\ OthersStay(j)
           /\ at'[j] \in {step, Granted(step)}
  BY Acquiring DEF OthersStay, SameStage

LEMMA ReleasingStays ==
    ASSUME SemaphoreType, SemaphoreInv, NEW j \in Jobs, at[j] \in Permitted,
           NEW step \in Steps \ (Permitted \cup Queued), Release(j, step)
    PROVE  /\ SemaphoreType' /\ SemaphoreInv' /\ OthersStay(j)
           /\ at'[j] = step
  <1>1. /\ SemaphoreType' /\ SemaphoreInv' /\ at'[j] = step
        /\ \A k \in Jobs \ {j} : \/ at'[k] = at[k]
                                 \/ at[k] \in Queued /\ at'[k] = Granted(at[k])
    BY Releasing
  <1>2. ASSUME NEW k \in Jobs \ {j}
        PROVE  SameStage(at[k], at'[k])
    <2>1. CASE at'[k] = at[k]
      BY <2>1 DEF SameStage
    <2>2. CASE at[k] \in Queued /\ at'[k] = Granted(at[k])
      BY <2>2, GrantedStage
    <2> QED
      BY <1>1, <2>1, <2>2
  <1> QED
    BY <1>1, <1>2 DEF OthersStay

\* A job that does not use the semaphore here.
LEMMA StepStays ==
    ASSUME SemaphoreType, SemaphoreInv, NEW j \in Jobs, at[j] \notin Permitted \cup Queued,
           NEW step \in Steps \ (Permitted \cup Queued),
           at' = [at EXCEPT ![j] = step], UNCHANGED semaphore
    PROVE  SemaphoreType' /\ SemaphoreInv' /\ OthersStay(j) /\ at'[j] = step
  <1>1. /\ holders' = holders /\ queue' = queue
        /\ at' \in [Jobs -> Steps] /\ at'[j] = step /\ \A k \in Jobs \ {j} : at'[k] = at[k]
    BY DEF semaphore, SemaphoreType
  <1>2. OthersStay(j)
    BY <1>1 DEF OthersStay, SameStage
  <1>3. \A i \in 1..Len(queue) : queue[i] \in Jobs \ {j}
    BY DEF SemaphoreType, SemaphoreInv
  <1> QED
    BY <1>1, <1>2, <1>3 DEF SemaphoreType, SemaphoreInv

-----------------------------------------------------------------------------
(* Steps on which nothing is filled in *)

MayMove(j, s, t) ==
    \/ s \notin {"idle", "done", "looked_up", "lookup_lost"} /\ j # "WORKERS" /\ t = "failed"
    \/ j \in Repos /\ s \in Early /\ t \in Early
    \/ j \in Repos /\ s \in Late /\ t \in Late
    \/ j \in Repos /\ s = "lookup_ready" /\ t \in {"lookup?", "lookup"}
    \/ j = "HYGIENE" /\ s = "ready" /\ t \in {"hygiene?", "hygiene"}
    \/ j = "HYGIENE" /\ s = "ready" /\ t = "done" /\ ("HYGIENE" \notin features \/ live = {})

LEMMA MoveInv ==
    ASSUME IInv, NEW j \in Jobs, SemaphoreType', SemaphoreInv', OthersStay(j),
           MayMove(j, at[j], at'[j]),
           UNCHANGED <<features, main, live, progress, lost, latest>>
    PROVE  IInv'
  <1> USE DEF progress
  <1>1. TypeOK'
    BY DEF IInv, TypeOK, SemaphoreType
  <1>2. KindsInv'
    BY JobsAssumption DEF IInv, KindsInv, MayMove, OthersStay, SameStage, Jobs, Parts, Simple,
                          Early, Late, LookupSteps, Ended
  <1>3. latest # None
    BY DEF IInv, StartInv, MayMove, Early, Late
  <1>4. StartInv'
    BY <1>3 DEF IInv, StartInv, MayMove, OthersStay, SameStage, Early, Late
  <1>5. CountInv'
    <2>1. CountInv /\ KindsInv
      BY <1>3 DEF IInv
    <2>2. \A r \in Repos : at'[r] \in Early => at[r] \in Early
      BY JobsAssumption, <2>1 DEF MayMove, OthersStay, SameStage, Jobs, Parts, Early, Late
    <2>3. \A r \in Repos : at'[r] \in Late => at[r] \in Late
      BY JobsAssumption, <2>1 DEF MayMove, OthersStay, SameStage, Jobs, Parts, Early, Late
    <2>4. \A r \in Repos : at'[r] \in Ended => at[r] \in Ended
      BY JobsAssumption, <2>1 DEF MayMove, OthersStay, SameStage, Jobs, Parts, Early, Late, LookupSteps, Ended
    <2>5. live \subseteq Repos
      BY DEF IInv, TypeOK
    <2> QED
      BY <2>1, <2>2, <2>3, <2>4, <2>5 DEF CountInv
  <1>6. main # "returned"
    BY <1>3 DEF IInv, PendingInv, MayMove, Early, Late
  <1>7. PendingInv'
    BY <1>3, <1>6, JobsAssumption
    DEF IInv, PendingInv, KindsInv, MayMove, OthersStay, SameStage, Jobs, Parts, Simple,
        Early, Late, LookupSteps, SectionsToFetch
  <1>8. LossInv'
    <2>1. live \subseteq Repos /\ Repos \subseteq Jobs /\ "HYGIENE" \in Jobs
      BY DEF IInv, TypeOK, Jobs, Parts
    <2>2. \A r \in Repos : at[r] = "lookup_lost" <=> at'[r] = "lookup_lost"
      BY <2>1, JobsAssumption DEF MayMove, OthersStay, SameStage, Early, Late
    <2>3. at'["HYGIENE"] = "done" => at["HYGIENE"] = "done" \/ "HYGIENE" \notin features \/ live = {}
      BY <2>1, JobsAssumption DEF MayMove, OthersStay, SameStage, Early, Late, Parts
    <2> QED
      BY <2>1, <2>2, <2>3 DEF IInv, LossInv, HygieneOn
  <1> QED
    BY <1>1, <1>2, <1>4, <1>5, <1>7, <1>8 DEF IInv

LEMMA JobTypes ==
    /\ Repos \subseteq Jobs /\ Simple \subseteq Jobs
    /\ "HYGIENE" \in Jobs /\ "WORKERS" \in Jobs
    /\ Repos \cap Simple = {} /\ "HYGIENE" \notin Repos /\ "WORKERS" \notin Repos
    /\ "HYGIENE" \notin Simple /\ "WORKERS" \notin Simple
  BY JobsAssumption DEF Jobs, Parts, Simple

LEMMA SemaphoreTypes ==
    ASSUME IInv
    PROVE  SemaphoreType /\ SemaphoreInv
  BY DEF IInv, TypeOK, SemaphoreType

LEMMA StartWorkerInv ==
    ASSUME IInv, NEW r \in Repos, StartWorker(r)
    PROVE  IInv'
  <1>1. at[r] = "ready" /\ Acquire(r, "details?") /\ r \in Jobs
    BY JobTypes DEF StartWorker
  <1>2. /\ SemaphoreType' /\ SemaphoreInv' /\ OthersStay(r)
        /\ at'[r] \in {"details?", Granted("details?")}
    BY <1>1, AcquiringStays, SemaphoreTypes DEF Permitted, Queued
  <1>3. MayMove(r, at[r], at'[r])
    BY <1>1, <1>2 DEF MayMove, Early, Granted
  <1> QED
    BY <1>1, <1>2, <1>3, MoveInv DEF StartWorker

LEMMA AskUsageInv ==
    ASSUME IInv, NEW r \in Repos, AskUsage(r)
    PROVE  IInv'
  <1>1. at[r] = "awaiting" /\ Acquire(r, "usage?") /\ r \in Jobs
    BY JobTypes DEF AskUsage
  <1>2. /\ SemaphoreType' /\ SemaphoreInv' /\ OthersStay(r)
        /\ at'[r] \in {"usage?", Granted("usage?")}
    BY <1>1, AcquiringStays, SemaphoreTypes DEF Permitted, Queued
  <1>3. MayMove(r, at[r], at'[r])
    BY <1>1, <1>2 DEF MayMove, Late, Granted
  <1> QED
    BY <1>1, <1>2, <1>3, MoveInv DEF AskUsage

LEMMA StartLookupInv ==
    ASSUME IInv, NEW r \in Repos, StartLookup(r)
    PROVE  IInv'
  <1>1. at[r] = "lookup_ready" /\ Acquire(r, "lookup?") /\ r \in Jobs
    BY JobTypes DEF StartLookup
  <1>2. /\ SemaphoreType' /\ SemaphoreInv' /\ OthersStay(r)
        /\ at'[r] \in {"lookup?", Granted("lookup?")}
    BY <1>1, AcquiringStays, SemaphoreTypes DEF Permitted, Queued
  <1>3. MayMove(r, at[r], at'[r])
    BY <1>1, <1>2 DEF MayMove, Granted
  <1> QED
    BY <1>1, <1>2, <1>3, MoveInv DEF StartLookup

LEMMA AwaitFailsInv ==
    ASSUME IInv, NEW r \in Repos, AwaitFails(r)
    PROVE  IInv'
  <1>1. at[r] = "awaiting" /\ at' = [at EXCEPT ![r] = "failed"] /\ UNCHANGED semaphore /\ r \in Jobs
    BY JobTypes DEF AwaitFails
  <1>2. SemaphoreType' /\ SemaphoreInv' /\ OthersStay(r) /\ at'[r] = "failed"
    BY <1>1, StepStays, SemaphoreTypes DEF Permitted, Queued, Steps, Ends
  <1>3. MayMove(r, at[r], at'[r])
    BY <1>1, <1>2, JobTypes DEF MayMove
  <1> QED
    BY <1>1, <1>2, <1>3, MoveInv DEF AwaitFails

LEMMA StartHygieneInv ==
    ASSUME IInv, StartHygiene
    PROVE  IInv'
  <1>1. at["HYGIENE"] = "ready" /\ "HYGIENE" \in Jobs
    BY JobTypes DEF StartHygiene
  <1>2. CASE "HYGIENE" \in features /\ live # {}
    <2>1. /\ SemaphoreType' /\ SemaphoreInv' /\ OthersStay("HYGIENE")
          /\ at'["HYGIENE"] \in {"hygiene?", Granted("hygiene?")}
      BY <1>1, <1>2, AcquiringStays, SemaphoreTypes DEF StartHygiene, Permitted, Queued
    <2>2. MayMove("HYGIENE", at["HYGIENE"], at'["HYGIENE"])
      BY <1>1, <2>1 DEF MayMove, Granted
    <2> QED
      BY <1>1, <2>1, <2>2, MoveInv DEF StartHygiene
  <1>3. CASE ~("HYGIENE" \in features /\ live # {})
    <2>1. SemaphoreType' /\ SemaphoreInv' /\ OthersStay("HYGIENE") /\ at'["HYGIENE"] = "done"
      BY <1>1, <1>3, StepStays, SemaphoreTypes DEF StartHygiene, Permitted, Queued, Steps, Ends
    <2>2. MayMove("HYGIENE", at["HYGIENE"], at'["HYGIENE"])
      BY <1>1, <1>3, <2>1 DEF MayMove
    <2> QED
      BY <1>1, <2>1, <2>2, MoveInv DEF StartHygiene
  <1> QED
    BY <1>2, <1>3

LEMMA BreakInv ==
    ASSUME IInv, NEW j \in Jobs \ {"WORKERS"}, Break(j)
    PROVE  IInv'
  <1>1. at[j] \in Requests
    BY DEF Break
  <1>2. SemaphoreType' /\ SemaphoreInv' /\ OthersStay(j) /\ at'[j] = "failed"
    <2>1. CASE at[j] \in Permitted
      BY <2>1, ReleasingStays, SemaphoreTypes DEF Break, Permitted, Queued, Steps, Ends
    <2>2. CASE at[j] \notin Permitted
      BY <1>1, <2>2, StepStays, SemaphoreTypes DEF Break, Requests, Permitted, Queued, Steps, Ends
    <2> QED
      BY <2>1, <2>2
  <1>3. MayMove(j, at[j], at'[j])
    BY <1>1, <1>2 DEF MayMove, Requests, Permitted
  <1> QED
    BY <1>2, <1>3, MoveInv DEF Break

-----------------------------------------------------------------------------
(* The steps of _load itself *)

LEMMA InitInv == Init => IInv
  <1> SUFFICES ASSUME Init PROVE IInv
    OBVIOUS
  <1> USE DEF Init
  <1>1. TypeOK
    BY DEF TypeOK, Steps, Ends
  <1>2. SemaphoreInv
    BY FS_EmptySet, MaxConcurrencyAssumption DEF SemaphoreInv, Permitted
  <1>3. KindsInv
    BY DEF KindsInv, Simple, Jobs, Parts
  <1>4. StartInv
    BY DEF StartInv
  <1>5. LossInv
    BY DEF LossInv, Jobs, Parts
  <1> QED
    BY <1>1, <1>2, <1>3, <1>4, <1>5 DEF IInv

LEMMA NotListedInv ==
    ASSUME IInv, NEW error \in {"outage", "failed"}, NotListed(error)
    PROVE  IInv'
  <1> USE DEF NotListed, semaphore, progress
  <1>1. latest = None
    BY DEF IInv, StartInv
  <1>2. TypeOK'
    BY DEF IInv, TypeOK
  <1>3. SemaphoreInv' /\ KindsInv'
    BY DEF IInv, SemaphoreInv, KindsInv
  <1>4. StartInv'
    BY <1>1 DEF IInv, StartInv
  <1>5. LossInv'
    BY <1>1 DEF IInv, LossInv, StartInv, HygieneOn
  <1> QED
    BY <1>1, <1>2, <1>3, <1>4, <1>5 DEF IInv

LEMMA ListedInv ==
    ASSUME IInv, NEW repos \in SUBSET Repos, Listed(repos)
    PROVE  IInv'
  <1> DEFINE Place(j) == CASE j \in repos \cup {"HYGIENE"}           -> "ready"
                         [] j = "WORKERS"                         -> "gathering"
                         [] j \in Simple \cap pending'            -> "request"
                         [] j \in (Repos \ repos) \cup (Simple \ pending') -> "done"
  <1>0. /\ main' = "parts" /\ live' = repos /\ repos_left' = Cardinality(repos)
        /\ pending' = SectionsToFetch(repos) /\ latest' = pending'
        /\ at' = [j \in Jobs |-> Place(j)]
        /\ main = "repositories"
        /\ features' = features /\ holders' = holders /\ queue' = queue /\ got' = got
        /\ facts' = facts /\ degraded' = degraded /\ lost' = lost
    BY DEF Listed, Emit, semaphore
  <1>1. latest = None /\ \A j \in Jobs : at[j] = "idle"
    BY <1>0 DEF IInv, StartInv
  <1>2. /\ \A r \in repos : at'[r] = "ready"
        /\ at'["HYGIENE"] = "ready" /\ at'["WORKERS"] = "gathering"
        /\ \A j \in Simple : at'[j] = IF j \in pending' THEN "request" ELSE "done"
        /\ \A r \in Repos \ repos : at'[r] = "done"
    <2>1. \A r \in repos : at'[r] = "ready"
      BY <1>0, JobTypes
    <2>2. at'["HYGIENE"] = "ready"
      BY <1>0, JobTypes
    <2>3. at'["WORKERS"] = "gathering"
      BY <1>0, JobTypes
    <2>4. \A j \in Simple : at'[j] = IF j \in pending' THEN "request" ELSE "done"
      BY <1>0, JobTypes
    <2>5. \A r \in Repos \ repos : at'[r] = "done"
      BY <1>0, JobTypes
    <2> QED
      BY <2>1, <2>2, <2>3, <2>4, <2>5
  <1>3. at' \in [Jobs -> {"ready", "gathering", "request", "done"}]
    <2>1. \A j \in Jobs : at'[j] = Place(j)
      BY <1>0
    <2>2. \A j \in Jobs : at'[j] \in {"ready", "gathering", "request", "done"}
      BY <1>2 DEF Jobs, Parts
    <2> HIDE DEF Place
    <2> QED
      BY <1>0, <2>1, <2>2
  <1> HIDE DEF Place
  <1>4. IsFiniteSet(repos) /\ Cardinality(repos) \in Nat
    BY ReposAssumption, FS_Subset, FS_CardinalityType
  <1>5. /\ pending' = SectionsToFetch(live)' /\ latest' = pending' /\ pending' \in SUBSET Sections
        /\ latest' # None
    BY <1>0, FeatureSetsAssumption, NoneAssumption
    DEF IInv, TypeOK, SectionsToFetch, Sections, PerRepoSections, Optional
  <1>6. TypeOK'
    BY <1>0, <1>3, <1>4, <1>5 DEF IInv, TypeOK, Steps, Ends, Requests
  <1>7. SemaphoreInv'
    <2>1. holders = {} /\ queue = <<>>
      <3>1. holders = {}
        BY <1>1 DEF IInv, TypeOK, SemaphoreInv, Permitted
      <3>2. queue # <<>> => 1 \in 1..Len(queue) /\ queue[1] \in Jobs
        BY DEF IInv, TypeOK
      <3>3. queue = <<>>
        BY <1>1, <3>2 DEF IInv, SemaphoreInv, Queued
      <3> QED
        BY <3>1, <3>3
    <2> QED
      BY <1>0, <2>1, <1>3, FS_EmptySet, MaxConcurrencyAssumption DEF SemaphoreInv, Permitted
  <1>8. KindsInv'
    BY <1>0, <1>2 DEF KindsInv, Early, Ended
  <1>9. StartInv'
    BY <1>0, <1>3, <1>5 DEF StartInv
  <1>10. CountInv'
    <2>1. got' = got /\ \A s \in DOMAIN got : got[s] = {}
      BY <1>0, <1>1 DEF IInv, StartInv
    <2>2. got["RELEASES"] = {} /\ got["CI"] = {} /\ got["SECURITY"] = {}
      BY <2>1 DEF IInv, TypeOK, PerRepoSections
    <2>3. live' \ got'["RELEASES"] = repos /\ repos_left' = Cardinality(repos)
      BY <1>0, <2>1, <2>2
    <2> QED
      BY <1>0, <1>2, <2>1, <2>2, <2>3 DEF CountInv, Early, Late, Ended, LookupSteps
  <1>11. PendingInv'
    <2>1. live' \ got'["RELEASES"] = repos
      BY <1>0, <1>1 DEF IInv, StartInv, TypeOK, PerRepoSections
    <2>2. \A j \in Simple \cup {"HYGIENE"} : at'[j] = "done" => j \notin pending'
      BY <1>2
    <2> QED
      BY <1>0, <1>2, <1>5, <2>1, <2>2, JobTypes DEF PendingInv, LookupSteps
  <1>12. LossInv'
    BY <1>0, <1>1, <1>2 DEF IInv, LossInv, StartInv, HygieneOn
  <1> QED
    BY <1>5, <1>6, <1>7, <1>8, <1>9, <1>10, <1>11, <1>12 DEF IInv

LEMMA WorkersEndInv ==
    ASSUME IInv, WorkersEnd
    PROVE  IInv'
  <1> DEFINE gone == PerRepoSections \cup {"CI_USAGE"}
  <1>0. /\ at["WORKERS"] = "gathering" /\ \A r \in live : at[r] = "done"
        /\ at' = [at EXCEPT !["WORKERS"] = "done"] /\ UNCHANGED semaphore
        /\ pending' = pending \ gone /\ latest' = pending'
        /\ UNCHANGED <<features, main, live, got, facts, degraded, repos_left, lost>>
    BY DEF WorkersEnd, Emit
  <1>1. SemaphoreType' /\ SemaphoreInv' /\ OthersStay("WORKERS") /\ at'["WORKERS"] = "done"
    BY <1>0, JobTypes, StepStays, SemaphoreTypes DEF Permitted, Queued, Steps, Ends
  <1>2. /\ latest # None /\ latest' # None /\ main # "returned"
        /\ pending \in SUBSET Sections /\ pending' \in SUBSET Sections
    BY <1>0, JobTypes, NoneAssumption DEF IInv, StartInv, PendingInv, TypeOK
  <1>3. \A j \in Simple \cup Repos \cup {"HYGIENE"} : at'[j] = at[j]
    BY <1>0, JobTypes DEF IInv, TypeOK
  <1>4. TypeOK'
    BY <1>0, <1>1, <1>2 DEF IInv, TypeOK, SemaphoreType
  <1>5. KindsInv'
    BY <1>0, <1>1, <1>3, JobTypes DEF IInv, KindsInv
  <1>6. StartInv'
    BY <1>0, <1>1, <1>2 DEF IInv, StartInv, OthersStay, SameStage
  <1>7. live \subseteq Repos
    BY DEF IInv, TypeOK
  <1>8. CountInv'
    BY <1>0, <1>2, <1>3, <1>7 DEF IInv, CountInv
  <1>9. live \subseteq got["RELEASES"] /\ live \subseteq got["CI_USAGE"]
    BY <1>0, <1>2, <1>7 DEF IInv, CountInv, Ended
  <1>10. PendingInv'
    BY <1>0, <1>1, <1>2, <1>3, <1>9, JobTypes
    DEF IInv, PendingInv, SectionsToFetch, PerRepoSections, Simple
  <1>11. LossInv'
    BY <1>0, <1>3, <1>7 DEF IInv, LossInv, HygieneOn
  <1> QED
    BY <1>1, <1>4, <1>5, <1>6, <1>8, <1>10, <1>11 DEF IInv

LEMMA GatheredInv ==
    ASSUME IInv, NEW runs \in Lookups, Gathered(runs)
    PROVE  IInv'
  <1>0. /\ main = "parts" /\ \A j \in Jobs : at[j] = "done"
        /\ UNCHANGED <<features, live, semaphore, got, facts, degraded, repos_left, lost, latest>>
    BY DEF Gathered
  <1>1. /\ latest # None /\ runs \subseteq live /\ live \subseteq Repos
        /\ runs # {} => "FAILED_JOBS" \in features
        /\ pending \in SUBSET Sections
    BY <1>0 DEF IInv, StartInv, TypeOK, Lookups
  <1>2. pending \subseteq {"FAILED_JOBS"} /\ latest = pending
    BY <1>0, <1>1, JobTypes DEF IInv, PendingInv, SectionsToFetch, PerRepoSections, Simple
  <1>3. CASE runs = {}
    <2>1. main' = "returned" /\ pending' = {} /\ at' = at
      BY <1>2, <1>3 DEF Gathered
    <2>2. TypeOK'
      BY <1>0, <2>1 DEF IInv, TypeOK, semaphore
    <2>3. SemaphoreInv' /\ KindsInv'
      BY <1>0, <2>1 DEF IInv, SemaphoreInv, KindsInv, semaphore
    <2>4. StartInv' /\ CountInv'
      BY <1>0, <1>1, <2>1 DEF IInv, StartInv, CountInv
    <2>5. PendingInv'
      BY <1>0, <1>1, <1>2, <2>1, JobTypes DEF IInv, PendingInv, SectionsToFetch, PerRepoSections
    <2>6. LossInv'
      BY <1>0, <1>1, <2>1, JobTypes DEF IInv, LossInv, HygieneOn
    <2> QED
      BY <2>2, <2>3, <2>4, <2>5, <2>6 DEF IInv
  <1>4. CASE runs # {}
    <2>1. /\ main' = "lookups" /\ pending' = pending
          /\ at' = [j \in Jobs |-> IF j \in runs THEN "lookup_ready" ELSE at[j]]
      BY <1>4 DEF Gathered
    <2>2. /\ at' \in [Jobs -> Steps]
          /\ \A j \in runs : at'[j] = "lookup_ready"
          /\ \A j \in Jobs \ runs : at'[j] = "done"
      BY <1>0, <1>1, <2>1, JobTypes DEF Steps, Ends
    <2>3. \A j \in Simple \cup {"HYGIENE", "WORKERS"} \cup (Repos \ live) : at'[j] = "done" /\ j \in Jobs
      BY <1>1, <2>2, JobTypes
    <2>4. TypeOK'
      BY <1>0, <2>1, <2>2 DEF IInv, TypeOK, semaphore
    <2>5. SemaphoreInv'
      <3>1. \A j \in Jobs : at[j] \notin Permitted /\ at'[j] \notin Permitted
        BY <1>0, <2>2 DEF Permitted
      <3>2. \A i \in 1..Len(queue) : queue[i] \in Jobs
        BY DEF IInv, TypeOK
      <3>3. 1..Len(queue) = {}
        BY <1>0, <3>2 DEF IInv, SemaphoreInv, Queued
      <3> QED
        BY <1>0, <3>1, <3>3 DEF IInv, SemaphoreInv, semaphore
    <2>6. KindsInv'
      BY <1>0, <1>1, <2>2, <2>3, JobTypes DEF KindsInv, Ended, LookupSteps
    <2>7. StartInv'
      BY <1>0, <1>1, <2>1, <2>2 DEF StartInv
    <2>8. CountInv'
      BY <1>0, <1>1, <2>2, JobTypes DEF IInv, CountInv, Early, Late, Ended, LookupSteps
    <2>9. PendingInv'
      BY <1>0, <1>1, <1>2, <2>1, <2>2, <2>3, <1>4, JobTypes DEF IInv, PendingInv, SectionsToFetch, LookupSteps
    <2>10. LossInv'
      BY <1>0, <1>1, <2>1, <2>3, JobTypes DEF IInv, LossInv, HygieneOn
    <2> QED
      BY <2>4, <2>5, <2>6, <2>7, <2>8, <2>9, <2>10 DEF IInv
  <1> QED
    BY <1>3, <1>4

LEMMA LookedUpInv ==
    ASSUME IInv, LookedUp
    PROVE  IInv'
  <1>0. /\ main = "lookups" /\ main' = "returned"
        /\ \A j \in Jobs : at[j] \in {"done", "looked_up", "lookup_lost"}
        /\ pending' = pending \ {"FAILED_JOBS"}
        /\ degraded' = IF \E r \in live : at[r] = "lookup_lost"
                       THEN degraded \cup {"FAILED_JOBS"} ELSE degraded
        /\ UNCHANGED <<features, live, at, semaphore, got, facts, repos_left, lost, latest>>
    BY DEF LookedUp
  <1>1. latest # None /\ pending \in SUBSET Sections
    BY <1>0 DEF IInv, StartInv, TypeOK
  <1>2. \A j \in Simple \cup {"HYGIENE", "WORKERS"} : at[j] = "done"
    BY <1>0, JobTypes DEF IInv, KindsInv
  <1>3. pending' = {}
    BY <1>0, <1>1, <1>2 DEF IInv, PendingInv, SectionsToFetch, PerRepoSections, Simple
  <1>4. TypeOK'
    BY <1>0, <1>3 DEF IInv, TypeOK, semaphore, Sections, Optional
  <1>5. SemaphoreInv' /\ KindsInv'
    BY <1>0 DEF IInv, SemaphoreInv, KindsInv, semaphore
  <1>6. StartInv' /\ CountInv'
    BY <1>0, <1>1 DEF IInv, StartInv, CountInv
  <1>7. PendingInv'
    BY <1>0, <1>1, <1>2, <1>3, JobTypes DEF IInv, PendingInv, SectionsToFetch, PerRepoSections
  <1>8. LossInv'
    BY <1>0, <1>1, <1>2 DEF IInv, LossInv, HygieneOn
  <1> QED
    BY <1>4, <1>5, <1>6, <1>7, <1>8 DEF IInv

LEMMA GatherFailsInv ==
    ASSUME IInv, GatherFails
    PROVE  IInv'
  <1> USE DEF GatherFails, semaphore, progress
  <1>1. latest # None
    BY DEF IInv, StartInv
  <1>2. TypeOK' /\ SemaphoreInv' /\ KindsInv'
    BY DEF IInv, TypeOK, SemaphoreInv, KindsInv
  <1>3. StartInv' /\ CountInv' /\ PendingInv'
    BY <1>1 DEF IInv, StartInv, CountInv, PendingInv, SectionsToFetch
  <1>4. LossInv'
    BY DEF IInv, LossInv, HygieneOn
  <1> QED
    BY <1>2, <1>3, <1>4 DEF IInv

-----------------------------------------------------------------------------
(* Answers *)

LEMMA SimplyInv ==
    ASSUME IInv, NEW j \in Simple, NEW outcome \in Outcomes, Simply(j, outcome)
    PROVE  IInv'
  <1>0. /\ at[j] = "request" /\ at' = [at EXCEPT ![j] = "done"] /\ UNCHANGED semaphore
        /\ pending' = pending \ {j} /\ latest' = pending'
        /\ \E noted \in {{}, {j}} : degraded' = degraded \cup noted /\ lost' = lost \cup noted
        /\ UNCHANGED <<features, main, live, got, facts, repos_left>>
    BY DEF Simply, Degrade, Emit
  <1>1. SemaphoreType' /\ SemaphoreInv' /\ OthersStay(j) /\ at'[j] = "done"
    BY <1>0, JobTypes, StepStays, SemaphoreTypes DEF Permitted, Queued, Steps, Ends
  <1>2. /\ latest # None /\ latest' # None /\ main # "returned"
        /\ pending \in SUBSET Sections /\ pending' \in SUBSET Sections
    BY <1>0, JobTypes, NoneAssumption DEF IInv, StartInv, PendingInv, TypeOK
  <1>3. \A k \in Jobs \ {j} : at'[k] = at[k]
    BY <1>0, JobTypes DEF IInv, TypeOK
  <1>4. TypeOK'
    BY <1>0, <1>1, <1>2 DEF IInv, TypeOK, SemaphoreType, Sections, Optional, Simple
  <1>5. KindsInv'
    BY <1>0, <1>1, <1>3, JobTypes DEF IInv, KindsInv
  <1>6. StartInv'
    BY <1>0, <1>1, <1>2, <1>3 DEF IInv, StartInv
  <1>7. live \subseteq Repos
    BY DEF IInv, TypeOK
  <1>8. CountInv'
    BY <1>0, <1>2, <1>3, <1>7, JobTypes DEF IInv, CountInv
  <1>9. PendingInv'
    BY <1>0, <1>1, <1>2, <1>3, JobTypes
    DEF IInv, PendingInv, SectionsToFetch, PerRepoSections, Simple
  <1>10. LossInv'
    BY <1>0, <1>2, <1>3, <1>7, JobTypes DEF IInv, LossInv, HygieneOn
  <1> QED
    BY <1>1, <1>4, <1>5, <1>6, <1>8, <1>9, <1>10 DEF IInv

LEMMA HygieneInv ==
    ASSUME IInv, NEW page \in SUBSET live, Hygiene(page)
    PROVE  IInv'
  <1>0. /\ at["HYGIENE"] = "hygiene" /\ Release("HYGIENE", "done") /\ facts' = page
        /\ pending' = pending \ {"HYGIENE"} /\ latest' = pending'
        /\ \E noted \in {{}, {"HYGIENE"}} :
              /\ degraded' = degraded \cup noted /\ lost' = lost \cup noted
              /\ page = live \/ "HYGIENE" \in noted
        /\ UNCHANGED <<features, main, live, got, repos_left>>
    BY DEF Hygiene, Degrade, Emit
  <1>1. SemaphoreType' /\ SemaphoreInv' /\ OthersStay("HYGIENE") /\ at'["HYGIENE"] = "done"
    BY <1>0, JobTypes, ReleasingStays, SemaphoreTypes DEF Permitted, Queued, Steps, Ends
  <1>2. /\ latest # None /\ latest' # None /\ main # "returned"
        /\ pending \in SUBSET Sections /\ pending' \in SUBSET Sections
    BY <1>0, JobTypes, NoneAssumption DEF IInv, StartInv, PendingInv, TypeOK
  <1>3. live \subseteq Repos
    BY DEF IInv, TypeOK
  <1>4. TypeOK'
    BY <1>0, <1>1, <1>2 DEF IInv, TypeOK, SemaphoreType, Sections, Optional
  <1>5. KindsInv'
    BY <1>0, <1>1, JobTypes
    DEF IInv, KindsInv, OthersStay, SameStage, Simple, Early, Late, LookupSteps, Ended
  <1>6. StartInv'
    BY <1>0, <1>1, <1>2 DEF IInv, StartInv, OthersStay, SameStage
  <1>7. CountInv'
    BY <1>0, <1>1, <1>2, <1>3, JobTypes DEF IInv, CountInv, OthersStay, SameStage, Ended
  <1>8. PendingInv'
    BY <1>0, <1>1, <1>2, JobTypes
    DEF IInv, PendingInv, SectionsToFetch, PerRepoSections, Simple, OthersStay, SameStage
  <1>9. LossInv'
    BY <1>0, <1>1, <1>2, <1>3, JobTypes DEF IInv, LossInv, HygieneOn, OthersStay, SameStage
  <1> QED
    BY <1>1, <1>4, <1>5, <1>6, <1>7, <1>8, <1>9 DEF IInv

LEMMA LookupInv ==
    ASSUME IInv, NEW r \in Repos, NEW outcome \in Outcomes, Lookup(r, outcome)
    PROVE  IInv'
  <1> DEFINE step == IF outcome = "ok" THEN "looked_up" ELSE "lookup_lost"
  <1>0. /\ at[r] = "lookup" /\ Release(r, step)
        /\ lost' = IF outcome = "ok" THEN lost ELSE lost \cup {"FAILED_JOBS"}
        /\ UNCHANGED <<features, main, live, got, facts, pending, degraded, repos_left, latest>>
    BY DEF Lookup, progress
  <1>1. /\ SemaphoreType' /\ SemaphoreInv' /\ OthersStay(r) /\ at'[r] = step /\ r \in Jobs
    BY <1>0, JobTypes, ReleasingStays, SemaphoreTypes DEF Permitted, Queued, Steps, Ends
  <1>2. latest # None /\ main # "returned" /\ r \in live
    BY <1>0, JobTypes DEF IInv, StartInv, PendingInv, KindsInv
  <1>3. live \subseteq Repos
    BY DEF IInv, TypeOK
  <1>4. TypeOK'
    BY <1>0, <1>1 DEF IInv, TypeOK, SemaphoreType, Sections, Optional
  <1>5. KindsInv'
    BY <1>0, <1>1, <1>2, JobTypes
    DEF IInv, KindsInv, OthersStay, SameStage, Simple, Early, Late, LookupSteps, Ended
  <1>6. StartInv'
    BY <1>0, <1>1, <1>2 DEF IInv, StartInv, OthersStay, SameStage
  <1>7. CountInv'
    BY <1>0, <1>1, <1>2, <1>3, JobTypes
    DEF IInv, CountInv, OthersStay, SameStage, Early, Late, LookupSteps, Ended
  <1>8. PendingInv'
    BY <1>0, <1>1, <1>2, JobTypes
    DEF IInv, PendingInv, SectionsToFetch, PerRepoSections, Simple, LookupSteps, OthersStay, SameStage
  <1>9. LossInv'
    <2>1. \A k \in live \ {r} : at'[k] = "lookup_lost" <=> at[k] = "lookup_lost"
      BY <1>1, <1>3, JobTypes DEF OthersStay, SameStage
    <2>2. at'["HYGIENE"] = "done" <=> at["HYGIENE"] = "done"
      BY <1>1, JobTypes DEF OthersStay, SameStage
    <2> QED
      BY <1>0, <1>1, <1>2, <2>1, <2>2 DEF IInv, LossInv, HygieneOn
  <1> QED
    BY <1>0, <1>1, <1>4, <1>5, <1>6, <1>7, <1>8, <1>9 DEF IInv

GotType == got \in [PerRepoSections \cup {"CI_USAGE"} -> SUBSET Repos]

LEMMA Filling ==
    ASSUME GotType, NEW sections, NEW r \in Repos, Fill(sections, r)
    PROVE  /\ GotType'
           /\ \A s \in PerRepoSections \cup {"CI_USAGE"} :
                 got'[s] = IF s \in sections THEN got[s] \cup {r} ELSE got[s]
  BY DEF GotType, Fill

\* A repository's entries are filled in while its worker goes on: from one
\* request for details to the next ...
LEMMA DetailInv ==
    ASSUME IInv, NEW r \in Repos, NEW outcome \in Outcomes, NEW next \in {"security", "release"},
           Detail(r, outcome, next)
    PROVE  IInv'
  <1>0. /\ at[r] \in {"runs", "security"} /\ at' = [at EXCEPT ![r] = next] /\ UNCHANGED semaphore
        /\ \E sections \in SUBSET {"CI", "SECURITY"} : Fill(sections, r)
        /\ \E noted \in SUBSET Sections : degraded' = degraded \cup noted /\ lost' = lost \cup noted
        /\ UNCHANGED <<features, main, live, facts, pending, repos_left, latest>>
    <2>1. SectionOf[at[r]] \in Sections
      BY DEF Detail, SectionOf, Sections, PerRepoSections
    <2>2. \E noted \in SUBSET Sections : degraded' = degraded \cup noted /\ lost' = lost \cup noted
      <3>1. CASE outcome = "ok"
        <4>1. degraded' = degraded \cup {} /\ lost' = lost \cup {}
          BY <3>1 DEF Detail, Degrade
        <4> WITNESS {} \in SUBSET Sections
        <4> QED
          BY <4>1
      <3>2. CASE outcome # "ok"
        <4> DEFINE section == SectionOf[at[r]]
        <4>1. degraded' = degraded \cup {section} /\ lost' = lost \cup {section}
          BY <3>2 DEF Detail, Degrade
        <4>2. {section} \in SUBSET Sections
          BY <2>1
        <4> HIDE DEF section
        <4> QED
          BY <4>1, <4>2
      <3> QED
        BY <3>1, <3>2
    <2> QED
      BY <2>2 DEF Detail
  <1>1. /\ holders' = holders /\ queue' = queue /\ at' \in [Jobs -> Steps] /\ r \in Jobs
        /\ at'[r] = next /\ \A k \in Jobs \ {r} : at'[k] = at[k]
    BY <1>0, JobTypes DEF IInv, TypeOK, semaphore, Steps, Requests, Permitted
  <1>2. GotType' /\ got'["RELEASES"] = got["RELEASES"] /\ got'["CI_USAGE"] = got["CI_USAGE"]
        /\ got["CI"] \subseteq got'["CI"] /\ got["SECURITY"] \subseteq got'["SECURITY"]
    <2>1. GotType
      BY DEF IInv, TypeOK, GotType
    <2>2. PICK sections \in SUBSET {"CI", "SECURITY"} : Fill(sections, r)
      BY <1>0
    <2>3. /\ GotType'
          /\ \A s \in PerRepoSections \cup {"CI_USAGE"} :
                got'[s] = IF s \in sections THEN got[s] \cup {r} ELSE got[s]
      BY <2>1, <2>2, Filling
    <2>4. \A s \in {"CI", "SECURITY", "RELEASES", "CI_USAGE"} :
             got'[s] = IF s \in sections THEN got[s] \cup {r} ELSE got[s]
      BY <2>3 DEF PerRepoSections
    <2> QED
      BY <2>2, <2>3, <2>4
  <1>3. latest # None /\ main # "returned"
    BY <1>0, <1>1 DEF IInv, StartInv, PendingInv
  <1>4. TypeOK'
    BY <1>0, <1>1, <1>2 DEF IInv, TypeOK, GotType
  <1>5. SemaphoreInv'
    <2>1. \A k \in Jobs : at'[k] \in Permitted <=> at[k] \in Permitted
      BY <1>0, <1>1 DEF Permitted
    <2>2. \A i \in 1..Len(queue) : queue[i] \in Jobs \ {r}
      BY <1>0, <1>1 DEF IInv, TypeOK, SemaphoreInv, Queued
    <2> QED
      BY <1>1, <2>1, <2>2 DEF IInv, SemaphoreInv
  <1>6. KindsInv'
    BY <1>0, <1>1, JobTypes DEF IInv, KindsInv, Early
  <1>7. StartInv'
    BY <1>0, <1>1, <1>3 DEF IInv, StartInv
  <1>8. CountInv'
    BY <1>0, <1>1, <1>2, <1>3, JobTypes DEF IInv, TypeOK, CountInv, Early, Late, Ended, LookupSteps
  <1>9. PendingInv'
    BY <1>0, <1>1, <1>2, <1>3, JobTypes
    DEF IInv, PendingInv, SectionsToFetch, LookupSteps
  <1>10. LossInv'
    BY <1>0, <1>1, <1>3, JobTypes DEF IInv, TypeOK, LossInv, HygieneOn
  <1> QED
    BY <1>4, <1>5, <1>6, <1>7, <1>8, <1>9, <1>10 DEF IInv

\* ... and when it has ended.
LEMMA FillUsageInv ==
    ASSUME IInv, NEW r \in Repos, at[r] \in Late, Fill({"CI_USAGE"}, r),
           SemaphoreType', SemaphoreInv', OthersStay(r), at'[r] = "done",
           lost \subseteq lost', lost' \subseteq lost \cup {"CI_USAGE"},
           degraded \subseteq degraded', degraded' \subseteq degraded \cup (lost' \cap {"CI_USAGE"}),
           "CI_USAGE" \in lost' \ degraded' => "CI_USAGE" \in lost \/ "HYGIENE" \in degraded,
           UNCHANGED <<features, main, live, facts, pending, repos_left, latest>>
    PROVE  IInv'
  <1>1. GotType' /\ got'["CI_USAGE"] = got["CI_USAGE"] \cup {r}
        /\ \A s \in PerRepoSections : got'[s] = got[s]
    <2>1. GotType
      BY DEF IInv, TypeOK, GotType
    <2>2. /\ GotType'
          /\ \A s \in PerRepoSections \cup {"CI_USAGE"} :
                got'[s] = IF s \in {"CI_USAGE"} THEN got[s] \cup {r} ELSE got[s]
      BY <2>1, Filling
    <2> QED
      BY <2>2 DEF PerRepoSections
  <1>2. latest # None /\ main # "returned" /\ r \in Jobs
    BY JobTypes DEF IInv, StartInv, PendingInv, Late
  <1>3. r \in live /\ live \subseteq Repos
    BY DEF IInv, TypeOK, KindsInv, Late
  <1>4. TypeOK'
    BY <1>1 DEF IInv, TypeOK, GotType, SemaphoreType, Sections, Optional
  <1>5. KindsInv'
    BY <1>2, <1>3, JobTypes
    DEF IInv, KindsInv, OthersStay, SameStage, Simple, Early, Late, LookupSteps, Ended
  <1>6. StartInv'
    BY <1>2 DEF IInv, StartInv, OthersStay, SameStage
  <1>7. CountInv'
    <2>1. r \in got["RELEASES"]
      BY <1>2, <1>3 DEF IInv, CountInv
    <2>2. \A k \in Repos \ {r} : SameStage(at[k], at'[k])
      BY JobTypes DEF OthersStay
    <2> QED
      BY <1>1, <1>2, <1>3, <2>1, <2>2
      DEF IInv, CountInv, SameStage, Early, Late, LookupSteps, Ended, PerRepoSections
  <1>8. PendingInv'
    BY <1>1, <1>2, JobTypes
    DEF IInv, PendingInv, SectionsToFetch, PerRepoSections, LookupSteps, OthersStay, SameStage
  <1>9. LossInv'
    <2>1. \A k \in live : at'[k] = "lookup_lost" <=> at[k] = "lookup_lost"
      BY <1>2, <1>3, JobTypes DEF OthersStay, SameStage, Late
    <2>2. at'["HYGIENE"] = "done" <=> at["HYGIENE"] = "done"
      BY JobTypes DEF OthersStay, SameStage
    <2> QED
      BY <1>2, <2>1, <2>2 DEF IInv, LossInv, HygieneOn
  <1> QED
    BY <1>4, <1>5, <1>6, <1>7, <1>8, <1>9 DEF IInv

LEMMA NoUsageInv ==
    ASSUME IInv, NEW r \in Repos, NoUsage(r)
    PROVE  IInv'
  <1>1. at[r] = "awaiting" /\ at[r] \in Late /\ r \in Jobs
    BY JobTypes DEF NoUsage, Late
  <1>2. SemaphoreType' /\ SemaphoreInv' /\ OthersStay(r) /\ at'[r] = "done"
    BY <1>1, StepStays, SemaphoreTypes DEF NoUsage, Permitted, Queued, Steps, Ends
  <1>3. CASE r \in facts
    BY <1>1, <1>2, <1>3, FillUsageInv DEF NoUsage
  <1>4. CASE r \notin facts
    <2>1. r \in live
      BY <1>1 DEF IInv, KindsInv
    <2>2. "HYGIENE" \in degraded
      BY <1>4, <2>1 DEF NoUsage, IInv, LossInv
    <2> QED
      BY <1>1, <1>2, <1>4, <2>2, FillUsageInv DEF NoUsage
  <1> QED
    BY <1>3, <1>4

LEMMA UsageInv ==
    ASSUME IInv, NEW r \in Repos, NEW outcome \in Outcomes, Usage(r, outcome)
    PROVE  IInv'
  <1>1. at[r] = "usage" /\ at[r] \in Late /\ r \in Jobs /\ Release(r, "done")
    BY JobTypes DEF Usage, Late
  <1>2. SemaphoreType' /\ SemaphoreInv' /\ OthersStay(r) /\ at'[r] = "done"
    BY <1>1, ReleasingStays, SemaphoreTypes DEF Permitted, Queued, Steps, Ends
  <1>3. CASE outcome = "ok"
    BY <1>1, <1>2, <1>3, FillUsageInv DEF Usage, Degrade
  <1>4. CASE outcome # "ok"
    BY <1>1, <1>2, <1>4, FillUsageInv DEF Usage, Degrade
  <1> QED
    BY <1>3, <1>4

\* The last of a repository's details: it counts down, and fills in.
LEMMA LeaveDetailsInv ==
    ASSUME IInv, NEW r \in Repos, NEW outcome \in Outcomes, LeaveDetails(r, outcome)
    PROVE  IInv'
  <1> DEFINE step == IF UsageIsOn THEN "awaiting" ELSE "done"
             sections == PerRepoSections \cup (IF UsageIsOn THEN {} ELSE {"CI_USAGE"})
             section == SectionOf[at[r]]
  <1>0. /\ at[r] \in {"runs", "security", "release"} /\ Release(r, step) /\ Fill(sections, r)
        /\ repos_left' = repos_left - 1
        /\ pending' = IF repos_left' = 0 THEN pending \ PerRepoSections ELSE pending
        /\ latest' = pending'
        /\ UNCHANGED <<features, main, live, facts>>
    BY DEF LeaveDetails, Emit
  <1>1. SemaphoreType' /\ SemaphoreInv' /\ OthersStay(r) /\ at'[r] = step /\ r \in Jobs
    BY <1>0, JobTypes, ReleasingStays, SemaphoreTypes DEF Permitted, Queued, Steps, Ends
  <1>2. /\ latest # None /\ latest' # None /\ main # "returned"
        /\ pending \in SUBSET Sections /\ pending' \in SUBSET Sections
    BY <1>0, JobTypes, NoneAssumption DEF IInv, StartInv, PendingInv, TypeOK
  <1>3. r \in live \ got["RELEASES"] /\ live \in SUBSET Repos /\ CountInv
    BY <1>0, <1>2 DEF IInv, TypeOK, CountInv, Early
  <1>4. /\ GotType'
        /\ \A s \in PerRepoSections : got'[s] = got[s] \cup {r}
        /\ got["CI_USAGE"] \subseteq got'["CI_USAGE"]
        /\ step = "done" => r \in got'["CI_USAGE"]
    <2>1. GotType
      BY DEF IInv, TypeOK, GotType
    <2>2. /\ GotType'
          /\ \A s \in PerRepoSections \cup {"CI_USAGE"} :
                got'[s] = IF s \in sections THEN got[s] \cup {r} ELSE got[s]
      BY <1>0, <2>1, Filling
    <2> QED
      BY <2>2 DEF PerRepoSections
  <1>5. /\ repos_left' = Cardinality(live \ got'["RELEASES"])
        /\ repos_left' \in Nat
        /\ repos_left' = 0 <=> live \subseteq got'["RELEASES"]
    <2> DEFINE left == live \ got["RELEASES"]
    <2>1. live \ got'["RELEASES"] = left \ {r}
      BY <1>4 DEF PerRepoSections
    <2>2. IsFiniteSet(left)
      BY <1>3, ReposAssumption, FS_Subset
    <2>3. IsFiniteSet(left \ {r}) /\ Cardinality(left \ {r}) = Cardinality(left) - 1
      BY <1>3, <2>2, FS_RemoveElement
    <2>4. Cardinality(left \ {r}) \in Nat /\ (Cardinality(left \ {r}) = 0 <=> left \ {r} = {})
      BY <2>3, FS_CardinalityType, FS_EmptySet
    <2>5. repos_left = Cardinality(left)
      BY <1>3 DEF CountInv
    <2> QED
      BY <1>0, <2>1, <2>3, <2>4, <2>5
  <1>6. /\ section \in PerRepoSections /\ PerRepoSections \subseteq Sections
        /\ \/ degraded' = degraded /\ lost' = lost
           \/ degraded' = degraded \cup {section} /\ lost' = lost \cup {section}
    <2>1. section \in PerRepoSections
      BY <1>0 DEF SectionOf, PerRepoSections
    <2>2. \/ degraded' = degraded /\ lost' = lost
          \/ degraded' = degraded \cup {section} /\ lost' = lost \cup {section}
      BY DEF LeaveDetails, Degrade
    <2> QED
      BY <2>1, <2>2 DEF Sections
  <1>7. step \in {"awaiting", "done"}
    OBVIOUS
  <1> HIDE DEF step, sections, section
  <1>8. TypeOK'
    BY <1>0, <1>1, <1>2, <1>4, <1>5, <1>6 DEF IInv, TypeOK, GotType, SemaphoreType
  <1>9. KindsInv'
    BY <1>0, <1>1, <1>3, <1>7, JobTypes
    DEF IInv, KindsInv, OthersStay, SameStage, Simple, Early, Late, LookupSteps, Ended
  <1>10. StartInv'
    BY <1>0, <1>1, <1>2, <1>7 DEF IInv, StartInv, OthersStay, SameStage
  <1>11. CountInv'
    <2>1. \A k \in Repos \ {r} : SameStage(at[k], at'[k])
      BY <1>1, JobTypes DEF OthersStay
    <2>2. /\ got'["RELEASES"] = got["RELEASES"] \cup {r}
          /\ got'["CI"] = got["CI"] \cup {r} /\ got'["SECURITY"] = got["SECURITY"] \cup {r}
      BY <1>4 DEF PerRepoSections
    <2> QED
      BY <1>0, <1>1, <1>3, <1>4, <1>5, <1>7, <2>1, <2>2
      DEF CountInv, SameStage, Early, Late, LookupSteps, Ended
  <1>12. PendingInv'
    <2>1. PendingInv
      BY <1>2 DEF IInv
    <2>2. /\ \A j \in Simple \cup {"HYGIENE", "WORKERS"} : at'[j] = "done" <=> at[j] = "done"
          /\ \A k \in Repos : at'[k] \in LookupSteps => at[k] \in LookupSteps
      BY <1>1, <1>7, JobTypes DEF OthersStay, SameStage, LookupSteps
    <2>3. /\ pending' \subseteq pending /\ pending \ pending' \subseteq PerRepoSections
          /\ pending # pending' => live \subseteq got'["RELEASES"]
          /\ live \subseteq got'["RELEASES"] => pending' \cap PerRepoSections = {}
          /\ got["RELEASES"] \subseteq got'["RELEASES"] /\ got["CI_USAGE"] \subseteq got'["CI_USAGE"]
      BY <1>0, <1>4, <1>5 DEF PerRepoSections
    <2>4. "CI" \in PerRepoSections /\ PerRepoSections \cap (Simple \cup {"HYGIENE", "CI_USAGE", "FAILED_JOBS"}) = {}
      BY DEF PerRepoSections, Simple
    <2>5. SectionsToFetch(live)' = SectionsToFetch(live)
      BY <1>0 DEF SectionsToFetch
    <2> QED
      BY <1>0, <1>2, <2>1, <2>2, <2>3, <2>4, <2>5 DEF PendingInv
  <1>13. LossInv'
    <2>1. \A k \in live : at'[k] = "lookup_lost" <=> at[k] = "lookup_lost"
      BY <1>0, <1>1, <1>3, <1>7, JobTypes DEF OthersStay, SameStage
    <2>2. at'["HYGIENE"] = "done" <=> at["HYGIENE"] = "done"
      BY <1>1, JobTypes DEF OthersStay, SameStage
    <2> QED
      BY <1>0, <1>2, <1>6, <2>1, <2>2 DEF IInv, LossInv, HygieneOn
  <1> QED
    BY <1>1, <1>8, <1>9, <1>10, <1>11, <1>12, <1>13 DEF IInv

-----------------------------------------------------------------------------
(* Every behaviour *)

LEMMA NextInv == IInv /\ [Next]_vars => IInv'
  <1> SUFFICES ASSUME IInv, [Next]_vars PROVE IInv'
    OBVIOUS
  <1>1. CASE MainStep
    BY <1>1, ListedInv, NotListedInv, GatheredInv, LookedUpInv, GatherFailsInv DEF MainStep
  <1>2. ASSUME NEW r \in Repos, WorkerStep(r) PROVE IInv'
    <2>1. r \in Jobs \ {"WORKERS"}
      BY JobTypes
    <2> QED
      BY <1>2, <2>1, StartWorkerInv, NoUsageInv, AskUsageInv, AwaitFailsInv, StartLookupInv, BreakInv,
         DetailInv, LeaveDetailsInv, UsageInv, LookupInv DEF WorkerStep
  <1>3. ASSUME NEW j \in Simple, PartStep(j) PROVE IInv'
    <2>1. j \in Jobs \ {"WORKERS"}
      BY JobTypes
    <2> QED
      BY <1>3, <2>1, BreakInv, SimplyInv DEF PartStep
  <1>4. CASE HygieneStep
    <2>1. "HYGIENE" \in Jobs \ {"WORKERS"}
      BY JobTypes
    <2> QED
      BY <1>4, <2>1, StartHygieneInv, HygieneInv, BreakInv DEF HygieneStep
  <1>5. CASE WorkersEnd
    BY <1>5, WorkersEndInv
  <1>6. CASE UNCHANGED vars
    BY <1>6 DEF vars, semaphore, progress, IInv, TypeOK, SemaphoreInv, KindsInv, StartInv, CountInv,
                PendingInv, LossInv, SectionsToFetch, HygieneOn
  <1> QED
    BY <1>1, <1>2, <1>3, <1>4, <1>5, <1>6 DEF Next

\* The inductive invariant holds throughout.
THEOREM Invariance == Spec => []IInv
  BY InitInv, NextInv, PTL DEF Spec

\* The variables keep their types; in particular the countdown of the workers
\* never passes zero.
THEOREM TypeCorrect == Spec => []TypeOK
  <1>1. IInv => TypeOK
    BY DEF IInv
  <1> QED
    BY <1>1, Invariance, PTL

\* However many permits there are, they are never exceeded, and no job holds one
\* while it waits for another job - _repo_usage awaits the hygiene lookup
\* outside the semaphore.
THEOREM PermitsAreForWork == Spec => []PermitsWork
  <1>1. IInv => PermitsWork
    BY DEF IInv, SemaphoreInv, PermitsWork
  <1> QED
    BY <1>1, Invariance, PTL

\* Whatever the order of the answers, a section stops being pending when the
\* last job that fetches it is done with it (the countdown in worker).
THEOREM PendingSectionsAreExact == Spec => []PendingIsExact
  <1>1. IInv => PendingIsExact
    <2> SUFFICES ASSUME IInv, latest # None PROVE PendingIsExact
      BY DEF PendingIsExact
    <2>1. CountInv /\ PendingInv /\ live \subseteq Repos
      BY DEF IInv, TypeOK
    <2>2. \A s \in PerRepoSections : got["RELEASES"] \subseteq got[s]
      BY <2>1 DEF CountInv, PerRepoSections
    <2>3. "CI_USAGE" \notin PerRepoSections
      BY DEF PerRepoSections
    <2> QED
      BY <2>1, <2>2, <2>3 DEF PendingIsExact, PendingInv
  <1> QED
    BY <1>1, Invariance, PTL

\* Nothing is degraded without being lost, and a loss is named - at the latest
\* when its section stops being pending.
THEOREM LossesAreNoted == Spec => []LossIsNoted
  <1>1. IInv => LossIsNoted
    <2> SUFFICES ASSUME IInv PROVE LossIsNoted
      OBVIOUS
    <2>1. degraded \subseteq lost
      BY DEF IInv, LossInv
    <2>2. ASSUME NEW s \in lost \ pending, s \notin degraded
          PROVE  s = "CI_USAGE" /\ "HYGIENE" \in degraded
      <3> SUFFICES ASSUME s = "FAILED_JOBS", main # "returned", \E r \in live : at[r] = "lookup_lost"
                   PROVE  FALSE
        BY <2>2 DEF IInv, LossInv
      <3>1. latest # None
        BY <2>2 DEF IInv, StartInv
      <3>2. "FAILED_JOBS" \in features
        BY <3>1 DEF IInv, TypeOK, PendingInv, LookupSteps
      <3> QED
        BY <2>2, <3>1, <3>2 DEF IInv, PendingInv, SectionsToFetch
    <2> QED
      BY <2>1, <2>2 DEF LossIsNoted
  <1> QED
    BY <1>1, Invariance, PTL

\* A refresh in which anything has failed for good (a refused token) does not
\* return an overview.
THEOREM NoErrorIsSwallowed == Spec => []ErrorsAreFatal
  <1>1. IInv => ErrorsAreFatal
    BY DEF IInv, ErrorsAreFatal, StartInv, PendingInv
  <1> QED
    BY <1>1, Invariance, PTL

-----------------------------------------------------------------------------
(* The contract *)

LEMMA PublishKeepsContract ==
    ASSUME IInv, latest # None, main # "returned", main' = main,
           latest' = pending', pending' \in SUBSET pending
    PROVE  Contract!Publish
  <1>1. pending \in SUBSET Sections /\ latest = pending /\ main \in {"parts", "lookups", "failed"}
    BY DEF IInv, TypeOK, StartInv, PendingInv
  <1>2. latest' # None /\ latest' \in SUBSET Sections
    BY <1>1, NoneAssumption
  <1> QED
    BY <1>1, <1>2 DEF Contract!Publish

LEMMA StillKeepsContract ==
    ASSUME UNCHANGED <<main, pending, latest>>
    PROVE  UNCHANGED Contract!contract
  BY DEF Contract!contract

LEMMA MainKeepsContract ==
    ASSUME IInv, IInv', MainStep
    PROVE  [Contract!Next]_(Contract!contract)
  <1>1. ASSUME NEW repos \in SUBSET Repos, Listed(repos)
        PROVE  Contract!Publish
    <2>1. latest = None /\ main = "repositories" /\ main' = "parts"
      BY <1>1 DEF Listed, IInv, StartInv
    <2>2. latest' = pending' /\ pending' \in SUBSET Sections
      BY <1>1 DEF Listed, Emit, IInv, TypeOK
    <2>3. latest' # None
      BY <2>2, NoneAssumption
    <2> QED
      BY <2>1, <2>2, <2>3 DEF Contract!Publish
  <1>2. ASSUME NEW error \in {"outage", "failed"}, NotListed(error)
        PROVE  Contract!Outage \/ Contract!Fail
    <2>1. latest = None /\ latest' = latest /\ main = "repositories" /\ main' = error
      BY <1>2 DEF NotListed, IInv, StartInv
    <2> QED
      BY <2>1 DEF Contract!Outage, Contract!Fail
  <1>3. ASSUME main \in {"parts", "lookups"}, main' = "returned"
        PROVE  Contract!Return
    <2>1. latest # None /\ latest' # None
      BY <1>3 DEF IInv, StartInv
    <2>2. pending' = {}
      BY <1>3, <2>1 DEF IInv, PendingInv
    <2> QED
      BY <1>3, <2>1, <2>2 DEF Contract!Return
  <1>4. ASSUME NEW runs \in Lookups, Gathered(runs)
        PROVE  Contract!Return \/ UNCHANGED Contract!contract
    <2>1. CASE runs = {}
      BY <1>3, <1>4, <2>1 DEF Gathered
    <2>2. CASE runs # {}
      BY <1>4, <2>2 DEF Gathered, Contract!contract
    <2> QED
      BY <2>1, <2>2
  <1>5. ASSUME LookedUp
        PROVE  Contract!Return
    BY <1>3, <1>5 DEF LookedUp
  <1>6. ASSUME GatherFails
        PROVE  Contract!Fail
    BY <1>6 DEF GatherFails, Contract!Fail
  <1> QED
    BY <1>1, <1>2, <1>4, <1>5, <1>6 DEF MainStep, Contract!Next

LEMMA WorkerKeepsContract ==
    ASSUME IInv, IInv', NEW r \in Repos, WorkerStep(r)
    PROVE  [Contract!Next]_(Contract!contract)
  <1>1. ASSUME NEW outcome \in Outcomes, LeaveDetails(r, outcome)
        PROVE  Contract!Publish
    <2>1. latest # None /\ main # "returned"
      BY <1>1, JobTypes DEF LeaveDetails, IInv, StartInv, PendingInv
    <2> QED
      BY <1>1, <2>1, PublishKeepsContract DEF LeaveDetails, Emit
  <1>2. CASE UNCHANGED <<main, pending, latest>>
    BY <1>2, StillKeepsContract
  <1>3. (\E outcome \in Outcomes : LeaveDetails(r, outcome)) \/ UNCHANGED <<main, pending, latest>>
    BY DEF WorkerStep, StartWorker, NoUsage, AskUsage, AwaitFails, StartLookup, Break, Detail, Usage, Lookup,
           progress
  <1> QED
    BY <1>1, <1>2, <1>3 DEF Contract!Next

LEMMA PartKeepsContract ==
    ASSUME IInv, IInv', NEW j \in Simple, PartStep(j)
    PROVE  [Contract!Next]_(Contract!contract)
  <1>1. ASSUME NEW outcome \in Outcomes, Simply(j, outcome)
        PROVE  Contract!Publish
    <2>1. latest # None /\ main # "returned"
      BY <1>1, JobTypes DEF Simply, IInv, StartInv, PendingInv
    <2> QED
      BY <1>1, <2>1, PublishKeepsContract DEF Simply, Emit
  <1>2. CASE Break(j)
    BY <1>2, StillKeepsContract DEF Break, progress
  <1> QED
    BY <1>1, <1>2 DEF PartStep, Contract!Next

LEMMA HygieneKeepsContract ==
    ASSUME IInv, IInv', HygieneStep
    PROVE  [Contract!Next]_(Contract!contract)
  <1>1. ASSUME NEW page \in SUBSET live, Hygiene(page)
        PROVE  Contract!Publish
    <2>1. latest # None /\ main # "returned"
      BY <1>1, JobTypes DEF Hygiene, IInv, StartInv, PendingInv
    <2> QED
      BY <1>1, <2>1, PublishKeepsContract DEF Hygiene, Emit
  <1>2. CASE StartHygiene \/ Break("HYGIENE")
    BY <1>2, StillKeepsContract DEF StartHygiene, Break, progress
  <1> QED
    BY <1>1, <1>2 DEF HygieneStep, Contract!Next

LEMMA WorkersEndKeepsContract ==
    ASSUME IInv, IInv', WorkersEnd
    PROVE  Contract!Publish
  <1>1. latest # None /\ main # "returned"
    BY JobTypes DEF WorkersEnd, IInv, StartInv, PendingInv
  <1> QED
    BY <1>1, PublishKeepsContract DEF WorkersEnd, Emit

\* A refresh is what GetOverview takes it to be: its overviews only get more
\* complete, the one it returns lacks nothing, and an outage ends it before the
\* first of them or not at all.
THEOREM ContractIsKept == Spec => KeepsContract
  <1>1. Init => Contract!Init
    BY DEF Init, Contract!Init
  <1>2. IInv /\ IInv' /\ [Next]_vars => [Contract!Next]_(Contract!contract)
    <2> SUFFICES ASSUME IInv, IInv', [Next]_vars
                 PROVE  [Contract!Next]_(Contract!contract)
      OBVIOUS
    <2>1. CASE MainStep
      BY <2>1, MainKeepsContract
    <2>2. CASE \E r \in Repos : WorkerStep(r)
      BY <2>2, WorkerKeepsContract
    <2>3. CASE \E j \in Simple : PartStep(j)
      BY <2>3, PartKeepsContract
    <2>4. CASE HygieneStep
      BY <2>4, HygieneKeepsContract
    <2>5. CASE WorkersEnd
      BY <2>5, WorkersEndKeepsContract DEF Contract!Next
    <2>6. CASE UNCHANGED vars
      BY <2>6, StillKeepsContract DEF vars, progress
    <2> QED
      BY <2>1, <2>2, <2>3, <2>4, <2>5, <2>6 DEF Next
  <1> QED
    BY <1>1, <1>2, Invariance, PTL DEF Spec, KeepsContract, Contract!Spec
=============================================================================
