---------------------------- MODULE RefreshLoad ----------------------------
(***************************************************************************)
(* One refresh: GetOverview._load of app/application/use_cases.py and the  *)
(* coroutines it runs side by side.  First the repositories are listed;    *)
(* then, concurrently, a worker per repository, the hygiene lookup, the    *)
(* inbox, the notifications and the Actions usage; at last the failed jobs *)
(* of some runs.  Workers, the hygiene lookup and the job lookups share a  *)
(* semaphore, and workers wait for the hygiene lookup to learn whether a   *)
(* repository has CI at all.                                               *)
(*                                                                         *)
(* An action is what one coroutine does when an answer of GitHub reaches   *)
(* it, up to its next request.  Which answer that is, is left open: the    *)
(* data, an outage that the part survives (RateLimited, GitHubUnavailable) *)
(* or an error it does not (AuthenticationError, a bug).                   *)
(***************************************************************************)
EXTENDS Naturals, Sequences, FiniteSets

CONSTANTS
    Repos,           \* repositories of the account that are not archived
    MaxConcurrency,  \* permits of the semaphore
    MaxJobLookups,   \* at most so many failed runs are looked up, where that is on
    FeatureSets,     \* bound: the combinations of optional sections tried
    None

ASSUME ReposAssumption == IsFiniteSet(Repos)
ASSUME MaxConcurrencyAssumption == MaxConcurrency \in Nat \ {0}
ASSUME MaxJobLookupsAssumption == MaxJobLookups \in Nat \ {0}

-----------------------------------------------------------------------------
(* Sections, and the coroutines ("jobs") that fetch them *)

PerRepoSections == {"CI", "SECURITY", "RELEASES"}
Optional == {"SECURITY", "HYGIENE", "CI_USAGE", "ACTIONS_USAGE", "FAILED_JOBS"}
Sections == PerRepoSections \cup Optional \cup {"INBOX", "NOTIFICATIONS"}

ASSUME FeatureSetsAssumption == FeatureSets \subseteq SUBSET Optional

\* A job per repository, and one per part.  WORKERS gathers the repositories'.
Simple == {"INBOX", "NOTIFICATIONS", "ACTIONS_USAGE"}
Parts == Simple \cup {"HYGIENE", "WORKERS"}
Jobs == Repos \cup Parts

ASSUME JobsAssumption == Repos \cap Parts = {}
ASSUME NoneAssumption == \A sections \in SUBSET Sections : None # sections

\* What a job waits for: to be run for the first time, a permit, an answer of
\* GitHub, the hygiene lookup, other workers - or it has ended.
Permitted == {"runs", "security", "release", "usage", "hygiene", "lookup"}
Requests == Permitted \cup {"request"}
Queued == {"details?", "usage?", "hygiene?", "lookup?"}
Ends == {"idle", "done", "failed", "looked_up", "lookup_lost"}
Steps == Requests \cup Queued \cup Ends \cup {"ready", "lookup_ready", "awaiting", "gathering"}

\* What a job asks GitHub for once it has the permit it queued for.
Granted(step) == CASE step = "details?"  -> "runs"
                   [] step = "usage?"    -> "usage"
                   [] step = "hygiene?"  -> "hygiene"
                   [] step = "lookup?"   -> "lookup"

VARIABLES
    features,    \* the optional sections that are switched on
    main,        \* where _load itself is
    live,        \* the repositories the first query listed
    at,          \* where each job is
    holders,     \* jobs that hold a permit
    queue,       \* jobs in line for one
    got,         \* _Progress: per section the repositories whose entry is filled in
    facts,       \* repositories the hygiene page has
    pending,     \* _Progress.pending
    degraded,    \* _Progress.degraded
    repos_left,  \* workers that still have details to fetch
    lost,        \* history: sections of which something was not to be had
    latest       \* `pending` of the overview published last, None before the first

semaphore == <<holders, queue>>
progress == <<got, facts, pending, degraded, repos_left>>
vars == <<features, main, live, at, semaphore, progress, lost, latest>>

Init ==
    /\ features \in FeatureSets
    /\ main = "repositories"
    /\ live = {}
    /\ at = [j \in Jobs |-> "idle"]
    /\ holders = {} /\ queue = <<>>
    /\ got = [s \in PerRepoSections \cup {"CI_USAGE"} |-> {}]
    /\ facts = {} /\ pending = {} /\ degraded = {} /\ repos_left = 0
    /\ lost = {}
    /\ latest = None

TypeOK ==
    /\ features \in FeatureSets
    /\ main \in {"repositories", "parts", "lookups", "returned", "outage", "failed"}
    /\ live \in SUBSET Repos
    /\ at \in [Jobs -> Steps]
    /\ holders \in SUBSET Jobs /\ queue \in Seq(Jobs)
    /\ got \in [PerRepoSections \cup {"CI_USAGE"} -> SUBSET Repos]
    /\ facts \in SUBSET Repos
    /\ pending \in SUBSET Sections /\ degraded \in SUBSET Sections
    /\ repos_left \in Nat
    /\ lost \in SUBSET Sections
    /\ latest \in {None} \cup SUBSET Sections

-----------------------------------------------------------------------------
(* asyncio.Semaphore: permits are handed on in the order they were asked for *)

\* `async with semaphore`: j goes on to ask GitHub, or lines up.
Acquire(j, step) ==
    IF queue = <<>> /\ Cardinality(holders) < MaxConcurrency
    THEN /\ holders' = holders \cup {j}
         /\ at' = [at EXCEPT ![j] = Granted(step)]
         /\ UNCHANGED queue
    ELSE /\ queue' = Append(queue, j)
         /\ at' = [at EXCEPT ![j] = step]
         /\ UNCHANGED holders

\* j leaves the block for `step`; whoever is first in line takes its permit.
Release(j, step) ==
    IF queue = <<>>
    THEN /\ holders' = holders \ {j}
         /\ at' = [at EXCEPT ![j] = step]
         /\ UNCHANGED queue
    ELSE /\ holders' = (holders \ {j}) \cup {Head(queue)}
         /\ at' = [at EXCEPT ![j] = step, ![Head(queue)] = Granted(@)]
         /\ queue' = Tail(queue)

-----------------------------------------------------------------------------
(* _load: the repositories *)

SectionsToFetch(repos) ==
    LET ofRepos == {"CI", "RELEASES"} \cup (features \cap {"SECURITY", "HYGIENE", "CI_USAGE"})
    IN {"INBOX", "NOTIFICATIONS"}
         \cup (IF repos # {} THEN ofRepos ELSE {})
         \cup (features \cap {"ACTIONS_USAGE", "FAILED_JOBS"})

\* emit(): the overview assembled from what is there, with what is pending now.
Emit(nowPending) == pending' = nowPending /\ latest' = nowPending

ListedCountingTooEarly(repos) ==
    /\ main = "repositories"
    /\ main' = "parts"
    /\ live' = repos
    /\ UNCHANGED repos_left
    /\ Emit(SectionsToFetch(repos))
    /\ at' = [j \in Jobs |-> CASE j \in repos \cup {"HYGIENE"}           -> "ready"
                               [] j = "WORKERS"                         -> "gathering"
                               [] j \in Simple \cap pending'            -> "request"
                               [] j \in (Repos \ repos) \cup (Simple \ pending') -> "done"]
    /\ UNCHANGED <<features, semaphore, got, facts, degraded, lost>>

Listed(repos) ==
    /\ main = "repositories"
    /\ main' = "parts"
    /\ live' = repos
    /\ repos_left' = Cardinality(repos)
    /\ Emit(SectionsToFetch(repos))
    /\ at' = [j \in Jobs |-> CASE j \in repos \cup {"HYGIENE"}           -> "ready"
                               [] j = "WORKERS"                         -> "gathering"
                               [] j \in Simple \cap pending'            -> "request"
                               [] j \in (Repos \ repos) \cup (Simple \ pending') -> "done"]
    /\ UNCHANGED <<features, semaphore, got, facts, degraded, lost>>

\* The token or the repositories are not to be had.
NotListed(error) ==
    /\ main = "repositories"
    /\ main' = error
    /\ UNCHANGED <<features, live, at, semaphore, progress, lost, latest>>

-----------------------------------------------------------------------------
(* The parts that are one request each, and the error that no part survives *)

Degrade(outcome, section) ==
    IF outcome = "ok" THEN UNCHANGED <<degraded, lost>>
    ELSE degraded' = degraded \cup {section} /\ lost' = lost \cup {section}

\* _inbox, _notifications, _actions_usage
Simply(j, outcome) ==
    /\ at[j] = "request"
    /\ at' = [at EXCEPT ![j] = "done"]
    /\ Degrade(outcome, j)
    /\ Emit(pending \ {j})
    /\ UNCHANGED <<features, main, live, semaphore, got, facts, repos_left>>

Break(j) ==
    /\ at[j] \in Requests
    /\ IF at[j] \in Permitted
       THEN Release(j, "failed")
       ELSE at' = [at EXCEPT ![j] = "failed"] /\ UNCHANGED semaphore
    /\ UNCHANGED <<features, main, live, progress, lost, latest>>

-----------------------------------------------------------------------------
(* _hygiene *)

StartHygiene ==
    /\ at["HYGIENE"] = "ready"
    /\ IF "HYGIENE" \in features /\ live # {}
       THEN Acquire("HYGIENE", "hygiene?")
       ELSE at' = [at EXCEPT !["HYGIENE"] = "done"] /\ UNCHANGED semaphore
    /\ UNCHANGED <<features, main, live, progress, lost, latest>>

HygieneNotingOutagesOnly(page) ==
    /\ at["HYGIENE"] = "hygiene"
    /\ facts' = page
    /\ Release("HYGIENE", "done")
    /\ degraded' = IF page = {} THEN degraded \cup {"HYGIENE"} ELSE degraded
    /\ lost' = IF page = live THEN lost ELSE lost \cup {"HYGIENE"}
    /\ Emit(pending \ {"HYGIENE"})
    /\ UNCHANGED <<features, main, live, got, repos_left>>

\* The page has some of the repositories: none after an outage, not all when
\* a batch was dropped.
Hygiene(page) ==
    /\ at["HYGIENE"] = "hygiene"
    /\ facts' = page
    /\ Release("HYGIENE", "done")
    /\ Degrade(IF page = live THEN "ok" ELSE "unavailable", "HYGIENE")
    /\ Emit(pending \ {"HYGIENE"})
    /\ UNCHANGED <<features, main, live, got, repos_left>>

-----------------------------------------------------------------------------
(* worker: the details of a repository, with a permit *)

StartWorker(r) ==
    /\ at[r] = "ready"
    /\ Acquire(r, "details?")
    /\ UNCHANGED <<features, main, live, progress, lost, latest>>

SectionOf == [runs |-> "CI", security |-> "SECURITY", release |-> "RELEASES"]

\* What follows the runs, and what follows the alerts; the comparison with the
\* last release is left out for repositories that have none.
Follows(step) ==
    CASE step = "runs"      -> IF "SECURITY" \in features THEN {"security"} ELSE {"release"}
      [] step = "security"  -> {"release"}
      [] step = "release"   -> {}
MayLeave(step) == "release" \in Follows(step) \cup {step}

Fill(sections, r) ==
    got' = [s \in DOMAIN got |-> IF s \in sections THEN got[s] \cup {r} ELSE got[s]]

\* _repo_details: one answer is in, the next request goes out.
Detail(r, outcome, next) ==
    /\ at[r] \in {"runs", "security"}
    /\ next \in Follows(at[r])
    /\ at' = [at EXCEPT ![r] = next]
    /\ Fill(IF next = "security" THEN {"CI"} ELSE {"CI", "SECURITY"}, r)
    /\ Degrade(outcome, SectionOf[at[r]])
    /\ UNCHANGED <<features, main, live, semaphore, facts, pending, repos_left, latest>>

UsageIsOn == "CI_USAGE" \in features

LeaveKeepingPermit(r, outcome) ==
    /\ at[r] \in {"runs", "security", "release"}
    /\ MayLeave(at[r])
    /\ at' = [at EXCEPT ![r] = IF UsageIsOn THEN "awaiting" ELSE "done"]
    /\ UNCHANGED semaphore
    /\ Fill(PerRepoSections \cup (IF UsageIsOn THEN {} ELSE {"CI_USAGE"}), r)
    /\ Degrade(outcome, SectionOf[at[r]])
    /\ repos_left' = repos_left - 1
    /\ Emit(IF repos_left' = 0 THEN pending \ PerRepoSections ELSE pending)
    /\ UNCHANGED <<features, main, live, facts>>

LeaveCountingLate(r, outcome) ==
    /\ at[r] \in {"runs", "security", "release"}
    /\ MayLeave(at[r])
    /\ Release(r, IF UsageIsOn THEN "awaiting" ELSE "done")
    /\ Fill(PerRepoSections \cup (IF UsageIsOn THEN {} ELSE {"CI_USAGE"}), r)
    /\ Degrade(outcome, SectionOf[at[r]])
    /\ repos_left' = repos_left - 1
    /\ Emit(IF repos_left' <= 1 THEN pending \ PerRepoSections ELSE pending)
    /\ UNCHANGED <<features, main, live, facts>>

\* The last answer is in: the permit is free, the repository's sections are
\* complete if it was the last one, and what there is is published.
LeaveDetails(r, outcome) ==
    /\ at[r] \in {"runs", "security", "release"}
    /\ MayLeave(at[r])
    /\ Release(r, IF UsageIsOn THEN "awaiting" ELSE "done")
    /\ Fill(PerRepoSections \cup (IF UsageIsOn THEN {} ELSE {"CI_USAGE"}), r)
    /\ Degrade(outcome, SectionOf[at[r]])
    /\ repos_left' = repos_left - 1
    /\ Emit(IF repos_left' = 0 THEN pending \ PerRepoSections ELSE pending)
    /\ UNCHANGED <<features, main, live, facts>>

-----------------------------------------------------------------------------
(* _repo_usage: without a permit until the hygiene lookup has ended.  (An await *)
(* of a task that has ended does not suspend; here others may run in between.)  *)

HygieneOn == "HYGIENE" \in features

\* No CI workflow, or no hygiene facts that could tell: nothing is asked, and
\* in the second case the CI time there may be counts as lost.
NoUsage(r) ==
    /\ at[r] = "awaiting"
    /\ HygieneOn /\ at["HYGIENE"] = "done"
    /\ at' = [at EXCEPT ![r] = "done"]
    /\ Fill({"CI_USAGE"}, r)
    /\ lost' = IF r \in facts THEN lost ELSE lost \cup {"CI_USAGE"}
    /\ UNCHANGED <<features, main, live, semaphore, facts, pending, degraded, repos_left, latest>>

AskUsage(r) ==
    /\ at[r] = "awaiting"
    /\ HygieneOn => at["HYGIENE"] = "done" /\ r \in facts
    /\ Acquire(r, "usage?")
    /\ UNCHANGED <<features, main, live, progress, lost, latest>>

\* The error of the hygiene lookup reaches whoever awaits it.
AwaitFails(r) ==
    /\ at[r] = "awaiting"
    /\ HygieneOn /\ at["HYGIENE"] = "failed"
    /\ at' = [at EXCEPT ![r] = "failed"]
    /\ UNCHANGED <<features, main, live, semaphore, progress, lost, latest>>

UsageRetriedForever(r, outcome) ==
    /\ at[r] = "usage"
    /\ IF outcome = "ok"
       THEN Release(r, "done") /\ Fill({"CI_USAGE"}, r)
       ELSE Release(r, "awaiting") /\ UNCHANGED got
    /\ UNCHANGED <<features, main, live, facts, pending, degraded, repos_left, lost, latest>>

Usage(r, outcome) ==
    /\ at[r] = "usage"
    /\ Release(r, "done")
    /\ Fill({"CI_USAGE"}, r)
    /\ Degrade(outcome, "CI_USAGE")
    /\ UNCHANGED <<features, main, live, facts, pending, repos_left, latest>>

\* workers(): every worker has ended well.
WorkersEnd ==
    /\ at["WORKERS"] = "gathering"
    /\ \A r \in live : at[r] = "done"
    /\ at' = [at EXCEPT !["WORKERS"] = "done"]
    /\ Emit(pending \ (PerRepoSections \cup {"CI_USAGE"}))
    /\ UNCHANGED <<features, main, live, semaphore, got, facts, degraded, repos_left, lost>>

-----------------------------------------------------------------------------
(* _load again: the parts are gathered, the failed jobs looked up *)

GatheredAnyway(runs) ==
    /\ main = "parts"
    /\ \A j \in Jobs : at[j] \in {"done", "failed"}
    /\ IF runs = {}
       THEN /\ main' = "returned" /\ pending' = pending \ {"FAILED_JOBS"}
            /\ UNCHANGED at
       ELSE /\ main' = "lookups" /\ UNCHANGED pending
            /\ at' = [j \in Jobs |-> IF j \in runs THEN "lookup_ready" ELSE at[j]]
    /\ UNCHANGED <<features, live, semaphore, got, facts, degraded, repos_left, lost, latest>>

\* Every part has ended well: look up the failed jobs of `runs`, the newest
\* failed runs (one of a repository, here), or be done when there are none.
Gathered(runs) ==
    /\ main = "parts"
    /\ \A j \in Jobs : at[j] = "done"
    /\ IF runs = {}
       THEN /\ main' = "returned" /\ pending' = pending \ {"FAILED_JOBS"}
            /\ UNCHANGED at
       ELSE /\ main' = "lookups" /\ UNCHANGED pending
            /\ at' = [j \in Jobs |-> IF j \in runs THEN "lookup_ready" ELSE at[j]]
    /\ UNCHANGED <<features, live, semaphore, got, facts, degraded, repos_left, lost, latest>>

Lookups == {runs \in SUBSET live : /\ Cardinality(runs) <= MaxJobLookups
                                   /\ "FAILED_JOBS" \notin features => runs = {}}

StartLookup(r) ==
    /\ at[r] = "lookup_ready"
    /\ Acquire(r, "lookup?")
    /\ UNCHANGED <<features, main, live, progress, lost, latest>>

Lookup(r, outcome) ==
    /\ at[r] = "lookup"
    /\ Release(r, IF outcome = "ok" THEN "looked_up" ELSE "lookup_lost")
    /\ lost' = IF outcome = "ok" THEN lost ELSE lost \cup {"FAILED_JOBS"}
    /\ UNCHANGED <<features, main, live, progress, latest>>

\* All are in: the overview is complete.
LookedUp ==
    /\ main = "lookups"
    /\ \A j \in Jobs : at[j] \in {"done", "looked_up", "lookup_lost"}
    /\ main' = "returned"
    /\ pending' = pending \ {"FAILED_JOBS"}
    /\ degraded' = IF \E r \in live : at[r] = "lookup_lost"
                   THEN degraded \cup {"FAILED_JOBS"} ELSE degraded
    /\ UNCHANGED <<features, live, at, semaphore, got, facts, repos_left, lost, latest>>

GatherFailsAsOutage ==
    /\ main \in {"parts", "lookups"}
    /\ \E j \in Jobs : at[j] = "failed"
    /\ main' = "outage"
    /\ UNCHANGED <<features, live, at, semaphore, progress, lost, latest>>

\* asyncio.gather passes the first error on and leaves the others running.
GatherFails ==
    /\ main \in {"parts", "lookups"}
    /\ \E j \in Jobs : at[j] = "failed"
    /\ main' = "failed"
    /\ UNCHANGED <<features, live, at, semaphore, progress, lost, latest>>

-----------------------------------------------------------------------------

Outcomes == {"ok", "unavailable"}

MainStep ==
    \/ \E repos \in SUBSET Repos : Listed(repos)
    \/ \E error \in {"outage", "failed"} : NotListed(error)
    \/ \E runs \in Lookups : Gathered(runs)
    \/ LookedUp
    \/ GatherFails

WorkerStep(r) ==
    \/ StartWorker(r) \/ NoUsage(r) \/ AskUsage(r) \/ AwaitFails(r) \/ StartLookup(r) \/ Break(r)
    \/ \E outcome \in Outcomes :
          \/ \E next \in {"security", "release"} : Detail(r, outcome, next)
          \/ LeaveDetails(r, outcome)
          \/ Usage(r, outcome)
          \/ Lookup(r, outcome)

PartStep(j) ==
    \/ Break(j)
    \/ \E outcome \in Outcomes : Simply(j, outcome)

HygieneStep == StartHygiene \/ (\E page \in SUBSET live : Hygiene(page)) \/ Break("HYGIENE")

\* The refresh is over and nothing of it is left.
Over == /\ main \in {"returned", "outage", "failed"}
        /\ \A j \in Jobs \ {"WORKERS"} : at[j] \in Ends

Next ==
    \/ MainStep
    \/ \E r \in Repos : WorkerStep(r)
    \/ \E j \in Simple : PartStep(j)
    \/ HygieneStep
    \/ WorkersEnd
    \/ Over /\ UNCHANGED vars

\* Coroutines that can run do run, and every request is answered: the HTTP
\* client has a timeout, and retries are limited.
Fairness ==
    /\ WF_vars(MainStep)
    /\ \A r \in Repos : WF_vars(WorkerStep(r))
    /\ \A j \in Simple : WF_vars(PartStep(j))
    /\ WF_vars(HygieneStep)
    /\ WF_vars(WorkersEnd)

Spec == Init /\ [][Next]_vars
FairSpec == Spec /\ Fairness

-----------------------------------------------------------------------------
(* Properties *)

\* No more than MaxConcurrency permits are out, and a permit is held by exactly
\* the jobs that wait for an answer which the permits are meant to limit - never
\* by one that waits for another job, which could be in line for the permit.
PermitsWork ==
    /\ Cardinality(holders) <= MaxConcurrency
    /\ \A j \in Jobs : j \in holders <=> at[j] \in Permitted

\* A section of the overview is not listed as pending any more only when all of
\* it is in, whatever the order in which the repositories' workers, the hygiene
\* lookup and the rest land, and the repositories' sections are then listed no
\* longer than that.
PendingIsExact ==
    latest # None =>
        LET delivered == SectionsToFetch(live) \ pending
        IN /\ \A s \in delivered \cap (PerRepoSections \cup {"CI_USAGE"}) : live \subseteq got[s]
           /\ \A s \in delivered \cap (Simple \cup {"HYGIENE"}) : at[s] = "done"
           /\ "FAILED_JOBS" \in delivered => main = "returned"
           /\ live # {} /\ "CI" \in pending => \E r \in live : r \notin got["RELEASES"]

\* What could not be had is named as degraded by the time it is not pending any
\* more - CI time, which is not even asked for without hygiene facts, by the
\* hygiene section at least - and nothing else is.
LossIsNoted ==
    /\ \A s \in lost \ pending : \/ s \in degraded
                                 \/ (s = "CI_USAGE" /\ "HYGIENE" \in degraded)
    /\ degraded \subseteq lost

\* An error no part survives (a refused token, above all) is never swallowed:
\* the refresh does not return an overview.
ErrorsAreFatal == (\E j \in Jobs : at[j] = "failed") => main # "returned"

\* The promise GetOverview relies on.
Contract == INSTANCE RefreshContract WITH
    status <- IF main \in {"returned", "outage", "failed"} THEN main ELSE "running",
    latest <- IF main = "returned" THEN pending ELSE latest
KeepsContract == Contract!Spec

\* The refresh ends, and so does everything it started.
RefreshEnds == <>[]Over

-----------------------------------------------------------------------------
(* What the README says, and the code does not do *)

\* README: "A part GitHub still cannot deliver - ..., CI time, ... - degrades to
\* its empty default and is named in Overview.degraded".
LossIsNamed == main = "returned" => lost \subseteq degraded

=============================================================================
