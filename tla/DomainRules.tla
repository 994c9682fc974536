---------------------------- MODULE DomainRules ----------------------------
(***************************************************************************)
(* The pure rules of app/domain: what an overview says of pull requests,   *)
(* runs, alerts, hygiene and totals, given what GitHub answered.  Instants *)
(* are integers, Day of them a day; Python's None is Nothing.              *)
(***************************************************************************)
EXTENDS Lists

CONSTANTS
    Nothing,        \* Python's None
    Day,            \* ticks per day
    StaleAfter,     \* stale_after, in ticks
    LongRunAfter    \* long_run_after, in ticks

ASSUME DomainConstants ==
    /\ Day \in Nat \ {0}
    /\ StaleAfter \in Nat /\ LongRunAfter \in Nat

OrZero(x) == IF x = Nothing THEN 0 ELSE x
GetOr(f, key, default) == IF key \in DOMAIN f THEN f[key] ELSE default

-----------------------------------------------------------------------------
(* Pull requests                                                           *)

Urgency == << "conflict", "failing", "changes_requested", "draft",
              "pending_checks", "ready", "awaiting_review" >>

\* One state per pull request, the first that applies.
PrState(pr) ==
    LET applies == [conflict          |-> pr.mergeable = "conflicting",
                    failing           |-> pr.checks \in {"failure", "error"},
                    changes_requested |-> pr.review = "changes_requested",
                    draft             |-> pr.draft,
                    pending_checks    |-> pr.checks = "pending",
                    ready             |-> /\ pr.review = "approved"
                                          /\ pr.checks \in {"success", Nothing}
                                          /\ pr.mergeable # "conflicting",
                    awaiting_review   |-> TRUE]
    IN  Urgency[SelectInSeq(Urgency, LAMBDA s : applies[s])]

\* What a pull request or an issue derives from the clock, in whole days.
Marked(item, now) ==
    [item EXCEPT !.stale = now - item.updated >= StaleAfter,
                 !.age   = (now - item.created) \div Day]

MarkedPr(pr, now) == [Marked(pr, now) EXCEPT !.idle = (now - pr.updated) \div Day]

MarkedBranch(b, now) ==
    [b EXCEPT !.stale = b.commit # Nothing /\ now - b.commit >= StaleAfter]

MarkStale(repo, now) ==
    [repo EXCEPT !.prs      = [i \in DOMAIN @ |-> MarkedPr(@[i], now)],
                 !.issues   = [i \in DOMAIN @ |-> Marked(@[i], now)],
                 !.branches = [i \in DOMAIN @ |-> MarkedBranch(@[i], now)]]

-----------------------------------------------------------------------------
(* Workflow runs                                                           *)

FailedStatuses == {"failure", "timed_out", "startup_failure"}
ActiveStatuses == {"in_progress", "queued"}
Failed(run) == run.status \in FailedStatuses
Active(run) == run.status \in ActiveStatuses

\* Wall-clock time of a run that is over; a clock that went back gives nothing.
Duration(run) == IF Active(run) THEN 0 ELSE Max({0, run.updated - run.started})

RepoCi(state, runs, failed, active, seconds) ==
    [state |-> state, runs |-> runs, failed |-> failed, active |-> active,
     long |-> 0, seconds |-> seconds]

\* Mutant: a run that is under way hides a failed one.
RunningFirst(runs) ==
    LET newest == runs[SelectInSeq(runs, LAMBDA r : ~ Active(r))]
    IN  CASE \E i \in DOMAIN runs : Active(runs[i]) -> "running"
          [] \A i \in DOMAIN runs : ~ Active(runs[i]) ->
               IF \E i \in DOMAIN runs : Failed(runs[i]) THEN "failing"
               ELSE IF newest.status = "success" THEN "passing" ELSE "neutral"

\* The newest run comes first.
CiStateOf(runs) ==
    LET newest == runs[SelectInSeq(runs, LAMBDA r : ~ Active(r))]
    IN  CASE \E i \in DOMAIN runs : Failed(runs[i]) -> "failing"
          [] \A i \in DOMAIN runs : ~ Failed(runs[i]) ->
               IF \E i \in DOMAIN runs : Active(runs[i]) THEN "running"
               ELSE IF newest.status = "success" THEN "passing" ELSE "neutral"

ClassifyCi(runs, error) ==
    CASE error # Nothing -> RepoCi("unavailable", runs, 0, 0, 0)
      [] error = Nothing /\ runs = << >> -> RepoCi("none", runs, 0, 0, 0)
      [] error = Nothing /\ runs # << >> ->
           RepoCi(CiStateOf(runs), runs, CountOf(runs, Failed), CountOf(runs, Active),
                  SumOf(runs, Duration))

SkippedCi == RepoCi("skipped", << >>, 0, 0, 0)
PendingCi == RepoCi("unavailable", << >>, 0, 0, 0)

MarkLongRunning(ci, now) ==
    LET Long(r) == Active(r) /\ now - r.created >= LongRunAfter
    IN  [ci EXCEPT !.runs = [i \in DOMAIN @ |-> [@[i] EXCEPT !.long = Long(ci.runs[i])]],
                   !.long = CountOf(ci.runs, Long)]

-----------------------------------------------------------------------------
(* Security alerts: Nothing is "not told", never zero                      *)

AlertTotal(counts) ==
    IF counts = Nothing THEN 0
    ELSE counts.critical + counts.high + counts.moderate + counts.low

SecurityTotal(s) ==
    AlertTotal(s.dependabot) + AlertTotal(s.codeScanning) + OrZero(s.secrets)

AtLevel(s, level) ==
    LET of(counts) == IF counts = Nothing THEN 0 ELSE counts[level]
    IN  of(s.dependabot) + of(s.codeScanning)

-----------------------------------------------------------------------------
(* Hygiene                                                                 *)

\* A check that cannot mean anything for a repository is not among its checks.
AssessHygiene(facts) ==
    LET checks ==
          [readme                 |-> facts.readme,
           license                |-> facts.license,
           ci_workflow            |-> facts.workflows > 0,
           dependency_updates     |-> facts.dependabot \/ facts.renovate,
           branch_protection      |-> facts.rules > 0 \/ facts.rulesets > 0,
           vulnerability_alerts   |-> facts.alerts,
           delete_branch_on_merge |-> facts.deleteBranch,
           security_policy        |-> facts.policy,
           codeowners             |-> facts.codeowners]
        shared == facts.collaborators # Nothing /\ facts.collaborators > 1
    IN  [checks     |-> IF shared THEN checks ELSE Restrict(checks, DOMAIN checks \ {"codeowners"}),
         applicable |-> ~ (facts.archived \/ facts.fork)]

FailingKeys(h) == {key \in DOMAIN h.checks : ~ h.checks[key]}

Score(h) ==
    LET total == Cardinality(DOMAIN h.checks)
    IN  IF ~ h.applicable \/ total = 0 THEN 100
        ELSE Round(100 * (total - Cardinality(FailingKeys(h))), total)

HygieneAverage(repos) ==
    LET scored == {i \in DOMAIN repos : repos[i].hygiene.applicable}
    IN  IF scored = {} THEN 100
        ELSE Round(SumFunction([i \in scored |-> Score(repos[i].hygiene)]), Cardinality(scored))

ReposMissing(repos, key) ==
    CountOf(repos, LAMBDA r : r.hygiene.applicable /\ key \in FailingKeys(r.hygiene))

-----------------------------------------------------------------------------
(* The overview                                                            *)

NoSecurity == [dependabot |-> Nothing, codeScanning |-> Nothing, secrets |-> Nothing]
NoHygiene  == [checks |-> << >>, applicable |-> FALSE]
NoUsage    == [seconds |-> 0, runs |-> 0]

\* The parts are partial functions from the repository's name: what is not in
\* yet, or could not be had, is simply not in their domain.
RepoOverview(repo, parts, now) ==
    [repository |-> MarkStale(repo, now),
     ci         |-> MarkLongRunning(GetOr(parts.ci, repo.name, ClassifyCi(<< >>, Nothing)), now),
     security   |-> GetOr(parts.security, repo.name, NoSecurity),
     release    |-> GetOr(parts.release, repo.name, Nothing),
     hygiene    |-> GetOr(parts.hygiene, repo.name, NoHygiene),
     usage      |-> GetOr(parts.usage, repo.name, NoUsage)]

\* Failing repositories first, then the most recently pushed.
ShownBefore(r, s) ==
    LET failing(x) == x.ci.state = "failing"
        pushed(x) == OrZero(x.repository.pushed)
    IN  \/ failing(r) /\ ~ failing(s)
        \/ failing(r) = failing(s) /\ pushed(r) > pushed(s)

\* Mutant: the pull requests that are loaded are all there are.
LoadedPrs(r) == CountOf(r.repository.prs, LAMBDA p : ~ p.bot)

\* A repository's count of open pull requests may exceed the few that are loaded:
\* the rest counts as people's.
HumanPrs(r) ==
    LET prs == r.repository.prs
    IN  CountOf(prs, LAMBDA p : ~ p.bot) + Max({0, r.repository.openPrs - Len(prs)})

\* The checks with a total of their own.
CountedKeys == {"ci_workflow", "branch_protection", "dependency_updates", "license"}

\* Stars, forks, open issues and notifications, plain sums like the others, are left out.
TotalsOf(repos, inbox) ==
    LET Sum(f(_)) == SumOf(repos, f)
        Count(P(_)) == CountOf(repos, P)
        CountPrs(P(_)) == SumOf(repos, LAMBDA r : CountOf(r.repository.prs, P))
        unreleased(r) == IF r.release = Nothing THEN 0 ELSE OrZero(r.release.unreleased)
        ages == UNION {{p.age : p \in ToSet(r.repository.prs)} : r \in ToSet(repos)}
    IN [repos                |-> Len(repos),
        private              |-> Count(LAMBDA r : r.repository.private),
        archived             |-> Count(LAMBDA r : r.repository.archived),
        open_prs             |-> Sum(LAMBDA r : r.repository.openPrs),
        failed_runs          |-> Sum(LAMBDA r : r.ci.failed),
        repos_failing        |-> Count(LAMBDA r : r.ci.state = "failing"),
        active_runs          |-> Sum(LAMBDA r : r.ci.active),
        long_running_runs    |-> Sum(LAMBDA r : r.ci.long),
        human_prs            |-> Sum(HumanPrs),
        bot_prs              |-> CountPrs(LAMBDA p : p.bot),
        stale_prs            |-> CountPrs(LAMBDA p : p.stale),
        prs_ready            |-> CountPrs(LAMBDA p : PrState(p) = "ready"),
        prs_changes_requested |-> CountPrs(LAMBDA p : PrState(p) = "changes_requested"),
        prs_failing          |-> CountPrs(LAMBDA p : PrState(p) \in {"failing", "conflict"}),
        stale_issues         |-> Sum(LAMBDA r : CountOf(r.repository.issues, LAMBDA i : i.stale)),
        oldest_pr_days       |-> IF ages = {} THEN 0 ELSE Max(ages),
        inbox_total          |-> SumOf(inbox, Len),
        security_critical    |-> Sum(LAMBDA r : AtLevel(r.security, "critical")),
        security_high        |-> Sum(LAMBDA r : AtLevel(r.security, "high")),
        security_total       |-> Sum(LAMBDA r : SecurityTotal(r.security)),
        repos_with_alerts    |-> Count(LAMBDA r : SecurityTotal(r.security) > 0),
        secret_alerts        |-> Sum(LAMBDA r : OrZero(r.security.secrets)),
        repos_unreleased     |-> Count(LAMBDA r : unreleased(r) > 0),
        unreleased_commits   |-> Sum(unreleased),
        hygiene_average      |-> HygieneAverage(repos),
        repos_without        |-> [key \in CountedKeys |-> ReposMissing(repos, key)],
        branches_without_pr  |-> Sum(LAMBDA r : Len(r.repository.branches)),
        stale_branches       |-> Sum(LAMBDA r : CountOf(r.repository.branches, LAMBDA b : b.stale)),
        ci_seconds_recent    |-> Sum(LAMBDA r : r.ci.seconds),
        ci_seconds_month     |-> Sum(LAMBDA r : r.usage.seconds),
        ci_seconds_month_private |->
            Sum(LAMBDA r : IF r.repository.private THEN r.usage.seconds ELSE 0),
        ci_seconds_month_public |->
            Sum(LAMBDA r : IF r.repository.private THEN 0 ELSE r.usage.seconds)]

\* The failed runs, each with its repository and its place among all the runs.
FailedRuns(listed) ==
    UNION {{[place |-> <<i, j>>, repo |-> listed[i].repository.name, run |-> listed[i].ci.runs[j]] :
            j \in {k \in DOMAIN listed[i].ci.runs : Failed(listed[i].ci.runs[k])}} :
           i \in DOMAIN listed}

\* The newest first; those of one instant stay as they were collected.
NewestFirst(failed) ==
    LET collected(p, q) == p[1] < q[1] \/ (p[1] = q[1] /\ p[2] < q[2])
        newer == {p \in failed \X failed :
                    \/ p[1].run.updated > p[2].run.updated
                    \/ p[1].run.updated = p[2].run.updated /\ collected(p[1].place, p[2].place)}
        order == InOrder(failed, newer)
    IN  [k \in DOMAIN order |-> [repo |-> order[k].repo, run |-> order[k].run]]

\* Mutant: only the newest one is shown.
NewestFailure(listed) ==
    LET failures == NewestFirst(FailedRuns(listed))
    IN  SubSeq(failures, 1, Min({1, Len(failures)}))

Failures(listed) == NewestFirst(FailedRuns(listed))

BuildOverview(repositories, parts, now) ==
    LET listed == [i \in DOMAIN repositories |-> RepoOverview(repositories[i], parts, now)]
        repos  == SortedBy(listed, ShownBefore)
    IN  [totals        |-> TotalsOf(repos, parts.inbox),
         repos         |-> repos,
         failures      |-> Failures(listed),
         inbox         |-> parts.inbox]
=============================================================================
