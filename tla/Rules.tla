------------------------------- MODULE Rules -------------------------------
(***************************************************************************)
(* The rules of app/domain at work, on answers of GitHub's and on          *)
(* documents of other builds.  A subject is what the rules are applied to: *)
(* a pull request, a repository's runs, its hygiene, an overview that      *)
(* fills up, a document; a step changes one thing about it.                *)
(***************************************************************************)
EXTENDS GithubNodes, Codec

CONSTANTS
    Bots,           \* logins of bots
    Now,            \* the clock's reading
    ListedRepos,    \* the names of the repositories, as they are listed
    RepoAnswers,    \* what GitHub may have to say about a repository
    InboxNodes,     \* and about the four parts of the inbox
    HygieneNodes,   \* hygiene nodes in which nothing is missing
    MaxChanges      \* bound: facts lost, fields another build lacks or has

VARIABLE subject

Subject(kind) == subject # Nothing /\ subject.kind = kind

-----------------------------------------------------------------------------
(* Pull requests, runs and hygiene that get worse                          *)

PrNodes ==
    [number : {1}, createdAt : {0}, updatedAt : {0}, author : {Nothing}, isDraft : BOOLEAN,
     reviewDecision : {Nothing, "approved", "changes_requested", "review_required"},
     rollup : DOMAIN ChecksByRollup \cup {Nothing, "BRAND_NEW"},
     mergeable : {Nothing, "mergeable", "conflicting", "unknown"}]

PrGetsWorse ==
    /\ Subject("pr")
    /\ \/ \E r \in {"FAILURE", "ERROR"} : subject' = [subject EXCEPT !.node.rollup = r]
       \/ subject' = [subject EXCEPT !.node.mergeable = "conflicting"]
       \/ subject' = [subject EXCEPT !.node.reviewDecision = "changes_requested"]
       \/ subject' = [subject EXCEPT !.node.isDraft = TRUE]

\* A run's status and conclusion, by how bad it is.
Outcomes == << {<<"completed", "success">>},
               {<<"completed", "cancelled">>, <<"completed", "action_required">>,
                <<"completed", "stale">>, <<"completed", "brand_new">>, <<"completed", Nothing>>},
               {<<"waiting", Nothing>>, <<"in_progress", Nothing>>},
               {<<"completed", "failure">>, <<"completed", "timed_out">>,
                <<"completed", "startup_failure">>} >>

Run(outcome, id, at) ==
    [id |-> id, status |-> outcome[1], conclusion |-> outcome[2],
     created |-> at, updated |-> at + 2, started |-> Nothing]

RunGetsWorse ==
    /\ Subject("runs")
    /\ \E i \in DOMAIN subject.outcomes, bad \in 1 .. 3 :
          /\ subject.outcomes[i] \in Outcomes[bad]
          /\ \E worse \in Outcomes[bad + 1] :
                subject' = [subject EXCEPT !.outcomes[i] = worse]

\* A file is removed, a setting turned off, or GitHub does not tell any more; who
\* else has access, and whose fork it is, decides what is asked for.
FactIsLost ==
    /\ Subject("hygiene")
    /\ subject.lost < MaxChanges
    /\ \E f \in DOMAIN subject.node \ {"nameWithOwner", "isFork", "collaborators"} :
          /\ subject.node[f] # Nothing
          /\ subject' = [subject EXCEPT !.node[f] = Nothing, !.lost = @ + 1]

\* The fields of a hygiene node; at first they are all there, if only as a null.
HygieneFields ==
    {"nameWithOwner", "readmeFile", "licenseInfo", "workflowsDir", "dependabotYml",
     "dependabotYaml", "renovateJson", "renovateJsonGithub", "renovaterc",
     "branchProtectionRules", "rulesets", "hasVulnerabilityAlertsEnabled",
     "deleteBranchOnMerge", "securityMd", "securityMdGithub", "codeownersFile",
     "codeownersFileGithub", "collaborators", "isFork", "refs", "defaultBranch"}

ASSUME HygieneAssumption == \A node \in HygieneNodes : DOMAIN node = HygieneFields

StateOf(s) == PrState(PullRequestFromNode(s.node, Bots))
CiOf(s) == ClassifyCi([i \in DOMAIN s.outcomes |-> RunFromJson(Run(s.outcomes[i], i, 0), Now)],
                      Nothing)
HygieneOf(s) == AssessHygiene(HygieneFactsFromNode(s.node))

-----------------------------------------------------------------------------
(* An overview that fills up                                               *)

Names == ToSet(ListedRepos)
Archived(s, name) == s.answer[name].node.isArchived
Arrived(s, part) == {name \in Names : <<part, name>> \in s.arrived}

\* A name is one repository's, and every repository has one.
ASSUME ListedAssumption ==
    /\ ListedRepos \in Seq(Names) /\ IsInjective(ListedRepos)
    /\ Nothing \notin Names

\* What may be null is Nothing; the rest is there, counts and instants as numbers.
IsList(x) == x \in Seq(ToSet(x))
ListOrNull(x) == x = Nothing \/ IsList(x)
NumberOrNull(x) == x = Nothing \/ x \in Nat

\* A run has a conclusion when it is over; no runs come with an error.
RunsAssumption(answer) ==
    /\ IsList(answer.runs)
    /\ answer.error # Nothing => answer.runs = << >>
    /\ \A i \in DOMAIN answer.runs :
          LET run == answer.runs[i] IN
          /\ NumberOrNull(run.created) /\ NumberOrNull(run.updated)
          /\ run.conclusion \in FailedStatuses =>
                run.status \notin {"queued", "waiting", "pending", "requested", "in_progress"}

\* The fields of a node of the repositories query.
RepositoryFields ==
    {"nameWithOwner", "isPrivate", "isArchived", "pushedAt", "openPrs", "pullRequests",
     "issues", "alerts", "latestRelease", "defaultBranch"}

\* The hygiene node of one repository; a node that is there is not a null.
HygieneNode(answer, name) == [answer.hygiene EXCEPT !.nameWithOwner = name]

ASSUME AnswerAssumption ==
    /\ Now \in Nat
    /\ \A answer \in RepoAnswers :
          LET node == answer.node IN
          /\ DOMAIN node = RepositoryFields /\ node.openPrs \in Nat
          /\ NumberOrNull(node.pushedAt)
          /\ ListOrNull(node.pullRequests) /\ ListOrNull(node.issues) /\ ListOrNull(node.alerts)
          /\ RunsAssumption(answer)
          /\ ListOrNull(answer.levels)
          /\ NumberOrNull(answer.secrets) /\ NumberOrNull(answer.ahead)
          /\ DOMAIN answer.hygiene = HygieneFields /\ ListOrNull(answer.hygiene.refs)
          /\ \A name \in Names : HygieneNode(answer, name) # Nothing
          /\ answer.usage.seconds \in Nat

ASSUME InboxAssumption ==
    IsList(InboxNodes) /\ \A i \in DOMAIN InboxNodes : ListOrNull(InboxNodes[i])

\* Of an archived repository nothing is asked but the repositories query.
ArchivedSecurity(answer) ==
    [NoSecurity EXCEPT !.dependabot = DependabotFromNode(answer.node.alerts)]

\* What is behind the release is known once it was compared with the default branch.
ReleaseOf(answer, compared) ==
    IF answer.node.latestRelease = Nothing THEN Nothing
    ELSE [unreleased |-> IF compared /\ answer.node.defaultBranch # Nothing THEN answer.ahead
                         ELSE Nothing]

\* What _repo_details has of a repository.
Details(answer) ==
    LET runs == [i \in DOMAIN answer.runs |-> RunFromJson(answer.runs[i], Now)]
    IN  [ci       |-> ClassifyCi(runs, answer.error),
         security |-> [dependabot   |-> DependabotFromNode(answer.node.alerts),
                       codeScanning |-> IF answer.levels = Nothing THEN Nothing
                                        ELSE CodeScanningCounts(answer.levels),
                       secrets      |-> answer.secrets]]

\* The page of hygiene facts and branches: of the repositories whose nodes came.
PageOf(s) ==
    HygieneFromNodes([i \in DOMAIN ListedRepos |->
        LET name == ListedRepos[i] IN
        IF name \in s.page THEN HygieneNode(s.answer[name], name) ELSE Nothing])

\* _repo_usage asks of every repository when hygiene is not checked, and else of
\* those that the page has with workflows.
Usage(s, name) ==
    IF \/ ~ s.checks
       \/ name \in s.page /\ HygieneFactsFromNode(s.answer[name].hygiene).workflows > 0
    THEN s.answer[name].usage ELSE NoUsage

\* The branches come with the hygiene nodes.
RepositoryOf(s, page, name) ==
    LET repo == RepositoryFromNode([s.answer[name].node EXCEPT !.nameWithOwner = name], Bots)
    IN  IF name \in DOMAIN page THEN [repo EXCEPT !.branches = page[name].branches]
        ELSE repo

\* Runs that are not in yet are pending, an archived repository has none.
CiOfRepo(s, name) ==
    IF Archived(s, name) THEN SkippedCi
    ELSE IF name \in Arrived(s, "runs") THEN Details(s.answer[name]).ci
    ELSE PendingCi

SecurityOf(s, name) ==
    IF Archived(s, name) THEN ArchivedSecurity(s.answer[name]) ELSE Details(s.answer[name]).security

\* What of the overview's parts is in.
Parts(s, page) ==
    LET checked == Arrived(s, "security") \cup {name \in Names : Archived(s, name)} IN
    [ci       |-> [name \in Names |-> CiOfRepo(s, name)],
     security |-> [name \in checked |-> SecurityOf(s, name)],
     release  |-> [name \in Names |-> ReleaseOf(s.answer[name], name \in Arrived(s, "release"))],
     hygiene  |-> [name \in DOMAIN page |-> AssessHygiene(page[name].facts)],
     usage    |-> [name \in Arrived(s, "usage") |-> Usage(s, name)],
     inbox    |-> [i \in DOMAIN InboxNodes |->
                      IF s.inbox THEN InboxFromNodes(InboxNodes[i]) ELSE << >>]]

\* _assemble: an overview of what is in.
Assemble(s, now) ==
    LET page == PageOf(s) IN
    BuildOverview([i \in DOMAIN ListedRepos |-> RepositoryOf(s, page, ListedRepos[i])],
                  Parts(s, page), now)

\* A worker brings a repository's runs, then its alerts, then what is behind its
\* release: what else arrives may show any of them without the next.
Arrives(part, name) == subject' = [subject EXCEPT !.arrived = @ \cup {<<part, name>>}]

RunsArrive ==
    /\ Subject("overview")
    /\ \E name \in Names \ Arrived(subject, "runs") :
          ~ Archived(subject, name) /\ Arrives("runs", name)

SecurityArrives ==
    /\ Subject("overview")
    /\ \E name \in Arrived(subject, "runs") \ Arrived(subject, "security") :
          Arrives("security", name)

ReleaseArrives ==
    /\ Subject("overview")
    /\ \E name \in Arrived(subject, "security") \ Arrived(subject, "release") :
          Arrives("release", name)

\* The hygiene page comes in one step, if it is asked for; a batch that was dropped
\* and a node that is null leave repositories out, a failed request all of them.
HygieneArrives ==
    /\ Subject("overview") /\ subject.checks /\ ~ subject.hygiene
    /\ \E page \in SUBSET {name \in Names : ~ Archived(subject, name)} :
          subject' = [subject EXCEPT !.hygiene = TRUE, !.page = page]

\* The CI time of a repository waits for the hygiene of all, if that is checked.
UsageArrives ==
    /\ Subject("overview") /\ (subject.checks => subject.hygiene)
    /\ \E name \in Arrived(subject, "release") \ Arrived(subject, "usage") :
          Arrives("usage", name)

InboxArrives == Subject("overview") /\ ~ subject.inbox /\ subject' = [subject EXCEPT !.inbox = TRUE]

-----------------------------------------------------------------------------
(* Documents of older and newer builds                                     *)

\* Fields that documents of older builds lack, as the repository's tests have them.
LackedByOlder ==
    LET lacked == [
            overview      |-> {"rate_limit", "inbox", "notifications", "notifications_available",
                               "actions_usage", "usage_since", "pending", "degraded",
                               "stale_reason"},
            repo_overview |-> {"security", "release", "hygiene", "usage"},
            repository    |-> {"node_id", "pull_requests", "issues", "last_commit",
                               "branch_count", "branches_without_pr"},
            ci            |-> {"error", "long_running_count", "ci_seconds_recent"},
            preferences   |-> {"groups", "favorites"},
            changes       |-> DOMAIN ChangesDoc.reads]
    IN  [type \in DOMAIN Docs |-> IF type \in DOMAIN lacked THEN lacked[type] ELSE {}]

\* Fields in which newer builds may name what this one does not know.
ForeignInNewer ==
    [type \in DOMAIN Docs |-> IF type = "overview" THEN {"pending", "degraded", "stale_reason"} ELSE {}]

Changes(s) == {f \in DOMAIN s.written : HeldBy(s.doc, f) # s.written[f]}

ReadOlder ==
    /\ Subject("document") /\ Cardinality(Changes(subject)) < MaxChanges
    /\ \E f \in LackedByOlder[subject.type] \cap DOMAIN subject.doc :
          subject' = [subject EXCEPT !.doc = [g \in DOMAIN @ \ {f} |-> @[g]]]

ReadNewer ==
    /\ Subject("document") /\ Cardinality(Changes(subject)) < MaxChanges
    /\ \E f \in ForeignInNewer[subject.type] \cap DOMAIN subject.doc :
          subject' = [subject EXCEPT !.doc[f] = "foreign"]

-----------------------------------------------------------------------------

RulesInit ==
    \/ \E node \in PrNodes : subject = [kind |-> "pr", node |-> node]
    \/ \E n \in 0 .. 3 : subject \in
          [kind : {"runs"}, outcomes : [1 .. n -> UNION {Outcomes[bad] : bad \in DOMAIN Outcomes}]]
    \/ \E node \in HygieneNodes : subject = [kind |-> "hygiene", node |-> node, lost |-> 0]
    \/ subject \in [kind : {"overview"}, answer : [Names -> RepoAnswers], arrived : {{}},
                    checks : BOOLEAN, hygiene : {FALSE}, page : {{}}, inbox : {FALSE}]
    \/ \E type \in DOMAIN Docs : \E nones \in SUBSET Docs[type].writes.maybe :
          subject = [kind |-> "document", type |-> type, written |-> Encode(type, nones),
                     doc |-> Encode(type, nones)]

RulesNext ==
    \/ PrGetsWorse \/ RunGetsWorse \/ FactIsLost
    \/ RunsArrive \/ SecurityArrives \/ ReleaseArrives
    \/ HygieneArrives \/ UsageArrives \/ InboxArrives
    \/ ReadOlder \/ ReadNewer

RulesSpec == RulesInit /\ [][RulesNext]_subject

-----------------------------------------------------------------------------
(* What must hold                                                          *)

Scores(o) == {Score(o.repos[i].hygiene) : i \in {j \in DOMAIN o.repos : o.repos[j].hygiene.applicable}}

\* The failed runs GitHub has told of so far.
ToldOf(s) ==
    UNION {{<<name, i>> : i \in {j \in DOMAIN s.answer[name].runs :
                                     s.answer[name].runs[j].conclusion \in FailedStatuses}} :
           name \in {n \in Arrived(s, "runs") : s.answer[n].error = Nothing}}

ListsAgree(o, told) ==
    /\ {o.repos[i].repository.name : i \in DOMAIN o.repos} = Names
    /\ \A i, j \in DOMAIN o.repos :
          i < j /\ o.repos[j].ci.state = "failing" => o.repos[i].ci.state = "failing"
    /\ Len(o.failures) = told /\ o.totals.failed_runs = told
    /\ o.totals.repos_failing = Cardinality({o.failures[i].repo : i \in DOMAIN o.failures})
    /\ \A i, j \in DOMAIN o.failures :
          i < j => o.failures[i].run.updated >= o.failures[j].run.updated

TotalsAgree(t, listed, scores) ==
    /\ t.human_prs + t.bot_prs >= Max({t.open_prs, listed})
    /\ t.prs_ready + t.prs_changes_requested + t.prs_failing <= listed
    /\ t.security_critical + t.security_high + t.secret_alerts <= t.security_total
    /\ t.repos_with_alerts > 0 <=> t.security_total > 0
    /\ t.ci_seconds_month = t.ci_seconds_month_private + t.ci_seconds_month_public
    /\ t.stale_branches <= t.branches_without_pr
    /\ scores = {} => t.hygiene_average = 100
    /\ scores # {} => t.hygiene_average \in Min(scores) .. Max(scores)
    /\ \A key \in CountedKeys : t.repos_without[key] <= Cardinality(Names)

Agrees(o, s) ==
    /\ ListsAgree(o, Cardinality(ToldOf(s)))
    /\ TotalsAgree(o.totals, SumOf(o.repos, LAMBDA r : Len(r.repository.prs)), Scores(o))

\* Whichever parts are in: the totals agree with the lists they are shown beside
\* and with each other, and no failed run GitHub told of is missing.
OverviewAgrees == Subject("overview") => Agrees(Assemble(subject, Now), subject)

\* Totals of what wants attention: no part of an overview takes from them.
Attention == {"failed_runs", "repos_failing", "active_runs", "long_running_runs", "human_prs",
    "bot_prs", "stale_prs", "stale_issues", "prs_failing", "inbox_total", "security_critical",
    "security_high", "security_total", "secret_alerts", "unreleased_commits",
    "branches_without_pr", "stale_branches", "ci_seconds_month"}

OnlyAdds(before, after) ==
    /\ ToSet(before.failures) \subseteq ToSet(after.failures)
    /\ \A key \in Attention : before.totals[key] <= after.totals[key]

\* A part that arrives never takes away a failed run or an alert that was shown.
ArrivalsOnlyAdd ==
    [][Subject("overview") => OnlyAdds(Assemble(subject, Now), Assemble(subject', Now))]_subject

CiUrgency == << "failing", "running", "neutral", "passing" >>
HowUrgent(order, state) == SelectInSeq(order, LAMBDA x : x = state)

\* What gets worse in one respect never looks better as a whole, and a repository
\* with nothing to fix, and only such a one, has all the points.
WorseNeverLooksBetter ==
    [][/\ Subject("pr") =>
            HowUrgent(Urgency, StateOf(subject')) <= HowUrgent(Urgency, StateOf(subject))
       /\ Subject("runs") =>
            HowUrgent(CiUrgency, CiOf(subject').state) <= HowUrgent(CiUrgency, CiOf(subject).state)
       /\ Subject("hygiene") =>
            LET h == HygieneOf(subject') IN
            /\ Score(h) <= Score(HygieneOf(subject))
            /\ h.applicable => (Score(h) = 100 <=> FailingKeys(h) = {})]_subject

\* What an older or a newer build wrote can be read, and every field it shares
\* with this one comes back as it was written.
DocumentsSurvive ==
    Subject("document") =>
    LET read == Decode(subject.type, subject.doc)
        shared == DOMAIN read \ Changes(subject)
    IN  /\ ~ Raises(subject.type, subject.doc)
        /\ \A f \in shared : read[f] = IF subject.written[f] = "null" THEN "none" ELSE "value"
=============================================================================
