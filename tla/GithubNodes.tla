---------------------------- MODULE GithubNodes ----------------------------
(***************************************************************************)
(* How the adapter reads GitHub's answers (infrastructure/github_http.py): *)
(* JSON objects are records, a field that is null, missing, or nulled out  *)
(* by a partial GraphQL error is Nothing.  Titles, urls and the like are   *)
(* left out; what remains is everything the domain rules look at.          *)
(***************************************************************************)
EXTENDS DomainRules

\* (field or {}) and (list or []): what is not there reads as empty.
ListOr(list) == IF list = Nothing THEN << >> ELSE list
Known(nodes) == Those(ListOr(nodes), LAMBDA n : n # Nothing)

-----------------------------------------------------------------------------
(* Workflow runs                                                           *)

RunStatuses == FailedStatuses \cup ActiveStatuses \cup
    {"success", "cancelled", "skipped", "neutral", "action_required", "stale", "unknown"}

\* None is neither a truth value nor one of the enumerators.
ASSUME NothingIsNoValue ==
    /\ Nothing \notin BOOLEAN
    /\ Nothing \notin RunStatuses \cup {"mergeable", "conflicting", "unknown"}

\* GitHub's status and conclusion folded into one.
RunStatus(status, conclusion) ==
    IF status \in {"queued", "waiting", "pending", "requested"} THEN "queued"
    ELSE IF status = "in_progress" THEN "in_progress"
    ELSE IF conclusion \in RunStatuses THEN conclusion ELSE "unknown"

\* A missing instant is the time of reading, a missing start the creation.
RunFromJson(data, now) ==
    LET created == IF data.created = Nothing THEN now ELSE data.created
    IN  [id      |-> data.id,
         status  |-> RunStatus(data.status, data.conclusion),
         created |-> created,
         updated |-> IF data.updated = Nothing THEN now ELSE data.updated,
         started |-> IF data.started = Nothing THEN created ELSE data.started,
         long    |-> FALSE]

-----------------------------------------------------------------------------
(* Pull requests, issues, branches, the inbox                              *)

ChecksByRollup ==
    [SUCCESS |-> "success", FAILURE |-> "failure", ERROR |-> "error",
     PENDING |-> "pending", EXPECTED |-> "pending"]

\* The rollup of the last commit's checks; a state nobody knows is no verdict.
PrChecks(rollup) ==
    IF rollup \in DOMAIN ChecksByRollup THEN ChecksByRollup[rollup] ELSE Nothing

\* A pull request of a deleted account (no author) counts as a bot's.
PullRequestFromNode(p, Bots) ==
    [number |-> p.number, draft |-> p.isDraft, created |-> p.createdAt,
     updated |-> p.updatedAt, review |-> p.reviewDecision, checks |-> PrChecks(p.rollup),
     mergeable |-> IF p.mergeable = Nothing THEN "unknown" ELSE p.mergeable,
     bot |-> p.author = Nothing \/ p.author \in Bots, stale |-> FALSE, age |-> 0, idle |-> 0]

\* Branches but the default one, without a pull request, oldest commit first and
\* those without a commit last.
BranchesWithoutPr(refs, default) ==
    LET listed == Those(Known(refs), LAMBDA n :
                     n.name # default /\ OrZero(n.prs) = 0)
        branches == [i \in DOMAIN listed |->
                        [name |-> listed[i].name, commit |-> listed[i].commit,
                         stale |-> FALSE]]
    IN  SortedBy(branches, LAMBDA a, b :
            /\ a.commit # Nothing
            /\ b.commit = Nothing \/ a.commit < b.commit)

\* An inbox entry without its repository or date is left out.
InboxFromNodes(nodes) ==
    Those(Known(nodes), LAMBDA n : n.repository # Nothing /\ n.updatedAt # Nothing)

-----------------------------------------------------------------------------
(* Alerts, releases, hygiene                                               *)

SeverityLevels == {"critical", "high", "moderate", "low"}

\* A level that is none of the four is dropped.
SeverityCounts(levels) ==
    [level \in SeverityLevels |-> CountOf(levels, LAMBDA l : l = level)]

DependabotFromNode(alerts) ==
    IF alerts = Nothing THEN Nothing ELSE SeverityCounts(alerts)

RuleSeverityFallback == [error |-> "high", warning |-> "moderate", note |-> "low"]

CodeScanningCounts(alerts) ==
    SeverityCounts([i \in DOMAIN alerts |->
        IF alerts[i].level # Nothing THEN alerts[i].level
        ELSE GetOr(RuleSeverityFallback, alerts[i].severity, Nothing)])

\* "Nobody else has access" and "we were not told" stay apart for collaborators
\* only; for every other fact, not told reads as not there.
HygieneFactsFromNode(node) ==
    [readme        |-> node.readmeFile # Nothing,
     license       |-> node.licenseInfo # Nothing,
     workflows     |-> CountOf(ListOr(node.workflowsDir), LAMBDA f : f \in {"yml", "yaml"}),
     dependabot    |-> node.dependabotYml # Nothing \/ node.dependabotYaml # Nothing,
     renovate      |-> node.renovateJson # Nothing \/ node.renovateJsonGithub # Nothing
                         \/ node.renovaterc # Nothing,
     rules         |-> OrZero(node.branchProtectionRules),
     rulesets      |-> OrZero(node.rulesets),
     alerts        |-> node.hasVulnerabilityAlertsEnabled = TRUE,
     deleteBranch  |-> node.deleteBranchOnMerge = TRUE,
     policy        |-> node.securityMd # Nothing \/ node.securityMdGithub # Nothing,
     codeowners    |-> node.codeownersFile # Nothing \/ node.codeownersFileGithub # Nothing,
     collaborators |-> node.collaborators,
     archived      |-> FALSE,
     fork          |-> node.isFork = TRUE]

\* One batch's answer: a node without a name is nobody's.
HygieneFromNodes(nodes) ==
    LET named == {i \in DOMAIN nodes : nodes[i] # Nothing /\ nodes[i].nameWithOwner # Nothing}
        Last_(name) == nodes[Max({i \in named : nodes[i].nameWithOwner = name})]
    IN  [name \in {nodes[i].nameWithOwner : i \in named} |->
            [facts    |-> HygieneFactsFromNode(Last_(name)),
             branches |-> BranchesWithoutPr(Last_(name).refs, Last_(name).defaultBranch)]]

\* A node of the repositories query, its lists included.
RepositoryFromNode(node, Bots) ==
    LET prs == Known(node.pullRequests)
        issues == Known(node.issues)
    IN  [name |-> node.nameWithOwner, private |-> node.isPrivate, archived |-> node.isArchived,
         pushed |-> node.pushedAt, openPrs |-> node.openPrs,
         prs |-> [i \in DOMAIN prs |-> PullRequestFromNode(prs[i], Bots)],
         issues |-> [i \in DOMAIN issues |->
            [number |-> issues[i].number, created |-> issues[i].createdAt,
             updated |-> issues[i].updatedAt, stale |-> FALSE, age |-> 0]],
         branches |-> << >>]
=============================================================================
