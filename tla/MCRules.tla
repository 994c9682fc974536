------------------------------ MODULE MCRules ------------------------------
(* What the viewer sees, keeps and is told: three parts that share nothing,   *)
(* one of them at a time, so that their state spaces add up.                  *)
EXTENDS Viewing, Preferences, Rules

CONSTANTS b1, b2, p1, p2

VARIABLE topic

Symmetry == Permutations(Browsers) \cup Permutations(Pages)

Pr(draft, review, rollup, mergeable, author, at) ==
    [number |-> at, createdAt |-> at, updatedAt |-> at + 1, author |-> author, isDraft |-> draft,
     reviewDecision |-> review, rollup |-> rollup, mergeable |-> mergeable]

BusyNode ==
    [nameWithOwner |-> "", isPrivate |-> TRUE, isArchived |-> FALSE, pushedAt |-> 5, openPrs |-> 3,
     pullRequests |-> << Pr(FALSE, "approved", "FAILURE", Nothing, "ann", 1), Nothing,
                         Pr(FALSE, "approved", Nothing, "mergeable", "renovate", 8) >>,
     issues |-> << [number |-> 3, createdAt |-> 0, updatedAt |-> 0] >>,
     alerts |-> << "critical", "high", "brand_new" >>, latestRelease |-> "v1",
     defaultBranch |-> "main"]
QuietNode ==
    [BusyNode EXCEPT !.isPrivate = FALSE, !.pushedAt = Nothing, !.openPrs = 1, !.issues = << >>,
        !.pullRequests = << Pr(TRUE, Nothing, "SUCCESS", "conflicting", "bob", 4) >>,
        !.alerts = Nothing, !.latestRelease = Nothing]
ArchivedNode == [QuietNode EXCEPT !.isArchived = TRUE, !.pushedAt = 9, !.openPrs = 0,
                                  !.pullRequests = << >>]

NothingMissing ==
    [nameWithOwner |-> "a", readmeFile |-> "f", licenseInfo |-> "mit", workflowsDir |-> << "yml" >>,
     dependabotYml |-> "f", dependabotYaml |-> Nothing, renovateJson |-> Nothing,
     renovateJsonGithub |-> "f", renovaterc |-> Nothing, branchProtectionRules |-> 1,
     rulesets |-> 1, hasVulnerabilityAlertsEnabled |-> TRUE, deleteBranchOnMerge |-> TRUE,
     securityMd |-> "f", securityMdGithub |-> Nothing, codeownersFile |-> Nothing,
     codeownersFileGithub |-> "f", collaborators |-> Nothing, isFork |-> FALSE,
     refs |-> Nothing, defaultBranch |-> "main"]
MCHygieneNodes == {[NothingMissing EXCEPT !.collaborators = c, !.isFork = fork] :
                        c \in {Nothing, 1, 2}, fork \in BOOLEAN}
Poor == [NothingMissing EXCEPT !.readmeFile = Nothing, !.workflowsDir = << "md" >>,
    !.branchProtectionRules = 0, !.rulesets = Nothing, !.collaborators = 2,
    !.codeownersFileGithub = Nothing,
    !.refs = << [name |-> "main", prs |-> 0, commit |-> 9], [name |-> "new", prs |-> Nothing, commit |-> 8],
                [name |-> "odd", prs |-> 0, commit |-> Nothing], Nothing,
                [name |-> "old", prs |-> 0, commit |-> 1], [name |-> "used", prs |-> 1, commit |-> 2] >>]

Failing == [runs |-> << Run(<<"queued", Nothing>>, 3, 4), Run(<<"completed", "timed_out">>, 2, 3),
                        Run(<<"completed", "failure">>, 1, 1) >>,
    error |-> Nothing, secrets |-> 1, ahead |-> 2, hygiene |-> NothingMissing,
    levels |-> << [level |-> "critical", severity |-> "error"], [level |-> Nothing, severity |-> "warning"],
                  [level |-> Nothing, severity |-> "none"] >>,
    usage |-> [seconds |-> 6, runs |-> 3]]
Flaky == [Failing EXCEPT !.runs = << Run(<<"completed", "success">>, 5, 7),
                                     Run(<<"completed", "startup_failure">>, 4, 2) >>,
    !.secrets = Nothing, !.ahead = Nothing, !.levels = Nothing, !.hygiene = Poor]
Unavailable == [Failing EXCEPT !.runs = << >>, !.error = "github_error", !.secrets = 0, !.ahead = 0,
    !.levels = << >>, !.hygiene = [Poor EXCEPT !.isFork = TRUE], !.usage = [seconds |-> 0, runs |-> 0]]
Neutral == [Unavailable EXCEPT !.runs = << Run(<<"completed", "skipped">>, 6, 0) >>,
    !.error = Nothing, !.hygiene = Poor]

MCListedRepos == << "a", "b" >>
Of(node, answer) == [f \in DOMAIN answer \cup {"node"} |-> IF f = "node" THEN node ELSE answer[f]]
MCRepoAnswers == {Of(BusyNode, Failing), Of(BusyNode, Unavailable), Of(BusyNode, Neutral),
                  Of(QuietNode, Flaky), Of(ArchivedNode, Flaky)}

Inbox(repository, at) == [repository |-> repository, updatedAt |-> at]
MCInboxNodes == << << Inbox("a", 1), Nothing, Inbox(Nothing, 1) >>, Nothing,
                   << Inbox("a", Nothing) >>, << Inbox("b", 2) >> >>

MCInit ==
    /\ topic \in {"viewing", "preferences", "rules"}
    /\ ViewingInit /\ (topic # "viewing" => backend = "memory")
    /\ PreferencesInit /\ (topic # "preferences" => stored = {})
    /\ IF topic = "rules" THEN RulesInit ELSE subject = Nothing

MCNext ==
    \/ topic = "viewing" /\ ViewingNext /\ UNCHANGED <<topic, preferences, subject>>
    \/ topic = "preferences" /\ PreferencesNext /\ UNCHANGED <<topic, viewing, subject>>
    \/ topic = "rules" /\ RulesNext /\ UNCHANGED <<topic, viewing, preferences>>

MCSpec == MCInit /\ [][MCNext]_<<topic, viewing, preferences, subject>>
=============================================================================
