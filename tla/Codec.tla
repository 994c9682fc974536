------------------------------- MODULE Codec -------------------------------
(***************************************************************************)
(* domain/codec.py: overviews, preferences and snapshots as JSON documents *)
(* that outlive the process which wrote them (Redis, SQLite, the browser). *)
(* A document is a function from the fields it has to what they hold:      *)
(* "value", "null", or "foreign" - an enumerator or a section this build   *)
(* does not know.  Nested documents are types of their own.                *)
(*                                                                         *)
(* writes: *_to_dict.  always holds a value, maybe is null for a None,     *)
(*         derived is for readers of the API and not read back.            *)
(* reads:  the arguments *_from_dict gives the constructor.                *)
(*   need      d[f]                       enum      Enum(d[f])             *)
(*   opt       d.get(f), None if absent   optEnum   Enum(d[f]) if d.get(f) *)
(*   default   d.get(f, x)                list      over d.get(f, [])      *)
(*   date      _require_dt(d[f])          optDate   _parse_dt(d.get(f))    *)
(*   exact     every item of d            lenient   drops what is unknown  *)
(***************************************************************************)
EXTENDS Sequences, FiniteSets

Fields(names, how) == [f \in names |-> how]

\* Fields read in one way, and fields read in another.
r1 \sqcup r2 == [f \in DOMAIN r1 \cup DOMAIN r2 |-> IF f \in DOMAIN r1 THEN r1[f] ELSE r2[f]]

RunDoc == [
    writes |-> [
        always  |-> {"id", "workflow_name", "title", "url", "event", "status", "run_number",
                     "created_at", "updated_at", "started_at", "long_running", "failed_jobs"},
        maybe   |-> {"branch"},
        derived |-> {"failed", "active", "duration_seconds"}],
    reads |-> Fields({"id", "workflow_name", "title", "url", "event", "run_number"}, "need")
        \sqcup Fields({"created_at", "updated_at"}, "date")
        \sqcup [branch |-> "opt", status |-> "enum", started_at |-> "optDate",
            long_running |-> "default", failed_jobs |-> "list"]]

FailedJobDoc == [
    writes |-> [always |-> {"name", "url"}, maybe |-> {"step"}, derived |-> {}],
    reads |-> Fields({"name", "url"}, "need") \sqcup [step |-> "opt"]]

PrDoc == [
    writes |-> [
        always  |-> {"number", "title", "url", "is_draft", "updated_at", "created_at",
                     "mergeable", "is_bot", "stale", "age_days", "idle_days"},
        maybe   |-> {"author", "head_branch", "review_decision", "checks"},
        derived |-> {"state"}],
    reads |-> Fields({"number", "title", "url", "is_draft", "is_bot"}, "need")
        \sqcup Fields({"author", "head_branch"}, "opt")
        \sqcup Fields({"stale", "age_days", "idle_days"}, "default")
        \sqcup Fields({"updated_at", "created_at"}, "date")
        \sqcup Fields({"review_decision", "checks"}, "optEnum") \sqcup [mergeable |-> "enum"]]

IssueDoc == [
    writes |-> [
        always  |-> {"number", "title", "url", "updated_at", "created_at", "stale", "age_days"},
        maybe   |-> {"author"}, derived |-> {}],
    reads |-> Fields({"number", "title", "url"}, "need")
        \sqcup Fields({"stale", "age_days"}, "default")
        \sqcup [author |-> "opt", updated_at |-> "date", created_at |-> "optDate"]]

LastCommitDoc == [
    writes |-> [
        always  |-> {"sha", "headline", "committed_at", "url"},
        maybe   |-> {"author_login", "author_name"}, derived |-> {}],
    reads |-> Fields({"sha", "headline", "url"}, "need")
        \sqcup Fields({"author_login", "author_name"}, "opt") \sqcup [committed_at |-> "date"]]

BranchDoc == [
    writes |-> [always |-> {"name", "stale"}, maybe |-> {"last_commit_at", "author"},
                derived |-> {}],
    reads |-> [name |-> "need", last_commit_at |-> "optDate", author |-> "opt",
               stale |-> "default"]]

RepositoryDoc == [
    writes |-> [
        always  |-> {"full_name", "node_id", "name", "owner", "url", "is_private", "is_archived",
                     "is_fork", "has_issues", "stars", "open_pr_count", "open_issue_count",
                     "pull_requests", "issues", "branch_count", "branches_without_pr"},
        maybe   |-> {"description", "pushed_at", "language", "language_color",
                     "default_branch", "last_commit"},
        derived |-> {}],
    reads |-> Fields({"full_name", "name", "owner", "url", "is_private", "is_archived",
                      "is_fork", "has_issues", "stars", "open_pr_count", "open_issue_count"}, "need")
        \sqcup Fields({"description", "language", "language_color", "default_branch",
                   "last_commit"}, "opt")
        \sqcup Fields({"node_id", "branch_count"}, "default")
        \sqcup Fields({"pull_requests", "issues", "branches_without_pr"}, "list")
        \sqcup [pushed_at |-> "optDate"]]

CiDoc == [
    writes |-> [
        always  |-> {"state", "runs", "failed_count", "active_count", "long_running_count",
                     "ci_seconds_recent"},
        maybe   |-> {"error"}, derived |-> {}],
    reads |-> Fields({"failed_count", "active_count"}, "need")
        \sqcup Fields({"long_running_count", "ci_seconds_recent"}, "default")
        \sqcup [state |-> "enum", runs |-> "list", error |-> "opt"]]

Severities == {"critical", "high", "moderate", "low"}

SeverityDoc == [
    writes |-> [always |-> Severities, maybe |-> {}, derived |-> {"total"}],
    reads |-> Fields(Severities, "need")]

SecurityDoc == [
    writes |-> [
        always  |-> {},
        maybe   |-> {"dependabot", "dependabot_total", "code_scanning", "secret_scanning"},
        derived |-> {"total", "has_critical"}],
    reads |-> Fields({"dependabot", "dependabot_total", "code_scanning", "secret_scanning"}, "opt")]

HygieneCheckDoc == [
    writes |-> [always |-> {"key", "ok"}, maybe |-> {"detail"}, derived |-> {}],
    reads |-> Fields({"key", "ok"}, "need") \sqcup [detail |-> "opt"]]

HygieneDoc == [
    writes |-> [always |-> {"applicable", "checks"}, maybe |-> {},
                derived |-> {"score", "passed", "total"}],
    reads |-> [checks |-> "list", applicable |-> "default"]]

ReleaseDoc == [
    writes |-> [
        always  |-> {"tag", "url", "is_prerelease"},
        maybe   |-> {"name", "published_at", "unreleased_commits"}, derived |-> {}],
    reads |-> Fields({"tag", "url", "is_prerelease"}, "need")
        \sqcup Fields({"name", "unreleased_commits"}, "opt") \sqcup [published_at |-> "optDate"]]

NotificationDoc == [
    writes |-> [
        always  |-> {"id", "reason", "subject_title", "subject_type", "repo_full_name",
                     "updated_at", "unread"},
        maybe   |-> {"subject_url"}, derived |-> {}],
    reads |-> Fields({"id", "reason", "subject_title", "subject_type", "repo_full_name",
                      "unread"}, "need")
        \sqcup [subject_url |-> "opt", updated_at |-> "date"]]

AttentionDoc == [
    writes |-> [
        always  |-> {"kind", "is_pull_request", "repo_full_name", "number", "title", "url",
                     "updated_at", "is_draft"},
        maybe   |-> {"author"}, derived |-> {}],
    reads |-> Fields({"is_pull_request", "repo_full_name", "number", "title", "url",
                      "is_draft"}, "need")
        \sqcup [kind |-> "enum", author |-> "opt", updated_at |-> "date"]]

InboxDoc ==
    LET buckets == {"review_requested", "changes_requested", "assigned", "mentioned"}
    IN  [writes |-> [always |-> buckets, maybe |-> {}, derived |-> {"total"}],
         reads  |-> Fields(buckets, "list")]

UsageDoc ==
    LET fields == {"seconds", "runs", "truncated"}
    IN  [writes |-> [always |-> fields, maybe |-> {}, derived |-> {}],
         reads  |-> Fields(fields, "default")]

ActionsUsageDoc == [
    writes |-> [
        always  |-> {"available"},
        maybe   |-> {"minutes_used", "included_minutes", "paid_minutes_used"}, derived |-> {}],
    reads |-> Fields({"minutes_used", "included_minutes", "paid_minutes_used"}, "opt")
        \sqcup [available |-> "default"]]

\* Built of all the items of d["totals"]: exactly the fields of this build's dataclass.
TotalsFields == {"repos", "private", "archived", "forks", "stars", "open_prs", "open_issues",
    "failed_runs", "repos_failing", "active_runs", "human_prs", "bot_prs", "stale_prs",
    "stale_issues", "prs_ready", "prs_changes_requested", "prs_failing", "long_running_runs",
    "inbox_total", "security_critical", "security_high", "security_total", "repos_with_alerts",
    "secret_alerts", "repos_unreleased", "unreleased_commits", "notifications_unread",
    "notifications_by_reason", "hygiene_average", "repos_without_ci",
    "repos_without_protection", "repos_without_dependency_updates", "repos_without_license",
    "branches_without_pr", "stale_branches", "oldest_pr_days", "ci_seconds_recent",
    "ci_seconds_month", "ci_seconds_month_private", "ci_seconds_month_public", "ci_runs_month"}

TotalsDoc == [
    writes |-> [always |-> TotalsFields, maybe |-> {}, derived |-> {}],
    reads  |-> Fields(TotalsFields, "exact")]

\* One entry of an overview's "repos", and one of its "failures".
RepoOverviewDoc == [
    writes |-> [always |-> {"repository", "ci", "security", "hygiene", "usage"},
                maybe |-> {"release"}, derived |-> {}],
    reads |-> Fields({"repository", "ci"}, "need")
        \sqcup Fields({"security", "release", "hygiene", "usage"}, "opt")]

FailedRunDoc == [
    writes |-> [always |-> {"repo_full_name", "run"}, maybe |-> {}, derived |-> {}],
    reads  |-> Fields({"repo_full_name", "run"}, "need")]

RateLimitDoc == [
    writes |-> [always |-> {"remaining", "limit"}, maybe |-> {"reset_at"}, derived |-> {}],
    reads  |-> Fields({"remaining", "limit"}, "need") \sqcup [reset_at |-> "optDate"]]

OverviewWrites == [
    always  |-> {"viewer_login", "generated_at", "totals", "repos", "failures", "inbox",
                 "notifications", "notifications_available", "actions_usage", "pending",
                 "degraded"},
    maybe   |-> {"rate_limit", "usage_since", "stale_reason"}, derived |-> {}]

OverviewReads ==
    Fields({"viewer_login", "totals", "repos", "failures"}, "need")
    \sqcup Fields({"rate_limit", "actions_usage"}, "opt") \sqcup Fields({"inbox", "notifications"}, "list")
    \sqcup Fields({"pending", "degraded", "stale_reason"}, "lenient")
    \sqcup [notifications_available |-> "default", generated_at |-> "date", usage_since |-> "optDate"]

\* Mutant: a stale reason this build does not know is an error.
OverviewDocStrict == [
    writes |-> OverviewWrites, reads |-> [OverviewReads EXCEPT !["stale_reason"] = "optEnum"]]

OverviewDoc == [writes |-> OverviewWrites, reads |-> OverviewReads]

UserDoc ==
    LET fields == {"id", "login", "avatar_url", "html_url"}
    IN  [writes |-> [always |-> fields, maybe |-> {"name"}, derived |-> {}],
         reads  |-> Fields(fields \cup {"name"}, "exact")]

PreferencesDoc ==
    LET fields == {"groups", "favorites"}
    IN  [writes |-> [always |-> fields, maybe |-> {}, derived |-> {}],
         reads  |-> Fields(fields, "list")]

GroupDoc == [
    writes |-> [always |-> {"name", "repos"}, maybe |-> {}, derived |-> {}],
    reads  |-> [name |-> "default", repos |-> "list"]]

SnapshotDoc ==
    LET sets == {"prs", "issues", "failed_runs", "inbox", "notifications", "alert_repos"}
    IN  [writes |-> [always |-> sets \cup {"taken_at"}, maybe |-> {}, derived |-> {}],
         reads  |-> Fields(sets, "list") \sqcup [taken_at |-> "date"]]

ChangedItemDoc == [
    writes |-> [
        always  |-> {"repo_full_name", "number", "title", "url", "updated_at", "is_pull_request"},
        maybe   |-> {"author"}, derived |-> {}],
    reads |-> Fields({"repo_full_name", "number", "title", "url", "is_pull_request"}, "need")
        \sqcup [author |-> "opt", updated_at |-> "date"]]

ChangesDoc ==
    LET lists == {"new_prs", "new_issues", "new_failed_runs", "new_inbox", "new_notifications",
                  "new_alert_repos"}
    IN  [writes |-> [always |-> lists, maybe |-> {"since"}, derived |-> {"total"}],
         reads  |-> Fields(lists, "list") \sqcup [since |-> "optDate"]]

Docs == [run |-> RunDoc, failed_job |-> FailedJobDoc, pr |-> PrDoc, issue |-> IssueDoc,
    last_commit |-> LastCommitDoc, branch |-> BranchDoc, repository |-> RepositoryDoc,
    ci |-> CiDoc, severity |-> SeverityDoc, security |-> SecurityDoc,
    hygiene_check |-> HygieneCheckDoc, hygiene |-> HygieneDoc, release |-> ReleaseDoc,
    notification |-> NotificationDoc, attention |-> AttentionDoc, inbox |-> InboxDoc,
    usage |-> UsageDoc, actions_usage |-> ActionsUsageDoc, totals |-> TotalsDoc,
    repo_overview |-> RepoOverviewDoc, failed_run |-> FailedRunDoc, rate_limit |-> RateLimitDoc,
    overview |-> OverviewDoc, user |-> UserDoc, preferences |-> PreferencesDoc,
    group |-> GroupDoc, snapshot |-> SnapshotDoc, changed_item |-> ChangedItemDoc,
    changes |-> ChangesDoc]

-----------------------------------------------------------------------------

\* The document of an object in which the fields of nones are None.
Encode(type, nones) ==
    LET w == Docs[type].writes
    IN  [f \in w.always \cup w.maybe \cup w.derived |-> IF f \in nones THEN "null" ELSE "value"]

HeldBy(doc, f) == IF f \in DOMAIN doc THEN doc[f] ELSE "missing"

\* Reading the field raises KeyError, ValueError or TypeError.
FieldRaises(held, how) ==
    \/ how \in {"need", "exact", "enum", "date"} /\ held = "missing"
    \/ how \in {"enum", "date"} /\ held # "value"
    \/ how = "list" /\ held = "null"
    \/ how \in {"optEnum", "optDate"} /\ held = "foreign"

Raises(type, doc) ==
    LET reads == Docs[type].reads
    IN  \/ \E f \in DOMAIN reads : FieldRaises(HeldBy(doc, f), reads[f])
        \/ (\E f \in DOMAIN reads : reads[f] = "exact") /\ ~ DOMAIN doc \subseteq DOMAIN reads

\* The object that is read: for each field its value, None, or a default of the reader's.
Decode(type, doc) ==
    LET reads == Docs[type].reads
        Read(held) == IF held = "value" THEN "value"
                      ELSE IF held = "null" THEN "none" ELSE "default"
    IN  [f \in DOMAIN reads |-> Read(HeldBy(doc, f))]
=============================================================================
