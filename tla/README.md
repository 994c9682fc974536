# A formal model of github-dashboard

github-dashboard is one asyncio process that shows a person the state of all
their GitHub repositories. A refresh costs dozens of requests to GitHub, so
nearly everything that is hard in it is about *when* a refresh runs, who shares
it, what is shown while it runs, and what remains after it failed. That part -
`app/application/use_cases.py` - is the core of these modules; around it they model
the sessions it runs for, the adapter it asks GitHub with, what is kept of its
results, and the rules that turn GitHub's answers into an overview.

Paths below are relative to `src/`.

## The system

| Component | State | Operations | Talks to |
|---|---|---|---|
| `GetOverview` (`use_cases.py:309-510`) | `_refreshes`, `_failures` per account; one `_Refresh` (latest, version, event, task) per refresh in flight | `__call__` (wait, poll, background), `stream`, `_start`, `publish`, `_finish`, `_complete`, `_stale_or_raise`, `_refresh` | cache, session store, the pipeline |
| The refresh pipeline (`use_cases.py:512-862`) | `_Progress`: pending and degraded sections, one result per repository; a semaphore; `hygiene_task`; `repos_left` | `_load` and one coroutine per part, one worker per repository | GitHub, `publish` |
| Sessions and tokens (`use_cases.py:114-254`, `session_sqlite.py`, `session_redis.py`) | session records with encrypted tokens and their expiry | CompleteLogin, ResolveSession, Logout, EnsureFreshToken, update_tokens, purge | OAuth at GitHub |
| Overview cache (`cache_memory.py`, `RedisOverviewCache`) | per account an overview, fresh for a while and kept longer as a fallback | get, get_stale, set, invalidate | Redis |
| GitHub adapter (`github_http.py`, `http_cache.py`) | an LRU of ETags and bodies | `_send` and `_graphql` with retries, conditional GET, hygiene batches, paging, rerun | GitHub |
| Background refresh (`main.py:95-147`, `activity.py`) | session id -> account and time last seen | the cycle over active sessions, the purge loop | GetOverview, sessions |
| Web API (`routes_*.py`, `deps.py`, `security.py`, `container.py`) | none of its own | overview, stream with heartbeat, preferences, seen, rerun, items, login, logout | all use cases |
| Browser client (`static/app.js`) | what is on screen, an EventSource, a poll timer | stream, fall back to polling, rerun, save preferences | Web API |
| User state (`use_cases.py:865-938`, `snapshot.py`, `user_state_*.py`) | preferences and the last seen snapshot per account | save and read preferences, MarkSeen, GetChanges | SQLite or Redis |
| Domain rules (`domain/*.py`) | none | CI classification, PR state, hygiene, totals, snapshot diff | - |

Interaction: everything runs in one event loop, so two coroutines interleave only
where one really suspends. A refresh is a task of its own; callers reach it
through the registry `_refreshes` and learn of its progress through an
`asyncio.Event` that is set and cleared at once, of its end through the task.
The registry, the failures and the cache are keyed by account, while tokens and
their revocation belong to a session - one person's two browsers share the first
three and not the last.

What is hard, and what must hold, per component:

- GetOverview: callers meet a refresh at any point of its life, its done-callback
  runs later than its end, subscribers can be anywhere when the event is set,
  clients disappear, parts of a failed refresh live on. At most one refresh per
  account, nobody waits for ever, those who wait are given complete overviews of
  their own account, a failure is told to whoever waited for it and not repeated
  before its cooldown, a refused token clears the cache.
- Pipeline: parts land in any order and fail independently under one semaphore,
  some wait for others. It always ends; a section is pending exactly until its
  last part is in; what failed is listed as degraded, what is listed neither
  pending nor degraded is there.
- Sessions and tokens: a refresh token is good for one exchange, several
  coroutines hold the same record, the answer may be lost. What is stored is the
  pair GitHub issued last, no unanswered request logs anybody out, a session that
  is deleted stays deleted. That a session whose tokens are good stays is not so.
- Cache: freshness and retention are separate, in Redis separate keys. What is
  served as fresh is. That a rerun is shown is not always so.
- GitHub adapter: retries nest, an ETag may outlive its entry, halves of a batch
  fail separately. A read is bounded, and patient where the code retries it,
  returns nothing older than its request, counts each run once; a write is sent once.
- Background: one account's failure must not starve the others, and the cycle
  must not ask more than it has to.
- User state: whole-value writes from several pages; what is recorded as seen
  lacks nothing that was there, and what no page has dropped is not lost.
- Domain rules: an overview is assembled from what has arrived, again and again.
  Totals agree with lists, arrivals take nothing away, nothing looks better for
  having got worse.
- Codec: documents outlive the build that wrote them.

PROJECT.json lists these hazards at their lines.

## The plan

| Module | What it is | State |
|---|---|---|
| `GetOverview` | callers, refreshes, registry, cooldown, cache and sessions of several accounts | done, proofs in `GetOverviewProofs` |
| `RefreshLoad` | one refresh from the list of repositories to the complete overview | done, proofs in `RefreshLoadProofs` |
| `RefreshContract` | what a refresh promises; `RefreshLoad` implements it, `GetOverview` builds on it | done, both proved to keep it |
| `Sessions` | login, resolution, logout, the exchange of tokens, both session stores, purge loop, activity and background cycle | done, proofs in `SessionsProofs` |
| `HttpClient` | the adapter's requests: retries, conditional cache, paging, hygiene halves, the write, OAuth | done, proofs in `HttpClientProofs` |
| `Viewing` | both cache adapters, MarkSeen, reruns | done, proofs in `ViewingProofs` |
| `Preferences` | groups and favourites between pages, the server and the streams | done, proof in `PreferencesProofs` |
| `Lists`, `DomainRules`, `GithubNodes` | what the code does with lists; the rules of `app/domain`; how GitHub's answers become what they are applied to | done, operators only |
| `Codec` | every document type, as the fields it writes and the way it reads them | done, operators only |
| `Rules` | the rules at work: a pull request, runs, hygiene that get worse, an overview that fills up, documents of other builds | done, proofs in `RulesProofs`, of the overview in `OverviewProofs` |
| `Browser` | EventSource, poll timer, fallback | not begun |

No module that is proved about declares a RECURSIVE operator, nor uses `@@` or
`SelectSeq` in what is proved about it: the prover cannot look into those. So sums are
`SumFunction`s, which a set of partial sums defines, picking is `Those`, and a sort
(`InOrder`) chooses the one order there is.

## The modules and the code

### GetOverview

An action is what one coroutine does between two points at which it really
suspends; PROJECT.json maps each one to its lines.

| TLA+ | Code |
|---|---|
| `refreshes`, `failures` | `_refreshes`, `_failures`, by account |
| `task[r]` | a `_Refresh` and its asyncio task: `phase` is where `_refresh` is, `latest` and `version` are its fields, `changed` the state of the event once the callback has left it set |
| `call[c]` | a coroutine of `__call__` or `stream`, with the session it resolved; `pc` names the await it is suspended at, `out` what it answers |
| `sessions`, `revoked` | the session store; the tokens GitHub refuses |
| `cache` | an entry per account; `fresh` goes first, the entry later (`Expire`) |
| `Resolve`, `Enter`, `Lookup`, `Resume`, `GetStale`, `Wait`, `Woken`, `Yielded`, `Leave`, `Disconnect` | the request: session, cache, cooldown, join or start, awaiting the task or the event, the answer; or the client goes |
| `Publish`, `Fail`, `Unauthorized`, `Invalidate`, `RaiseRefused`, `Store`, `Return` | `_refresh`, as much of `_load` as its callers can see |
| `Finish` | the done callback, a loop iteration after the end of the task |
| `PublishOrphan` | parts of a refresh that failed, which `asyncio.gather` leaves running |

`CacheYields` tells the two caches apart: the in-process one never suspends its
callers, so that reading the registry, the cache and the failures and starting a
refresh is one step; Redis suspends at each call. `mode` is `wait` and `poll`
for the request with and without the complete overview, `warm` for the
background cycle, `stream` for the event stream.

What is merged: the two keys of the Redis cache are one entry, whose torn reads
are in `Viewing`. RateLimited and GitHubUnavailable are one
`Outage`, since they differ only in the reason shown. What `_load` publishes
before it returns is never complete: the failed jobs are looked up last, unless
they are switched off. Logout is one step; the revocation of the token that
follows it is `Revoke`, which may come at any time or never. `Unauthorized` may
happen to any refresh that runs: besides a refused token there are a refresh token
that is missing, used up by another holder, or whose exchange is denied, and none of
them needs a revocation. `Lapse` ends a session whose time is over. All of this is
taken apart in `Sessions`.

### RefreshLoad

| TLA+ | Code |
|---|---|
| `main` | where `_load` is: the repositories, the parts, the failed jobs, over |
| `at[j]` | where a coroutine is: one per repository (`worker`, later its failed run), `_inbox`, `_notifications`, `_actions_usage`, `_hygiene`, and `workers()` which gathers them |
| `holders`, `queue` | the `asyncio.Semaphore`: first come, first served, a permit is handed on |
| `got` | the entries of `ci_by_repo`, `security_by_repo`, `release_by_repo`, `usage_by_repo` that are filled in |
| `facts` | the repositories in `hygiene_page` |
| `pending`, `degraded`, `repos_left` | the fields and the variable of that name |
| `lost` | history only: sections of which something was not to be had |
| `latest` | `pending` of the overview published last |

A request has three answers: data, an outage the part survives, and an error it
does not (`Break`). Which repositories are listed, which of them have hygiene
facts, a release, a failed run or CI is left open. `emit` is part of the action
of the coroutine that calls it. Awaiting the hygiene task when it is done does
not suspend in the code; the model lets others run in between, which only adds
orders. What the answers contain, and how `_assemble` lays them out, is left out.

### RefreshContract

A refresh publishes overviews that lack less and less, returns one that lacks
nothing, fails at any time, and meets an outage before its first overview or
not at all; leftovers of one that failed may publish on. `RefreshLoad!Contract`
is the refinement mapping. `GetOverview` states the same about its tasks in the
guards of `Publish`, `Store`, `Fail` and `PublishOrphan`: `TasksKeepTheContract`
proves that a task does nothing the contract does not allow. The converse is not
so: with the failed jobs switched off the last overview published may already be
complete, which `GetOverview` leaves out.

### Sessions

| TLA+ | Code |
|---|---|
| `store`, `backend` | `SqliteSessionRepository` or `RedisSessionRepository`: id -> record; `expires` is a Redis TTL, or a row the purge loop finds |
| `live`, `issued` | GitHub's side: the pair of tokens it accepts for a session, and how many it has issued |
| `lapsed`, `due`, `spent` | what time has done: the session's end, the access token within its leeway, the refresh token unusable |
| `call[c]` | a request or the cycle: `session` the id of the cookie, `record` the SessionRecord it holds since it read it, `new` the pair it was given |
| `ExchangeCode`, `Viewer`, `Deny`, `Create` | CompleteLogin |
| `Get`, `DeleteExpired`, `Found` | ResolveSession, and the decision of EnsureFreshToken |
| `Shared`, `Answered` | a request that GetOverview answers without a refresh of its own, the cycle joining one of another session, and the answer to who started it |
| `Exchange`, `UpdateSqlite`, `UpdateReadRedis`, `UpdateWriteRedis`, `Drop` | EnsureFreshToken and `update_tokens`, one statement or a read and a write |
| `Use`, `Refused` | what the call is for, and the deletion of a refused token's session |
| `LogoutDelete`, `LogoutRevoke`, `Purge` | Logout, `_purge_loop` |
| `activity`, `Tick`, `Take`, `Settle`, `CycleEnds` | ActivityTracker and `_refresh_active_sessions` with every error it catches |
| `Restart`, `TimePasses`, `Revoke`, `KeyExpires` | the environment |

A session's tokens come in pairs that are numbered; each number stands for both
ciphertexts. GitHub refuses a pair it does not accept, and may deny one it does
(`Exchange`): the adapter takes every answer below 500 without an access token for
a refusal. `torn`, `denied` and `history` are history: whose exchange was answered
but not received, which call was denied, and what a cycle has done.

### HttpClient

A call is one method of the adapter. `Sent` puts a request on its way, `Answer`
lets GitHub decide at one instant, and `Retry`, `Once`, `Get`, `GetFails`,
`Graphql` and `Hygiene` receive: so that an answer may be stale when it is
received, and the cache may have changed since the request was sent. `cache` is
ConditionalCache, least recently used first. Statuses are told apart as far as
the code does (403 with the limit exhausted, with a `retry-after`, without).
GitHub's side is a number of workflow runs, which grows while calls are made;
`since` is that number when the call, or page, began.

### Viewing

`GetOverview` reduced to when a refresh runs, what it has read, and when it
stores it; in exchange the cache has its two keys, the overviews have contents,
and MarkSeen, a rerun and its invalidation take part. `ReadRepositories` and
`ReadRuns` are the two kinds of parts that matter here: without repositories
there is no overview, without runs a degraded one. Cache calls are shorter than
the TTL (`TimeGoesBy`); without that, a marker read just before it expires makes
a hit a moment late, which no reader can tell.

`HitIsFresh` and `MarkedIsWhole` hold and are proved. `RerunIsShown` does not, and has
a run that refutes it: a refresh that was under way when the rerun ended stores what it
had read before. `requeued` is history: which runs have been restarted and have not
failed since. That what was seen stays seen does not hold either (below), so nothing
here claims it: `MarkedIsWhole` is about what a snapshot has when it is recorded.

### Preferences

`stored` is the server's value; `copy[p]` what the page has, `attached[p]` what
the stream it reads attached when it began, `dialog[p]` the dialog's working copy.
`Toggle`, `AddToGroup` and `Submit` are the three ways `app.js` saves, `Save` and
`Answered` the PUT's two halves, either of which may get lost.

### Lists, DomainRules, GithubNodes, Codec, Rules

The first three are operators: Python's sums, counts, stable sorts and rounding;
classification, staleness, hygiene, totals as `app/domain` derives them
(`BuildOverview` is `build_overview`); and the reading of GitHub's JSON with what
may be null in it. `Codec` describes each document type
by the fields `*_to_dict` writes and how `*_from_dict` reads each.
`Rules` makes a state machine of them: a subject, to which one thing happens at a
time - a fact gets worse, a part arrives, a field is one that another build does
not have, or does not know. `HygieneOf` starts from a node that has its name;
nodes without one, and those that come twice, are in `HygieneFromNodes`, which
`Assemble` uses.

`Assemble` puts an overview together from what is in: `PageOf` (the hygiene
lookup's page, of the repositories whose nodes came: a dropped batch, or a null node,
leaves single ones out), `RepositoryOf`, `CiOfRepo` (pending until the runs are in,
skipped for an archived repository), `SecurityOf` and the rest of `Parts`, in the order
of `ListedRepos`, as GitHub lists them. A worker's runs, alerts, release and CI time
are parts of their own (`RunsArrive`, `SecurityArrives`, `ReleaseArrives`,
`UsageArrives`), since another part's `emit` may show one without the next; `checks` is
whether hygiene is asked for at all, which the CI time then waits for.

In `Codec`, `Totals(**d["totals"])` accepts exactly the fields of this build
(`TotalsDoc`), so a cached overview of a build with other totals cannot be read;
nor can a document in which a newer build names a `RunStatus`, `CiState` or
`Mergeable` this one does not have. Optional fields and the sections of an overview
tolerate other builds. `DocumentsSurvive` is about the latter only: it leaves totals
and enumerators as they are.

`Viewing`, `Preferences` and `Rules` share no state. `MCRules` runs one of the three at
a time (`topic`), so that their state spaces add up.

## What TLC checks

| Run | Instance | Shows |
|---|---|---|
| `overview` | one account, two callers, two refreshes, in-process cache | types; one refresh at a time; the registry names refreshes whose callback is to come; a subscriber that waits can be woken; the cooldown; who joined a failed refresh is told |
| `accounts` | three sessions of two accounts, one caller, two refreshes | nobody gets another account's overview; a refused token clears the cache |
| `calls_end` | one caller, two refreshes, Redis | every call, stream or not, ends |
| `load` | two repositories, one permit, two job lookups | everything about `RefreshLoad`: permits, pending, degraded, fatal errors, the contract; and every refresh ends with all it started |
| `sessions` | two sessions of one account, one request and the cycle, two pairs each, two events, either store | the newest pair is stored, sessions are deleted for a cause and stay deleted (SQLite), the cycle is sparing and reaches everybody |
| `github` | each kind of call alone with every failure; two callers that share the cache | fresh bodies, the cost and the patience of reads, one rerun per click, hygiene halves, exact usage; every call ends |
| `rules` | two browsers, two refreshes, either cache; two pages; two repositories and five things GitHub may say of each; pull requests, runs, hygiene; 29 document types | cache hits are fresh; what is recorded as seen is whole; edits nobody contests stay; overviews agree with themselves and only grow; worse never looks better; documents survive |
| `stream_ends_complete` | - | counterexample: a stream that ends without the complete overview |
| `authentication_error_is_own` | - | counterexample: "unauthorized" for a browser whose token is good |
| `loss_is_named` | - | counterexample: CI time shown as zero and not named as degraded |
| `session_lifetime` | - | counterexample: a session without an expiry, with Redis |
| `rerun_is_shown` | - | counterexample: a failed run in the cache after its rerun |

The five counterexamples contradict sentences of the repository, quoted under
"findings" in PROJECT.json. What each comes down to:

- `stream` looks at `task.done()` before it looks at `version`
  (`use_cases.py:438`), so a subscriber that was suspended at its `yield` while
  the refresh ended leaves the loop with what it yielded before.
- `_failures` and `_refreshes` are keyed by account, while a refused token is one
  session's.
- `_repo_usage` does not ask for the CI time of a repository without hygiene facts
  and reports nothing degraded, also when the facts are missing because the
  lookup was (`use_cases.py:786-788`).
- Redis's `update_tokens` reads the record and writes it with KEEPTTL
  (`session_redis.py:51-60`): a session deleted in between comes back, and a key
  made anew has no expiry to keep.
- A rerun's `invalidate` (`use_cases.py:957`) does not reach the refresh that is under
  way, which stores the failure it has read; a forced call joins that refresh.

Divergences that have no run, and that no property that is checked relies on:

- With Redis one account can have two refreshes at a time: `__call__` reads the
  registry, awaits the cache, and starts a refresh without reading the registry again
  (`use_cases.py:356-366`). `GetOverview` does the same with `CacheYields = TRUE`;
  `SingleFlight` is checked and proved for the in-process cache only.
- A session whose tokens are good may be deleted: `_token_set_from_payload` takes any
  answer below 500 without an access token for an AuthenticationError
  (`github_http.py:458-466`), and EnsureFreshToken deletes the session for it
  (`use_cases.py:232`). `Exchange` has that case, and `DeletedForCause` counts it as a
  cause.
- Every read is said to be retried (`README.md:140`). `fetch_viewer` is sent once
  (`github_http.py:486`), and a hygiene batch is not asked for again on errors without a
  type (`github_http.py:718`): its halves are, once each. `ReadsArePatient` names both
  as exceptions.
- "Everything you had already seen" (`README.md:293`) may be reported as new again:
  `MarkSeen` (`use_cases.py:923`) replaces the snapshot by an overview that may lack the
  runs or be older than the one recorded before.
- `MAX_CONCURRENCY` is described as "parallel GitHub requests per refresh", while the
  inbox, the notifications and the Actions usage are fetched outside the semaphore - up
  to three more at a time.
- `list_recent_runs` takes a secondary rate limit, whose remaining count is not zero,
  for a repository without Actions (`github_http.py:791`, `RunsOrRaise`).

### Bounds, and why they are enough

- Two callers see every pair of positions relative to one refresh, which is where
  the races are; two refreshes are what it takes for one to overlap the callback
  of the other. A refresh that is over and that nobody looks at is free to be
  used again, so their number over time is not bounded.
- `MaxPublishes` bounds how often one refresh publishes: two tell "the version I
  saw" from "a newer one". `Requests` lists the calls: force acts before the
  modes differ, so that not every mode is tried with both.
- `AnswersFirst`, an action constraint, explores an answered call's departure
  first: it changes no other variable, and no property looks at a call that has
  left. `View` forgets what free refreshes and unused sessions once were.
  `Symmetry` is over callers and refreshes, in runs without liveness only.
- Two repositories are the least with a first and a last one. One permit for
  three contenders is the tightest semaphore: with more permits fewer jobs wait.
  `FeatureSets` takes the combinations in which parts depend on each other; the
  Actions usage, which runs like the inbox, has one of its own. The proofs cover
  the rest.
- `sessions`: two sessions of one account let the cycle skip, and a login, a
  logout and an exchange overlap with the cycle's own; two callers are two holders
  of one record. Two pairs are one exchange per session, two events what it takes
  for a token to become due and something else to go wrong.
- `github`: a page of one run and two pages make three runs one too many; three
  repositories halve unevenly; two entries are fewer than the keys in use;
  attempts are the code's three, since the budget is a product of them. `Mixes`
  are the calls that are made together: only those that share the cache interact.
- `rules`, of `Viewing`: two of everything that interferes: two browsers of which one joins,
  overtakes or undoes the other, two refreshes that overlap with Redis, one listed
  item and one run; two events are a part that cannot be had and a change at GitHub.
- `rules`, of `Rules`: the times keep the code's order (a day, then a long run, then stale) on a
  short axis. The answers of GitHub are a handful chosen so that every rule has one it
  applies to and one it does not; `MaxChanges` is how much of one gets worse, or how
  many fields another build has otherwise.
- Deadlock is not checked in `rules` and `rerun_is_shown`: a subject to which nothing more
  can happen is at its end, and once the events, or the edits, are used up everything may
  be done.

### Fairness

`GetOverview`: weak fairness of each caller and each task - the event loop runs
what is ready, HTTP requests have a timeout and limited retries, stores answer.
Nothing is assumed of users, of expiry, of GitHub's revocations, nor of leftovers
of a failed refresh. `RefreshLoad`: weak fairness of `_load` and of each of its
coroutines for the same reasons; the semaphore's order is the code's own, so
no strong fairness is needed. `HttpClient`: weak fairness of each call's steps, since
GitHub answers or the request times out; none of new calls or new runs. Only
`EveryCallEnds`, `RefreshEnds` and `CallsEnd` use it. Deadlock
is checked in every run but those just named: in `RefreshLoad` the stuttering `Over` is the only
state in which nothing is left to do.

## What is proved

For any number of accounts, sessions, callers, refreshes, repositories, permits,
pages, attempts and cache entries; bounds on events (`MaxEvents`, `MaxPairs`,
`MaxChanges`) may be any number. Each module of proofs uses the assumptions that
its module states by name:

| Proofs | Assumed of the constants |
|---|---|
| `GetOverviewProofs` | every session has an account, `None` is none of the values it is told from, the cache suspends its callers or does not |
| `RefreshLoadProofs` | finitely many repositories, at least one permit, features that exist, jobs that are told apart |
| `SessionsProofs` | `SessionsAssumption`: every session has an account, the stores are the two there are, the cycle is not a request; `None` is no record, pair or set |
| `HttpClientProofs` | `HttpAssumption`: finitely many callers, at least one attempt, page, run per page and cache entry, no repository twice in a batch; `None` is no outcome |
| `ViewingProofs` | what is listed is not a run; `None` is no overview |
| `PreferencesProofs` | `PreferencesAssumption`: no copy is told from every set of entries |
| `RulesProofs` | None is neither a truth value nor an enumerator; a hygiene node has the fields of the query |
| `OverviewProofs` | those, and what `ListedAssumption`, `AnswerAssumption`, `InboxAssumption` say of GitHub's answers, below |

**GetOverview, either cache.** `IInv` says of each call, each task, each cache
entry and the registry what can be said of it alone: a call past its join has a
refresh of its own account, a task that is done has an outcome, a published
overview is the account's own, a registered refresh is the account's and is not
finished, whoever listens has joined a task that is not done with its callback.
It is local, so that each action touches the one call or task it is about:
lemmas show what a coroutine leaves behind, the rest follows. From it:
`TypeCorrect`, `RegistryIsAlive`, `AnswersAreOwn`, `NoWakeupIsLost`; and two of its
steps: `CallbacksUnregisterTheirOwn` (the entry of the registry that a callback
clears is its own task's, which is done) and `FailuresAreTold` (who is answered by a
failed refresh is given its error, or for an outage a complete overview that says
why it is stale).

**GetOverview and its contract.** `Promise(r)` is `RefreshContract` with a task's
phase, outcome and newest overview mapped to its `status` and `latest`.
`TasksKeepTheContract` says of every step that it is, for every task, a step of the
contract, none that its callers see, or the task's object used for another
refresh. It needs `PublishedOK`: a complete overview is one that was returned.
What `RefreshLoad` does is proved to keep the same contract (below), so the two
models of a refresh meet in it.

**GetOverview, in-process cache.** `MInv` adds what holds only when a lookup
cannot be interrupted: a refresh whose callback is to come *is* the registered
one of its account, and after a refused token the cache is empty until then.
It needs `~CacheYields` as a hypothesis - with Redis a lookup can be interrupted, and
two refreshes of one account are possible. From both: `OneRefreshPerUser`, `RefusalClears`,
`CooldownIsRespected`.

**RefreshLoad.** `IInv` has six parts: the semaphore (permits and line are exactly
the jobs that say so, nobody is in line twice), where jobs of a kind can be, what
holds before and after the repositories are listed, the count (`repos_left` is
the number of listed repositories whose details are missing), the pending
sections, and the losses. `Acquiring` and `Releasing` are proved once and used
in every action that takes or leaves a permit; that a granted permit does not
change what is known of a job (`SameStage`) is what lets the other parts ignore
the semaphore. From it: `TypeCorrect`, `PermitsAreForWork`,
`PendingSectionsAreExact`, `LossesAreNoted`, `NoErrorIsSwallowed`, and
`ContractIsKept`, the refinement.

**Preferences.** For any number of pages, entries and edits: `PagesInv` (a page whose
dialog is open has a copy, every save under way is of an edit that was counted)
and from it `NoUncontestedEntryIsLost`.

**Sessions.** `NewestPairIsStored` says nothing of a session while somebody is
about to update it, so the invariant must: `StoringAt` (while a caller has the
newest pair to store, nobody else has it), `LoginAt`, `PairsAt` (what is stored,
or held by a call, is one pair that was issued) and `NewestAt`, for each session,
next to `CallsInv` for each call and `CycleInv` for the cycle's accounting. Most
steps only take away - a call moves on, a record is deleted, a token revoked - and
keep all of it for one reason (`Lessens`); those that give do so to one session
(`Local`), of which the caller knows everything. From it: `TypeCorrect`,
`NewestPairStays`, `CyclesAreSparing`, `CyclesReachAll`,
`DeletedSessionsStayDeleted`, `SessionsEndForCause`, and
`LifetimeIsKeptOnSqlite`: what `session_lifetime` refutes is refuted for Redis only.

**HttpClient.** A step is one call's, and what it changes besides is the cache or
GitHub's reruns (`CallStep`). So the invariant is one of each call - what it holds
is no older than its beginning (`FreshCall`), what it has spent follows from its
two counters of attempts (`SpentCall`), what it has, was told null for, has lost and
has still to ask for is its batch (`BatchCall`) - with one of the cache (`CacheOK`: never too many
entries, no key twice) and one of the reruns (`RerunInv`). From it: `TypeCorrect`,
`ReadsAreFresh`, `BudgetIsKept`, `RerunsAreNotRepeated`, `BatchesAreWhole`,
`ReadsDoNotGiveUp` (of the reads that `_send` and `_graphql` retry, which `fetch_viewer`
and a hygiene batch with untyped errors are not). `UsageIsExactAlways` adds `PagesInv` (while no run is created,
the pages that were read are the first ones of the list as it is) and that such
pages, put together, are the list: an induction over the number of pages, done
by the least one for which it fails.

**Viewing.** `IInv` has, besides the types: `FreshInv` (the marker is there, or about
to be written, only beside an overview within its TTL) and `WholeInv` (a refresh that
has read a part has the items of it that were open ever since it began; the cached
overview, and any that MarkSeen holds, lacks none of those, but runs that could not be
had). From it: `HitsAreFresh`, `SnapshotsAreWhole`.

**Rules.** `WorseNeverLooksBetterAlways`: a pull request's state is the least of its
grounds (`Grounds`), and what gets worse adds one that is no later; a repository's
CI is the most urgent of its outcomes; a fact that is lost passes no check that it
did not pass (`LossIsNoGain`), and rounding keeps that (`RoundIs`).
`DocumentsSurviveAlways`: `DocsFit` checks each of the 29 types for what makes it
tolerant - what is read is written, what may be null, absent or unknown is read in
a way that takes it - and `DocumentInv` says a document differs from what this
build writes in tolerated ways only, however many.

**The overview.** `OverviewAgreesAlways` and `ArrivalsOnlyAddAlways`: for any list of
repositories, any answers about them, and whichever parts of those are in. What is
assumed of the answers is what GitHub and the queries give: a queried field is
there, if only as a null (what may be null may be `Nothing`, the rest is a number
or a list); no name is listed twice; a run that has a failure for its conclusion is
over; runs are either listed or there is an error (`use_cases.py:644-657`); the
clock and counts are natural numbers. `TLC` evaluates the same assumptions on the
answers of `MCRules`. The argument has four steps.

1. *Sums are sizes.* A family of disjoint finite sets has as many members as the
   sizes of its sets add up to (`SumsAreSizes`, by a least set for which it fails).
   Through it every law of sums is a fact about finite sets: a sum does not depend
   on the order, is monotone, splits by a condition, is zero only if all is.
2. *A sort is a bijection.* `InOrder` chooses an enumeration of the set along the
   order, which exists as the order is total: a member's place is the number of those
   that are not after it; so `SortedBy` and `NewestFirst` have the same members, each once, and in order.
3. *A repository is well formed.* From the assumptions, everything a total reads of
   a `RepoOverview` is a natural number or a list, its failed runs are those its
   `ci` counts, a score is between 0 and 100.
4. *The whole from the parts.* A total over the shown list is the sum over the names
   of what each repository adds. For `OverviewAgrees` those contributions are
   compared name by name; the average lies between the least and the greatest
   score since rounding respects both. For `ArrivalsOnlyAdd` it is what a name
   adds before and after an arrival that is compared.

Step 4 needs one invariant, `OverviewInv`: each name has one of the answers, no runs
arrive of an archived repository, and there is no page before the hygiene is in. Without
the second part it is not true: `CiOfRepo` would show such a repository as skipped while
its failed runs count as told of; without the third an arriving page could take
branches away.

**Only model-checked.** `EveryCallEnds`, `RefreshEnds` and `CallsEnd`: liveness, and
with it ENABLED, is out of the prover's reach. Every other property of a run that
passes has a theorem. `CallbacksUnregisterTheirOwn` is proved and no run checks it: it
takes two callers and two refreshes of one account, so Redis, to tell it apart, an
instance that none of the runs has. The five counterexamples are TLC's. Within the theorems nothing
is proved by induction on data through the library's theorems, which take an
operator; where an induction is needed it is a least counterexample in a set.

## What is not modelled

- Of the adapter: releases, notifications, last commits and jobs, which are copied
  field by field; URLs, headers, the texts of the GraphQL queries.
- Of the domain: sums of stars, forks and notifications, sorting within equal keys.
- Of the browser: rendering, filters, the poll timer and the fallback from the
  event stream to it, which the plan still has.
- Settings, read once at start; encryption of tokens, which changes no control
  flow; cookies, HTML, styles, texts; the CSRF guard and the login's state cookie,
  single checks without state on the server; the deployment files and the fuzz
  harness.
- `finish_login` does not handle a RateLimited from `fetch_viewer`
  (`routes_auth.py:68-76`): in `Sessions` such a login ends without a session and
  with a token nobody revokes; the error page it becomes is not modelled.
- Time is only what expires, cools down or becomes due, at any moment; backoff
  sleeps are part of the wait for an answer.
