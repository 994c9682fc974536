----------------------------- MODULE HttpClient -----------------------------
(***************************************************************************)
(* How the adapter asks GitHub (infrastructure/github_http.py and          *)
(* http_cache.py): one request and its retries, the cache of conditional   *)
(* GETs that all concurrent calls share, GraphQL's own retries, paging,    *)
(* hygiene batches that are retried as halves, and the one write.          *)
(*                                                                         *)
(* A request is sent, GitHub answers it at one instant, and the answer is  *)
(* received later, or lost.  What the REST endpoints answer depends on the *)
(* workflow runs of this month, numbered as they are created: a list GitHub*)
(* gives newest first, in pages.  Backoff sleeps are part of the wait for  *)
(* the next answer.                                                        *)
(***************************************************************************)
EXTENDS Integers, Sequences, FiniteSets, SequencesExt

CONSTANTS
    Callers,     \* calls the adapter serves at the same time
    Mixes,       \* bound: the kinds of calls each of them makes, the failures it meets
    Attempts,    \* _RETRY_ATTEMPTS
    MaxEntries,  \* ConditionalCache: max_entries
    PageSize,    \* _RUN_DURATIONS_PAGE_SIZE
    MaxPages,    \* list_run_durations: max_pages, 1 if less is asked for
    ListPages,   \* pages of the repositories query
    Repos,       \* node ids of one hygiene batch, a sequence
    MaxRuns,     \* bound: runs created this month
    MaxCreated,  \* bound: of these, runs created while calls are made
    MaxReruns,   \* bound: reruns asked for
    None

\* REST reads: of what may be unavailable, of the recent runs, of this month's
\* runs; GraphQL reads: one query, the pages of the repositories, a hygiene batch;
\* what is sent once: the rerun, and the OAuth requests.
RestKinds == {"optional", "runs", "durations"}
GraphqlKinds == {"query", "repositories", "hygiene"}
Kinds == RestKinds \cup GraphqlKinds \cup {"rerun", "token", "viewer", "revoke"}

\* What a request can come back with: nothing (dropped: a transport error;
\* broken: any other HTTPError), a status, or the payload of a 200.
Gateway == "502"    \* 502, 503 and 504 alike
Statuses == {Gateway, "401", "403", "403 exhausted", "403 secondary", "404", "409", "429",
             "429 limited", "500"}
Payloads == {"data", "partial", "RATE_LIMITED", "RESOURCE_LIMITS_EXCEEDED",
             "untyped error", "typed error"}
Failures == {"dropped", "broken"} \cup Statuses

ASSUME HttpAssumption ==
    /\ Mixes \subseteq [Callers -> [kinds : SUBSET Kinds, meets : SUBSET Failures]]
    /\ Attempts \in Nat \ {0} /\ MaxEntries \in Nat \ {0}
    /\ PageSize \in Nat \ {0} /\ MaxPages \in Nat \ {0} /\ ListPages \in Nat \ {0}
    /\ MaxRuns \in Nat /\ MaxCreated \in Nat /\ MaxReruns \in Nat
    /\ IsFiniteSet(Callers)
    /\ Repos \in Seq(Range(Repos)) /\ IsInjective(Repos)

\* Of the REST GETs: the list as it was, with an ETag or without, or a 304.
Reply(how, runs) == [how |-> how, runs |-> runs]

\* A call.  cached and asked are the locals of _conditional_get, since the number
\* of runs there were when it began; ids what is being asked for (hygiene), nulled
\* what GitHub answered null for.
NoCall == [pc |-> "idle", kind |-> "optional", attempt |-> 1, outer |-> 1, page |-> 1,
           cached |-> None, since |-> 0, answer |-> None, bodies |-> << >>,
           ids |-> << >>, rest |-> << >>, got |-> {}, lost |-> {}, nulled |-> {},
           requests |-> 0, out |-> None]

VARIABLES
    mix,      \* one of Mixes, chosen at the start
    runs,     \* GitHub: workflow runs created this month
    created,  \* those of them created since calls are made
    reruns,   \* GitHub: reruns it has started
    asked,    \* rerun calls made so far
    cache,    \* ConditionalCache: entries, least recently used first
    call      \* every caller

vars == <<mix, runs, created, reruns, asked, cache, call>>

Init ==
    /\ mix \in Mixes
    /\ runs \in 0 .. MaxRuns /\ created = 0
    /\ reruns = 0 /\ asked = 0
    /\ cache = << >>
    /\ call = [c \in Callers |-> NoCall]

Outcomes == {"ok", "none", "auth", "limited", "unavailable", "actions_unavailable",
             "forbidden", "not_rerunnable", "undecodable"}
ASSUME NoneIsNoOutcome == None \notin Outcomes

TypeOK ==
    /\ mix \in Mixes
    /\ runs \in 0 .. MaxRuns /\ created \in 0 .. MaxCreated /\ reruns \in 0 .. MaxReruns /\ asked \in 0 .. MaxReruns
    /\ Len(cache) <= MaxEntries
    /\ \A i, j \in DOMAIN cache : cache[i].key = cache[j].key => i = j
    /\ \A i \in DOMAIN cache : cache[i].runs \in 0 .. MaxRuns
    /\ \A c \in Callers :
          /\ call[c].pc \in {"idle", "sent", "answered", "ended"}
          /\ call[c].kind \in Kinds
          /\ call[c].out \in {None} \cup Outcomes
          /\ call[c].attempt \in Nat \ {0} /\ call[c].outer \in Nat \ {0}

-----------------------------------------------------------------------------
(* ConditionalCache                                                        *)

\* The URL with its query, so that pages never collide; the token is the caller's.
KeyOf(k) == IF k.kind = "durations" THEN <<k.kind, k.page>> ELSE <<k.kind>>

\* Where the entry of key is, 0 if there is none.
Held(entries, key) ==
    LET at == {i \in DOMAIN entries : entries[i].key = key}
    IN  IF at = {} THEN 0 ELSE CHOOSE i \in at : TRUE

\* get: the entry of key, or None; and the entries once it is the last one used.
Found(entries, key) ==
    LET i == Held(entries, key) IN IF i = 0 THEN None ELSE entries[i]

Used(entries, key) ==
    LET i == Held(entries, key)
    IN  IF i = 0 THEN entries ELSE Append(RemoveAt(entries, i), entries[i])

\* Mutant: the entry is appended to what is there.
PutTwice(entry) ==
    Append(IF Len(cache) < MaxEntries THEN cache ELSE Tail(cache), entry)

\* put: the entry is the newest, the least recently used one makes room.
Put(entry) ==
    LET i == Held(cache, entry.key)
        others == IF i = 0 THEN cache ELSE RemoveAt(cache, i)
        kept == IF Len(others) < MaxEntries THEN others ELSE Tail(others)
    IN  Append(kept, entry)

-----------------------------------------------------------------------------
(* Requests                                                                *)

\* The request is on its way.  A conditional GET first looks into the cache.
Sent(k, entries) ==
    [k EXCEPT !.pc = "sent", !.attempt = 1, !.requests = 1, !.answer = None,
              !.cached = IF k.kind \in RestKinds THEN Found(entries, KeyOf(k)) ELSE None,
              !.since = IF k.kind \in RestKinds /\ k.page = 1 THEN runs ELSE @]

Looked(k, entries) == IF k.kind \in RestKinds THEN Used(entries, KeyOf(k)) ELSE entries

Begin(c) ==
    /\ call[c].pc = "idle"
    /\ \E kind \in mix[c].kinds :
          LET k == [NoCall EXCEPT !.kind = kind,
                                  !.ids = IF kind = "hygiene" THEN Repos ELSE << >>]
          IN  /\ kind = "rerun" => asked < MaxReruns
              /\ asked' = IF kind = "rerun" THEN asked + 1 ELSE asked
              /\ call' = [call EXCEPT ![c] = Sent(k, cache)]
              /\ cache' = Looked(k, cache)
    /\ UNCHANGED <<mix, runs, created, reruns>>

\* What GitHub can answer to a call of this kind, at this instant.
Replies(c, k) ==
    {Reply(how, IF k.kind \in RestKinds THEN runs ELSE 0) : how \in
        mix[c].meets \cup
        CASE k.kind \in RestKinds ->
               IF k.cached # None /\ k.cached.runs = runs THEN {"304"} ELSE {"200", "200 no etag"}
             [] k.kind \in GraphqlKinds -> Payloads
             [] k.kind = "rerun" -> {"202"}
             [] k.kind = "token" -> {"200", "200 without token", "not json"}
             [] k.kind = "viewer" -> {"200"}
             [] OTHER -> {"204", "422"}}

\* A rerun that GitHub has started may still be answered by a dropped connection.
Answer(c) ==
    LET k == call[c] IN
    /\ k.pc = "sent"
    /\ \E reply \in Replies(c, k) :
          /\ call' = [call EXCEPT ![c].pc = "answered", ![c].answer = reply]
          /\ reruns' \in IF k.kind = "rerun" /\ reply.how \in {"202", "dropped"}
                         THEN (IF reply.how = "202" THEN {} ELSE {reruns}) \cup {reruns + 1}
                         ELSE {reruns}
    /\ UNCHANGED <<mix, runs, created, asked, cache>>

-----------------------------------------------------------------------------
(* _send: a transport failure, or a status worth a retry, is tried again   *)

\* The write and the OAuth requests are sent without it.
SentOnce(kind) == kind \in {"rerun", "token", "viewer", "revoke"}

\* Mutant: the write goes through _send like the reads.
RerunThroughSend(kind) == ~ SentOnce(kind) \/ kind = "rerun"

ThroughSend(kind) == ~ SentOnce(kind)

\* Mutant: only transport failures are tried again.
RetryNoStatus(kind) == {}

\* Hygiene leaves a 502 to the halves.
RetryStatuses(kind) == IF kind = "hygiene" THEN {} ELSE {Gateway}

\* Mutant: one attempt too many.
LastAttemptTooLate(k) == k.attempt > Attempts

LastAttempt(k) == k.attempt >= Attempts

Retried(k) ==
    /\ ThroughSend(k.kind) /\ ~ LastAttempt(k)
    /\ k.answer.how = "dropped" \/ k.answer.how \in RetryStatuses(k.kind)

Retry(c) ==
    LET k == call[c] IN
    /\ k.pc = "answered" /\ Retried(k)
    /\ call' = [call EXCEPT ![c].pc = "sent", ![c].answer = None,
                            ![c].attempt = @ + 1, ![c].requests = @ + 1]
    /\ UNCHANGED <<mix, runs, created, reruns, asked, cache>>

-----------------------------------------------------------------------------
(* What a status means                                                     *)

IsRateLimited(how) == how \in {"403 exhausted", "403 secondary", "429 limited"}

\* The error, if it is one.
RaiseForStatus(how) ==
    CASE how = "401" -> "auth"
      [] IsRateLimited(how) -> "limited"
      [] how \in Failures \ {"401"} /\ ~ IsRateLimited(how) -> "unavailable"
      [] OTHER -> None

\* Endpoints for which 403 and 404 mean "not available".  A 429 is an outage to
\* them, whatever it says.
OptionalOrRaise(how) ==
    CASE how = "401" -> "auth"
      [] how \in {"404", "403"} -> "none"
      [] how \in {"403 exhausted", "403 secondary"} -> "limited"
      [] how \in Failures \ {"401", "404", "403", "403 exhausted", "403 secondary"} -> "unavailable"
      [] OTHER -> None

\* list_recent_runs takes a secondary rate limit for a repository without Actions.
RunsOrRaise(how) ==
    IF how \in {"404", "403", "403 secondary"} THEN "actions_unavailable"
    ELSE RaiseForStatus(how)

RerunOrRaise(how) ==
    CASE how = "202" -> "ok"
      [] how = "401" -> "auth"
      [] how \in {"403", "403 exhausted", "403 secondary"} -> "forbidden"
      [] how = "404" -> "actions_unavailable"
      [] how = "409" -> "not_rerunnable"
      [] OTHER -> "unavailable"

\* _request_token raises for 5xx only; below, a body without a token is a refusal,
\* one that is not JSON an error of the decoder.
TokenOrRaise(how) ==
    CASE how \in {"dropped", "broken", "500", Gateway} -> "unavailable"
      [] how = "200" -> "ok"
      [] how = "not json" -> "undecodable"
      [] OTHER -> "auth"

RevokeOrRaise(how) == IF how \in {"204", "404", "422"} THEN "ok" ELSE "unavailable"

OnceOutcome(kind, how) ==
    CASE kind = "rerun" -> RerunOrRaise(how)
      [] kind = "token" -> TokenOrRaise(how)
      [] kind = "revoke" -> RevokeOrRaise(how)
      [] OTHER -> IF RaiseForStatus(how) = None THEN "ok" ELSE RaiseForStatus(how)

ErrorOf(k) ==
    CASE k.kind \in {"optional", "durations"} -> OptionalOrRaise(k.answer.how)
      [] k.kind = "runs" -> RunsOrRaise(k.answer.how)
      [] OTHER -> RaiseForStatus(k.answer.how)

-----------------------------------------------------------------------------
(* What a call does with an answer that is not tried again                 *)

Ended(k, out) ==
    [k EXCEPT !.pc = "ended", !.out = out, !.attempt = 1, !.outer = 1, !.page = 1,
              !.cached = None, !.ids = << >>, !.rest = << >>]
Received(c) == call[c].pc = "answered" /\ ~ Retried(call[c])

Once(c) ==
    LET k == call[c] IN
    /\ Received(c) /\ SentOnce(k.kind)
    /\ call' = [call EXCEPT ![c] = Ended(k, OnceOutcome(k.kind, k.answer.how))]
    /\ UNCHANGED <<mix, runs, created, reruns, asked, cache>>

\* Mutant: the cache is read again once the 304 is there.
BodyReadAgain(k) ==
    IF k.answer.how = "304" /\ Found(cache, KeyOf(k)) # None
    THEN Found(cache, KeyOf(k)).runs ELSE k.answer.runs

\* _conditional_get: a 304 stands for the body this call found before it asked.
Body(k) == IF k.answer.how = "304" THEN k.cached.runs ELSE k.answer.runs

\* Only a 200 with an ETag is remembered.
Stored(k) ==
    IF k.answer.how = "200" THEN Put([key |-> KeyOf(k), runs |-> k.answer.runs]) ELSE cache

\* The runs on a page of a list of n, newest first.
OnPage(n, page) ==
    LET first == n - (page - 1) * PageSize
        size == Max({0, Min({first, PageSize})})
    IN  [i \in 1 .. size |-> first - i + 1]

\* Mutant: the last page is not asked for.
MorePagesButOne(k) == k.bodies[1].runs > PageSize /\ k.page + 1 < MaxPages

\* list_run_durations goes on while the first page has promised more than a page.
MorePages(k) == k.bodies[1].runs > PageSize /\ k.page < MaxPages

Get(c) ==
    LET k == call[c]
        error == ErrorOf(k)
        body == [page |-> k.page, runs |-> Body(k)]
        read == [k EXCEPT !.bodies = Append(@, body)]
    IN
    /\ Received(c) /\ k.kind \in RestKinds /\ error = None
    /\ IF k.kind = "durations" /\ MorePages(read)
       THEN LET next == [read EXCEPT !.page = @ + 1] IN
            /\ call' = [call EXCEPT ![c] = Sent(next, Stored(k))]
            /\ cache' = Looked(next, Stored(k))
       ELSE /\ call' = [call EXCEPT ![c] = Ended(read, "ok")]
            /\ cache' = Stored(k)
    /\ UNCHANGED <<mix, runs, created, reruns, asked>>

\* A later page that is not available ends the count with what is there.
GetFails(c) ==
    LET k == call[c]
        error == ErrorOf(k)
    IN
    /\ Received(c) /\ k.kind \in RestKinds /\ error # None
    /\ call' = [call EXCEPT ![c] = Ended(k, IF error = "none" /\ k.page > 1 THEN "ok" ELSE error)]
    /\ UNCHANGED <<mix, runs, created, reruns, asked, cache>>

\* The usage that list_run_durations returns.
Counted(k) == FlattenSeq([i \in DOMAIN k.bodies |-> OnPage(k.bodies[i].runs, k.bodies[i].page)])
Truncated(k) == k.bodies[1].runs > PageSize * MaxPages

\* _graphql: errors that all come without a type are a timeout, tried again.
GraphqlRetried(k) == k.answer.how = "untyped error" /\ k.outer < Attempts

GraphqlError(how) ==
    CASE how \in Failures -> RaiseForStatus(how)
      [] how = "RATE_LIMITED" -> "limited"
      [] how \in {"data", "partial"} -> None
      [] OTHER -> "unavailable"

\* Mutant: the cursor stays.
SamePage(k) == [Sent(k, cache) EXCEPT !.outer = 1]

\* The next page of the repositories query: a read of its own.
NextPage(k) == [Sent([k EXCEPT !.page = @ + 1], cache) EXCEPT !.outer = 1]

Graphql(c) ==
    LET k == call[c]
        error == GraphqlError(k.answer.how)
    IN
    /\ Received(c) /\ k.kind \in {"query", "repositories"}
    /\ call' = [call EXCEPT ![c] =
          CASE GraphqlRetried(k) -> [Sent(k, cache) EXCEPT !.outer = k.outer + 1,
                                                           !.requests = k.requests + 1]
            [] ~ GraphqlRetried(k) /\ error # None -> Ended(k, error)
            [] OTHER -> IF k.kind = "repositories" /\ k.page < ListPages
                        THEN NextPage(k) ELSE Ended(k, "ok")]
    /\ UNCHANGED <<mix, runs, created, reruns, asked, cache>>

-----------------------------------------------------------------------------
(* Hygiene: a batch that fails for now is asked for again, in two halves   *)

Halves(ids) ==
    LET mid == Max({1, Len(ids) \div 2})
    IN  IF Len(ids) > 1 THEN <<SubSeq(ids, 1, mid), SubSeq(ids, mid + 1, Len(ids))>> ELSE <<ids>>

\* Still on its first request, the whole batch.
FirstTry(k) == k.outer = 1

HygieneForNow(how) == how \in {Gateway, "RESOURCE_LIMITS_EXCEEDED"}

\* Ask for the next half, or return what there is.
NextHalf(k) ==
    IF k.rest = << >> THEN Ended(k, "ok")
    ELSE [Sent(k, cache) EXCEPT !.ids = Head(k.rest), !.rest = Tail(k.rest), !.outer = 2,
                         !.requests = k.requests + 1]

\* Mutant: a half that fails again ends the batch.
HalfFailsForAll(k) == Ended([k EXCEPT !.lost = @ \cup Range(k.ids)], "ok")

\* A half that fails again is dropped, and nothing else.
HalfFails(k) == NextHalf([k EXCEPT !.lost = @ \cup Range(k.ids)])

\* Errors next to data leave null nodes, which are dropped without a word.
HasAllBut(k, null) ==
    NextHalf([k EXCEPT !.got = @ \cup (Range(k.ids) \ null), !.nulled = @ \cup null])

Hygiene(c) ==
    LET k == call[c]
        how == k.answer.how
    IN
    /\ Received(c) /\ k.kind = "hygiene"
    /\ \E null \in IF how = "partial" THEN SUBSET Range(k.ids) ELSE {{}} :
          call' = [call EXCEPT ![c] =
             CASE HygieneForNow(how) ->
                    IF FirstTry(k) THEN NextHalf([k EXCEPT !.rest = Halves(k.ids)]) ELSE HalfFails(k)
               [] how \in {"data", "partial"} -> HasAllBut(k, null)
               [] OTHER -> Ended(k, GraphqlError(how))]
    /\ UNCHANGED <<mix, runs, created, reruns, asked, cache>>

-----------------------------------------------------------------------------

Leave(c) ==
    /\ call[c].pc = "ended"
    /\ call' = [call EXCEPT ![c] = NoCall]
    /\ UNCHANGED <<mix, runs, created, reruns, asked, cache>>

RunCreated ==
    /\ runs < MaxRuns
    /\ created < MaxCreated /\ created' = created + 1
    /\ runs' = runs + 1
    /\ UNCHANGED <<mix, reruns, asked, cache, call>>

Step(c) ==
    \/ Answer(c) \/ Retry(c) \/ Once(c) \/ Get(c) \/ GetFails(c) \/ Graphql(c)
    \/ Hygiene(c) \/ Leave(c)

Next == RunCreated \/ \E c \in Callers : Begin(c) \/ Step(c)

\* GitHub answers, or the request times out; the event loop runs what is ready.
Spec == Init /\ [][Next]_vars /\ \A c \in Callers : WF_vars(Step(c))

-----------------------------------------------------------------------------
(* What must hold                                                          *)

\* However slowly answers arrive, and whatever concurrent calls store, evict or
\* overwrite meanwhile: no read returns what was out of date when it began.
FreshBody ==
    \A c \in Callers :
        \A i \in DOMAIN call[c].bodies : call[c].bodies[i].runs >= call[c].since

\* The retries of _graphql wrap those of _send, halves multiply a batch: what one
\* read can cost, and that what must be sent once is.
Budget(kind) ==
    CASE SentOnce(kind) -> 1
      [] kind \in RestKinds -> Attempts
      [] kind \in {"query", "repositories"} -> Attempts * Attempts
      [] OTHER -> 3 * Attempts

RequestBudget == \A c \in Callers : call[c].requests <= Budget(call[c].kind)

\* A dropped connection does not tell whether GitHub has started the rerun: it is
\* not asked again, so no click starts two.
RerunAtMostOnce == reruns <= asked

\* What _send and _graphql retry: a read sent through _send is not given up for a
\* dropped connection, nor, unless halves are asked for instead, for a 502, 503 or
\* 504, before every attempt was made; nor one sent through _graphql for errors
\* without a type.  Not every read is sent through one of them as README's "every
\* read" has it: fetch_viewer is sent once, and a hygiene batch is given up at its
\* first answer of errors without a type.
ReadsArePatient ==
    [][\A c \in Callers :
          LET k == call[c] IN
          k.pc = "answered" /\ call'[c].out = "unavailable" =>
             /\ ThroughSend(k.kind) /\ k.answer.how \in {"dropped", Gateway} => k.attempt = Attempts
             /\ k.kind \in {"query", "repositories"} /\ k.answer.how = "untyped error" =>
                   k.outer = Attempts]_vars

\* A batch that is returned has each of its repositories, or was told null for it,
\* or lost it with a half that failed again; it has lost none it was told of.
LossIsConfined ==
    \A c \in Callers :
        LET k == call[c] IN
        k.kind = "hygiene" /\ k.out = "ok" =>
            /\ k.got \cup k.nulled \cup k.lost = Range(Repos)
            /\ k.got \cap k.nulled = {} /\ (k.got \cup k.nulled) \cap k.lost = {}

\* While no run is created and no page fails, the month's usage counts each run
\* once, the newest if they are too many, and says so exactly then - whichever
\* pages came from the cache.
UsageIsExact ==
    \A c \in Callers :
        LET k == call[c] IN
        k.kind = "durations" /\ k.out = "ok" /\ k.since = runs /\ OptionalOrRaise(k.answer.how) = None
        => /\ Counted(k) = [i \in 1 .. Min({runs, PageSize * MaxPages}) |-> runs - i + 1]
           /\ Truncated(k) <=> runs > PageSize * MaxPages

\* Every call ends.
CallsEnd == \A c \in Callers : call[c].pc # "idle" ~> call[c].pc = "idle"
=============================================================================
