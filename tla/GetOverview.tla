---------------------------- MODULE GetOverview ----------------------------
(***************************************************************************)
(* The use case behind every view of the dashboard: app/application/       *)
(* use_cases.py, class GetOverview, as the HTTP routes, the event stream   *)
(* and the background warm-up call it.                                     *)
(*                                                                         *)
(* One process, one event loop.  A refresh of a user's overview runs as a  *)
(* task of its own; requests (callers) join it, wait for it, poll it or    *)
(* subscribe to it.  An action is what the event loop runs between two     *)
(* points at which a coroutine really gives up control: the in-process     *)
(* cache never does (CacheYields = FALSE), Redis does on every operation   *)
(* (CacheYields = TRUE).                                                   *)
(*                                                                         *)
(* Time appears only as what it changes: a cached overview stops being     *)
(* fresh, is dropped, and the cooldown after a failed refresh ends, each   *)
(* at any moment.                                                          *)
(***************************************************************************)
EXTENDS Naturals

CONSTANTS
    Users,        \* GitHub accounts: what the cache and the registries are keyed by
    Sessions,     \* ids of browser sessions; an id is reused once nothing refers to it
    UserOf,       \* the account a session belongs to
    Callers,      \* requests the process can be serving at the same time
    Refreshes,    \* _Refresh objects that can exist at the same time
    CacheYields,  \* does a cache operation suspend its caller: Redis yes, in-process no
    Requests,     \* bound: the kinds of calls that are made, as <<mode, force>>
    MaxPublishes, \* bound: partial overviews one refresh publishes
    None

ASSUME UserOfAssumption == UserOf \in [Sessions -> Users]
ASSUME CacheYieldsAssumption == CacheYields \in BOOLEAN
ASSUME MaxPublishesAssumption == MaxPublishes \in Nat \ {0}
ASSUME NoneAssumption == None \notin Users \cup Sessions \cup Callers \cup Refreshes

-----------------------------------------------------------------------------
(* Data *)

\* The errors a refresh can end with: an outage (RateLimited, GitHubUnavailable:
\* treated alike here), a refused token, or anything else that breaks.
ApplicationErrors == {"Outage", "AuthenticationError"}
Errors == ApplicationErrors \cup {"Bug"}

ASSUME NoErrorAssumption == None \notin Errors

\* An overview: whose it is, and whether every section has landed
\* (Overview.pending is empty).  A placeholder is an overview that has nothing.
Overviews == [owner : Users, complete : BOOLEAN]
Complete(u) == [owner |-> u, complete |-> TRUE]
Partial(u) == [owner |-> u, complete |-> FALSE]

ASSUME NoOverviewAssumption == None \notin Overviews

\* A cache entry: get sees it while it is fresh, get_stale until it is dropped.
Entries == [overview : Overviews, fresh : BOOLEAN]

\* _Refresh and its task.  Phases: the task runs; GitHub refused the token and
\* the session is deleted ("unauthorized"), the cache invalidated; the overview
\* is stored; the task is done, its callback _finish still queued; finished.
Phases == {"unused", "running", "unauthorized", "invalidated", "stored", "done", "finished"}
Tasks == [phase : Phases, session : Sessions \cup {None}, latest : Overviews \cup {None},
          version : Nat, changed : BOOLEAN, outcome : Errors \cup {"ok", None}]
NoTask == [phase |-> "unused", session |-> None, latest |-> None,
           version |-> 0, changed |-> FALSE, outcome |-> None]
NewTask(s) == [NoTask EXCEPT !.phase = "running", !.session = s]

Done(t) == t.phase \in {"done", "finished"}

\* How a caller asks: "wait" is __call__, "poll" is wait=False, "warm" is the
\* background refresh (stale_fallback=False), "stream" is GetOverview.stream.
Modes == {"wait", "poll", "warm", "stream"}
Locations == {"idle", "resolved", "lookup", "decide", "get_stale", "waiting",
              "woken", "yielded", "listening", "answered"}

\* The background refresh always forces.
AllRequests == (Modes \X BOOLEAN) \ {<<"warm", FALSE>>}

ASSUME RequestsAssumption == Requests \subseteq AllRequests

\* A call: where it is, its arguments, its local variables refresh, seen,
\* cached and error, and the last thing it gave its client: an overview (with
\* the reason it is stale, if it is) or the error it raised.
Answers == [overview : Overviews \cup {None}, stale : Errors \cup {None},
            error : Errors \cup {None}]
Nothing == [overview |-> None, stale |-> None, error |-> None]
Calls == [pc : Locations, session : Sessions \cup {None}, mode : Modes, force : BOOLEAN,
          refresh : Refreshes \cup {None}, seen : Nat, cached : Overviews \cup {None},
          error : Errors \cup {None}, out : Answers]
NoCall == [pc |-> "idle", session |-> None, mode |-> "wait", force |-> FALSE,
           refresh |-> None, seen |-> 0, cached |-> None, error |-> None, out |-> Nothing]

VARIABLES
    sessions,   \* the session store: a session is there (live) or not
    revoked,    \* sessions whose tokens GitHub no longer accepts
    cache,      \* OverviewCache: user -> entry
    refreshes,  \* GetOverview._refreshes: user -> the refresh in flight
    failures,   \* GetOverview._failures: user -> the last failure, until its cooldown is over
    task,       \* every _Refresh object and its asyncio task
    call        \* every caller

vars == <<sessions, revoked, cache, refreshes, failures, task, call>>

Init ==
    /\ sessions = [s \in Sessions |-> "none"]
    /\ revoked = {}
    /\ cache = [u \in Users |-> None]
    /\ refreshes = [u \in Users |-> None]
    /\ failures = [u \in Users |-> None]
    /\ task = [r \in Refreshes |-> NoTask]
    /\ call = [c \in Callers |-> NoCall]

TypeOK ==
    /\ sessions \in [Sessions -> {"none", "live"}]
    /\ revoked \in SUBSET Sessions
    /\ cache \in [Users -> Entries \cup {None}]
    /\ refreshes \in [Users -> Refreshes \cup {None}]
    /\ failures \in [Users -> ApplicationErrors \cup {None}]
    /\ task \in [Refreshes -> Tasks]
    /\ call \in [Callers -> Calls]

-----------------------------------------------------------------------------
(* What a coroutine does from the moment it runs until it next gives up       *)
(* control: the call record it leaves behind, given its own record k, the     *)
(* task t it has joined and the cache entry e of its user.                    *)

\* The call is over: what it gave stays, its local variables are gone.
Answer(k, out) ==
    [pc |-> "answered", session |-> k.session, mode |-> k.mode, force |-> FALSE,
     refresh |-> None, seen |-> 0, cached |-> None, error |-> None, out |-> out]

Given(overview, stale) == [overview |-> overview, stale |-> stale, error |-> None]

Serve(k, overview, stale) == Answer(k, Given(overview, stale))

Raise(k, error) == Answer(k, [overview |-> None, stale |-> None, error |-> error])

\* The last complete overview, marked stale, or the error when there is none.
StaleEntry(k, error, e) ==
    IF e = None THEN Raise(k, error)
                ELSE Serve(k, Complete(e.overview.owner), error)

\* _stale_or_raise: only an outage is papered over.
StaleOrRaise(k, error, e) ==
    CASE error # "Outage"                  -> Raise(k, error)
      [] error = "Outage" /\ CacheYields   -> [k EXCEPT !.pc = "get_stale", !.error = error]
      [] error = "Outage" /\ ~CacheYields  -> StaleEntry(k, error, e)

CompletedExcusing(k, t, e) ==
    CASE t.outcome = "ok"     -> Serve(k, t.latest, None)
      [] k.mode = "warm"      -> Raise(k, t.outcome)
      [] OTHER                -> StaleEntry(k, t.outcome, e)

\* _complete, once the shielded task is done.
Completed(k, t, e) ==
    CASE t.outcome = "ok"                              -> Serve(k, t.latest, None)
      [] t.outcome = "Outage" /\ k.mode # "warm"      -> StaleOrRaise(k, t.outcome, e)
      [] OTHER                                       -> Raise(k, t.outcome)

\* stream, after its loop: a failed refresh ends it with the stale overview or
\* an error; a complete one ends it with what was yielded last.
StreamEnd(k, t, e) ==
    CASE t.outcome = "ok"                  -> Answer(k, k.out)
      [] t.outcome = "Bug"                 -> Raise(k, "Outage")
      [] t.outcome \in ApplicationErrors   -> StaleOrRaise(k, t.outcome, e)

StreamWaitAlways(k, t, e) == [k EXCEPT !.pc = IF t.changed THEN "woken" ELSE "listening"]

\* stream, the second half of its loop: leave it, or wait for `changed`.
StreamWait(k, t, e) ==
    CASE Done(t)                  -> StreamEnd(k, t, e)
      [] ~Done(t) /\ t.changed    -> [k EXCEPT !.pc = "woken"]
      [] ~Done(t) /\ ~t.changed   -> [k EXCEPT !.pc = "listening"]

\* stream, the top of its loop: yield what the subscriber has not seen.
StreamLoop(k, t, e) ==
    IF t.version > k.seen /\ t.latest # None
    THEN [k EXCEPT !.pc = "yielded", !.seen = t.version,
                   !.out = Given(t.latest, None)]
    ELSE StreamWait(k, t, e)

\* What a caller does with the refresh r it found or started (force is not
\* read again).
Join(k, r, t, e) ==
    LET j == [k EXCEPT !.refresh = r, !.force = FALSE, !.cached = None]
    IN CASE k.mode = "stream"  -> StreamLoop(j, t, e)
         [] k.mode = "poll"    -> Serve(j, IF t.latest # None THEN t.latest
                                           ELSE Partial(UserOf[k.session]), None)
         [] k.mode \in {"wait", "warm"} ->
                IF Done(t) THEN Completed(j, t, e) ELSE [j EXCEPT !.pc = "waiting"]

-----------------------------------------------------------------------------
(* Callers *)

UserOfCall(c) == UserOf[call[c].session]

\* The refresh in flight for the caller's account.
InFlightUnlessForced(c) == IF call[c].force THEN None ELSE refreshes[UserOfCall(c)]
InFlightOfAnyone(c) == LET all == {refreshes[u] : u \in Users} \ {None}
                       IN IF all = {} THEN None ELSE CHOOSE r \in all : TRUE
InFlight(c) == refreshes[UserOfCall(c)]

\* The route's SessionDep: ResolveSession finds the session in the store.
Resolve(c, s, mode, force) ==
    /\ call[c].pc = "idle"
    /\ sessions[s] = "live"
    /\ call' = [call EXCEPT ![c] = [NoCall EXCEPT !.pc = "resolved", !.session = s,
                                                  !.mode = mode, !.force = force]]
    /\ UNCHANGED <<sessions, revoked, cache, refreshes, failures, task>>

\* Objects nothing refers to: never used, or finished and let go by everyone.
Free == {r \in Refreshes : /\ task[r].phase \in {"unused", "finished"}
                           /\ \A c \in Callers : call[c].refresh # r}

\* _start: the registry entry is overwritten, whatever it held.
StartAndJoin(c) ==
    LET s == call[c].session
        u == UserOf[s]
    IN \E r \in Free :
        /\ task' = [task EXCEPT ![r] = NewTask(s)]
        /\ refreshes' = [refreshes EXCEPT ![u] = r]
        /\ call' = [call EXCEPT ![c] = Join(call[c], r, NewTask(s), cache[u])]
        /\ UNCHANGED <<sessions, revoked, cache, failures>>

Cooling(u) == failures[u] # None

Fresh(u) == IF cache[u] # None /\ cache[u].fresh THEN cache[u].overview ELSE None

\* From the answer of cache.get on: the cached overview, the outcome of the
\* refresh that just failed, or a new refresh.
Decide(c, cached) ==
    LET u == UserOfCall(c)
    IN \/ /\ cached # None
          /\ call' = [call EXCEPT ![c] = Serve(@, cached, None)]
          /\ UNCHANGED <<sessions, revoked, cache, refreshes, failures, task>>
       \/ /\ cached = None
          /\ Cooling(u)
          /\ call' = [call EXCEPT ![c] =
                IF @.mode = "warm" THEN Raise(@, failures[u])
                                   ELSE StaleOrRaise(@, failures[u], cache[u])]
          /\ UNCHANGED <<sessions, revoked, cache, refreshes, failures, task>>
       \/ /\ cached = None
          /\ ~Cooling(u)
          /\ StartAndJoin(c)

\* The first step of __call__ and of stream: look for a refresh in flight; join
\* it, or start one when forced to, or ask the cache.
Enter(c) ==
    LET u == UserOfCall(c)
        r == InFlight(c)
    IN /\ call[c].pc = "resolved"
       /\ \/ /\ r # None
             /\ call' = [call EXCEPT ![c] = Join(@, r, task[r], cache[u])]
             /\ UNCHANGED <<sessions, revoked, cache, refreshes, failures, task>>
          \/ r = None /\ call[c].force /\ StartAndJoin(c)
          \/ r = None /\ ~call[c].force /\ ~CacheYields /\ Decide(c, Fresh(u))
          \/ /\ r = None
             /\ ~call[c].force
             /\ CacheYields
             /\ call' = [call EXCEPT ![c].pc = "lookup"]
             /\ UNCHANGED <<sessions, revoked, cache, refreshes, failures, task>>

\* A suspending cache.get: the store answers, then the caller runs on.
Lookup(c) ==
    /\ call[c].pc = "lookup"
    /\ call' = [call EXCEPT ![c].pc = "decide", ![c].cached = Fresh(UserOfCall(c))]
    /\ UNCHANGED <<sessions, revoked, cache, refreshes, failures, task>>

Resume(c) == call[c].pc = "decide" /\ Decide(c, call[c].cached)

\* A suspending cache.get_stale.
GetStale(c) ==
    /\ call[c].pc = "get_stale"
    /\ call' = [call EXCEPT ![c] = StaleEntry(@, @.error, cache[UserOfCall(c)])]
    /\ UNCHANGED <<sessions, revoked, cache, refreshes, failures, task>>

\* A waiter's future is resolved by the callback that was registered after
\* _finish, so it never runs on before _finish has.
Wait(c) ==
    LET r == call[c].refresh
    IN /\ call[c].pc = "waiting"
       /\ task[r].phase = "finished"
       /\ call' = [call EXCEPT ![c] = Completed(@, task[r], cache[UserOfCall(c)])]
       /\ UNCHANGED <<sessions, revoked, cache, refreshes, failures, task>>

\* A subscriber whose event was set runs on from the top of its loop.
Woken(c) ==
    /\ call[c].pc = "woken"
    /\ call' = [call EXCEPT ![c] = StreamLoop(@, task[@.refresh], cache[UserOfCall(c)])]
    /\ UNCHANGED <<sessions, revoked, cache, refreshes, failures, task>>

\* The consumer has taken what was yielded and asks for more: the generator
\* goes on behind its yield.
Yielded(c) ==
    /\ call[c].pc = "yielded"
    /\ call' = [call EXCEPT ![c] = StreamWait(@, task[@.refresh], cache[UserOfCall(c)])]
    /\ UNCHANGED <<sessions, revoked, cache, refreshes, failures, task>>

\* The answer is delivered; or, with the call still open, the client is gone:
\* the task it joined is shielded and runs on.
Leave(c) ==
    /\ call[c].pc = "answered"
    /\ call' = [call EXCEPT ![c] = NoCall]
    /\ UNCHANGED <<sessions, revoked, cache, refreshes, failures, task>>

Disconnect(c) ==
    /\ call[c].pc \in {"waiting", "woken", "yielded", "listening"}
    /\ call' = [call EXCEPT ![c] = NoCall]
    /\ UNCHANGED <<sessions, revoked, cache, refreshes, failures, task>>

-----------------------------------------------------------------------------
(* Refreshes *)

UserOfTask(r) == UserOf[task[r].session]

WakeOnPublish(r) == IF task[r].phase = "done" THEN call
                    ELSE [c \in Callers |-> IF call[c].pc = "listening" /\ call[c].refresh = r
                                            THEN [call[c] EXCEPT !.pc = "woken"] ELSE call[c]]

\* changed.set(): everyone waiting right now will run on.
Wake(r) == [c \in Callers |-> IF call[c].pc = "listening" /\ call[c].refresh = r
                              THEN [call[c] EXCEPT !.pc = "woken"] ELSE call[c]]

\* publish: changed is cleared right after it was set.
Published(t, overview) ==
    [t EXCEPT !.latest = overview, !.version = @ + 1, !.changed = FALSE]

\* _load publishes what has landed so far.
Publish(r) ==
    /\ task[r].phase = "running"
    /\ task[r].version < MaxPublishes
    /\ task' = [task EXCEPT ![r] = Published(@, Partial(UserOfTask(r)))]
    /\ call' = Wake(r)
    /\ UNCHANGED <<sessions, revoked, cache, refreshes, failures>>

FailUnregistered(r, error) ==
    /\ task[r].phase = "running"
    /\ error = "Outage" => task[r].version = 0
    /\ task' = [task EXCEPT ![r].phase = "done", ![r].outcome = error]
    /\ refreshes' = [refreshes EXCEPT ![UserOfTask(r)] = None]
    /\ UNCHANGED <<sessions, revoked, cache, failures, call>>

\* The repositories query fails, or anything breaks at any time.  Once the
\* repositories are in, an outage only degrades a section.
Fail(r, error) ==
    /\ task[r].phase = "running"
    /\ error = "Outage" => task[r].version = 0
    /\ task' = [task EXCEPT ![r].phase = "done", ![r].outcome = error]
    /\ UNCHANGED <<sessions, revoked, cache, refreshes, failures, call>>

\* AuthenticationError: GitHub refuses the token, or EnsureFreshToken raises -
\* no refresh token is left, or its exchange is refused, be it for good, because
\* another holder of the session was faster, or because the answer was a denial
\* of another kind (module Sessions has these cases apart).  The session the
\* refresh was started for is deleted, then the cache invalidated, then the error
\* goes on.
Unauthorized(r) ==
    /\ task[r].phase = "running"
    /\ sessions' = [sessions EXCEPT ![task[r].session] = "none"]
    /\ task' = [task EXCEPT ![r].phase = "unauthorized"]
    /\ UNCHANGED <<revoked, cache, refreshes, failures, call>>

Refused(t) == [t EXCEPT !.phase = "done", !.outcome = "AuthenticationError"]

KeepCache(r) ==
    /\ task[r].phase = "unauthorized"
    /\ task' = [task EXCEPT ![r] = IF CacheYields THEN [@ EXCEPT !.phase = "invalidated"]
                                                  ELSE Refused(@)]
    /\ UNCHANGED <<sessions, revoked, cache, refreshes, failures, call>>

Invalidate(r) ==
    /\ task[r].phase = "unauthorized"
    /\ cache' = [cache EXCEPT ![UserOfTask(r)] = None]
    /\ task' = [task EXCEPT ![r] = IF CacheYields THEN [@ EXCEPT !.phase = "invalidated"]
                                                  ELSE Refused(@)]
    /\ UNCHANGED <<sessions, revoked, refreshes, failures, call>>

RaiseRefused(r) ==
    /\ task[r].phase = "invalidated"
    /\ task' = [task EXCEPT ![r] = Refused(@)]
    /\ UNCHANGED <<sessions, revoked, cache, refreshes, failures, call>>

\* What _load returns in the end.
Result(r) == Complete(UserOfTask(r))

\* The complete overview goes into the cache, is published, and is the result.
Returned(t, overview) ==
    [Published(t, overview) EXCEPT !.phase = "done", !.outcome = "ok"]

Store(r) ==
    /\ task[r].phase = "running"
    /\ task[r].version > 0
    /\ cache' = [cache EXCEPT ![UserOfTask(r)] = [overview |-> Result(r), fresh |-> TRUE]]
    /\ IF CacheYields
       THEN /\ task' = [task EXCEPT ![r].phase = "stored"]
            /\ UNCHANGED call
       ELSE /\ task' = [task EXCEPT ![r] = Returned(@, Result(r))]
            /\ call' = Wake(r)
    /\ UNCHANGED <<sessions, revoked, refreshes, failures>>

Return(r) ==
    /\ task[r].phase = "stored"
    /\ task' = [task EXCEPT ![r] = Returned(@, Result(r))]
    /\ call' = Wake(r)
    /\ UNCHANGED <<sessions, revoked, cache, refreshes, failures>>

KeepRegistered(u, r) == refreshes

\* del self._refreshes[user_id], if it still holds this refresh.
Unregistered(u, r) == [refreshes EXCEPT ![u] = IF @ = r THEN None ELSE @]

RememberedAnything(u, outcome) ==
    [failures EXCEPT ![u] = IF outcome = "ok" THEN None ELSE outcome]

\* A success clears the last failure, an ApplicationError replaces it.
Remembered(u, outcome) ==
    [failures EXCEPT ![u] = CASE outcome = "ok"                  -> None
                              [] outcome = "Bug"                 -> @
                              [] outcome \in ApplicationErrors   -> outcome]

\* _finish, the done callback: unregister, leave the event set, remember or
\* forget the failure.
Finish(r) ==
    /\ task[r].phase = "done"
    /\ refreshes' = Unregistered(UserOfTask(r), r)
    /\ task' = [task EXCEPT ![r].phase = "finished", ![r].changed = TRUE]
    /\ call' = Wake(r)
    /\ failures' = Remembered(UserOfTask(r), task[r].outcome)
    /\ UNCHANGED <<sessions, revoked, cache>>

\* asyncio.gather does not cancel the siblings of the part that failed: once
\* the repositories are in they go on, and go on publishing.
PublishOrphan(r) ==
    /\ \/ task[r].phase \in {"unauthorized", "invalidated"}
       \/ task[r].phase \in {"done", "finished"} /\ task[r].outcome \in {"AuthenticationError", "Bug"}
    /\ task[r].version \in 1..(MaxPublishes - 1)
    /\ task' = [task EXCEPT ![r] = Published(@, Partial(UserOfTask(r)))]
    /\ call' = Wake(r)
    /\ UNCHANGED <<sessions, revoked, cache, refreshes, failures>>

-----------------------------------------------------------------------------
(* Sessions, GitHub and time *)

Forgotten(s) ==
    /\ \A c \in Callers : call[c].session # s
    /\ \A r \in Refreshes \ Free : task[r].session # s

\* CompleteLogin: a session with an id and a token of its own.
Login(s) ==
    /\ sessions[s] = "none"
    /\ Forgotten(s)
    /\ sessions' = [sessions EXCEPT ![s] = "live"]
    /\ revoked' = revoked \ {s}
    /\ UNCHANGED <<cache, refreshes, failures, task, call>>

\* Logout: delete the session and invalidate the cache (in between only
\* requests resolved before are at work, as they are before the deletion).  The
\* revocation of the token that follows is best effort: Revoke, soon or never.
Logout(s) ==
    /\ sessions[s] = "live"
    /\ sessions' = [sessions EXCEPT ![s] = "none"]
    /\ cache' = [cache EXCEPT ![UserOf[s]] = None]
    /\ UNCHANGED <<revoked, refreshes, failures, task, call>>

\* The session's lifetime is over: Redis drops the key, SQLite stops finding the
\* row and purges it.
Lapse(s) ==
    /\ sessions[s] = "live"
    /\ sessions' = [sessions EXCEPT ![s] = "none"]
    /\ UNCHANGED <<revoked, cache, refreshes, failures, task, call>>

\* GitHub: the token is revoked at logout, expires for good, or the user
\* withdraws the authorization.
Revoke(s) ==
    /\ s \notin revoked
    /\ sessions[s] # "none" \/ ~Forgotten(s)
    /\ revoked' = revoked \cup {s}
    /\ UNCHANGED <<sessions, cache, refreshes, failures, task, call>>

Expire(u) ==
    /\ cache[u] # None
    /\ cache' = [cache EXCEPT ![u] = IF @.fresh THEN [@ EXCEPT !.fresh = FALSE] ELSE None]
    /\ UNCHANGED <<sessions, revoked, refreshes, failures, task, call>>

CoolDown(u) ==
    /\ Cooling(u)
    /\ failures' = [failures EXCEPT ![u] = None]
    /\ UNCHANGED <<sessions, revoked, cache, refreshes, task, call>>

-----------------------------------------------------------------------------

CallerStep(c) ==
    \/ Enter(c) \/ Lookup(c) \/ Resume(c) \/ GetStale(c)
    \/ Wait(c) \/ Woken(c) \/ Yielded(c) \/ Leave(c)

TaskStep(r) ==
    \/ Publish(r) \/ \E error \in {"Outage", "Bug"} : Fail(r, error)
    \/ Unauthorized(r) \/ Invalidate(r) \/ RaiseRefused(r)
    \/ Store(r) \/ Return(r) \/ Finish(r)

Next ==
    \/ \E c \in Callers :
        \/ \E s \in Sessions, req \in Requests : Resolve(c, s, req[1], req[2])
        \/ CallerStep(c)
        \/ Disconnect(c)
    \/ \E r \in Refreshes : TaskStep(r) \/ PublishOrphan(r)
    \/ \E s \in Sessions :
          Login(s) \/ Logout(s) \/ Lapse(s) \/ Revoke(s)
    \/ \E u \in Users : Expire(u) \/ CoolDown(u)

\* The event loop runs whatever is ready, and every request to GitHub and to a
\* store ends (the HTTP client has a timeout): callers and tasks go on.  Nobody
\* has to log in, to call, to leave or to wait.
Fairness ==
    /\ \A c \in Callers : WF_vars(CallerStep(c))
    /\ \A r \in Refreshes : WF_vars(TaskStep(r))

Spec == Init /\ [][Next]_vars
FairSpec == Spec /\ Fairness

-----------------------------------------------------------------------------
(* Properties *)

Alive(r) == task[r].phase \notin {"unused", "finished"}
Runs(r) == Alive(r) /\ task[r].phase # "done"

\* At most one refresh task runs per user ("one background task per user and
\* process"), however calls, forced or not, interleave with its end.
SingleFlight ==
    \A r1, r2 \in Refreshes :
        Runs(r1) /\ Runs(r2) /\ UserOfTask(r1) = UserOfTask(r2) => r1 = r2

\* A registered refresh is one of that user's, and its callback is still to
\* run: nobody can join a refresh that is over for good.
RegisteredIsAlive ==
    \A u \in Users : refreshes[u] # None =>
        Alive(refreshes[u]) /\ UserOfTask(refreshes[u]) = u

\* A caller is only ever given overviews of its own account, and one that waits
\* only complete ones.
AnswersOwn ==
    \A c \in Callers : call[c].out.overview # None =>
        /\ call[c].out.overview.owner = UserOfCall(c)
        /\ call[c].mode \in {"wait", "warm"} => call[c].out.overview.complete

\* A subscriber that waits for the event can still be woken: the refresh it
\* listens to has its callback before it.
NoLostWakeup ==
    \A c \in Callers : call[c].pc = "listening" => Alive(call[c].refresh)

\* After GitHub refused a user's token, no cached data of that user is left to
\* be served, until a later refresh has succeeded.
RefusedTokenLeavesNothing ==
    \A u \in Users :
        failures[u] = "AuthenticationError" =>
            \/ cache[u] = None
            \/ \E r \in Refreshes : task[r].phase = "done" /\ task[r].outcome = "ok" /\ UserOfTask(r) = u

\* A call that does not force never starts a refresh while the user's last one
\* has failed and the cooldown is not over - be the failure recorded already or
\* still to be recorded by _finish.
Starts(r) == ~Alive(r) /\ task'[r].phase = "running"
JustFailed(u) ==
    \/ failures[u] # None
    \/ \E r \in Refreshes : /\ task[r].phase = "done"
                            /\ task[r].outcome \in ApplicationErrors
                            /\ UserOfTask(r) = u
CooldownRespected ==
    [][\A c \in Callers, r \in Refreshes :
          Starts(r) /\ call'[c] # call[c] /\ ~call[c].force => ~JustFailed(UserOfCall(c))]_vars

\* The registry forgets a refresh only once it is done: the callback of a refresh
\* that was overwritten - two callers started one each, the registry names the
\* second - leaves the entry of its replacement alone.
OwnCallbackUnregisters ==
    [][\A u \in Users :
          refreshes[u] # None /\ refreshes'[u] = None => Done(task[refreshes[u]])]_vars

\* Whoever is told the end of a refresh that failed is told that it failed,
\* however much of it was shown on the way and whichever of its leftovers still
\* publish: of an outage by the error or by a complete overview that says why it
\* is stale, of anything else by an error and never by old data - and the
\* background refresh, which drops sessions by it, always by the error.
EndedBy(c) == CASE call[c].pc = "resolved"                         -> refreshes[UserOfCall(c)]
                [] call[c].pc \in {"waiting", "woken", "yielded"}  -> call[c].refresh
                [] OTHER                                           -> None
HonestlyStale(k) == k.out.stale # None =>
    k.out.stale = "Outage" /\ k.out.overview.complete /\ k.mode # "warm"
TellsOfFailure(t, out) ==
    \/ t.outcome = "Outage" /\ out.stale # None
    \/ out.error # None /\ (out.error = "AuthenticationError" <=> t.outcome = "AuthenticationError")
FailureIsTold ==
    [][\A c \in Callers : call[c].pc # "answered" /\ call'[c].pc = "answered" =>
          /\ HonestlyStale(call'[c])
          /\ \A r \in Refreshes :
                EndedBy(c) = r /\ call[c].mode # "poll" /\ Done(task[r]) /\ task[r].outcome # "ok" =>
                    TellsOfFailure(task[r], call'[c].out)]_vars

\* Every call ends: whatever the refresh does, whoever leaves, however often
\* the event is set and cleared.
EveryCallEnds ==
    \A c \in Callers : call[c].pc # "idle" ~> call[c].pc = "idle"

-----------------------------------------------------------------------------
(* What docstrings say, and the code does not do *)

\* GetOverview.stream: "every state the refresh publishes, the moment it is
\* published, ending with the complete overview".
StreamEndsComplete ==
    \A c \in Callers :
        call[c].pc = "answered" /\ call[c].mode = "stream" /\ call[c].out.error = None =>
            call[c].out.overview # None /\ call[c].out.overview.complete

\* errors.py, AuthenticationError: "The GitHub token is missing, expired or was
\* revoked" - the token of the session whose call is answered so: it is revoked,
\* or the session is gone.
AuthenticationErrorIsOwn ==
    \A c \in Callers : call[c].out.error = "AuthenticationError" =>
        call[c].session \in revoked \/ sessions[call[c].session] = "none"

=============================================================================
