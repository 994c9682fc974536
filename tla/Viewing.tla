------------------------------ MODULE Viewing ------------------------------
(***************************************************************************)
(* What one account sees and has seen: its entry in the overview cache     *)
(* (MemoryOverviewCache, or the two keys of RedisOverviewCache), the       *)
(* snapshot MarkSeen takes of it, and the rerun that invalidates it.       *)
(* GetOverview is reduced to when a refresh runs, what it has read and     *)
(* when it stores it; module GetOverview has the rest.                     *)
(*                                                                         *)
(* An overview shows items: those of the repositories query, which comes   *)
(* first and without which there is no overview, and the failed runs, a    *)
(* later part that may be missing.  A rerun makes its run fail no more.    *)
(***************************************************************************)
EXTENDS Naturals, FiniteSets

CONSTANTS
    Browsers,    \* requests of the account, one at a time from each
    Slots,       \* bound: refreshes at the same time
    Listed,      \* items of the repositories query
    Runs,        \* workflow runs, items while they are failed
    Backends,    \* the caches: "memory", "redis"
    MaxEvents,   \* bound: what happens of itself: items come and go, time, outages
    None

ASSUME ViewingAssumption == Listed \cap Runs = {} /\ MaxEvents \in Nat

Items == Listed \cup Runs

\* missing: the runs could not be had.  Of an overview's history: old, its TTL is
\* over; steady, the items that were open as long as its refresh ran.
Overviews == [items : SUBSET Items, missing : BOOLEAN, steady : SUBSET Items, old : BOOLEAN]

\* None is neither an overview nor a refresh.
ASSUME NoneIsNothing ==
    /\ None \notin Overviews
    /\ None \notin [at : {"repositories", "runs", "store", "marker"}, overview : Overviews]

Tasks == {"load", "reload", "seen", "rerun"}
NoTask == [pc |-> "idle", task |-> "load", on |-> None, held |-> None, run |-> None]

VARIABLES
    backend,   \* which cache this deployment uses
    open,      \* GitHub: the items there are
    cache,     \* the cached overview, None if there is none
    fresh,     \* the marker beside it, or the entry's fresh_until
    refresh,   \* the refreshes under way, and what each has read
    joinable,  \* _refreshes: the one a new caller joins
    snapshot,  \* UserStateRepository: items last marked seen, None before
    browser,   \* every browser's request
    requeued,  \* runs whose rerun has ended and that have not failed since
    left       \* events that can still happen

viewing == <<backend, open, cache, fresh, refresh, joinable, snapshot, browser, requeued, left>>

ViewingInit ==
    /\ backend \in Backends
    /\ open = Items
    /\ cache = None /\ fresh = FALSE
    /\ refresh = [i \in Slots |-> None] /\ joinable = None
    /\ snapshot = None
    /\ browser = [b \in Browsers |-> NoTask]
    /\ requeued = {}
    /\ left = MaxEvents

-----------------------------------------------------------------------------
(* A request, up to the overview it is for                                 *)

Running == {i \in Slots : refresh[i] # None}
AtStep(b, pc) == browser[b].pc = pc
Occurs == left > 0 /\ left' = left - 1

\* /api/overview, or with refresh=1; POST /api/seen; a rerun.
Arrive(b) ==
    /\ AtStep(b, "idle")
    /\ \E task \in Tasks, run \in {None} \cup Runs :
          /\ task = "rerun" <=> run # None
          /\ run \in open \cup {None}
          /\ browser' = [browser EXCEPT ![b] = [NoTask EXCEPT
                            !.pc = IF task = "rerun" THEN "post" ELSE "ask",
                            !.task = task, !.run = run]]
    /\ UNCHANGED <<backend, open, cache, fresh, refresh, joinable, snapshot, requeued, left>>

\* An overview has come: MarkSeen takes its snapshot, everyone else is done.
Given(k, overview) ==
    IF k.task = "seen" THEN [k EXCEPT !.pc = "mark", !.held = overview, !.on = None] ELSE NoTask

\* Mutant: what the refresh has so far is as good.
JoinLatest(k, i) ==
    IF i \in Running /\ refresh[i].at # "repositories" THEN Given(k, refresh[i].overview)
    ELSE [k EXCEPT !.pc = "wait", !.on = i]

\* wait=True: the caller gets the complete overview.
Join(k, i) == [k EXCEPT !.pc = "wait", !.on = i]

\* Who neither joins a refresh nor waits for the cache starts one right away.
StartsAtOnce(b) ==
    /\ AtStep(b, "ask") /\ joinable = None
    /\ browser[b].task = "reload" \/ (backend = "memory" /\ ~ fresh)

\* Join the refresh under way, or look into the cache; Redis is asked for the
\* marker first.
Ask(b) ==
    LET k == browser[b] IN
    /\ AtStep(b, "ask") /\ ~ StartsAtOnce(b)
    /\ browser' = [browser EXCEPT ![b] =
          CASE joinable # None -> Join(k, joinable)
            [] joinable = None /\ backend = "memory" -> Given(k, cache)
            [] OTHER -> [k EXCEPT !.pc = IF fresh THEN "get" ELSE "start"]]
    /\ UNCHANGED <<backend, open, cache, fresh, refresh, joinable, snapshot, requeued, left>>

\* Redis: and then for the overview.
GetKey(b) ==
    /\ AtStep(b, "get")
    /\ browser' = [browser EXCEPT ![b] = IF cache = None THEN [@ EXCEPT !.pc = "start"]
                                         ELSE Given(@, cache)]
    /\ UNCHANGED <<backend, open, cache, fresh, refresh, joinable, snapshot, requeued, left>>

NothingRead == [items |-> {}, missing |-> FALSE, steady |-> open, old |-> FALSE]

\* A refresh of its own: also when another was started while Redis was asked.
Start(b) ==
    /\ AtStep(b, "start") \/ StartsAtOnce(b)
    /\ \E i \in Slots \ Running :
          /\ i = CHOOSE j \in Slots \ Running : TRUE
          /\ refresh' = [refresh EXCEPT ![i] = [at |-> "repositories", overview |-> NothingRead]]
          /\ joinable' = i
          /\ browser' = [browser EXCEPT ![b] = Join(@, i)]
    /\ UNCHANGED <<backend, open, cache, fresh, snapshot, requeued, left>>

-----------------------------------------------------------------------------
(* A refresh                                                               *)

With(overview, items) == [overview EXCEPT !.items = @ \cup items]

ReadRepositories(i) ==
    /\ i \in Running /\ refresh[i].at = "repositories"
    /\ refresh' = [refresh EXCEPT ![i].at = "runs", ![i].overview = With(@, open \cap Listed)]
    /\ UNCHANGED <<backend, open, cache, fresh, joinable, snapshot, browser, requeued, left>>

ReadRuns(i) ==
    /\ i \in Running /\ refresh[i].at = "runs"
    /\ \/ /\ refresh' = [refresh EXCEPT ![i].at = "store", ![i].overview = With(@, open \cap Runs)]
          /\ UNCHANGED left
       \/ Occurs /\ refresh' = [refresh EXCEPT ![i].at = "store", ![i].overview.missing = TRUE]
    /\ UNCHANGED <<backend, open, cache, fresh, joinable, snapshot, browser, requeued>>

\* The refresh is over; who waits for it is given overview, or nothing if None.
Over(i, overview) ==
    /\ refresh' = [refresh EXCEPT ![i] = None]
    /\ joinable' = IF joinable = i THEN None ELSE joinable
    /\ browser' = [b \in Browsers |->
          IF browser[b].on # i THEN browser[b]
          ELSE IF overview = None THEN NoTask ELSE Given(browser[b], overview)]

\* Mutant: the marker, then the overview.
MarkerFirst(i, at) ==
    /\ cache' = IF at = "store" THEN cache ELSE refresh[i].overview
    /\ fresh' = TRUE

\* What each half of RedisOverviewCache.set leaves.
KeyFirst(i, at) ==
    /\ cache' = IF at = "store" THEN refresh[i].overview ELSE cache
    /\ fresh' = IF at = "store" THEN fresh ELSE TRUE

Store(i) ==
    /\ i \in Running /\ refresh[i].at = "store"
    /\ IF backend = "memory"
       THEN /\ cache' = refresh[i].overview /\ fresh' = TRUE
            /\ Over(i, refresh[i].overview)
       ELSE /\ KeyFirst(i, "store")
            /\ refresh' = [refresh EXCEPT ![i].at = "marker"]
            /\ UNCHANGED <<joinable, browser>>
    /\ UNCHANGED <<backend, open, snapshot, requeued, left>>

StoreMarker(i) ==
    /\ i \in Running /\ refresh[i].at = "marker"
    /\ KeyFirst(i, "marker")
    /\ Over(i, refresh[i].overview)
    /\ UNCHANGED <<backend, open, snapshot, requeued, left>>

\* No repositories, no overview: the last complete one serves, if there is one.
Fails(i) ==
    /\ i \in Running /\ refresh[i].at = "repositories"
    /\ Occurs
    /\ Over(i, cache)
    /\ UNCHANGED <<backend, open, cache, fresh, snapshot, requeued>>

-----------------------------------------------------------------------------
(* MarkSeen, and the rerun                                                 *)

\* An item comes or goes; what has been read of it stays.
ItemChanges(item, now) ==
    /\ open' = now
    /\ refresh' = [i \in Slots |->
          IF i \in Running THEN [refresh[i] EXCEPT !.overview.steady = @ \ {item}] ELSE None]

SetSnapshot(b) ==
    LET overview == browser[b].held IN
    /\ AtStep(b, "mark")
    /\ snapshot' = overview.items
    /\ browser' = [browser EXCEPT ![b] = NoTask]
    /\ UNCHANGED <<backend, open, cache, fresh, refresh, joinable, requeued, left>>

Invalidate == cache' = None /\ fresh' = FALSE

\* GitHub starts the rerun.
Rerun(b) ==
    /\ AtStep(b, "post")
    /\ ItemChanges(browser[b].run, open \ {browser[b].run})
    /\ browser' = [browser EXCEPT ![b].pc = "invalidate"]
    /\ UNCHANGED <<backend, cache, fresh, joinable, snapshot, requeued, left>>

\* It is refused, or its answer is lost: nobody knows, and nothing is invalidated.
RerunFails(b) ==
    LET run == browser[b].run IN
    /\ AtStep(b, "post")
    /\ Occurs
    /\ ItemChanges(run, open \ {run}) \/ UNCHANGED <<open, refresh>>
    /\ browser' = [browser EXCEPT ![b] = NoTask]
    /\ UNCHANGED <<backend, cache, fresh, joinable, snapshot, requeued>>

RerunEnds(b) ==
    /\ AtStep(b, "invalidate")
    /\ Invalidate
    /\ requeued' = requeued \cup ({browser[b].run} \ open)
    /\ browser' = [browser EXCEPT ![b] = NoTask]
    /\ UNCHANGED <<backend, open, refresh, joinable, snapshot, left>>

-----------------------------------------------------------------------------
(* What happens of itself                                                  *)

ComesOrGoes ==
    /\ Occurs
    /\ \E i \in Items :
          /\ ItemChanges(i, IF i \in open THEN open \ {i} ELSE open \cup {i})
          /\ requeued' = requeued \ {i}
    /\ UNCHANGED <<backend, cache, fresh, joinable, snapshot, browser>>

\* The TTL, and then the retention of what is stale; both are longer than a call
\* to the cache takes.
TimeGoesBy ==
    /\ Occurs
    /\ \A b \in Browsers : ~ AtStep(b, "get")
    /\ \A i \in Running : refresh[i].at # "marker"
    /\ cache # None
    /\ fresh' = FALSE
    /\ cache' = IF cache.old THEN None ELSE [cache EXCEPT !.old = TRUE]
    /\ UNCHANGED <<backend, open, refresh, joinable, snapshot, browser, requeued>>

ViewingNext ==
    \/ \E b \in Browsers :
          \/ Arrive(b) \/ Ask(b) \/ GetKey(b) \/ Start(b) \/ SetSnapshot(b)
          \/ Rerun(b) \/ RerunFails(b) \/ RerunEnds(b)
    \/ \E i \in Slots : ReadRepositories(i) \/ ReadRuns(i) \/ Store(i) \/ StoreMarker(i) \/ Fails(i)
    \/ ComesOrGoes \/ TimeGoesBy

ViewingSpec == ViewingInit /\ [][ViewingNext]_viewing

-----------------------------------------------------------------------------
(* What must hold                                                          *)

\* However the two keys are written, read and deleted: what the cache serves as
\* fresh was stored no longer than its TTL ago.
HitIsFresh ==
    \A b \in Browsers : AtStep(b, "get") /\ cache # None => ~ cache.old

\* It lacks nothing that was there all along, but the runs if they could not be had.
Whole(overview) ==
    overview.steady \ (IF overview.missing THEN Runs ELSE {}) \subseteq overview.items

\* Whoever joins a refresh half way, or gets the last good overview after a failed
\* one: what MarkSeen records is whole.
MarkedIsWhole == \A b \in Browsers : AtStep(b, "mark") => Whole(browser[b].held)

\* RerunFailedJobs: "so the next GetOverview shows the run as queued instead of the
\* stale failure".  Violated: a refresh that read the run before the rerun stores it
\* after the rerun has invalidated the cache.
RerunIsShown == \A run \in requeued : cache # None => run \notin cache.items
=============================================================================
