--------------------------- MODULE ViewingProofs ---------------------------
(***************************************************************************)
(* What an account is shown is fresh, and what it marks as seen is whole:  *)
(* for any browsers, refreshes at the same time, items and events, on both *)
(* caches.                                                                 *)
(*                                                                         *)
(* The marker vouches for the overview beside it (FreshInv), though one    *)
(* refresh may write it beside another's overview.  A refresh that has     *)
(* read a part covers the items of it that were open since it began        *)
(* (ReadSoFar), so that one that is stored, or given to whoever joined it, *)
(* is whole (WholeInv).                                                    *)
(***************************************************************************)
EXTENDS Viewing, TLAPS

Refreshes == [at : {"repositories", "runs", "store", "marker"}, overview : Overviews]
Steps == {"idle", "ask", "wait", "get", "start", "mark", "post", "invalidate"}
Requests == [pc : Steps, task : Tasks, on : {None} \cup Slots, held : {None} \cup Overviews,
             run : {None} \cup Runs]

ViewingTypeOK ==
    /\ backend \in Backends /\ open \in SUBSET Items
    /\ cache \in {None} \cup Overviews /\ fresh \in BOOLEAN
    /\ refresh \in [Slots -> {None} \cup Refreshes] /\ joinable \in {None} \cup Slots
    /\ snapshot \in {None} \cup SUBSET Items
    /\ browser \in [Browsers -> Requests]
    /\ requeued \in SUBSET Runs
    /\ \A b \in Browsers :
          /\ AtStep(b, "mark") => browser[b].held # None
          /\ AtStep(b, "post") \/ AtStep(b, "invalidate") => browser[b].run \in Runs

-----------------------------------------------------------------------------
(* Fresh: the marker never vouches for an overview that is old             *)

Recent == cache # None => ~ cache.old

FreshInv ==
    /\ fresh => Recent
    /\ \A b \in Browsers : AtStep(b, "get") => Recent
    /\ \A i \in Running : /\ ~ refresh[i].overview.old
                          /\ refresh[i].at = "marker" => Recent /\ backend # "memory"
    /\ backend = "memory" /\ fresh => cache # None

-----------------------------------------------------------------------------
(* Whole: what was there all along is shown                                *)

\* What a refresh has read of the items that were open since it began.
ReadSoFar(r) ==
    /\ r.at # "repositories" => r.overview.steady \cap Listed \subseteq r.overview.items
    /\ r.at \in {"store", "marker"} => Whole(r.overview)

Marking(b) == AtStep(b, "mark")

WholeInv ==
    /\ cache # None => Whole(cache)
    /\ \A i \in Running : refresh[i].overview.steady \subseteq open /\ ReadSoFar(refresh[i])
    /\ \A b \in Browsers : Marking(b) => Whole(browser[b].held)

IInv == ViewingTypeOK /\ FreshInv /\ WholeInv

-----------------------------------------------------------------------------
(* Overviews and requests                                                  *)

\* The types, one state variable at a time.
LEMMA Typed ==
    ASSUME ViewingTypeOK
    PROVE  /\ \A b \in Browsers : /\ browser[b] \in Requests
                                  /\ Marking(b) => browser[b].held \in Overviews /\ browser[b].held # None
           /\ \A i \in Running : i \in Slots /\ refresh[i] \in Refreshes /\ refresh[i].overview \in Overviews
                                 /\ refresh[i] # None /\ refresh[i].overview # None
           /\ cache # None => cache \in Overviews
BY NoneIsNothing DEF ViewingTypeOK, Running, Refreshes, Requests, Marking

\* A browser that asks for nothing.
LEMMA NothingIs == NoTask \in Requests /\ NoTask.pc = "idle"
BY DEF NoTask, Requests, Steps, Tasks

\* Only MarkSeen keeps the overview it is given.
LEMMA GivenIs ==
    ASSUME NEW k \in Requests, NEW overview \in Overviews
    PROVE  /\ Given(k, overview) \in Requests
           /\ Given(k, overview).pc \in {"mark", "idle"}
           /\ Given(k, overview).pc = "mark" => Given(k, overview).held = overview
BY NothingIs DEF Given, Requests, Steps

\* Who joins a refresh waits.
LEMMA JoinIs ==
    ASSUME NEW k \in Requests, NEW i \in Slots
    PROVE  Join(k, i) \in Requests /\ Join(k, i).pc = "wait"
BY DEF Join, Requests, Steps

\* An overview with more items.
LEMMA WithIs ==
    ASSUME NEW overview \in Overviews, NEW items \in SUBSET Items
    PROVE  LET o == With(overview, items) IN
           /\ o \in Overviews /\ o.items = overview.items \cup items
           /\ o.steady = overview.steady /\ o.missing = overview.missing /\ o.old = overview.old
BY DEF With, Overviews

\* An item is listed, or is a run.
LEMMA Splits == Items = Listed \cup Runs /\ Listed \cap Runs = {}
BY ViewingAssumption DEF Items

-----------------------------------------------------------------------------
(* Steps of the browsers alone                                             *)

\* Whoever has an overview now had it before, or has the cached one.
LEMMA BrowsersStep ==
    ASSUME IInv, UNCHANGED <<backend, open, cache, fresh, refresh, joinable>>,
           requeued' \in SUBSET Runs, snapshot' \in {None} \cup SUBSET Items,
           browser' \in [Browsers -> Requests],
           \A b \in Browsers :
              /\ AtStep(b, "mark")' =>
                    \/ AtStep(b, "mark") /\ browser'[b] = browser[b]
                    \/ cache # None /\ browser'[b].held = cache
              /\ AtStep(b, "get")' => AtStep(b, "get") \/ fresh
              /\ AtStep(b, "post")' \/ AtStep(b, "invalidate")' => browser'[b].run \in Runs
    PROVE  IInv'
<1>1. ViewingTypeOK /\ FreshInv /\ WholeInv /\ Running' = Running
  BY DEF IInv, Running
<1>2. ViewingTypeOK'
  BY <1>1 DEF ViewingTypeOK, AtStep
<1>3. FreshInv'
  BY <1>1 DEF FreshInv, Recent
<1>4. WholeInv'
  BY <1>1 DEF WholeInv, Whole, ReadSoFar, Marking
<1> QED BY <1>2, <1>3, <1>4 DEF IInv

\* A new request has no overview yet.
LEMMA ArriveInv == ASSUME IInv, NEW b \in Browsers, Arrive(b) PROVE IInv'
<1>1. PICK task \in Tasks, run \in {None} \cup Runs :
         /\ task = "rerun" <=> run # None
         /\ browser' = [browser EXCEPT ![b] = [NoTask EXCEPT
                           !.pc = IF task = "rerun" THEN "post" ELSE "ask",
                           !.task = task, !.run = run]]
  BY DEF Arrive
<1> DEFINE k == [NoTask EXCEPT !.pc = IF task = "rerun" THEN "post" ELSE "ask",
                               !.task = task, !.run = run]
<1>2. k \in Requests /\ k.pc \in {"post", "ask"} /\ (k.pc = "post" => k.run \in Runs)
  BY <1>1 DEF NoTask, Requests, Steps
<1>3. browser \in [Browsers -> Requests] /\ browser' = [browser EXCEPT ![b] = k]
  BY <1>1 DEF IInv, ViewingTypeOK
<1> HIDE DEF k
<1>4. browser' \in [Browsers -> Requests] /\ \A d \in Browsers : browser'[d] = IF d = b THEN k ELSE browser[d]
  BY <1>2, <1>3
<1> QED BY <1>2, <1>4, BrowsersStep DEF Arrive, AtStep, IInv, ViewingTypeOK

\* One browser's request goes on as k.
LEMMA BrowserStep ==
    ASSUME IInv, NEW b \in Browsers, NEW k \in Requests, browser' = [browser EXCEPT ![b] = k],
           UNCHANGED <<backend, open, cache, fresh, refresh, joinable, snapshot, requeued>>,
           k.pc = "mark" => cache # None /\ k.held = cache,
           k.pc = "get" => fresh, k.pc \notin {"post", "invalidate"}
    PROVE  IInv'
<1>1. browser' \in [Browsers -> Requests] /\ \A d \in Browsers : browser'[d] = IF d = b THEN k ELSE browser[d]
  BY DEF IInv, ViewingTypeOK
<1> QED BY <1>1, BrowsersStep DEF AtStep, IInv, ViewingTypeOK

\* The memory cache serves what it has fresh.
LEMMA AskInv == ASSUME IInv, NEW b \in Browsers, Ask(b) PROVE IInv'
<1> DEFINE k == browser[b]
<1>1. /\ k \in Requests /\ k.pc = "ask" /\ ~ StartsAtOnce(b) /\ browser \in [Browsers -> Requests]
      /\ joinable \in {None} \cup Slots /\ (cache # None => cache \in Overviews)
      /\ UNCHANGED <<backend, open, cache, fresh, refresh, joinable, snapshot, requeued>>
  BY Typed DEF IInv, ViewingTypeOK, Ask, AtStep
<1>2. CASE joinable # None
  <2>1. browser' = [browser EXCEPT ![b] = Join(k, joinable)]
    BY <1>2 DEF Ask
  <2>2. Join(k, joinable) \in Requests /\ Join(k, joinable).pc = "wait"
    BY <1>1, <1>2, JoinIs
  <2> QED BY <1>1, <2>1, <2>2, BrowserStep
<1>3. CASE joinable = None /\ backend = "memory"
  <2>1. browser' = [browser EXCEPT ![b] = Given(k, cache)]
    BY <1>3 DEF Ask
  <2>2. fresh /\ cache # None
    BY <1>1, <1>3 DEF StartsAtOnce, AtStep, IInv, FreshInv, ViewingTypeOK
  <2>3. /\ Given(k, cache) \in Requests /\ Given(k, cache).pc \in {"mark", "idle"}
        /\ Given(k, cache).pc = "mark" => Given(k, cache).held = cache
    BY <1>1, <2>2, GivenIs
  <2> QED BY <1>1, <2>1, <2>2, <2>3, BrowserStep
<1>4. CASE joinable = None /\ backend # "memory"
  <2> DEFINE n == [k EXCEPT !.pc = IF fresh THEN "get" ELSE "start"]
  <2>1. browser' = [browser EXCEPT ![b] = n]
    BY <1>4 DEF Ask
  <2>2. n \in Requests /\ n.pc \in {"get", "start"} /\ (n.pc = "get" => fresh)
    BY <1>1 DEF Requests, Steps
  <2> HIDE DEF n
  <2> QED BY <1>1, <2>1, <2>2, BrowserStep
<1> QED BY <1>2, <1>3, <1>4

\* Redis serves what it has.
LEMMA GetKeyInv == ASSUME IInv, NEW b \in Browsers, GetKey(b) PROVE IInv'
<1> DEFINE k == browser[b]
<1>1. /\ k \in Requests /\ browser \in [Browsers -> Requests]
      /\ cache # None => cache \in Overviews
      /\ UNCHANGED <<backend, open, cache, fresh, refresh, joinable, snapshot, requeued>>
  BY Typed DEF IInv, ViewingTypeOK, GetKey
<1>2. CASE cache = None
  <2> DEFINE n == [k EXCEPT !.pc = "start"]
  <2>1. n \in Requests /\ n.pc = "start" /\ browser' = [browser EXCEPT ![b] = n]
    BY <1>1, <1>2 DEF Requests, Steps, GetKey
  <2> HIDE DEF n
  <2> QED BY <1>1, <2>1, BrowserStep
<1>3. CASE cache # None
  <2>1. browser' = [browser EXCEPT ![b] = Given(k, cache)]
    BY <1>1, <1>3 DEF GetKey
  <2>2. /\ Given(k, cache) \in Requests /\ Given(k, cache).pc \in {"mark", "idle"}
        /\ Given(k, cache).pc = "mark" => Given(k, cache).held = cache
    BY <1>1, <1>3, GivenIs
  <2> QED BY <1>1, <1>3, <2>1, <2>2, BrowserStep
<1> QED BY <1>2, <1>3

\* The overview that is recorded is let go.
LEMMA SetSnapshotInv == ASSUME IInv, NEW b \in Browsers, SetSnapshot(b) PROVE IInv'
<1>1. /\ ViewingTypeOK /\ browser[b].held \in Overviews /\ browser' = [browser EXCEPT ![b] = NoTask]
      /\ UNCHANGED <<backend, open, cache, fresh, refresh, joinable, requeued>>
      /\ snapshot' = browser[b].held.items
  BY Typed DEF IInv, SetSnapshot, Marking
<1>2. requeued' \in SUBSET Runs /\ snapshot' \in SUBSET Items
  BY <1>1 DEF ViewingTypeOK, Overviews
<1>3. /\ browser' \in [Browsers -> Requests]
      /\ \A c \in Browsers : browser'[c] = browser[c] \/ browser'[c].pc = "idle"
  BY <1>1, NothingIs DEF ViewingTypeOK
<1> QED BY <1>1, <1>2, <1>3, BrowsersStep DEF AtStep, ViewingTypeOK

-----------------------------------------------------------------------------
(* Steps of the refreshes                                                  *)

\* A refresh that starts has read nothing.
LEMMA StartInv == ASSUME IInv, NEW b \in Browsers, Start(b) PROVE IInv'
<1> DEFINE r == [at |-> "repositories", overview |-> NothingRead]
<1>1. PICK i \in Slots \ Running :
         /\ refresh' = [refresh EXCEPT ![i] = r]
         /\ joinable' = i
         /\ browser' = [browser EXCEPT ![b] = Join(@, i)]
  BY DEF Start
<1>2. /\ ViewingTypeOK /\ FreshInv /\ WholeInv
      /\ UNCHANGED <<backend, open, cache, fresh, snapshot, requeued>>
  BY DEF IInv, Start
<1>3. /\ r \in Refreshes /\ r.at = "repositories" /\ ~ r.overview.old
      /\ r.overview.steady \subseteq open /\ r # None
  <2>1. r \in Refreshes /\ r.at = "repositories" /\ ~ r.overview.old /\ r.overview.steady \subseteq open
    BY <1>2 DEF NothingRead, Refreshes, Overviews, ViewingTypeOK
  <2> HIDE DEF r
  <2> QED BY <2>1, NoneIsNothing DEF Refreshes
<1> HIDE DEF r
<1>4. /\ refresh' \in [Slots -> {None} \cup Refreshes] /\ refresh'[i] = r
      /\ \A j \in Slots : j # i => refresh'[j] = refresh[j]
  BY <1>1, <1>2, <1>3 DEF ViewingTypeOK
<1>5. Running' = Running \cup {i} /\ \A j \in Running : refresh'[j] = refresh[j]
  BY <1>1, <1>3, <1>4 DEF Running
<1>6. /\ browser' \in [Browsers -> Requests]
      /\ \A c \in Browsers : browser'[c] = browser[c] \/ browser'[c].pc = "wait"
  BY <1>1, <1>2, JoinIs DEF ViewingTypeOK
<1>7. ViewingTypeOK'
  BY <1>1, <1>2, <1>4, <1>6 DEF ViewingTypeOK, AtStep
<1>8. FreshInv'
  BY <1>2, <1>3, <1>4, <1>5, <1>6 DEF FreshInv, Recent, AtStep
<1>9. WholeInv'
  BY <1>2, <1>3, <1>4, <1>5, <1>6 DEF WholeInv, Whole, ReadSoFar, Marking, AtStep
<1> QED BY <1>7, <1>8, <1>9 DEF IInv

\* One refresh goes on.
LEMMA ReadingInv ==
    ASSUME IInv, NEW i \in Running, NEW r \in Refreshes, refresh' = [refresh EXCEPT ![i] = r],
           UNCHANGED <<backend, open, cache, fresh, joinable, snapshot, browser, requeued>>,
           r.at # "marker", ~ r.overview.old, r.overview.steady \subseteq open, ReadSoFar(r)
    PROVE  IInv'
<1>1. /\ ViewingTypeOK /\ FreshInv /\ WholeInv /\ i \in Slots
      /\ refresh'[i] = r /\ r # None /\ \A j \in Slots : j # i => refresh'[j] = refresh[j]
  BY NoneIsNothing DEF IInv, ViewingTypeOK, Running, Refreshes
<1>2. Running' = Running /\ \A j \in Running : j \in Slots
  BY <1>1 DEF Running
<1>3. ViewingTypeOK'
  BY <1>1 DEF ViewingTypeOK, AtStep
<1>4. FreshInv'
  BY <1>1, <1>2 DEF FreshInv, Recent, AtStep
<1>5. WholeInv'
  <2>1. \A j \in Running : refresh'[j].overview.steady \subseteq open /\ ReadSoFar(refresh'[j])
    BY <1>1, <1>2 DEF WholeInv
  <2> QED BY <1>1, <1>2, <2>1 DEF WholeInv, Whole, ReadSoFar, Marking, AtStep
<1> QED BY <1>3, <1>4, <1>5 DEF IInv

\* A refresh goes on with its overview.
LEMMA GoesOnIs ==
    ASSUME NEW r \in Refreshes, NEW at \in {"repositories", "runs", "store", "marker"},
           NEW o \in Overviews
    PROVE  LET n == [r EXCEPT !.at = at, !.overview = o] IN
           n \in Refreshes /\ n.at = at /\ n.overview = o
BY DEF Refreshes

\* What was open all along is open when it is read.
LEMMA ReadRepositoriesInv == ASSUME IInv, NEW i \in Slots, ReadRepositories(i) PROVE IInv'
<1> DEFINE o == With(refresh[i].overview, open \cap Listed)
           r == [refresh[i] EXCEPT !.at = "runs", !.overview = o]
<1>1. /\ i \in Running /\ refresh[i] \in Refreshes /\ refresh[i].overview \in Overviews
      /\ open \cap Listed \in SUBSET Items /\ refresh[i].overview.steady \subseteq open
      /\ ~ refresh[i].overview.old
      /\ UNCHANGED <<backend, open, cache, fresh, joinable, snapshot, browser, requeued>>
  BY Typed DEF IInv, ViewingTypeOK, ReadRepositories, WholeInv, FreshInv
<1>2. /\ o \in Overviews /\ o.steady = refresh[i].overview.steady
      /\ o.items = refresh[i].overview.items \cup (open \cap Listed)
      /\ o.old = refresh[i].overview.old
  BY <1>1, WithIs
<1>3. refresh' = [refresh EXCEPT ![i] = r]
  BY <1>1 DEF ReadRepositories
<1> HIDE DEF o
<1>4. r \in Refreshes /\ r.at = "runs" /\ r.overview = o
  <2>1. refresh[i] \in Refreshes /\ o \in Overviews
    BY <1>1, <1>2
  <2> QED BY ONLY <2>1, GoesOnIs DEF r
<1> HIDE DEF r
<1>5. ReadSoFar(r) /\ r.at # "marker" /\ ~ r.overview.old /\ r.overview.steady \subseteq open
  BY <1>1, <1>2, <1>4 DEF ReadSoFar
<1> QED BY <1>1, <1>3, <1>4, <1>5, ReadingInv

\* And so are the runs, or they are known to be missing.
LEMMA ReadRunsInv == ASSUME IInv, NEW i \in Slots, ReadRuns(i) PROVE IInv'
<1>1. /\ i \in Running /\ refresh[i] \in Refreshes /\ refresh[i].overview \in Overviews
      /\ open \cap Runs \in SUBSET Items /\ refresh[i].overview.steady \subseteq open
      /\ refresh[i].overview.steady \subseteq Items
      /\ refresh[i].overview.steady \cap Listed \subseteq refresh[i].overview.items
      /\ ~ refresh[i].overview.old
      /\ UNCHANGED <<backend, open, cache, fresh, joinable, snapshot, browser, requeued>>
  BY Typed DEF IInv, ViewingTypeOK, ReadRuns, WholeInv, FreshInv, ReadSoFar
<1>2. ASSUME NEW o \in Overviews, o.steady = refresh[i].overview.steady, ~ o.old, Whole(o),
             refresh' = [refresh EXCEPT ![i] = [refresh[i] EXCEPT !.at = "store", !.overview = o]],
             refresh[i].overview.items \subseteq o.items
      PROVE  IInv'
  <2> DEFINE r == [refresh[i] EXCEPT !.at = "store", !.overview = o]
  <2>1. refresh' = [refresh EXCEPT ![i] = r]
    BY <1>2
  <2>2. r \in Refreshes /\ r.at = "store" /\ r.overview = o
    <3>1. refresh[i] \in Refreshes /\ o \in Overviews
      BY <1>1
    <3> QED BY ONLY <3>1, GoesOnIs
  <2> HIDE DEF r
  <2>3. ReadSoFar(r) /\ r.at # "marker" /\ ~ r.overview.old /\ r.overview.steady \subseteq open
    BY <1>1, <1>2, <2>2 DEF ReadSoFar
  <2> QED BY <1>1, <2>1, <2>2, <2>3, ReadingInv
<1>3. CASE refresh' = [refresh EXCEPT ![i].at = "store", ![i].overview = With(@, open \cap Runs)]
  <2> DEFINE o == With(refresh[i].overview, open \cap Runs)
  <2>1. /\ o \in Overviews /\ o.steady = refresh[i].overview.steady
        /\ o.items = refresh[i].overview.items \cup (open \cap Runs)
        /\ o.old = refresh[i].overview.old
    BY <1>1, WithIs
  <2>2. refresh' = [refresh EXCEPT ![i] = [refresh[i] EXCEPT !.at = "store", !.overview = o]]
    BY <1>1, <1>3
  <2> HIDE DEF o
  <2>3. Whole(o)
    BY <1>1, <2>1, Splits DEF Whole
  <2> QED BY <1>1, <1>2, <2>1, <2>2, <2>3
<1>4. CASE refresh' = [refresh EXCEPT ![i].at = "store", ![i].overview.missing = TRUE]
  <2> DEFINE o == [refresh[i].overview EXCEPT !.missing = TRUE]
  <2>1. /\ o \in Overviews /\ o.steady = refresh[i].overview.steady
        /\ o.items = refresh[i].overview.items /\ o.missing /\ o.old = refresh[i].overview.old
    BY <1>1 DEF Overviews
  <2>2. refresh' = [refresh EXCEPT ![i] = [refresh[i] EXCEPT !.at = "store", !.overview = o]]
    BY <1>1, <1>4
  <2> HIDE DEF o
  <2>3. Whole(o)
    BY <1>1, <2>1, Splits DEF Whole
  <2> QED BY <1>1, <1>2, <2>1, <2>2, <2>3
<1> QED BY <1>3, <1>4 DEF ReadRuns

\* Who waits for a refresh that is over has its overview.
LEMMA OverIs ==
    ASSUME ViewingTypeOK, NEW i \in Running, NEW o \in {None} \cup Overviews, Over(i, o)
    PROVE  /\ refresh' \in [Slots -> {None} \cup Refreshes] /\ joinable' \in {None} \cup Slots
           /\ browser' \in [Browsers -> Requests]
           /\ Running' = Running \ {i} /\ \A j \in Running' : refresh'[j] = refresh[j]
           /\ \A b \in Browsers :
                 \/ browser'[b] = browser[b]
                 \/ browser'[b].pc = "idle"
                 \/ o # None /\ browser'[b].pc = "mark" /\ browser'[b].held = o
<1>1. /\ refresh' \in [Slots -> {None} \cup Refreshes] /\ joinable' \in {None} \cup Slots
      /\ Running' = Running \ {i} /\ \A j \in Running' : refresh'[j] = refresh[j]
  BY DEF ViewingTypeOK, Over, Running
<1>2. ASSUME NEW b \in Browsers
      PROVE  /\ browser'[b] \in Requests
             /\ \/ browser'[b] = browser[b]
                \/ browser'[b].pc = "idle"
                \/ o # None /\ browser'[b].pc = "mark" /\ browser'[b].held = o
  <2>1. browser[b] \in Requests
    BY Typed
  <2>2. browser'[b] = IF browser[b].on # i THEN browser[b]
                      ELSE IF o = None THEN NoTask ELSE Given(browser[b], o)
    BY DEF Over
  <2>3. o # None => /\ Given(browser[b], o) \in Requests /\ Given(browser[b], o).pc \in {"mark", "idle"}
                    /\ Given(browser[b], o).pc = "mark" => Given(browser[b], o).held = o
    BY <2>1, GivenIs
  <2> QED BY <2>1, <2>2, <2>3, NothingIs
<1>3. browser' \in [Browsers -> Requests]
  <2>1. browser' = [b \in Browsers |-> browser'[b]]
    BY DEF Over
  <2> QED BY <1>2, <2>1
<1> QED BY <1>1, <1>2, <1>3

\* A refresh is over: its overview is cached, or was, or the cached one serves.
LEMMA OverInv ==
    ASSUME IInv, NEW i \in Running, NEW o \in {None} \cup Overviews, Over(i, o),
           UNCHANGED <<backend, open, snapshot, requeued>>,
           \/ /\ refresh[i].at = "store" /\ o = refresh[i].overview /\ cache' = o /\ fresh' = TRUE
           \/ /\ refresh[i].at = "marker" /\ o = refresh[i].overview /\ cache' = cache /\ fresh' = TRUE
           \/ o = cache /\ cache' = cache /\ fresh' = fresh
    PROVE  IInv'
<1>1. /\ ViewingTypeOK /\ FreshInv /\ WholeInv
      /\ refresh[i].overview \in Overviews /\ refresh[i].overview # None
  BY Typed DEF IInv
<1>2. /\ refresh' \in [Slots -> {None} \cup Refreshes] /\ joinable' \in {None} \cup Slots
      /\ browser' \in [Browsers -> Requests]
      /\ Running' = Running \ {i} /\ \A j \in Running' : refresh'[j] = refresh[j]
      /\ \A b \in Browsers :
            \/ browser'[b] = browser[b]
            \/ browser'[b].pc = "idle"
            \/ o # None /\ browser'[b].pc = "mark" /\ browser'[b].held = o
  BY <1>1, OverIs
<1>3. cache' = cache \/ (refresh[i].at = "store" /\ cache' = refresh[i].overview)
  OBVIOUS
<1>4. ViewingTypeOK'
  BY <1>1, <1>2, <1>3 DEF ViewingTypeOK, AtStep
<1>5. FreshInv'
  <2>1. (fresh' => Recent') /\ (Recent => Recent') /\ (backend = "memory" /\ fresh' => cache' # None)
    BY <1>1 DEF FreshInv, Recent
  <2> QED BY <1>1, <1>2, <2>1 DEF FreshInv, AtStep
<1>6. (o # None => Whole(o)) /\ (cache' # None => Whole(cache'))
  BY <1>1 DEF WholeInv, ReadSoFar
<1>7. WholeInv'
  <2>1. \A b \in Browsers : Marking(b)' => Whole(browser'[b].held)
    BY <1>1, <1>2, <1>6 DEF WholeInv, Marking, AtStep
  <2>2. \A j \in Running' : refresh'[j].overview.steady \subseteq open /\ ReadSoFar(refresh'[j])
    BY <1>1, <1>2 DEF WholeInv
  <2> QED BY <1>6, <2>1, <2>2 DEF WholeInv, Whole, ReadSoFar
<1> QED BY <1>4, <1>5, <1>7 DEF IInv

\* RedisOverviewCache.set, first half: the cache has the overview, its refresh goes on.
LEMMA StoreKeyInv ==
    ASSUME IInv, NEW i \in Running, refresh[i].at = "store", backend # "memory",
           cache' = refresh[i].overview, refresh' = [refresh EXCEPT ![i].at = "marker"],
           UNCHANGED <<backend, open, fresh, joinable, snapshot, browser, requeued>>
    PROVE  IInv'
<1> DEFINE r == [refresh[i] EXCEPT !.at = "marker"]
<1>1. /\ ViewingTypeOK /\ FreshInv /\ WholeInv /\ i \in Slots
      /\ refresh[i] \in Refreshes /\ refresh[i].overview \in Overviews /\ refresh[i].overview # None
  BY Typed DEF IInv
<1>2. r \in Refreshes /\ r.at = "marker" /\ r.overview = refresh[i].overview
  BY ONLY <1>1 DEF Refreshes
<1>3. refresh' = [refresh EXCEPT ![i] = r]
  OBVIOUS
<1> HIDE DEF r
<1>4. /\ refresh' \in [Slots -> {None} \cup Refreshes] /\ refresh'[i] = r /\ r # None
      /\ \A j \in Slots : j # i => refresh'[j] = refresh[j]
  BY <1>1, <1>2, <1>3, NoneIsNothing DEF ViewingTypeOK, Refreshes
<1>5. Running' = Running /\ \A j \in Running : j \in Slots
  BY <1>1, <1>4 DEF Running
<1>6. ViewingTypeOK'
  BY <1>1, <1>4 DEF ViewingTypeOK, AtStep
<1>7. FreshInv'
  BY <1>1, <1>2, <1>4, <1>5 DEF FreshInv, Recent, AtStep
<1>8. WholeInv'
  <2>1. Whole(refresh[i].overview) /\ ReadSoFar(r) /\ r.overview.steady \subseteq open
    BY <1>1, <1>2 DEF WholeInv, ReadSoFar
  <2>2. \A j \in Running : refresh'[j].overview.steady \subseteq open /\ ReadSoFar(refresh'[j])
    BY <1>1, <1>4, <1>5, <2>1 DEF WholeInv
  <2> QED BY <1>1, <1>5, <2>1, <2>2 DEF WholeInv, Whole, ReadSoFar, Marking, AtStep
<1> QED BY <1>6, <1>7, <1>8 DEF IInv

\* The memory cache stores at once, Redis the overview first.
LEMMA StoreInv == ASSUME IInv, NEW i \in Slots, Store(i) PROVE IInv'
<1>1. /\ i \in Running /\ refresh[i].at = "store" /\ refresh[i].overview \in Overviews
      /\ UNCHANGED <<backend, open, snapshot, requeued>>
  BY Typed DEF IInv, Store
<1>2. CASE backend = "memory"
  <2>1. Over(i, refresh[i].overview) /\ cache' = refresh[i].overview /\ fresh' = TRUE
    BY <1>2 DEF Store
  <2> QED BY <1>1, <2>1, OverInv
<1>3. CASE backend # "memory"
  BY <1>1, <1>3, StoreKeyInv DEF Store, KeyFirst
<1> QED BY <1>2, <1>3

\* RedisOverviewCache.set, second half.
LEMMA StoreMarkerInv == ASSUME IInv, NEW i \in Slots, StoreMarker(i) PROVE IInv'
<1>1. /\ i \in Running /\ refresh[i].at = "marker" /\ refresh[i].overview \in Overviews
      /\ Over(i, refresh[i].overview) /\ cache' = cache /\ fresh' = TRUE
      /\ UNCHANGED <<backend, open, snapshot, requeued>>
  BY Typed DEF IInv, StoreMarker, KeyFirst
<1> QED BY <1>1, OverInv

\* A refresh without an overview leaves the cached one.
LEMMA FailsInv == ASSUME IInv, NEW i \in Slots, Fails(i) PROVE IInv'
<1>1. /\ i \in Running /\ cache \in {None} \cup Overviews
      /\ Over(i, cache) /\ cache' = cache /\ fresh' = fresh
      /\ UNCHANGED <<backend, open, snapshot, requeued>>
  BY DEF IInv, ViewingTypeOK, Fails
<1> QED BY <1>1, OverInv

-----------------------------------------------------------------------------
(* An item comes or goes; the rerun                                        *)

\* A refresh that was under way knows less to have been there all along.
LEMMA ItemInv ==
    ASSUME IInv, NEW item \in Items, NEW now, now \subseteq Items, open \ {item} \subseteq now,
           ItemChanges(item, now),
           browser' \in [Browsers -> Requests],
           \A b \in Browsers :
              /\ browser'[b].pc \in {"mark", "get"} => browser'[b] = browser[b]
              /\ browser'[b].pc \in {"post", "invalidate"} => browser'[b].run \in Runs,
           requeued' \subseteq requeued, UNCHANGED <<backend, cache, fresh, joinable, snapshot>>
    PROVE  IInv'
<1>1. /\ ViewingTypeOK /\ FreshInv /\ WholeInv /\ open' = now
  BY DEF IInv, ItemChanges
<1>2. ASSUME NEW i \in Running
      PROVE  /\ refresh'[i] \in Refreshes /\ refresh'[i].at = refresh[i].at
             /\ refresh'[i].overview.steady = refresh[i].overview.steady \ {item}
             /\ refresh'[i].overview.items = refresh[i].overview.items
             /\ refresh'[i].overview.missing = refresh[i].overview.missing
             /\ refresh'[i].overview.old = refresh[i].overview.old
  <2>1. refresh'[i] = [refresh[i] EXCEPT !.overview.steady = @ \ {item}] /\ refresh[i] \in Refreshes
    BY <1>1, Typed DEF ItemChanges
  <2> QED BY ONLY <2>1 DEF Refreshes, Overviews
<1>3. refresh' \in [Slots -> {None} \cup Refreshes] /\ Running' = Running
  <2>1. \A i \in Slots : i \notin Running => refresh'[i] = None
    BY DEF ItemChanges
  <2>2. refresh' = [i \in Slots |-> refresh'[i]]
    BY DEF ItemChanges
  <2>3. refresh' \in [Slots -> {None} \cup Refreshes]
    BY <1>2, <2>1, <2>2
  <2>4. Running' = Running
    BY <1>2, <2>1, NoneIsNothing DEF Running, Refreshes
  <2> QED BY <2>3, <2>4
<1>4. ViewingTypeOK'
  <2>1. open' \in SUBSET Items /\ requeued' \in SUBSET Runs
    BY <1>1 DEF ViewingTypeOK
  <2> QED BY <1>1, <1>3, <2>1 DEF ViewingTypeOK, AtStep
<1>5. FreshInv'
  BY <1>1, <1>2, <1>3 DEF FreshInv, Recent, AtStep
<1>6. WholeInv'
  <2>1. ASSUME NEW i \in Running
        PROVE  refresh'[i].overview.steady \subseteq now /\ ReadSoFar(refresh[i])'
    BY <1>1, <1>2, <2>1 DEF WholeInv, ReadSoFar, Whole
  <2>2. \A b \in Browsers : Marking(b)' => Whole(browser[b].held)'
    BY <1>1 DEF WholeInv, Whole, Marking, AtStep
  <2> QED BY <1>1, <1>3, <2>1, <2>2 DEF WholeInv, Whole
<1> QED BY <1>4, <1>5, <1>6 DEF IInv

\* The run of a rerun fails no more.
LEMMA RerunInv == ASSUME IInv, NEW b \in Browsers, Rerun(b) PROVE IInv'
<1> DEFINE run == browser[b].run
           k == [browser[b] EXCEPT !.pc = "invalidate"]
<1>1. /\ ViewingTypeOK /\ browser[b] \in Requests /\ run \in Runs
      /\ ItemChanges(run, open \ {run}) /\ browser' = [browser EXCEPT ![b] = k]
      /\ UNCHANGED <<backend, cache, fresh, joinable, snapshot, requeued>>
  BY Typed DEF IInv, Rerun, ViewingTypeOK
<1>2. k \in Requests /\ k.pc = "invalidate" /\ k.run = browser[b].run
  BY ONLY <1>1 DEF Requests, Steps, k
<1> HIDE DEF k
<1>3. /\ browser' \in [Browsers -> Requests]
      /\ \A c \in Browsers : browser'[c] = IF c = b THEN k ELSE browser[c]
  BY <1>1, <1>2 DEF ViewingTypeOK
<1>4. run \in Items /\ open \ {run} \subseteq Items
  BY <1>1, Splits DEF ViewingTypeOK
<1>5. \A c \in Browsers :
         /\ browser'[c].pc \in {"mark", "get"} => browser'[c] = browser[c]
         /\ browser'[c].pc \in {"post", "invalidate"} => browser'[c].run \in Runs
  BY <1>1, <1>2, <1>3 DEF ViewingTypeOK, AtStep
<1> HIDE DEF run
<1> QED BY <1>1, <1>3, <1>4, <1>5, ItemInv

\* Perhaps also if nobody knows.
LEMMA RerunFailsInv == ASSUME IInv, NEW b \in Browsers, RerunFails(b) PROVE IInv'
<1> DEFINE run == browser[b].run
<1>1. /\ ViewingTypeOK /\ run \in Runs /\ browser' = [browser EXCEPT ![b] = NoTask]
      /\ UNCHANGED <<backend, cache, fresh, joinable, snapshot, requeued>>
  BY DEF IInv, RerunFails, ViewingTypeOK
<1>2. /\ browser' \in [Browsers -> Requests]
      /\ \A c \in Browsers : browser'[c] = IF c = b THEN NoTask ELSE browser[c]
  BY <1>1, NothingIs DEF ViewingTypeOK
<1>3. \A c \in Browsers :
         /\ browser'[c].pc \in {"mark", "get"} => browser'[c] = browser[c]
         /\ browser'[c].pc \in {"post", "invalidate"} => browser'[c].run \in Runs
  BY <1>1, <1>2, NothingIs DEF ViewingTypeOK, AtStep
<1>4. CASE ItemChanges(run, open \ {run})
  <2>1. run \in Items /\ open \ {run} \subseteq Items
    BY <1>1, Splits DEF ViewingTypeOK
  <2> HIDE DEF run
  <2> QED BY <1>1, <1>2, <1>3, <1>4, <2>1, ItemInv
<1>5. CASE UNCHANGED <<open, refresh>>
  BY <1>1, <1>2, <1>3, <1>5, NothingIs, BrowserStep
<1> QED BY <1>4, <1>5 DEF RerunFails

\* GitHub changes by itself.
LEMMA ComesOrGoesInv == ASSUME IInv, ComesOrGoes PROVE IInv'
<1>1. PICK item \in Items :
         /\ ItemChanges(item, IF item \in open THEN open \ {item} ELSE open \cup {item})
         /\ requeued' = requeued \ {item}
  BY DEF ComesOrGoes
<1> DEFINE now == IF item \in open THEN open \ {item} ELSE open \cup {item}
<1>2. /\ ViewingTypeOK /\ UNCHANGED <<backend, cache, fresh, joinable, snapshot, browser>>
      /\ browser \in [Browsers -> Requests]
  BY DEF IInv, ComesOrGoes, ViewingTypeOK
<1>3. now \subseteq Items /\ open \ {item} \subseteq now /\ requeued' \subseteq requeued
  BY <1>1, <1>2 DEF ViewingTypeOK
<1>4. \A c \in Browsers : browser[c].pc \in {"post", "invalidate"} => browser[c].run \in Runs
  BY <1>2 DEF ViewingTypeOK, AtStep
<1> HIDE DEF now
<1>5. ItemChanges(item, now)
  BY <1>1 DEF now
<1> QED BY <1>2, <1>3, <1>4, <1>5, ItemInv

\* The rerun invalidates what is cached, not what is still being read.
LEMMA RerunEndsInv == ASSUME IInv, NEW b \in Browsers, RerunEnds(b) PROVE IInv'
<1>1. /\ ViewingTypeOK /\ FreshInv /\ WholeInv /\ browser[b].run \in Runs /\ Running' = Running
      /\ cache' = None /\ fresh' = FALSE /\ requeued' = requeued \cup ({browser[b].run} \ open)
      /\ browser' = [browser EXCEPT ![b] = NoTask]
      /\ UNCHANGED <<backend, open, refresh, joinable, snapshot>>
  BY DEF IInv, RerunEnds, Invalidate, ViewingTypeOK, Running
<1>2. /\ browser' \in [Browsers -> Requests]
      /\ \A c \in Browsers : browser'[c] = browser[c] \/ browser'[c].pc = "idle"
  BY <1>1, NothingIs DEF ViewingTypeOK
<1>3. ViewingTypeOK'
  BY <1>1, <1>2 DEF ViewingTypeOK, AtStep
<1>4. FreshInv'
  BY <1>1, <1>2 DEF FreshInv, Recent, AtStep
<1>5. WholeInv'
  BY <1>1, <1>2 DEF WholeInv, Whole, ReadSoFar, Marking, AtStep
<1> QED BY <1>3, <1>4, <1>5 DEF IInv

\* What is old is not fresh.
LEMMA TimeGoesByInv == ASSUME IInv, TimeGoesBy PROVE IInv'
<1>1. /\ ViewingTypeOK /\ FreshInv /\ WholeInv /\ Running' = Running
      /\ cache # None /\ cache \in Overviews /\ fresh' = FALSE
      /\ \A b \in Browsers : ~ AtStep(b, "get")
      /\ \A i \in Running : refresh[i].at # "marker"
      /\ UNCHANGED <<backend, open, refresh, joinable, snapshot, browser, requeued>>
  BY Typed DEF IInv, TimeGoesBy, Running
<1>2. cache' # None =>
         /\ cache' \in Overviews /\ cache'.items = cache.items /\ cache'.missing = cache.missing
         /\ cache'.steady = cache.steady
  BY <1>1 DEF TimeGoesBy, Overviews
<1>3. ViewingTypeOK'
  BY <1>1, <1>2 DEF ViewingTypeOK, AtStep
<1>4. FreshInv'
  BY <1>1 DEF FreshInv, AtStep
<1>5. WholeInv'
  BY <1>1, <1>2 DEF WholeInv, Whole, ReadSoFar, Marking, AtStep
<1> QED BY <1>3, <1>4, <1>5 DEF IInv

-----------------------------------------------------------------------------
(* The theorems                                                            *)

\* Nothing is cached or read at first.
LEMMA InitInv == ViewingInit => IInv
<1> SUFFICES ASSUME ViewingInit PROVE IInv
  OBVIOUS
<1>1. Running = {} /\ \A b \in Browsers : browser[b] = NoTask
  BY DEF ViewingInit, Running
<1>2. ViewingTypeOK
  BY <1>1, NothingIs DEF ViewingInit, ViewingTypeOK, AtStep
<1>3. FreshInv /\ WholeInv
  BY <1>1, NothingIs DEF ViewingInit, FreshInv, Recent, WholeInv, AtStep, Marking
<1> QED BY <1>2, <1>3 DEF IInv

\* Every step keeps the invariant.
LEMMA NextInv == IInv /\ [ViewingNext]_viewing => IInv'
<1> SUFFICES ASSUME IInv, [ViewingNext]_viewing PROVE IInv'
  OBVIOUS
<1>1. ASSUME NEW b \in Browsers,
             \/ Arrive(b) \/ Ask(b) \/ GetKey(b) \/ Start(b) \/ SetSnapshot(b)
             \/ Rerun(b) \/ RerunFails(b) \/ RerunEnds(b)
      PROVE  IInv'
  BY <1>1, ArriveInv, AskInv, GetKeyInv, StartInv, SetSnapshotInv, RerunInv, RerunFailsInv, RerunEndsInv
<1>2. ASSUME NEW i \in Slots,
             ReadRepositories(i) \/ ReadRuns(i) \/ Store(i) \/ StoreMarker(i) \/ Fails(i)
      PROVE  IInv'
  BY <1>2, ReadRepositoriesInv, ReadRunsInv, StoreInv, StoreMarkerInv, FailsInv
<1>3. CASE UNCHANGED viewing
  <2>1. browser \in [Browsers -> Requests]
    BY DEF IInv, ViewingTypeOK
  <2> QED BY <1>3, <2>1, BrowsersStep DEF viewing, AtStep, IInv, ViewingTypeOK
<1> QED BY <1>1, <1>2, <1>3, ComesOrGoesInv, TimeGoesByInv DEF ViewingNext

\* The invariant holds in every state the account's caches and requests can reach.
THEOREM ViewingInvariance == ViewingSpec => []IInv
<1>1. ViewingInit => IInv
  BY InitInv
<1>2. IInv /\ [ViewingNext]_viewing => IInv'
  BY NextInv
<1> QED BY <1>1, <1>2, PTL DEF ViewingSpec

\* What the cache serves as fresh is within its TTL: both orders of the two keys, and
\* every refresh that overlaps another, leave no marker beside an overview that is old.
THEOREM HitsAreFresh == ViewingSpec => []HitIsFresh
<1>1. IInv => HitIsFresh
  BY DEF IInv, FreshInv, Recent, HitIsFresh
<1> QED BY <1>1, ViewingInvariance, PTL

\* Whatever refresh MarkSeen joins, or falls back from, what it records is whole.
THEOREM SnapshotsAreWhole == ViewingSpec => []MarkedIsWhole
<1>1. IInv => MarkedIsWhole
  BY DEF IInv, WholeInv, Marking, MarkedIsWhole
<1> QED BY <1>1, ViewingInvariance, PTL
=============================================================================
