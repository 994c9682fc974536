------------------------- MODULE GetOverviewProofs -------------------------
(***************************************************************************)
(* Theorems about GetOverview, for any number of accounts, sessions,       *)
(* callers and refreshes and, where nothing else is said, for either cache *)
(* - with what RefreshContract promises of a refresh.                      *)
(***************************************************************************)
EXTENDS GetOverview, TLAPS

Joined == {"waiting", "woken", "yielded", "listening"}

\* One call, by itself: it belongs to a session, has joined a refresh when it is
\* past that point, and holds only overviews of its own account.
CallInv(k) ==
    /\ k \in Calls
    /\ k.pc # "idle" => k.session \in Sessions
    /\ k.pc \in Joined => k.refresh \in Refreshes
    /\ k.pc \in Joined /\ k.pc # "waiting" => k.mode = "stream"
    /\ k.pc = "get_stale" => k.error = "Outage" /\ k.mode # "warm"
    /\ k.cached # None => k.cached = Complete(UserOf[k.session])
    /\ k.out.overview # None =>
          /\ k.out.overview.owner = UserOf[k.session]
          /\ k.mode \in {"wait", "warm"} => k.out.overview.complete
    /\ HonestlyStale(k)

\* One refresh, by itself: it belongs to a session, has an outcome once it is
\* done, publishes only overviews of its own account and returns a complete one.
TaskInv(t) ==
    /\ t \in Tasks
    /\ t.phase # "unused" => t.session \in Sessions
    /\ Done(t) => t.outcome \in Errors \cup {"ok"}
    /\ t.latest # None => t.latest \in Overviews /\ t.latest.owner = UserOf[t.session]
    /\ Done(t) /\ t.outcome = "ok" => t.latest = Complete(UserOf[t.session])

\* A cache entry e of user u.
EntryInv(u, e) == e # None => e \in Entries /\ e.overview = Complete(u)

\* What becomes of a call k that gives its answer (or goes to fetch it) ...
Ended(k, x) ==
    /\ CallInv(x)
    /\ x.session = k.session
    /\ x.pc \notin Joined \cup {"lookup", "decide"}

\* ... and of one that is on with refresh r, whose task is t.
GoesOn(k, r, t, x) ==
    /\ CallInv(x)
    /\ x.session = k.session
    /\ x.pc \notin {"lookup", "decide"}
    /\ x.pc \in Joined => x.refresh = r
    /\ x.pc = "listening" => ~Done(t)

-----------------------------------------------------------------------------
(* What a coroutine leaves behind. *)

LEMMA CompleteType ==
    ASSUME NEW u \in Users
    PROVE  /\ Complete(u) \in Overviews /\ Complete(u).owner = u /\ Complete(u).complete
           /\ Partial(u) \in Overviews /\ Partial(u).owner = u
  BY DEF Complete, Partial, Overviews

LEMMA ServeInv ==
    ASSUME NEW k \in Calls, k.session \in Sessions,
           NEW overview \in Overviews, NEW stale \in Errors \cup {None},
           overview.owner = UserOf[k.session],
           k.mode \in {"wait", "warm"} => overview.complete,
           stale # None => stale = "Outage" /\ overview.complete /\ k.mode # "warm"
    PROVE  Ended(k, Serve(k, overview, stale))
  BY DEF Ended, CallInv, HonestlyStale, Serve, Given, Answer, Calls, Answers, Locations, Modes, Joined

LEMMA RaiseInv ==
    ASSUME NEW k \in Calls, k.session \in Sessions, NEW error \in Errors
    PROVE  Ended(k, Raise(k, error))
  BY DEF Ended, CallInv, HonestlyStale, Raise, Answer, Calls, Answers, Locations, Modes, Joined

LEMMA StaleEntryInv ==
    ASSUME NEW k \in Calls, k.session \in Sessions, k.mode # "warm",
           NEW e, EntryInv(UserOf[k.session], e)
    PROVE  Ended(k, StaleEntry(k, "Outage", e))
  <1>0. "Outage" \in Errors
    BY DEF Errors, ApplicationErrors
  <1>1. CASE e = None
    BY <1>0, <1>1, RaiseInv DEF StaleEntry
  <1>2. CASE e # None
    <2>1. UserOf[k.session] \in Users
      BY UserOfAssumption
    <2>2. e.overview.owner = UserOf[k.session]
      BY <1>2, <2>1, CompleteType DEF EntryInv
    <2> QED
      BY <1>0, <1>2, <2>1, <2>2, ServeInv, CompleteType DEF StaleEntry
  <1> QED
    BY <1>1, <1>2

LEMMA StaleOrRaiseInv ==
    ASSUME NEW k \in Calls, k.session \in Sessions, k.mode # "warm", NEW error \in Errors,
           NEW e, EntryInv(UserOf[k.session], e), CallInv(k)
    PROVE  Ended(k, StaleOrRaise(k, error, e))
  <1>1. CASE error # "Outage"
    BY <1>1, RaiseInv DEF StaleOrRaise
  <1>2. CASE error = "Outage" /\ CacheYields
    <2> DEFINE x == [k EXCEPT !.pc = "get_stale", !.error = error]
    <2>1. StaleOrRaise(k, error, e) = x
      BY <1>2 DEF StaleOrRaise
    <2>2. /\ x \in Calls /\ x.pc = "get_stale" /\ x.error = "Outage"
          /\ x.session = k.session /\ x.mode = k.mode /\ x.cached = k.cached /\ x.out = k.out
      BY <1>2 DEF Calls, Locations
    <2> QED
      BY <2>1, <2>2 DEF Ended, CallInv, HonestlyStale, Joined
  <1>3. CASE error = "Outage" /\ ~CacheYields
    <2>1. StaleOrRaise(k, error, e) = StaleEntry(k, "Outage", e)
      BY <1>3 DEF StaleOrRaise
    <2> QED
      BY <2>1, StaleEntryInv
  <1> QED
    BY <1>1, <1>2, <1>3

LEMMA CompletedInv ==
    ASSUME NEW k \in Calls, k.session \in Sessions, CallInv(k),
           NEW t, TaskInv(t), Done(t), UserOf[t.session] = UserOf[k.session],
           NEW e, EntryInv(UserOf[k.session], e)
    PROVE  Ended(k, Completed(k, t, e))
  <1>1. CASE t.outcome = "ok"
    <2>1. t.latest \in Overviews /\ t.latest.owner = UserOf[k.session] /\ t.latest.complete
      BY <1>1, CompleteType, UserOfAssumption DEF TaskInv
    <2>2. Completed(k, t, e) = Serve(k, t.latest, None)
      BY <1>1 DEF Completed
    <2> QED
      BY <2>1, <2>2, ServeInv
  <1>2. CASE t.outcome = "Outage" /\ k.mode # "warm"
    <2>1. Completed(k, t, e) = StaleOrRaise(k, t.outcome, e)
      BY <1>2 DEF Completed
    <2> QED
      BY <1>2, <2>1, StaleOrRaiseInv DEF Errors, ApplicationErrors
  <1>3. CASE t.outcome # "ok" /\ ~(t.outcome = "Outage" /\ k.mode # "warm")
    <2>1. Completed(k, t, e) = Raise(k, t.outcome)
      BY <1>3 DEF Completed
    <2>2. t.outcome \in Errors
      BY <1>3 DEF TaskInv
    <2> QED
      BY <2>1, <2>2, RaiseInv
  <1> QED
    BY <1>1, <1>2, <1>3

LEMMA StreamWaitInv ==
    ASSUME NEW k \in Calls, k.session \in Sessions, k.refresh \in Refreshes, CallInv(k),
           NEW t, TaskInv(t), UserOf[t.session] = UserOf[k.session], k.mode = "stream",
           NEW e, EntryInv(UserOf[k.session], e)
    PROVE  GoesOn(k, k.refresh, t, StreamWait(k, t, e))
  <1>1. CASE Done(t)
    <2>1. StreamWait(k, t, e) = StreamEnd(k, t, e)
      BY <1>1 DEF StreamWait
    <2>2. CASE t.outcome = "ok"
      <3>1. StreamEnd(k, t, e) = Answer(k, k.out)
        BY <2>2 DEF StreamEnd, ApplicationErrors
      <3> QED
        BY <2>1, <3>1 DEF GoesOn, CallInv, HonestlyStale, Answer, Calls, Locations, Modes, Joined
    <2>3. CASE t.outcome = "Bug"
      <3>1. StreamEnd(k, t, e) = Raise(k, "Outage")
        BY <2>3 DEF StreamEnd, ApplicationErrors
      <3> QED
        BY <2>1, <3>1, RaiseInv DEF Errors, ApplicationErrors, Ended, GoesOn, Joined
    <2>4. CASE t.outcome \in ApplicationErrors
      <3>1. StreamEnd(k, t, e) = StaleOrRaise(k, t.outcome, e)
        BY <2>4 DEF StreamEnd, ApplicationErrors
      <3> QED
        BY <2>1, <2>4, <3>1, StaleOrRaiseInv DEF Errors, Ended, GoesOn, Joined
    <2> QED
      BY <1>1, <2>2, <2>3, <2>4 DEF TaskInv, Errors
  <1>2. CASE ~Done(t)
    <2>1. \E pc \in {"woken", "listening"} : StreamWait(k, t, e) = [k EXCEPT !.pc = pc]
      BY <1>2 DEF StreamWait, TaskInv, Tasks
    <2> QED
      BY <1>2, <2>1 DEF GoesOn, CallInv, HonestlyStale, Calls, Locations, Joined
  <1> QED
    BY <1>1, <1>2

LEMMA StreamLoopInv ==
    ASSUME NEW k \in Calls, k.session \in Sessions, k.refresh \in Refreshes, CallInv(k),
           NEW t, TaskInv(t), UserOf[t.session] = UserOf[k.session], k.mode = "stream",
           NEW e, EntryInv(UserOf[k.session], e)
    PROVE  GoesOn(k, k.refresh, t, StreamLoop(k, t, e))
  <1>1. CASE t.version > k.seen /\ t.latest # None
    <2> DEFINE out == Given(t.latest, None)
               x == [k EXCEPT !.pc = "yielded", !.seen = t.version, !.out = out]
    <2>1. StreamLoop(k, t, e) = x
      BY <1>1 DEF StreamLoop
    <2>2. out \in Answers /\ out.overview.owner = UserOf[k.session] /\ out.stale = None
      BY <1>1 DEF TaskInv, Answers, Given
    <2>3. t.version \in Nat
      BY DEF TaskInv, Tasks
    <2> HIDE DEF out
    <2>4. /\ x \in Calls /\ x.pc = "yielded" /\ x.refresh = k.refresh
          /\ x.session = k.session /\ x.mode = k.mode /\ x.cached = k.cached /\ x.out = out
      BY <2>2, <2>3 DEF Calls, Locations
    <2> QED
      BY <2>1, <2>2, <2>4 DEF GoesOn, CallInv, HonestlyStale, Joined
  <1>2. CASE ~(t.version > k.seen /\ t.latest # None)
    BY <1>2, StreamWaitInv DEF StreamLoop
  <1> QED
    BY <1>1, <1>2

LEMMA JoinInv ==
    ASSUME NEW k \in Calls, k.session \in Sessions, CallInv(k),
           NEW r \in Refreshes,
           NEW t, TaskInv(t), UserOf[t.session] = UserOf[k.session],
           NEW e, EntryInv(UserOf[k.session], e)
    PROVE  GoesOn(k, r, t, Join(k, r, t, e))
  <1> DEFINE j == [k EXCEPT !.refresh = r, !.force = FALSE, !.cached = None]
  <1>1. /\ j \in Calls /\ j.session = k.session /\ j.refresh = r /\ j.mode = k.mode
        /\ CallInv(j)
    BY DEF CallInv, HonestlyStale, Calls
  <1> HIDE DEF j
  <1>2. CASE k.mode = "stream"
    <2>1. Join(k, r, t, e) = StreamLoop(j, t, e)
      BY <1>2 DEF Join, j
    <2> QED
      BY <1>1, <1>2, <2>1, StreamLoopInv DEF GoesOn
  <1>3. CASE k.mode = "poll"
    <2> DEFINE overview == IF t.latest # None THEN t.latest ELSE Partial(UserOf[k.session])
    <2>1. Join(k, r, t, e) = Serve(j, overview, None)
      BY <1>3 DEF Join, j
    <2>2. overview \in Overviews /\ overview.owner = UserOf[k.session]
      BY CompleteType, UserOfAssumption DEF TaskInv
    <2> QED
      BY <1>1, <1>3, <2>1, <2>2, ServeInv DEF Ended, GoesOn, Joined
  <1>4. CASE k.mode \in {"wait", "warm"} /\ Done(t)
    <2>1. Join(k, r, t, e) = Completed(j, t, e)
      BY <1>4 DEF Join, j
    <2> QED
      BY <1>1, <1>4, <2>1, CompletedInv DEF Ended, GoesOn, Joined
  <1>5. CASE k.mode \in {"wait", "warm"} /\ ~Done(t)
    <2>1. Join(k, r, t, e) = [j EXCEPT !.pc = "waiting"]
      BY <1>5 DEF Join, j
    <2> QED
      BY <1>1, <1>5, <2>1 DEF GoesOn, CallInv, HonestlyStale, Calls, Locations, Joined
  <1> QED
    BY <1>2, <1>3, <1>4, <1>5 DEF Calls, Modes

-----------------------------------------------------------------------------
(* The inductive invariant *)

\* A call that has joined a refresh keeps its object: one of its own account,
\* and, while it listens, one that still has its callback before it.  It waits
\* for the cache only where the cache makes it wait.
Linked(k) ==
    /\ k.pc \in Joined => /\ task[k.refresh].phase # "unused"
                          /\ UserOfTask(k.refresh) = UserOf[k.session]
    /\ k.pc = "listening" => Alive(k.refresh)
    /\ ~CacheYields => k.pc \notin {"lookup", "decide"}

IInv ==
    /\ TypeOK
    /\ \A c \in Callers : CallInv(call[c]) /\ Linked(call[c])
    /\ \A r \in Refreshes : TaskInv(task[r])
    /\ \A u \in Users : EntryInv(u, cache[u])
    /\ RegisteredIsAlive

LEMMA InitIInv == Init => IInv
  <1> SUFFICES ASSUME Init PROVE IInv
    OBVIOUS
  <1>1. NoTask \in Tasks /\ ~Done(NoTask) /\ NoTask.phase = "unused" /\ NoTask.latest = None /\ NoTask.outcome = None
    BY DEF NoTask, Tasks, Phases, Done
  <1>2. CallInv(NoCall) /\ NoCall.pc = "idle" /\ NoCall \in Calls
    BY DEF NoCall, Calls, CallInv, HonestlyStale, Nothing, Answers, Locations, Modes, Joined
  <1>3. TypeOK
    BY <1>1, <1>2 DEF Init, TypeOK
  <1>4. TaskInv(NoTask)
    BY <1>1, NoneAssumption DEF TaskInv
  <1> QED
    BY <1>1, <1>2, <1>3, <1>4 DEF Init, IInv, Linked, EntryInv, RegisteredIsAlive, Joined

\* A step that changes nothing but one call.
LEMMA CallChanges ==
    ASSUME IInv, NEW c \in Callers, NEW x, CallInv(x), Linked(x),
           call' = [call EXCEPT ![c] = x],
           UNCHANGED <<sessions, revoked, cache, refreshes, failures, task>>
    PROVE  IInv'
  <1>1. TypeOK'
    BY DEF IInv, TypeOK, CallInv
  <1>2. \A d \in Callers : CallInv(call'[d]) /\ Linked(call'[d])
    BY DEF IInv, TypeOK
  <1>3. \A k : Linked(k) => Linked(k)'
    BY DEF Linked, UserOfTask, Alive
  <1> QED
    BY <1>1, <1>2 DEF IInv, Linked, RegisteredIsAlive, UserOfTask, Alive

\* A step of one refresh that is not its callback, with whatever it does to the
\* sessions, the cache and those who wait for its event.
LEMMA TaskChanges ==
    ASSUME IInv, NEW r \in Refreshes, NEW t, TaskInv(t),
           task[r].phase # "unused", t.phase # "unused", t.session = task[r].session,
           Alive(r) => t.phase # "finished",
           task' = [task EXCEPT ![r] = t],
           call' = call \/ call' = Wake(r),
           sessions' \in [Sessions -> {"none", "live"}],
           cache' = cache \/ \E e : EntryInv(UserOfTask(r), e) /\ (e = None \/ e \in Entries)
                                    /\ cache' = [cache EXCEPT ![UserOfTask(r)] = e],
           UNCHANGED <<revoked, refreshes, failures>>
    PROVE  IInv'
  <1>1. \A q \in Refreshes : /\ TaskInv(task'[q])
                             /\ task'[q].session = task[q].session
                             /\ task[q].phase # "unused" => task'[q].phase # "unused"
                             /\ Alive(q) => Alive(q)'
    BY DEF IInv, TypeOK, Alive
  <1>2. \A c \in Callers : /\ CallInv(call'[c])
                           /\ call'[c].session = call[c].session
                           /\ call'[c].refresh = call[c].refresh
                           /\ \/ call'[c].pc = call[c].pc
                              \/ call'[c].pc = "woken" /\ call[c].pc = "listening"
    <2>1. CASE call' = call
      BY <2>1 DEF IInv
    <2>2. CASE call' = Wake(r)
      <3> TAKE c \in Callers
      <3>1. CASE call[c].pc = "listening" /\ call[c].refresh = r
        <4> DEFINE x == [call[c] EXCEPT !.pc = "woken"]
        <4>1. call'[c] = x
          BY <2>2, <3>1 DEF Wake
        <4>2. CallInv(call[c]) /\ call[c] \in Calls
          BY DEF IInv, TypeOK
        <4>3. /\ x \in Calls /\ x.pc = "woken" /\ x.refresh = call[c].refresh
              /\ x.session = call[c].session /\ x.mode = call[c].mode
              /\ x.cached = call[c].cached /\ x.out = call[c].out
          BY <4>2 DEF Calls, Locations
        <4> QED
          BY <3>1, <4>1, <4>2, <4>3 DEF CallInv, HonestlyStale, Joined
      <3>2. CASE ~(call[c].pc = "listening" /\ call[c].refresh = r)
        BY <2>2, <3>2 DEF Wake, IInv
      <3> QED
        BY <3>1, <3>2
    <2> QED
      BY <2>1, <2>2
  <1>3. call' \in [Callers -> Calls]
    BY <1>2 DEF IInv, TypeOK, Wake, CallInv
  <1>4. /\ cache' \in [Users -> Entries \cup {None}]
        /\ \A u \in Users : EntryInv(u, cache'[u])
    BY DEF IInv, TypeOK
  <1>5. task' \in [Refreshes -> Tasks]
    BY <1>1 DEF IInv, TypeOK, TaskInv
  <1>6. TypeOK'
    BY <1>3, <1>4, <1>5 DEF IInv, TypeOK
  <1>7. \A c \in Callers : Linked(call[c])'
    <2> TAKE c \in Callers
    <2>1. CASE call'[c].pc \in Joined
      <3>1. call[c].pc \in Joined /\ call[c].refresh \in Refreshes
        BY <1>2, <2>1 DEF IInv, CallInv, Joined
      <3>2. /\ task[call[c].refresh].phase # "unused"
            /\ UserOfTask(call[c].refresh) = UserOf[call[c].session]
            /\ call[c].pc = "listening" => Alive(call[c].refresh)
        BY <3>1 DEF IInv, Linked
      <3> QED
        BY <1>1, <1>2, <2>1, <3>1, <3>2 DEF Linked, UserOfTask, Alive, Joined
    <2>2. CASE call'[c].pc \notin Joined
      BY <1>2, <2>2 DEF IInv, Linked, Joined
    <2> QED
      BY <2>1, <2>2
  <1>8. RegisteredIsAlive'
    BY <1>1 DEF IInv, TypeOK, RegisteredIsAlive, UserOfTask
  <1> QED
    BY <1>1, <1>2, <1>4, <1>6, <1>7, <1>8 DEF IInv

-----------------------------------------------------------------------------
(* The steps of a caller *)

LEMMA EndedLinked ==
    ASSUME NEW k, NEW x, Ended(k, x)
    PROVE  CallInv(x) /\ Linked(x)
  BY DEF Ended, Linked, Joined

LEMMA GoesOnLinked ==
    ASSUME NEW k, NEW r \in Refreshes, NEW x, GoesOn(k, r, task[r], x),
           task[r].phase # "unused", UserOfTask(r) = UserOf[k.session]
    PROVE  CallInv(x) /\ Linked(x)
  BY DEF GoesOn, Linked, Joined, Alive, Done

LEMMA NewTaskInv ==
    ASSUME NEW s \in Sessions
    PROVE  /\ TaskInv(NewTask(s)) /\ NewTask(s).session = s
           /\ NewTask(s).phase = "running"
  <1>1. /\ NewTask(s) \in Tasks /\ NewTask(s).session = s /\ NewTask(s).phase = "running"
        /\ NewTask(s).latest = None
    BY DEF NewTask, NoTask, Tasks, Phases
  <1> QED
    BY <1>1 DEF TaskInv, Done

LEMMA StartIInv ==
    ASSUME IInv, NEW c \in Callers, call[c].session \in Sessions, StartAndJoin(c)
    PROVE  IInv'
  <1> DEFINE s == call[c].session
             u == UserOf[s]
             t == NewTask(s)
  <1>1. PICK r \in Free :
           /\ task' = [task EXCEPT ![r] = t]
           /\ refreshes' = [refreshes EXCEPT ![u] = r]
           /\ call' = [call EXCEPT ![c] = Join(call[c], r, t, cache[u])]
           /\ UNCHANGED <<sessions, revoked, cache, failures>>
    BY DEF StartAndJoin
  <1>2. r \in Refreshes /\ ~Alive(r) /\ \A d \in Callers : call[d].refresh # r
    BY <1>1 DEF Free, Alive
  <1>3. u \in Users /\ EntryInv(u, cache[u]) /\ call[c] \in Calls /\ CallInv(call[c])
    BY UserOfAssumption DEF IInv, TypeOK
  <1>4. TaskInv(t) /\ t.session = s /\ t.phase = "running"
    BY NewTaskInv
  <1> DEFINE x == Join(call[c], r, t, cache[u])
  <1>5. GoesOn(call[c], r, t, x)
    BY <1>2, <1>3, <1>4, JoinInv
  <1> HIDE DEF t, x
  <1>6. task'[r] = t /\ \A q \in Refreshes \ {r} : task'[q] = task[q]
    BY <1>1, <1>2 DEF IInv, TypeOK
  <1>7. call'[c] = x /\ \A d \in Callers \ {c} : call'[d] = call[d]
    BY <1>1 DEF IInv, TypeOK, x, t
  <1>8. TypeOK'
    <2>1. task' \in [Refreshes -> Tasks]
      BY <1>1, <1>2, <1>4 DEF IInv, TypeOK, TaskInv
    <2>2. call' \in [Callers -> Calls]
      BY <1>1, <1>5 DEF IInv, TypeOK, GoesOn, CallInv, x, t
    <2>3. refreshes' \in [Users -> Refreshes \cup {None}]
      BY <1>1, <1>2, <1>3 DEF IInv, TypeOK
    <2> QED
      BY <1>1, <2>1, <2>2, <2>3 DEF IInv, TypeOK
  <1>9. \A d \in Callers : CallInv(call'[d]) /\ Linked(call[d])'
    <2> TAKE d \in Callers
    <2>1. CASE d = c
      BY <1>2, <1>4, <1>5, <1>6, <1>7, <2>1 DEF GoesOn, Linked, Joined, UserOfTask, Alive
    <2>2. CASE d # c
      <3>1. CallInv(call[d]) /\ Linked(call[d]) /\ call'[d] = call[d] /\ call[d].refresh # r
        BY <1>2, <1>7, <2>2 DEF IInv
      <3>2. CASE call[d].pc \in Joined
        BY <1>6, <3>1, <3>2 DEF CallInv, Linked, UserOfTask, Alive
      <3>3. CASE call[d].pc \notin Joined
        BY <3>1, <3>3 DEF Linked, Joined
      <3> QED
        BY <3>1, <3>2, <3>3
    <2> QED
      BY <2>1, <2>2
  <1>10. RegisteredIsAlive'
    <2> SUFFICES ASSUME NEW v \in Users, refreshes'[v] # None
                 PROVE  (Alive(refreshes[v]) /\ UserOfTask(refreshes[v]) = v)'
      BY DEF RegisteredIsAlive
    <2>1. CASE v = u
      <3>1. refreshes'[v] = r
        BY <1>1, <1>3, <2>1 DEF IInv, TypeOK
      <3> QED
        BY <1>4, <1>6, <2>1, <3>1 DEF Alive, UserOfTask
    <2>2. CASE v # u
      <3>1. refreshes'[v] = refreshes[v] /\ refreshes[v] \in Refreshes
        BY <1>1, <2>2 DEF IInv, TypeOK
      <3>2. Alive(refreshes[v]) /\ UserOfTask(refreshes[v]) = v
        BY <3>1 DEF IInv, RegisteredIsAlive
      <3>3. refreshes[v] # r
        BY <1>2, <3>2
      <3> QED
        BY <1>6, <3>1, <3>2, <3>3 DEF Alive, UserOfTask
    <2> QED
      BY <2>1, <2>2
  <1>11. \A q \in Refreshes : TaskInv(task'[q])
    BY <1>4, <1>6 DEF IInv
  <1>12. \A v \in Users : EntryInv(v, cache'[v])
    BY <1>1 DEF IInv
  <1> QED
    BY <1>8, <1>9, <1>10, <1>11, <1>12 DEF IInv

LEMMA DecideIInv ==
    ASSUME IInv, NEW c \in Callers, call[c].session \in Sessions,
           NEW cached, cached # None => cached = Complete(UserOfCall(c)),
           Decide(c, cached)
    PROVE  IInv'
  <1> DEFINE u == UserOfCall(c)
  <1>1. u \in Users /\ u = UserOf[call[c].session] /\ EntryInv(u, cache[u])
        /\ call[c] \in Calls /\ CallInv(call[c]) /\ failures[u] \in ApplicationErrors \cup {None}
    BY UserOfAssumption DEF IInv, TypeOK, UserOfCall
  <1> HIDE DEF u
  <1>2. CASE /\ cached # None
             /\ call' = [call EXCEPT ![c] = Serve(@, cached, None)]
             /\ UNCHANGED <<sessions, revoked, cache, refreshes, failures, task>>
    <2> DEFINE x == Serve(call[c], cached, None)
    <2>1. call' = [call EXCEPT ![c] = x]
      BY <1>2
    <2>2. Ended(call[c], x)
      BY <1>1, <1>2, ServeInv, CompleteType DEF u
    <2> HIDE DEF x
    <2> QED
      BY <1>2, <2>1, <2>2, EndedLinked, CallChanges
  <1>3. CASE /\ Cooling(u)
             /\ call' = [call EXCEPT ![c] =
                  IF @.mode = "warm" THEN Raise(@, failures[u])
                                     ELSE StaleOrRaise(@, failures[u], cache[u])]
             /\ UNCHANGED <<sessions, revoked, cache, refreshes, failures, task>>
    <2> DEFINE x == IF call[c].mode = "warm" THEN Raise(call[c], failures[u])
                                              ELSE StaleOrRaise(call[c], failures[u], cache[u])
    <2>1. call' = [call EXCEPT ![c] = x]
      BY <1>3
    <2>2. failures[u] \in Errors
      BY <1>1, <1>3 DEF Cooling, Errors
    <2>3. Ended(call[c], x)
      BY <1>1, <2>2, RaiseInv, StaleOrRaiseInv
    <2> HIDE DEF x
    <2> QED
      BY <1>3, <2>1, <2>3, EndedLinked, CallChanges
  <1>4. CASE StartAndJoin(c)
    BY <1>4, StartIInv
  <1> QED
    BY <1>2, <1>3, <1>4 DEF Decide, u

LEMMA FreshInv ==
    ASSUME NEW u \in Users, EntryInv(u, cache[u]), Fresh(u) # None
    PROVE  Fresh(u) = Complete(u)
  BY DEF Fresh, EntryInv

LEMMA CallerIInv ==
    ASSUME IInv, NEW c \in Callers, CallerStep(c)
    PROVE  IInv'
  <1> DEFINE k == call[c]
             u == UserOfCall(c)
  <1>1. k \in Calls /\ CallInv(k) /\ Linked(k)
    BY DEF IInv, TypeOK
  <1>2. ASSUME k.pc # "idle"
        PROVE  k.session \in Sessions /\ u \in Users /\ u = UserOf[k.session] /\ EntryInv(u, cache[u])
    BY <1>1, <1>2, UserOfAssumption DEF CallInv, UserOfCall, IInv
  <1> HIDE DEF k, u
  \* A call that has joined refresh r.
  <1>3. ASSUME NEW r, r = k.refresh, k.pc \in Joined
        PROVE  /\ r \in Refreshes /\ TaskInv(task[r]) /\ task[r].phase # "unused"
               /\ UserOf[task[r].session] = UserOf[k.session]
    BY <1>1, <1>3 DEF CallInv, Linked, UserOfTask, IInv
  <1>4. CASE Enter(c)
    <2>0. k.pc = "resolved"
      BY <1>4 DEF Enter, k
    <2>1. CASE /\ InFlight(c) # None
               /\ call' = [call EXCEPT ![c] = Join(@, InFlight(c), task[InFlight(c)], cache[u])]
               /\ UNCHANGED <<sessions, revoked, cache, refreshes, failures, task>>
      <3> DEFINE r == InFlight(c)
                 x == Join(k, r, task[r], cache[u])
      <3>1. r \in Refreshes /\ Alive(r) /\ UserOfTask(r) = u
        BY <1>2, <2>0, <2>1 DEF InFlight, IInv, TypeOK, RegisteredIsAlive, u
      <3>2. TaskInv(task[r]) /\ task[r].phase # "unused" /\ UserOf[task[r].session] = u
        BY <3>1 DEF IInv, Alive, UserOfTask
      <3>3. GoesOn(k, r, task[r], x)
        BY <1>1, <1>2, <2>0, <3>1, <3>2, JoinInv
      <3>4. call' = [call EXCEPT ![c] = x]
        BY <2>1 DEF k
      <3> HIDE DEF x, r
      <3>5. CallInv(x) /\ Linked(x)
        BY <1>2, <2>0, <3>1, <3>2, <3>3, GoesOnLinked
      <3> QED
        BY <2>1, <3>4, <3>5, CallChanges
    <2>2. CASE StartAndJoin(c)
      BY <1>2, <2>0, <2>2, StartIInv DEF k
    <2>3. CASE Decide(c, Fresh(u))
      BY <1>2, <2>0, <2>3, FreshInv, DecideIInv DEF k, u
    <2>4. CASE /\ CacheYields
               /\ call' = [call EXCEPT ![c].pc = "lookup"]
               /\ UNCHANGED <<sessions, revoked, cache, refreshes, failures, task>>
      <3> DEFINE x == [k EXCEPT !.pc = "lookup"]
      <3>1. call' = [call EXCEPT ![c] = x]
        BY <2>4 DEF k
      <3>2. CallInv(x) /\ Linked(x)
        BY <1>1, <1>2, <2>0, <2>4 DEF CallInv, HonestlyStale, Calls, Locations, Joined, Linked
      <3> QED
        BY <2>4, <3>1, <3>2, CallChanges
    <2> QED
      BY <1>4, <2>1, <2>2, <2>3, <2>4 DEF Enter, u
  <1>5. CASE Lookup(c)
    <2> DEFINE x == [k EXCEPT !.pc = "decide", !.cached = Fresh(u)]
    <2>0. k.pc = "lookup"
      BY <1>5 DEF Lookup, k
    <2>1. call' = [call EXCEPT ![c] = x]
      BY <1>5 DEF Lookup, k, u
    <2>2. Fresh(u) # None => Fresh(u) = Complete(u) /\ Complete(u) \in Overviews
      BY <1>2, <2>0, FreshInv, CompleteType
    <2>3. /\ x \in Calls /\ x.pc = "decide" /\ x.cached = Fresh(u)
          /\ x.session = k.session /\ x.mode = k.mode /\ x.out = k.out
      BY <1>1, <2>2 DEF Calls, Locations
    <2>4. CallInv(x) /\ Linked(x)
      BY <1>1, <1>2, <2>0, <2>2, <2>3 DEF CallInv, HonestlyStale, Joined, Linked
    <2> QED
      BY <1>5, <2>1, <2>4, CallChanges DEF Lookup
  <1>6. CASE Resume(c)
    <2>1. k.pc = "decide" /\ Decide(c, k.cached)
      BY <1>6 DEF Resume, k
    <2>2. k.cached # None => k.cached = Complete(u)
      BY <1>1, <1>2, <2>1 DEF CallInv
    <2> QED
      BY <1>2, <2>1, <2>2, DecideIInv DEF k, u
  <1>7. CASE GetStale(c)
    <2> DEFINE x == StaleEntry(k, "Outage", cache[u])
    <2>0. k.pc = "get_stale" /\ k.error = "Outage" /\ k.mode # "warm"
      BY <1>1, <1>7 DEF GetStale, k, CallInv
    <2>1. call' = [call EXCEPT ![c] = x]
      BY <1>7, <2>0 DEF GetStale, k, u
    <2>2. Ended(k, x)
      BY <1>1, <1>2, <2>0, StaleEntryInv
    <2> HIDE DEF x
    <2> QED
      BY <1>7, <2>1, <2>2, EndedLinked, CallChanges DEF GetStale
  <1>8. CASE Wait(c)
    <2> DEFINE r == k.refresh
               x == Completed(k, task[r], cache[u])
    <2>0. k.pc = "waiting" /\ Done(task[r])
      BY <1>8 DEF Wait, Done, k
    <2>1. call' = [call EXCEPT ![c] = x]
      BY <1>8 DEF Wait, k, u
    <2>2. Ended(k, x)
      BY <1>1, <1>2, <1>3, <2>0, CompletedInv DEF Joined
    <2> HIDE DEF x
    <2> QED
      BY <1>8, <2>1, <2>2, EndedLinked, CallChanges DEF Wait
  <1>9. CASE Woken(c)
    <2> DEFINE r == k.refresh
               x == StreamLoop(k, task[r], cache[u])
    <2>0. k.pc = "woken" /\ k.pc \in Joined /\ k.mode = "stream"
      BY <1>1, <1>9 DEF Woken, k, Joined, CallInv
    <2>1. call' = [call EXCEPT ![c] = x]
      BY <1>9 DEF Woken, k, u
    <2>2. GoesOn(k, r, task[r], x)
      BY <1>1, <1>2, <1>3, <2>0, StreamLoopInv
    <2> HIDE DEF x
    <2>3. CallInv(x) /\ Linked(x)
      BY <1>3, <2>0, <2>2, GoesOnLinked DEF UserOfTask
    <2> QED
      BY <1>9, <2>1, <2>3, CallChanges DEF Woken
  <1>10. CASE Yielded(c)
    <2> DEFINE r == k.refresh
               x == StreamWait(k, task[r], cache[u])
    <2>0. k.pc = "yielded" /\ k.pc \in Joined /\ k.mode = "stream"
      BY <1>1, <1>10 DEF Yielded, k, Joined, CallInv
    <2>1. call' = [call EXCEPT ![c] = x]
      BY <1>10 DEF Yielded, k, u
    <2>2. GoesOn(k, r, task[r], x)
      BY <1>1, <1>2, <1>3, <2>0, StreamWaitInv
    <2> HIDE DEF x
    <2>3. CallInv(x) /\ Linked(x)
      BY <1>3, <2>0, <2>2, GoesOnLinked DEF UserOfTask
    <2> QED
      BY <1>10, <2>1, <2>3, CallChanges DEF Yielded
  <1>11. CASE Leave(c)
    <2>1. CallInv(NoCall) /\ Linked(NoCall)
      BY DEF NoCall, Calls, CallInv, HonestlyStale, Nothing, Answers, Locations, Modes, Joined, Linked
    <2> QED
      BY <1>11, <2>1, CallChanges DEF Leave
  <1> QED
    BY <1>4, <1>5, <1>6, <1>7, <1>8, <1>9, <1>10, <1>11 DEF CallerStep

-----------------------------------------------------------------------------
(* The steps of a refresh *)

LEMMA PublishedInv ==
    ASSUME NEW t, TaskInv(t), t.phase # "unused", NEW overview \in Overviews,
           overview.owner = UserOf[t.session],
           Done(t) => t.outcome # "ok"
    PROVE  LET x == Published(t, overview)
           IN /\ TaskInv(x) /\ x.phase = t.phase /\ x.session = t.session
              /\ x.latest = overview /\ x.outcome = t.outcome
  <1> DEFINE x == Published(t, overview)
  <1>1. /\ x \in Tasks /\ x.phase = t.phase /\ x.session = t.session
        /\ x.latest = overview /\ x.outcome = t.outcome
    <2>1. t \in Tasks /\ t.version + 1 \in Nat
      BY DEF TaskInv, Tasks
    <2>2. x = [t EXCEPT !.latest = overview, !.version = t.version + 1, !.changed = FALSE]
      BY <2>1 DEF Published, Tasks
    <2> QED
      BY <2>1, <2>2 DEF Tasks
  <1> QED
    BY <1>1 DEF TaskInv, Done

LEMMA ReturnedInv ==
    ASSUME NEW t, TaskInv(t), t.phase # "unused"
    PROVE  LET x == Returned(t, Complete(UserOf[t.session]))
           IN TaskInv(x) /\ x.phase = "done" /\ x.session = t.session
  <1> DEFINE o == Complete(UserOf[t.session])
             y == Published(t, o)
             x == Returned(t, o)
  <1>1. o \in Overviews /\ o.owner = UserOf[t.session]
    BY CompleteType, UserOfAssumption DEF TaskInv
  <1> HIDE DEF o
  <1>2. y \in Tasks /\ y.session = t.session /\ y.latest = o
    <2>1. t \in Tasks /\ t.version + 1 \in Nat
      BY DEF TaskInv, Tasks
    <2>2. y = [t EXCEPT !.latest = o, !.version = t.version + 1, !.changed = FALSE]
      BY <2>1 DEF Published, Tasks
    <2> QED
      BY <1>1, <2>1, <2>2 DEF Tasks
  <1> HIDE DEF y
  <1>3. x = [y EXCEPT !.phase = "done", !.outcome = "ok"]
    BY DEF Returned, y
  <1> HIDE DEF x
  <1>4. /\ x \in Tasks /\ x.phase = "done" /\ x.outcome = "ok"
        /\ x.session = t.session /\ x.latest = o
    BY <1>2, <1>3 DEF Tasks, Phases
  <1>5. TaskInv(x)
    BY <1>1, <1>4 DEF TaskInv, Done, o
  <1> QED
    BY <1>4, <1>5 DEF x, o

\* A refresh whose task ends with an error ...
LEMMA EndsInv ==
    ASSUME NEW t, TaskInv(t), t.phase # "unused", NEW error \in Errors
    PROVE  LET x == [t EXCEPT !.phase = "done", !.outcome = error]
           IN TaskInv(x) /\ x.phase = "done" /\ x.session = t.session
  <1> DEFINE x == [t EXCEPT !.phase = "done", !.outcome = error]
  <1>1. /\ x \in Tasks /\ x.phase = "done" /\ x.outcome = error
        /\ x.session = t.session /\ x.latest = t.latest
    BY DEF TaskInv, Tasks, Phases
  <1>2. error # "ok"
    BY DEF Errors, ApplicationErrors
  <1> HIDE DEF x
  <1>3. TaskInv(x)
    BY <1>1, <1>2 DEF TaskInv, Done
  <1> QED
    BY <1>1, <1>3 DEF x

\* ... or moves on without publishing.
LEMMA MovesInv ==
    ASSUME NEW t, TaskInv(t), t.phase # "unused",
           NEW phase \in {"unauthorized", "invalidated", "stored"}
    PROVE  LET x == [t EXCEPT !.phase = phase]
           IN TaskInv(x) /\ x.phase = phase /\ x.session = t.session
  <1> DEFINE x == [t EXCEPT !.phase = phase]
  <1>1. /\ x \in Tasks /\ x.phase = phase
        /\ x.session = t.session /\ x.latest = t.latest
    BY DEF TaskInv, Tasks, Phases
  <1> HIDE DEF x
  <1>2. TaskInv(x)
    BY <1>1 DEF TaskInv, Done
  <1> QED
    BY <1>1, <1>2 DEF x

LEMMA FinishIInv ==
    ASSUME IInv, NEW r \in Refreshes, Finish(r)
    PROVE  IInv'
  <1> DEFINE u == UserOfTask(r)
             t == [task[r] EXCEPT !.phase = "finished", !.changed = TRUE]
  <1>0. /\ task[r].phase = "done" /\ TaskInv(task[r]) /\ task[r] \in Tasks
        /\ task' = [task EXCEPT ![r] = t] /\ refreshes' = Unregistered(u, r)
        /\ call' = Wake(r) /\ failures' = Remembered(u, task[r].outcome)
        /\ UNCHANGED <<sessions, revoked, cache>>
    BY DEF Finish, IInv, TypeOK
  <1>1. u \in Users
    BY <1>0, UserOfAssumption DEF TaskInv, UserOfTask
  <1>2. /\ t \in Tasks /\ t.phase = "finished" /\ t.session = task[r].session
        /\ t.latest = task[r].latest /\ t.outcome = task[r].outcome
    BY <1>0 DEF Tasks, Phases
  <1>3. TaskInv(t)
    BY <1>0, <1>2 DEF TaskInv, Done
  <1> HIDE DEF t
  <1>4. task'[r] = t /\ \A q \in Refreshes \ {r} : task'[q] = task[q]
    BY <1>0 DEF IInv, TypeOK
  <1>5. \A q \in Refreshes : TaskInv(task'[q])
    BY <1>3, <1>4 DEF IInv
  <1>6. failures' \in [Users -> ApplicationErrors \cup {None}]
    <2>1. task[r].outcome \in Errors \cup {"ok"}
      BY <1>0 DEF TaskInv, Done
    <2> QED
      BY <1>0, <1>1, <2>1 DEF IInv, TypeOK, Remembered, Errors, ApplicationErrors
  <1>7. \A c \in Callers :
          /\ CallInv(call'[c])
          /\ call'[c].session = call[c].session /\ call'[c].refresh = call[c].refresh
          /\ \/ call'[c].pc = call[c].pc
             \/ call'[c].pc = "woken" /\ call[c].pc = "listening"
          /\ call'[c].pc = "listening" => call[c].refresh # r
    <2> TAKE c \in Callers
    <2>1. CASE call[c].pc = "listening" /\ call[c].refresh = r
      <3> DEFINE x == [call[c] EXCEPT !.pc = "woken"]
      <3>1. call'[c] = x
        BY <1>0, <2>1 DEF Wake
      <3>2. CallInv(call[c]) /\ call[c] \in Calls
        BY DEF IInv, TypeOK
      <3>3. /\ x \in Calls /\ x.pc = "woken" /\ x.refresh = call[c].refresh
            /\ x.session = call[c].session /\ x.mode = call[c].mode
            /\ x.cached = call[c].cached /\ x.out = call[c].out
        BY <3>2 DEF Calls, Locations
      <3> QED
        BY <2>1, <3>1, <3>2, <3>3 DEF CallInv, HonestlyStale, Joined
    <2>2. CASE ~(call[c].pc = "listening" /\ call[c].refresh = r)
      BY <1>0, <2>2 DEF Wake, IInv
    <2> QED
      BY <2>1, <2>2
  <1>8. TypeOK'
    <2>1. call' \in [Callers -> Calls]
      BY <1>0, <1>7 DEF Wake, CallInv
    <2>2. task' \in [Refreshes -> Tasks]
      BY <1>0, <1>2 DEF IInv, TypeOK
    <2>3. refreshes' \in [Users -> Refreshes \cup {None}]
      BY <1>0, <1>1 DEF IInv, TypeOK, Unregistered
    <2> QED
      BY <1>0, <1>6, <2>1, <2>2, <2>3 DEF IInv, TypeOK
  <1>9. \A c \in Callers : Linked(call[c])'
    <2> TAKE c \in Callers
    <2>1. CASE call'[c].pc \in Joined
      <3>1. call[c].pc \in Joined /\ call[c].refresh \in Refreshes
        BY <1>7, <2>1 DEF IInv, CallInv, Joined
      <3>2. /\ task[call[c].refresh].phase # "unused"
            /\ UserOfTask(call[c].refresh) = UserOf[call[c].session]
            /\ call[c].pc = "listening" => Alive(call[c].refresh)
        BY <3>1 DEF IInv, Linked
      <3> QED
        BY <1>2, <1>4, <1>7, <2>1, <3>1, <3>2 DEF Linked, UserOfTask, Alive, Joined
    <2>2. CASE call'[c].pc \notin Joined
      BY <1>7, <2>2 DEF IInv, Linked, Joined
    <2> QED
      BY <2>1, <2>2
  <1>10. RegisteredIsAlive'
    <2> SUFFICES ASSUME NEW v \in Users, refreshes'[v] # None
                 PROVE  (Alive(refreshes[v]) /\ UserOfTask(refreshes[v]) = v)'
      BY DEF RegisteredIsAlive
    <2>1. refreshes'[v] = refreshes[v] /\ refreshes[v] \in Refreshes
      BY <1>0, <1>1 DEF IInv, TypeOK, Unregistered
    <2>2. Alive(refreshes[v]) /\ UserOfTask(refreshes[v]) = v
      BY <2>1 DEF IInv, RegisteredIsAlive
    <2>3. refreshes[v] # r
      BY <1>0, <1>1, <2>1, <2>2 DEF IInv, TypeOK, Unregistered
    <2> QED
      BY <1>4, <2>1, <2>2, <2>3 DEF Alive, UserOfTask
  <1>11. \A v \in Users : EntryInv(v, cache'[v])
    BY <1>0 DEF IInv
  <1> QED
    BY <1>5, <1>7, <1>8, <1>9, <1>10, <1>11 DEF IInv

LEMMA TaskIInv ==
    ASSUME IInv, NEW r \in Refreshes, TaskStep(r) \/ PublishOrphan(r)
    PROVE  IInv'
  <1> DEFINE t == task[r]
             u == UserOfTask(r)
  <1>1. TaskInv(t) /\ t \in Tasks
    BY DEF IInv, TypeOK
  <1>2. ASSUME t.phase # "unused"
        PROVE  /\ u \in Users /\ u = UserOf[t.session]
               /\ Partial(u) \in Overviews /\ Partial(u).owner = UserOf[t.session]
    BY <1>1, <1>2, UserOfAssumption, CompleteType DEF TaskInv, UserOfTask
  <1>3. Alive(r) <=> t.phase \notin {"unused", "finished"}
    BY DEF Alive
  <1>4. sessions \in [Sessions -> {"none", "live"}]
    BY DEF IInv, TypeOK
  <1> HIDE DEF t
  <1>5. CASE Publish(r) \/ PublishOrphan(r)
    <2> DEFINE x == Published(t, Partial(u))
    <2>1. /\ t.phase # "unused"
          /\ Done(t) => t.outcome # "ok"
      BY <1>5 DEF Publish, PublishOrphan, t, Done
    <2>2. TaskInv(x) /\ x.phase = t.phase /\ x.session = t.session
      BY <1>1, <1>2, <2>1, PublishedInv
    <2>3. /\ task' = [task EXCEPT ![r] = x] /\ call' = Wake(r)
          /\ UNCHANGED <<sessions, revoked, cache, refreshes, failures>>
      BY <1>5 DEF Publish, PublishOrphan, t
    <2> HIDE DEF x
    <2> QED
      BY <1>3, <1>4, <2>1, <2>2, <2>3, TaskChanges DEF t
  <1>6. ASSUME NEW error \in {"Outage", "Bug"}, Fail(r, error)
        PROVE  IInv'
    <2> DEFINE x == [t EXCEPT !.phase = "done", !.outcome = error]
    <2>1. /\ t.phase = "running" /\ task' = [task EXCEPT ![r] = x]
          /\ UNCHANGED <<sessions, revoked, cache, refreshes, failures, call>>
      BY <1>6 DEF Fail, t
    <2>2. t.phase # "unused" /\ error \in Errors
      BY <1>6, <2>1 DEF Errors, ApplicationErrors
    <2>3. TaskInv(x) /\ x.phase = "done" /\ x.session = t.session
      BY <1>1, <2>2, EndsInv
    <2> HIDE DEF x
    <2> QED
      BY <1>4, <2>1, <2>2, <2>3, TaskChanges DEF t
  <1>7. CASE Unauthorized(r)
    <2> DEFINE x == [t EXCEPT !.phase = "unauthorized"]
    <2>1. /\ t.phase = "running" /\ task' = [task EXCEPT ![r] = x]
          /\ sessions' \in [Sessions -> {"none", "live"}]
          /\ UNCHANGED <<revoked, cache, refreshes, failures, call>>
      BY <1>4, <1>7 DEF Unauthorized, t
    <2>2. TaskInv(x) /\ x.phase = "unauthorized" /\ x.session = t.session
      BY <1>1, <2>1, MovesInv
    <2> HIDE DEF x
    <2> QED
      BY <2>1, <2>2, TaskChanges DEF t
  <1>8. ASSUME NEW x, x = Refused(t), t.phase \in {"unauthorized", "invalidated"}
        PROVE  TaskInv(x) /\ x.phase = "done" /\ x.session = t.session
    BY <1>1, <1>8, EndsInv DEF Refused, Errors, ApplicationErrors
  <1>9. CASE Invalidate(r)
    <2> DEFINE x == IF CacheYields THEN [t EXCEPT !.phase = "invalidated"] ELSE Refused(t)
    <2>1. /\ t.phase = "unauthorized" /\ task' = [task EXCEPT ![r] = x]
          /\ cache' = [cache EXCEPT ![u] = None]
          /\ UNCHANGED <<sessions, revoked, refreshes, failures, call>>
      BY <1>9 DEF Invalidate, t
    <2>2. TaskInv(x) /\ x.phase \in {"invalidated", "done"} /\ x.session = t.session
      <3>1. CASE CacheYields
        BY <1>1, <2>1, <3>1, MovesInv
      <3>2. CASE ~CacheYields
        BY <1>8, <2>1, <3>2
      <3> QED
        BY <3>1, <3>2
    <2>3. EntryInv(u, None)
      BY DEF EntryInv
    <2> HIDE DEF x
    <2> QED
      BY <1>4, <2>1, <2>2, <2>3, TaskChanges DEF t
  <1>10. CASE RaiseRefused(r)
    <2> DEFINE x == Refused(t)
    <2>1. /\ t.phase = "invalidated" /\ task' = [task EXCEPT ![r] = x]
          /\ UNCHANGED <<sessions, revoked, cache, refreshes, failures, call>>
      BY <1>10 DEF RaiseRefused, t
    <2>2. TaskInv(x) /\ x.phase = "done" /\ x.session = t.session
      BY <1>8, <2>1
    <2> HIDE DEF x
    <2> QED
      BY <1>4, <2>1, <2>2, TaskChanges DEF t
  <1>11. ASSUME NEW x, x = Returned(t, Result(r)), t.phase \in {"running", "stored"}
         PROVE  TaskInv(x) /\ x.phase = "done" /\ x.session = t.session
    <2>1. Result(r) = Complete(UserOf[t.session])
      BY DEF Result, UserOfTask, t
    <2> QED
      BY <1>1, <1>11, <2>1, ReturnedInv
  <1>12. CASE Store(r)
    <2> DEFINE x == IF CacheYields THEN [t EXCEPT !.phase = "stored"] ELSE Returned(t, Result(r))
               e == [overview |-> Result(r), fresh |-> TRUE]
    <2>1. /\ t.phase = "running" /\ task' = [task EXCEPT ![r] = x]
          /\ cache' = [cache EXCEPT ![u] = e]
          /\ call' = call \/ call' = Wake(r)
          /\ UNCHANGED <<sessions, revoked, refreshes, failures>>
      BY <1>12 DEF Store, t
    <2>2. TaskInv(x) /\ x.phase \in {"stored", "done"} /\ x.session = t.session
      <3>1. CASE CacheYields
        BY <1>1, <2>1, <3>1, MovesInv
      <3>2. CASE ~CacheYields
        BY <1>11, <2>1, <3>2
      <3> QED
        BY <3>1, <3>2
    <2>3. EntryInv(u, e) /\ e \in Entries
      BY <1>2, <2>1, CompleteType DEF EntryInv, Entries, Result
    <2> HIDE DEF x, e
    <2> QED
      BY <1>4, <2>1, <2>2, <2>3, TaskChanges DEF t
  <1>13. CASE Return(r)
    <2> DEFINE x == Returned(t, Result(r))
    <2>1. /\ t.phase = "stored" /\ task' = [task EXCEPT ![r] = x] /\ call' = Wake(r)
          /\ UNCHANGED <<sessions, revoked, cache, refreshes, failures>>
      BY <1>13 DEF Return, t
    <2>2. TaskInv(x) /\ x.phase = "done" /\ x.session = t.session
      BY <1>11, <2>1
    <2> HIDE DEF x
    <2> QED
      BY <1>4, <2>1, <2>2, TaskChanges DEF t
  <1>14. CASE Finish(r)
    BY <1>14, FinishIInv
  <1> QED
    BY <1>5, <1>6, <1>7, <1>9, <1>10, <1>12, <1>13, <1>14 DEF TaskStep

-----------------------------------------------------------------------------
(* Everything else, and the theorems *)

LEMMA WorldIInv ==
    ASSUME IInv,
           \/ \E s \in Sessions : Login(s) \/ Logout(s) \/ Lapse(s) \/ Revoke(s)
           \/ \E u \in Users : Expire(u) \/ CoolDown(u)
    PROVE  IInv'
  <1>1. /\ UNCHANGED <<refreshes, task, call>>
        /\ sessions' \in [Sessions -> {"none", "live"}]
        /\ revoked' \in SUBSET Sessions
        /\ failures' \in [Users -> ApplicationErrors \cup {None}]
    BY DEF IInv, TypeOK, Login, Logout, Lapse, Revoke, Expire, CoolDown
  <1>2. cache' \in [Users -> Entries \cup {None}] /\ \A v \in Users : EntryInv(v, cache'[v])
    <2>1. CASE UNCHANGED cache
      BY <2>1 DEF IInv, TypeOK
    <2>2. ASSUME NEW u \in Users, cache' = [cache EXCEPT ![u] = None]
          PROVE  <1>2!:
      BY <2>2 DEF IInv, TypeOK, EntryInv
    <2>3. ASSUME NEW u \in Users, cache[u] # None,
                 cache' = [cache EXCEPT ![u] = [@ EXCEPT !.fresh = FALSE]]
          PROVE  <1>2!:
      <3>1. cache[u] \in Entries /\ EntryInv(u, cache[u])
        BY <2>3 DEF IInv, TypeOK
      <3> DEFINE e == [cache[u] EXCEPT !.fresh = FALSE]
      <3>2. e \in Entries /\ e.overview = cache[u].overview
        BY <3>1 DEF Entries
      <3>3. cache' = [cache EXCEPT ![u] = e]
        BY <2>3
      <3> HIDE DEF e
      <3> QED
        BY <2>3, <3>1, <3>2, <3>3 DEF IInv, TypeOK, EntryInv
    <2> QED
      BY <2>1, <2>2, <2>3, UserOfAssumption DEF Login, Logout, Lapse, Revoke, Expire, CoolDown
  <1>3. TypeOK'
    BY <1>1, <1>2 DEF IInv, TypeOK
  <1>4. \A k : Linked(k) => Linked(k)'
    BY <1>1 DEF Linked, UserOfTask, Alive
  <1> QED
    BY <1>1, <1>2, <1>3, <1>4 DEF IInv, RegisteredIsAlive, UserOfTask, Alive

LEMMA ResolveIInv ==
    ASSUME IInv, NEW c \in Callers,
           \/ \E s \in Sessions, req \in Requests : Resolve(c, s, req[1], req[2])
           \/ Disconnect(c)
    PROVE  IInv'
  <1>1. ASSUME NEW s \in Sessions, NEW req \in Requests, Resolve(c, s, req[1], req[2])
        PROVE  IInv'
    <2> DEFINE x == [NoCall EXCEPT !.pc = "resolved", !.session = s,
                                   !.mode = req[1], !.force = req[2]]
    <2>1. req[1] \in Modes /\ req[2] \in BOOLEAN
      BY RequestsAssumption DEF AllRequests
    <2>2. /\ x \in Calls /\ x.pc = "resolved" /\ x.session = s
          /\ x.cached = None /\ x.out = Nothing
      BY <2>1 DEF NoCall, Calls, Nothing, Answers, Locations, Modes
    <2>3. CallInv(x) /\ Linked(x)
      BY <2>2 DEF CallInv, HonestlyStale, Linked, Joined, Nothing
    <2>4. /\ call' = [call EXCEPT ![c] = x]
          /\ UNCHANGED <<sessions, revoked, cache, refreshes, failures, task>>
      BY <1>1 DEF Resolve
    <2> QED
      BY <2>3, <2>4, CallChanges
  <1>2. CASE Disconnect(c)
    <2>1. CallInv(NoCall) /\ Linked(NoCall)
      BY DEF NoCall, Calls, CallInv, HonestlyStale, Nothing, Answers, Locations, Modes, Joined, Linked
    <2> QED
      BY <1>2, <2>1, CallChanges DEF Disconnect
  <1> QED
    BY <1>1, <1>2

\* The invariant is inductive.
LEMMA NextIInv == IInv /\ [Next]_vars => IInv'
  <1> SUFFICES ASSUME IInv, [Next]_vars PROVE IInv'
    OBVIOUS
  <1>1. CASE UNCHANGED vars
    BY <1>1 DEF vars, IInv, TypeOK, Linked, RegisteredIsAlive, UserOfTask, Alive
  <1>2. CASE Next
    BY <1>2, ResolveIInv, CallerIInv, TaskIInv, WorldIInv DEF Next
  <1> QED
    BY <1>1, <1>2

THEOREM Invariance == Spec => []IInv
  BY InitIInv, NextIInv, PTL DEF Spec

\* The variables keep their types.
THEOREM TypeCorrect == Spec => []TypeOK
  BY Invariance, PTL DEF IInv

\* Nobody is ever handed a refresh that is over: what the registry names still
\* has its callback to run, and is the user's own.
THEOREM RegistryIsAlive == Spec => []RegisteredIsAlive
  BY Invariance, PTL DEF IInv

\* No account is ever shown another account's overview, and a caller that waits
\* is only ever given a complete one.
THEOREM AnswersAreOwn == Spec => []AnswersOwn
  <1>1. IInv => AnswersOwn
    BY DEF IInv, CallInv, AnswersOwn, UserOfCall
  <1> QED
    BY <1>1, Invariance, PTL

\* A subscriber that waits for the event is woken by the refresh's callback.
THEOREM NoWakeupIsLost == Spec => []NoLostWakeup
  <1>1. IInv => NoLostWakeup
    BY DEF IInv, Linked, NoLostWakeup
  <1> QED
    BY <1>1, Invariance, PTL

\* The callback of a refresh that another one has replaced in the registry leaves
\* its replacement registered.
THEOREM CallbacksUnregisterTheirOwn == Spec => OwnCallbackUnregisters
  <1> DEFINE Kept == \A u \in Users :
                refreshes[u] # None /\ refreshes'[u] = None => Done(task[refreshes[u]])
  <1>1. ASSUME IInv, [Next]_vars PROVE [Kept]_vars
    <2>1. refreshes \in [Users -> Refreshes \cup {None}]
      BY <1>1 DEF IInv, TypeOK
    <2>2. CASE UNCHANGED refreshes
      BY <2>2
    <2>3. ASSUME NEW c \in Callers, StartAndJoin(c)
          PROVE  Kept
      BY <2>1, <2>3, NoneAssumption DEF StartAndJoin, Free
    <2>4. ASSUME NEW c \in Callers,
                 \/ \E s \in Sessions, req \in Requests : Resolve(c, s, req[1], req[2])
                 \/ CallerStep(c) \/ Disconnect(c)
          PROVE  UNCHANGED refreshes \/ StartAndJoin(c)
      BY <2>4 DEF Resolve, CallerStep, Disconnect, Enter, Lookup, Resume, GetStale, Wait, Woken,
                  Yielded, Leave, Decide
    <2>5. ASSUME NEW r \in Refreshes, TaskStep(r) \/ PublishOrphan(r)
          PROVE  Kept
      <3>1. CASE Finish(r)
        BY <2>1, <3>1 DEF Finish, Unregistered, Done
      <3>2. CASE ~ Finish(r)
        BY <2>5, <3>2 DEF TaskStep, PublishOrphan, Publish, Fail, Unauthorized, Invalidate,
                          RaiseRefused, Store, Return
      <3> QED
        BY <3>1, <3>2
    <2>6. ASSUME \/ \E s \in Sessions : Login(s) \/ Logout(s) \/ Lapse(s) \/ Revoke(s)
                 \/ \E u \in Users : Expire(u) \/ CoolDown(u)
          PROVE  UNCHANGED refreshes
      BY <2>6 DEF Login, Logout, Lapse, Revoke, Expire, CoolDown
    <2>7. Kept \/ UNCHANGED vars
      BY <1>1, <2>2, <2>3, <2>4, <2>5, <2>6 DEF Next
    <2> QED
      BY <2>7
  <1> HIDE DEF Kept
  <1>2. Spec => [][Kept]_vars
    BY <1>1, Invariance, PTL DEF Spec
  <1> QED
    BY <1>2 DEF Kept, OwnCallbackUnregisters

-----------------------------------------------------------------------------
(* What a failed refresh is reported as *)

\* A call that is given its answer, of a task that has failed.
LEMMA StaleOrRaiseTells ==
    ASSUME NEW k \in Calls, NEW e, NEW t, t.outcome \in ApplicationErrors,
           StaleOrRaise(k, t.outcome, e).pc = "answered"
    PROVE  TellsOfFailure(t, StaleOrRaise(k, t.outcome, e).out)
  <1>1. t.outcome # None /\ "Outage" # None
    BY NoErrorAssumption DEF Errors, ApplicationErrors
  <1>2. CASE t.outcome # "Outage"
    BY <1>1, <1>2 DEF StaleOrRaise, Raise, Answer, TellsOfFailure, ApplicationErrors
  <1>3. CASE t.outcome = "Outage" /\ CacheYields
    <2>1. StaleOrRaise(k, t.outcome, e) = [k EXCEPT !.pc = "get_stale", !.error = "Outage"]
      BY <1>3 DEF StaleOrRaise
    <2>2. [k EXCEPT !.pc = "get_stale", !.error = "Outage"].pc = "get_stale"
      BY DEF Calls
    <2> QED
      BY <2>1, <2>2
  <1>4. CASE t.outcome = "Outage" /\ ~CacheYields
    BY <1>1, <1>4 DEF StaleOrRaise, StaleEntry, Serve, Given, Raise, Answer, TellsOfFailure
  <1> QED
    BY <1>2, <1>3, <1>4

LEMMA CompletedTells ==
    ASSUME NEW k \in Calls, NEW e, NEW t, t.outcome \in Errors,
           Completed(k, t, e).pc = "answered"
    PROVE  TellsOfFailure(t, Completed(k, t, e).out)
  <1>1. t.outcome # None /\ t.outcome # "ok"
    BY NoErrorAssumption DEF Errors, ApplicationErrors
  <1>2. CASE t.outcome = "Outage" /\ k.mode # "warm"
    BY <1>1, <1>2, StaleOrRaiseTells DEF Completed, ApplicationErrors
  <1>3. CASE ~(t.outcome = "Outage" /\ k.mode # "warm")
    BY <1>1, <1>3 DEF Completed, Raise, Answer, TellsOfFailure
  <1> QED
    BY <1>2, <1>3

LEMMA StreamWaitTells ==
    ASSUME NEW k \in Calls, NEW e, NEW t, Done(t), t.outcome \in Errors,
           StreamWait(k, t, e).pc = "answered"
    PROVE  TellsOfFailure(t, StreamWait(k, t, e).out)
  <1>1. StreamWait(k, t, e) = StreamEnd(k, t, e)
    BY DEF StreamWait
  <1>2. "Outage" # None
    BY NoErrorAssumption DEF Errors, ApplicationErrors
  <1>3. CASE t.outcome = "Bug"
    <2>1. StreamEnd(k, t, e) = Raise(k, "Outage")
      BY <1>3 DEF StreamEnd, ApplicationErrors
    <2> QED
      BY <1>1, <1>2, <1>3, <2>1 DEF Raise, Answer, TellsOfFailure
  <1>4. CASE t.outcome \in ApplicationErrors
    <2>1. StreamEnd(k, t, e) = StaleOrRaise(k, t.outcome, e)
      BY <1>4 DEF StreamEnd, ApplicationErrors
    <2> QED
      BY <1>1, <1>4, <2>1, StaleOrRaiseTells
  <1> QED
    BY <1>3, <1>4 DEF Errors

LEMMA StreamLoopTells ==
    ASSUME NEW k \in Calls, NEW e, NEW t, Done(t), t.outcome \in Errors,
           StreamLoop(k, t, e).pc = "answered"
    PROVE  TellsOfFailure(t, StreamLoop(k, t, e).out)
  <1>1. CASE t.version > k.seen /\ t.latest # None
    <2> DEFINE out == Given(t.latest, None)
    <2>1. StreamLoop(k, t, e) = [k EXCEPT !.pc = "yielded", !.seen = t.version, !.out = out]
      BY <1>1 DEF StreamLoop
    <2> HIDE DEF out
    <2>2. StreamLoop(k, t, e).pc = "yielded"
      BY <2>1 DEF Calls
    <2> QED
      BY <2>2
  <1>2. CASE ~(t.version > k.seen /\ t.latest # None)
    BY <1>2, StreamWaitTells DEF StreamLoop
  <1> QED
    BY <1>1, <1>2

LEMMA JoinTells ==
    ASSUME NEW k \in Calls, NEW r \in Refreshes, NEW e, NEW t, Done(t), t.outcome \in Errors,
           k.mode # "poll", Join(k, r, t, e).pc = "answered"
    PROVE  TellsOfFailure(t, Join(k, r, t, e).out)
  <1> DEFINE j == [k EXCEPT !.refresh = r, !.force = FALSE, !.cached = None]
  <1>1. j \in Calls
    BY DEF Calls
  <1>2. CASE k.mode = "stream"
    <2>1. Join(k, r, t, e) = StreamLoop(j, t, e)
      BY <1>2 DEF Join
    <2> HIDE DEF j
    <2> QED
      BY <1>1, <2>1, StreamLoopTells
  <1>3. CASE k.mode \in {"wait", "warm"}
    <2>1. Join(k, r, t, e) = Completed(j, t, e)
      BY <1>3 DEF Join
    <2> HIDE DEF j
    <2> QED
      BY <1>1, <2>1, CompletedTells
  <1> QED
    BY <1>2, <1>3 DEF Calls, Modes

\* A step that answers a call is its caller's own.
LEMMA CallersAnswer ==
    ASSUME IInv, [Next]_vars, NEW c \in Callers,
           call[c].pc # "answered", call'[c].pc = "answered"
    PROVE  CallerStep(c)
  <1>1. call \in [Callers -> Calls] /\ call[c].pc # call'[c].pc
    BY DEF IInv, TypeOK
  <1>2. ASSUME NEW d \in Callers, CallerStep(d) PROVE d = c
    <2>1. \E x : call' = [call EXCEPT ![d] = x]
      BY <1>1, <1>2 DEF CallerStep, Enter, Lookup, Resume, GetStale, Wait, Woken, Yielded, Leave,
                       Decide, StartAndJoin
    <2> QED
      BY <1>1, <2>1
  <1>3. ASSUME NEW d \in Callers,
               (\E s \in Sessions, req \in Requests : Resolve(d, s, req[1], req[2])) \/ Disconnect(d)
        PROVE  FALSE
    <2>1. \E x : call' = [call EXCEPT ![d] = x] /\ x.pc # "answered"
      BY <1>3 DEF Resolve, Disconnect, NoCall
    <2> QED
      BY <1>1, <2>1
  <1>4. ASSUME NEW r \in Refreshes, TaskStep(r) \/ PublishOrphan(r)
        PROVE  FALSE
    <2>1. call' = call \/ call' = Wake(r)
      BY <1>4 DEF TaskStep, PublishOrphan, Publish, Fail, Unauthorized, Invalidate, RaiseRefused,
                  Store, Return, Finish
    <2>2. Wake(r)[c].pc \in {call[c].pc, "woken"}
      BY <1>1 DEF Wake, Calls
    <2> QED
      BY <1>1, <2>1, <2>2
  <1>5. ASSUME \/ \E s \in Sessions : Login(s) \/ Logout(s) \/ Lapse(s) \/ Revoke(s)
               \/ \E u \in Users : Expire(u) \/ CoolDown(u)
        PROVE  FALSE
    BY <1>1, <1>5 DEF Login, Logout, Lapse, Revoke, Expire, CoolDown
  <1> QED
    BY <1>1, <1>2, <1>3, <1>4, <1>5 DEF Next, vars

LEMMA AnswerTells ==
    ASSUME IInv, [Next]_vars, NEW c \in Callers,
           call[c].pc # "answered", call'[c].pc = "answered",
           NEW r \in Refreshes, EndedBy(c) = r, call[c].mode # "poll",
           Done(task[r]), task[r].outcome # "ok"
    PROVE  TellsOfFailure(task[r], call'[c].out)
  <1> DEFINE t == task[r]
             e == cache[UserOfCall(c)]
  <1>1. /\ call[c] \in Calls /\ call \in [Callers -> Calls] /\ r # None
        /\ t.outcome \in Errors
    BY NoneAssumption DEF IInv, TypeOK, TaskInv
  <1>2. CallerStep(c)
    BY CallersAnswer
  <1>3. CASE call[c].pc = "resolved"
    <2>1. InFlight(c) = r /\ Enter(c)
      BY <1>1, <1>2, <1>3 DEF EndedBy, InFlight, CallerStep, Lookup, Resume, GetStale, Wait, Woken,
                             Yielded, Leave
    <2>2. call'[c] = Join(call[c], r, t, e)
      BY <1>1, <2>1 DEF Enter
    <2> QED
      BY <1>1, <2>2, JoinTells
  <1>4. CASE call[c].pc \in {"waiting", "woken", "yielded"}
    <2>1. call[c].refresh = r
      BY <1>4 DEF EndedBy
    <2>2. CASE call[c].pc = "waiting"
      <3>1. call'[c] = Completed(call[c], t, e)
        BY <1>1, <1>2, <2>1, <2>2 DEF CallerStep, Enter, Lookup, Resume, GetStale, Wait, Woken,
                                      Yielded, Leave
      <3> QED
        BY <1>1, <3>1, CompletedTells
    <2>3. CASE call[c].pc = "woken"
      <3>1. call'[c] = StreamLoop(call[c], t, e)
        BY <1>1, <1>2, <2>1, <2>3 DEF CallerStep, Enter, Lookup, Resume, GetStale, Wait, Woken,
                                      Yielded, Leave
      <3> QED
        BY <1>1, <3>1, StreamLoopTells
    <2>4. CASE call[c].pc = "yielded"
      <3>1. call'[c] = StreamWait(call[c], t, e)
        BY <1>1, <1>2, <2>1, <2>4 DEF CallerStep, Enter, Lookup, Resume, GetStale, Wait, Woken,
                                      Yielded, Leave
      <3> QED
        BY <1>1, <3>1, StreamWaitTells
    <2> QED
      BY <1>4, <2>2, <2>3, <2>4
  <1>5. CASE call[c].pc \notin {"resolved", "waiting", "woken", "yielded"}
    BY <1>1, <1>5 DEF EndedBy
  <1> QED
    BY <1>3, <1>4, <1>5

\* Everyone who is told the end of a failed refresh learns that it failed: by its
\* error or, for an outage and never in the background, by a complete overview
\* that is marked stale.  Nothing but an outage is papered over, for either cache.
THEOREM FailuresAreTold == Spec => FailureIsTold
  <1> DEFINE Told == \A c \in Callers : call[c].pc # "answered" /\ call'[c].pc = "answered" =>
          /\ HonestlyStale(call'[c])
          /\ \A r \in Refreshes :
                EndedBy(c) = r /\ call[c].mode # "poll" /\ Done(task[r]) /\ task[r].outcome # "ok" =>
                    TellsOfFailure(task[r], call'[c].out)
  <1>1. ASSUME IInv, [Next]_vars PROVE Told
    <2>1. \A c \in Callers : HonestlyStale(call'[c])
      BY <1>1, NextIInv DEF IInv, CallInv, HonestlyStale
    <2> QED
      BY <1>1, <2>1, AnswerTells
  <1> HIDE DEF Told
  <1>2. Spec => [][Told]_vars
    BY <1>1, Invariance, PTL DEF Spec
  <1> QED
    BY <1>2 DEF Told, FailureIsTold

-----------------------------------------------------------------------------
(* With the in-process cache: what holds because nothing gives up control     *)
(* between looking at the registry and entering a refresh into it.            *)

\* Whatever is alive is registered; nobody is on the way to starting a refresh
\* on the strength of an earlier look; and after a refused token the cache holds
\* nothing, unless a refresh that has succeeded is about to say so.
Succeeded(r) == task[r].phase = "done" /\ task[r].outcome = "ok"

MInv ==
    /\ \A r \in Refreshes : Alive(r) => refreshes[UserOfTask(r)] = r
    /\ \A r \in Refreshes : task[r].phase \notin {"invalidated", "stored"}
    /\ \A r \in Refreshes :
          task[r].phase = "done" /\ task[r].outcome = "AuthenticationError" =>
              cache[UserOfTask(r)] = None
    /\ RefusedTokenLeavesNothing

LEMMA InitMInv == Init => MInv
  BY DEF Init, MInv, Alive, NoTask, RefusedTokenLeavesNothing

\* A caller either leaves everyone else alone, or starts a refresh for an
\* account that has none registered.
LEMMA CallerFrame ==
    ASSUME ~CacheYields, IInv, NEW c \in Callers, CallerStep(c)
    PROVE  \/ UNCHANGED <<cache, refreshes, failures, task>>
           \/ /\ call[c].session \in Sessions
              /\ refreshes[UserOf[call[c].session]] = None
              /\ StartAndJoin(c)
  <1>1. /\ call[c].pc \notin {"lookup", "decide"}
        /\ call[c].pc # "idle" => call[c].session \in Sessions
    BY DEF IInv, Linked, CallInv
  <1> QED
    BY <1>1 DEF CallerStep, Enter, Decide, InFlight, UserOfCall, Lookup, Resume,
                GetStale, Wait, Woken, Yielded, Leave

LEMMA StartMInv ==
    ASSUME IInv, MInv, NEW c \in Callers, call[c].session \in Sessions,
           refreshes[UserOf[call[c].session]] = None, StartAndJoin(c)
    PROVE  MInv'
  <1> DEFINE s == call[c].session
             u == UserOf[s]
             t == NewTask(s)
  <1>1. PICK r \in Free :
           /\ task' = [task EXCEPT ![r] = t]
           /\ refreshes' = [refreshes EXCEPT ![u] = r]
           /\ UNCHANGED <<cache, failures>>
    BY DEF StartAndJoin
  <1>2. r \in Refreshes /\ task[r].phase # "done" /\ u \in Users
    BY <1>1, UserOfAssumption DEF Free
  <1>3. t.session = s /\ t.phase = "running"
    BY NewTaskInv
  <1> HIDE DEF t
  <1>4. /\ task'[r] = t /\ \A q \in Refreshes \ {r} : task'[q] = task[q]
        /\ refreshes'[u] = r /\ \A v \in Users \ {u} : refreshes'[v] = refreshes[v]
    BY <1>1, <1>2 DEF IInv, TypeOK
  <1>5. \A q \in Refreshes : Alive(q)' => refreshes'[UserOfTask(q)'] = q
    <2> SUFFICES ASSUME NEW q \in Refreshes, q # r, Alive(q)
                 PROVE  refreshes'[UserOfTask(q)] = q
      BY <1>3, <1>4 DEF Alive, UserOfTask
    <2>1. refreshes[UserOfTask(q)] = q /\ q # None
      BY NoneAssumption DEF MInv
    <2>2. UserOfTask(q) \in Users
      BY UserOfAssumption DEF IInv, TaskInv, UserOfTask, Alive
    <2> QED
      BY <1>4, <2>1, <2>2
  <1>6. RefusedTokenLeavesNothing'
    BY <1>1, <1>2, <1>4 DEF MInv, RefusedTokenLeavesNothing, UserOfTask
  <1> QED
    BY <1>1, <1>2, <1>3, <1>4, <1>5, <1>6 DEF MInv, UserOfTask

\* A step of refresh r that neither stores nor finishes.
LEMMA MovesMInv ==
    ASSUME IInv, MInv, NEW r \in Refreshes, NEW t,
           task' = [task EXCEPT ![r] = t],
           t.session = task[r].session,
           t.phase \notin {"unused", "finished"} => Alive(r),
           t.phase \notin {"invalidated", "stored"},
           t.phase = "done" /\ t.outcome = "AuthenticationError" =>
               \/ task[r].phase = "done" /\ task[r].outcome = "AuthenticationError"
               \/ cache'[UserOfTask(r)] = None,
           Succeeded(r) => t.phase = "done" /\ t.outcome = "ok",
           \A v \in Users : cache[v] = None => cache'[v] = None,
           UserOfTask(r) \in Users,
           UNCHANGED <<refreshes, failures>>
    PROVE  MInv'
  <1>1. /\ task'[r] = t /\ \A q \in Refreshes \ {r} : task'[q] = task[q]
        /\ \A q \in Refreshes : UserOfTask(q)' = UserOfTask(q)
    BY DEF IInv, TypeOK, UserOfTask
  <1>2. \A q \in Refreshes : Alive(q)' => Alive(q)
    BY <1>1 DEF Alive
  <1>3. \A q \in Refreshes : q # r /\ Alive(q) => UserOfTask(q) \in Users
    BY UserOfAssumption DEF IInv, TaskInv, UserOfTask, Alive
  <1>4. RefusedTokenLeavesNothing'
    BY <1>1 DEF MInv, RefusedTokenLeavesNothing, Succeeded
  <1>5. \A q \in Refreshes : task'[q].phase = "done" /\ task'[q].outcome = "AuthenticationError"
                                  => cache'[UserOfTask(q)'] = None
    <2> SUFFICES ASSUME NEW q \in Refreshes, task'[q].phase = "done",
                        task'[q].outcome = "AuthenticationError"
                 PROVE  cache'[UserOfTask(q)] = None
      BY <1>1
    <2>1. CASE q = r
      BY <1>1, <2>1 DEF MInv
    <2>2. CASE q # r
      BY <1>1, <1>3, <2>2 DEF MInv, Alive
    <2> QED
      BY <2>1, <2>2
  <1> QED
    BY <1>1, <1>2, <1>4, <1>5 DEF MInv

\* Storing: the refresh that stores is the one registered, so no refused one is
\* on its way to its callback, and its own success is what the cache shows.
LEMMA StoreMInv ==
    ASSUME ~CacheYields, IInv, MInv, NEW r \in Refreshes, Store(r)
    PROVE  MInv'
  <1> DEFINE t == Returned(task[r], Result(r))
             u == UserOfTask(r)
  <1>1. /\ task[r].phase = "running" /\ task' = [task EXCEPT ![r] = t]
        /\ \E e : cache' = [cache EXCEPT ![u] = e]
        /\ UNCHANGED <<refreshes, failures>>
    BY DEF Store
  <1>2. t.phase = "done" /\ t.outcome = "ok" /\ t.session = task[r].session
    <2>1. TaskInv(task[r]) /\ task[r] \in Tasks
      BY DEF IInv, TypeOK
    <2>2. Result(r) = Complete(UserOf[task[r].session])
      BY DEF Result, UserOfTask
    <2> QED
      BY <1>1, <2>1, <2>2, ReturnedInv DEF Returned, Published, Tasks
  <1> HIDE DEF t
  <1>3. /\ task'[r] = t /\ \A q \in Refreshes \ {r} : task'[q] = task[q]
        /\ \A q \in Refreshes : UserOfTask(q)' = UserOfTask(q)
    BY <1>1, <1>2 DEF IInv, TypeOK, UserOfTask
  <1>4. u \in Users /\ \A v \in Users \ {u} : cache'[v] = cache[v]
    BY <1>1, UserOfAssumption DEF IInv, TypeOK, TaskInv, UserOfTask
  <1>5. \A q \in Refreshes : Alive(q)' => Alive(q)
    BY <1>1, <1>3 DEF Alive
  <1>6. \A q \in Refreshes : q # r /\ Alive(q) => UserOfTask(q) # u /\ UserOfTask(q) \in Users
    <2> TAKE q \in Refreshes
    <2>1. Alive(r)
      BY <1>1 DEF Alive
    <2> QED
      BY <2>1, UserOfAssumption DEF MInv, IInv, TaskInv, UserOfTask, Alive
  <1>7. RefusedTokenLeavesNothing'
    BY <1>1, <1>2, <1>3, <1>4 DEF MInv, RefusedTokenLeavesNothing
  <1>8. \A q \in Refreshes : task'[q].phase = "done" /\ task'[q].outcome = "AuthenticationError"
                                  => cache'[UserOfTask(q)] = None
    BY <1>2, <1>3, <1>4, <1>6 DEF MInv, Alive
  <1> QED
    BY <1>1, <1>2, <1>3, <1>5, <1>7, <1>8 DEF MInv

\* The callback: a refused refresh leaves its user's cache empty, a successful
\* one takes the failure back.
LEMMA FinishMInv ==
    ASSUME IInv, MInv, NEW r \in Refreshes, Finish(r)
    PROVE  MInv'
  <1> DEFINE u == UserOfTask(r)
  <1>1. /\ task[r].phase = "done" /\ u \in Users
        /\ refreshes' = Unregistered(u, r) /\ failures' = Remembered(u, task[r].outcome)
        /\ UNCHANGED cache
    BY UserOfAssumption DEF Finish, IInv, TaskInv, UserOfTask
  <1>2. /\ task'[r].phase = "finished" /\ \A q \in Refreshes \ {r} : task'[q] = task[q]
        /\ \A q \in Refreshes : UserOfTask(q)' = UserOfTask(q)
    BY DEF Finish, IInv, TypeOK, Tasks, UserOfTask
  <1>3. \A q \in Refreshes : Alive(q)' => Alive(q) /\ q # r
    BY <1>2 DEF Alive
  <1>4. \A q \in Refreshes : Alive(q)' => refreshes'[UserOfTask(q)] = q
    <2> SUFFICES ASSUME NEW q \in Refreshes, Alive(q), q # r
                 PROVE  refreshes'[UserOfTask(q)] = q
      BY <1>3
    <2>1. refreshes[UserOfTask(q)] = q /\ UserOfTask(q) \in Users
      BY UserOfAssumption DEF MInv, IInv, TaskInv, UserOfTask, Alive
    <2> QED
      BY <1>1, <2>1 DEF Unregistered, IInv, TypeOK
  <1>5. RefusedTokenLeavesNothing'
    <2> SUFFICES ASSUME NEW v \in Users, failures'[v] = "AuthenticationError"
                 PROVE  \/ cache[v] = None
                        \/ \E q \in Refreshes : task'[q].phase = "done" /\ task'[q].outcome = "ok"
                                               /\ UserOfTask(q) = v
      BY <1>1, <1>2 DEF RefusedTokenLeavesNothing
    <2>1. CASE v = u /\ task[r].outcome = "AuthenticationError"
      BY <1>1, <2>1 DEF MInv
    <2>2. CASE ~(v = u /\ task[r].outcome = "AuthenticationError")
      <3>1. failures[v] = "AuthenticationError" /\ ~(v = u /\ task[r].outcome = "ok")
        <4>1. \E f : failures' = [failures EXCEPT ![u] = f]
          BY <1>1 DEF Remembered
        <4>2. CASE v # u
          BY <2>2, <4>1, <4>2 DEF IInv, TypeOK
        <4>3. CASE v = u
          <5>1. task[r].outcome \in {"ok", "Bug", "Outage"}
            BY <1>1, <2>2, <4>3 DEF IInv, TaskInv, Done, Errors, ApplicationErrors
          <5> QED
            BY <1>1, <4>3, <5>1, NoErrorAssumption
               DEF Remembered, ApplicationErrors, Errors, IInv, TypeOK
        <4> QED
          BY <4>2, <4>3
      <3> QED
        BY <1>2, <3>1 DEF MInv, RefusedTokenLeavesNothing
    <2> QED
      BY <2>1, <2>2
  <1> QED
    BY <1>1, <1>2, <1>3, <1>4, <1>5 DEF MInv

LEMMA TaskMInv ==
    ASSUME ~CacheYields, IInv, MInv, NEW r \in Refreshes, TaskStep(r) \/ PublishOrphan(r)
    PROVE  MInv'
  <1> DEFINE t == task[r]
             u == UserOfTask(r)
  <1>1. TaskInv(t) /\ t \in Tasks
    BY DEF IInv, TypeOK
  <1>2. t.phase # "unused" => u \in Users
    BY <1>1, UserOfAssumption DEF TaskInv, UserOfTask
  <1>3. Alive(r) <=> t.phase \notin {"unused", "finished"}
    BY DEF Alive
  <1>4. t.phase \notin {"invalidated", "stored"}
    BY DEF MInv
  <1>5. Succeeded(r) <=> t.phase = "done" /\ t.outcome = "ok"
    BY DEF Succeeded
  <1> HIDE DEF t
  <1>6. CASE Publish(r) \/ PublishOrphan(r)
    <2> DEFINE x == Published(t, Partial(u))
    <2>1. /\ x.phase = t.phase /\ x.session = t.session /\ x.outcome = t.outcome
          /\ t.phase # "unused"
      BY <1>1, <1>6 DEF Published, Tasks, Publish, PublishOrphan, t
    <2>2. task' = [task EXCEPT ![r] = x] /\ UNCHANGED <<cache, refreshes, failures>>
      BY <1>6 DEF Publish, PublishOrphan, t
    <2> HIDE DEF x
    <2> QED
      BY <1>2, <1>3, <1>4, <1>5, <2>1, <2>2, MovesMInv DEF t
  <1>7. ASSUME NEW error \in {"Outage", "Bug"}, Fail(r, error)
        PROVE  MInv'
    <2> DEFINE x == [t EXCEPT !.phase = "done", !.outcome = error]
    <2>1. /\ x.phase = "done" /\ x.session = t.session /\ x.outcome # "AuthenticationError"
          /\ t.phase = "running"
      BY <1>1, <1>7 DEF Tasks, Fail, t
    <2>2. task' = [task EXCEPT ![r] = x] /\ UNCHANGED <<cache, refreshes, failures>>
      BY <1>7 DEF Fail, t
    <2> HIDE DEF x
    <2> QED
      BY <1>2, <1>3, <1>4, <1>5, <2>1, <2>2, MovesMInv DEF t
  <1>8. CASE Unauthorized(r)
    <2> DEFINE x == [t EXCEPT !.phase = "unauthorized"]
    <2>1. x.phase = "unauthorized" /\ x.session = t.session /\ t.phase = "running"
      BY <1>1, <1>8 DEF Tasks, Unauthorized, t
    <2>2. task' = [task EXCEPT ![r] = x] /\ UNCHANGED <<cache, refreshes, failures>>
      BY <1>8 DEF Unauthorized, t
    <2> HIDE DEF x
    <2> QED
      BY <1>2, <1>3, <1>4, <1>5, <2>1, <2>2, MovesMInv DEF t
  <1>9. CASE Invalidate(r)
    <2> DEFINE x == Refused(t)
    <2>1. x.phase = "done" /\ x.session = t.session /\ t.phase = "unauthorized"
      BY <1>1, <1>9 DEF Tasks, Refused, Invalidate, t
    <2>2. /\ task' = [task EXCEPT ![r] = x] /\ cache' = [cache EXCEPT ![u] = None]
          /\ UNCHANGED <<refreshes, failures>>
      BY <1>9 DEF Invalidate, t
    <2>3. cache'[u] = None /\ \A v \in Users : cache[v] = None => cache'[v] = None
      BY <1>2, <2>1, <2>2 DEF IInv, TypeOK
    <2> HIDE DEF x
    <2> QED
      BY <1>2, <1>3, <1>4, <1>5, <2>1, <2>2, <2>3, MovesMInv DEF t
  <1>10. CASE RaiseRefused(r) \/ Return(r)
    BY <1>4, <1>10 DEF RaiseRefused, Return, t
  <1>11. CASE Store(r)
    BY <1>11, StoreMInv
  <1>12. CASE Finish(r)
    BY <1>12, FinishMInv
  <1> QED
    BY <1>6, <1>7, <1>8, <1>9, <1>10, <1>11, <1>12 DEF TaskStep

\* A step that touches no refresh, loses no failure but by cooling down and puts
\* nothing into an empty cache.
LEMMA OthersMInv ==
    ASSUME IInv, MInv, UNCHANGED <<refreshes, task>>,
           \A v \in Users : /\ cache[v] = None => cache'[v] = None
                            /\ failures'[v] \in {failures[v], None}
    PROVE  MInv'
  <1>1. \A q \in Refreshes : task[q].phase # "unused" => UserOfTask(q) \in Users
    BY UserOfAssumption DEF IInv, TaskInv, UserOfTask
  <1>2. RefusedTokenLeavesNothing'
    BY NoErrorAssumption DEF MInv, RefusedTokenLeavesNothing, UserOfTask, Errors, ApplicationErrors
  <1> QED
    BY <1>1, <1>2 DEF MInv, Alive, UserOfTask

LEMMA WorldMInv ==
    ASSUME IInv, MInv,
           \/ \E s \in Sessions : Login(s) \/ Logout(s) \/ Lapse(s) \/ Revoke(s)
           \/ \E u \in Users : Expire(u) \/ CoolDown(u)
    PROVE  MInv'
  <1>1. UNCHANGED <<refreshes, task>>
    BY DEF Login, Logout, Lapse, Revoke, Expire, CoolDown
  <1>2. \A v \in Users : cache[v] = None => cache'[v] = None
    BY UserOfAssumption DEF IInv, TypeOK, Login, Logout, Lapse, Revoke, Expire, CoolDown
  <1>3. \A v \in Users : failures'[v] \in {failures[v], None}
    BY DEF IInv, TypeOK, Login, Logout, Lapse, Revoke, Expire, CoolDown
  <1> QED
    BY <1>1, <1>2, <1>3, OthersMInv

LEMMA CallMInv ==
    ASSUME ~CacheYields, IInv, MInv, NEW c \in Callers,
           \/ \E s \in Sessions, req \in Requests : Resolve(c, s, req[1], req[2])
           \/ CallerStep(c)
           \/ Disconnect(c)
    PROVE  MInv'
  <1>1. CASE UNCHANGED <<cache, refreshes, failures, task>>
    BY <1>1, OthersMInv
  <1>2. CASE /\ call[c].session \in Sessions
             /\ refreshes[UserOf[call[c].session]] = None
             /\ StartAndJoin(c)
    BY <1>2, StartMInv
  <1> QED
    BY <1>1, <1>2, CallerFrame DEF Resolve, Disconnect

LEMMA NextMInv == ~CacheYields /\ IInv /\ MInv /\ [Next]_vars => MInv'
  <1> SUFFICES ASSUME ~CacheYields, IInv, MInv, [Next]_vars PROVE MInv'
    OBVIOUS
  <1>1. CASE UNCHANGED vars
    BY <1>1, OthersMInv DEF vars
  <1>2. CASE Next
    BY <1>2, CallMInv, TaskMInv, WorldMInv DEF Next
  <1> QED
    BY <1>1, <1>2

LEMMA MemoryInvariance == ASSUME ~CacheYields PROVE Spec => []MInv
  <1>1. IInv /\ MInv /\ [Next]_vars => MInv'
    BY NextMInv
  <1> QED
    BY <1>1, InitMInv, Invariance, PTL DEF Spec

\* With the in-process cache no account ever has two refreshes running,
\* whichever calls, forced or not, its browsers and the background loop make.
THEOREM OneRefreshPerUser == ASSUME ~CacheYields PROVE Spec => []SingleFlight
  <1>1. MInv => SingleFlight
    BY DEF MInv, SingleFlight, Runs
  <1> QED
    BY <1>1, MemoryInvariance, PTL

\* With the in-process cache a refused token leaves none of the user's data in
\* the cache, until a refresh with a good token has succeeded.
THEOREM RefusalClears == ASSUME ~CacheYields PROVE Spec => []RefusedTokenLeavesNothing
  <1>1. MInv => RefusedTokenLeavesNothing
    BY DEF MInv
  <1> QED
    BY <1>1, MemoryInvariance, PTL

\* Only a caller starts refreshes, one at a time, and one that does not force
\* only when no failure is remembered and no refresh of the account is left
\* whose callback could remember one.
LEMMA CallerStarts ==
    ASSUME ~CacheYields, IInv, NEW c \in Callers, CallerStep(c), task' # task
    PROVE  /\ StartAndJoin(c)
           /\ UserOfCall(c) \in Users
           /\ refreshes[UserOfCall(c)] = None
           /\ call[c].force \/ ~Cooling(UserOfCall(c))
  <1>1. /\ call[c].pc \notin {"lookup", "decide"}
        /\ call[c].pc # "idle" => call[c].session \in Sessions
    BY DEF IInv, Linked, CallInv
  <1> QED
    BY <1>1, UserOfAssumption
       DEF CallerStep, Enter, Decide, InFlight, UserOfCall, Lookup, Resume,
           GetStale, Wait, Woken, Yielded, Leave

LEMMA TasksStartNothing ==
    ASSUME IInv, NEW q \in Refreshes, TaskStep(q) \/ PublishOrphan(q), NEW r \in Refreshes
    PROVE  ~Starts(r)
  <1>1. task[q] \in Tasks /\ task \in [Refreshes -> Tasks]
    BY DEF IInv, TypeOK
  <1>2. CASE Publish(q) \/ PublishOrphan(q)
    BY ZenonT(30), <1>1, <1>2 DEF Publish, PublishOrphan, Published, Starts, Alive, Tasks
  <1>3. CASE (\E error \in {"Outage", "Bug"} : Fail(q, error)) \/ Unauthorized(q) \/ Finish(q)
    BY <1>1, <1>3 DEF Fail, Unauthorized, Finish, Starts, Alive, Tasks
  <1>4. CASE Invalidate(q) \/ RaiseRefused(q)
    BY <1>1, <1>4 DEF Invalidate, RaiseRefused, Refused, Starts, Alive, Tasks
  <1>5. CASE Store(q) \/ Return(q)
    BY <1>1, <1>5 DEF Store, Return, Returned, Published, Starts, Alive, Tasks
  <1> QED
    BY <1>2, <1>3, <1>4, <1>5 DEF TaskStep

LEMMA StartRespectsCooldown ==
    ASSUME ~CacheYields, IInv, MInv, [Next]_vars, NEW c \in Callers, NEW r \in Refreshes,
           Starts(r), call'[c] # call[c], ~call[c].force
    PROVE  ~JustFailed(UserOfCall(c))
  <1>1. task' # task
    BY DEF Starts, Alive
  <1>2. PICK d \in Callers : CallerStep(d)
    BY <1>1, TasksStartNothing
       DEF Next, vars, Resolve, Disconnect, Login, Logout, Lapse, Revoke, Expire, CoolDown
  <1>3. /\ StartAndJoin(d)
        /\ UserOfCall(d) \in Users
        /\ refreshes[UserOfCall(d)] = None
        /\ call[d].force \/ ~Cooling(UserOfCall(d))
    BY <1>1, <1>2, CallerStarts
  <1>4. c = d
    BY <1>3 DEF StartAndJoin, IInv, TypeOK
  <1>5. \A q \in Refreshes : Alive(q) => UserOfTask(q) # UserOfCall(c)
    BY <1>3, <1>4, NoneAssumption DEF MInv
  <1> QED
    BY <1>3, <1>4, <1>5 DEF JustFailed, Cooling, Alive

\* With the in-process cache no call but a forced one makes the process ask
\* GitHub again while a failure of that account is remembered or about to be.
THEOREM CooldownIsRespected == ASSUME ~CacheYields PROVE Spec => CooldownRespected
  <1>1. IInv /\ MInv /\ [Next]_vars =>
            [\A c \in Callers, r \in Refreshes :
                Starts(r) /\ call'[c] # call[c] /\ ~call[c].force
                    => ~JustFailed(UserOfCall(c))]_vars
    BY StartRespectsCooldown
  <1> QED
    BY <1>1, Invariance, MemoryInvariance, PTL DEF Spec, CooldownRespected

-----------------------------------------------------------------------------
(* Either cache: the tasks keep to what RefreshContract promises              *)

\* A task as RefreshContract sees it.  Of what an overview lacks, GetOverview tells
\* only whether it is anything.
Unpublished == {"everything"}
StatusOf(t) ==
    CASE Done(t) /\ t.outcome = "ok"                   -> "returned"
      [] Done(t) /\ t.outcome = "Outage"               -> "outage"
      [] Done(t) /\ t.outcome \notin {"ok", "Outage"}  -> "failed"
      [] t.phase \in {"unauthorized", "invalidated"}   -> "failed"
      [] t.phase \in {"unused", "running", "stored"}   -> "running"

LackedBy(t) == IF t.latest = None THEN Unpublished
               ELSE IF t.latest.complete THEN {} ELSE {"a section"}

Promise(r) == INSTANCE RefreshContract WITH
                  Sections <- {"a section"}, None <- Unpublished,
                  status <- StatusOf(task[r]), latest <- LackedBy(task[r])

\* What a task has published is counted, is there when the task is about to
\* return it, and is complete only when it was returned.
PublishedOK(t) ==
    /\ t.version = 0 <=> t.latest = None
    /\ t.phase = "stored" => t.latest # None
    /\ t.latest # None /\ t.latest.complete => Done(t) /\ t.outcome = "ok"

AllPublishedOK == \A r \in Refreshes : PublishedOK(task[r])

\* A step of the object: one of the contract, or none, or the start of another refresh.
KeepsPromise(r) ==
    \/ Promise(r)!Next
    \/ UNCHANGED <<StatusOf(task[r]), LackedBy(task[r])>>
    \/ task[r].phase \in {"unused", "finished"} /\ Promise(r)!Init'

\* A refresh object changes by being used again, or by a step of its own.
LEMMA TaskMoves ==
    ASSUME IInv, Next, NEW r \in Refreshes
    PROVE  \/ task'[r] = task[r]
           \/ task[r].phase \in {"unused", "finished"} /\ \E s \in Sessions : task'[r] = NewTask(s)
           \/ TaskStep(r) \/ PublishOrphan(r)
  <1>0. task \in [Refreshes -> Tasks]
    BY DEF IInv, TypeOK
  <1>1. ASSUME NEW c \in Callers, StartAndJoin(c), call[c].session \in Sessions
        PROVE  \/ task'[r] = task[r]
               \/ task[r].phase \in {"unused", "finished"} /\ \E s \in Sessions : task'[r] = NewTask(s)
    BY <1>0, <1>1 DEF StartAndJoin, Free
  <1>2. ASSUME NEW c \in Callers, CallerStep(c)
        PROVE  task' = task \/ (StartAndJoin(c) /\ call[c].session \in Sessions)
    <2>1. call[c].pc # "idle" => call[c].session \in Sessions
      BY DEF IInv, CallInv
    <2> QED
      BY <1>2, <2>1 DEF CallerStep, Enter, Lookup, Resume, GetStale, Wait, Woken, Yielded, Leave, Decide
  <1>3. ASSUME NEW c \in Callers,
               (\E s \in Sessions, req \in Requests : Resolve(c, s, req[1], req[2])) \/ Disconnect(c)
        PROVE  task' = task
    BY <1>3 DEF Resolve, Disconnect
  <1>4. ASSUME NEW q \in Refreshes \ {r}, TaskStep(q) \/ PublishOrphan(q)
        PROVE  task'[r] = task[r]
    <2>1. \E x : task' = [task EXCEPT ![q] = x]
      BY <1>4 DEF TaskStep, PublishOrphan, Publish, Fail, Unauthorized, Invalidate, RaiseRefused, Store,
                  Return, Finish
    <2> QED
      BY <1>0, <2>1
  <1>5. ASSUME \/ \E s \in Sessions : Login(s) \/ Logout(s) \/ Lapse(s) \/ Revoke(s)
               \/ \E u \in Users : Expire(u) \/ CoolDown(u)
        PROVE  task' = task
    BY <1>5 DEF Login, Logout, Lapse, Revoke, Expire, CoolDown
  <1> QED
    BY <1>1, <1>2, <1>3, <1>4, <1>5 DEF Next

\* Publishing changes what was published and its number; returning ends the task as well.
LEMMA PublishesAs ==
    ASSUME NEW t \in Tasks, NEW overview \in Overviews
    PROVE  LET x == Published(t, overview) IN
           /\ x \in Tasks /\ x.phase = t.phase /\ x.outcome = t.outcome
           /\ x.latest = overview /\ x.version = t.version + 1
  <1>1. t.version + 1 \in Nat
    BY DEF Tasks
  <1> QED
    BY <1>1 DEF Published, Tasks

LEMMA ReturnsAs ==
    ASSUME NEW t \in Tasks, NEW overview \in Overviews
    PROVE  LET x == Returned(t, overview) IN
           /\ x.phase = "done" /\ x.outcome = "ok"
           /\ x.latest = overview /\ x.version = t.version + 1
  <1> DEFINE y == Published(t, overview)
  <1>1. y \in Tasks /\ y.latest = overview /\ y.version = t.version + 1
    BY PublishesAs
  <1>2. Returned(t, overview) = [y EXCEPT !.phase = "done", !.outcome = "ok"]
    BY DEF Returned
  <1> HIDE DEF y
  <1> QED
    BY <1>1, <1>2 DEF Tasks

\* What a task's step makes of it.
Gave(t, x, phases, outcomes) ==
    x.phase \in phases /\ x.outcome \in outcomes /\ x.latest = t.latest /\ x.version = t.version

TaskStepIs(t, x) ==
    \/ /\ x.phase = t.phase /\ x.outcome = t.outcome /\ x.version = t.version + 1
       /\ x.latest \in Overviews /\ ~ x.latest.complete
       /\ \/ t.phase = "running"
          \/ t.phase \in {"unauthorized", "invalidated"} /\ t.version # 0
          \/ Done(t) /\ t.outcome \in {"AuthenticationError", "Bug"} /\ t.version # 0
    \/ t.phase = "running" /\ Gave(t, x, {"done"}, {"Bug"})
    \/ t.phase = "running" /\ t.version = 0 /\ Gave(t, x, {"done"}, {"Outage"})
    \/ t.phase = "running" /\ Gave(t, x, {"unauthorized"}, {t.outcome})
    \/ t.phase = "unauthorized" /\ Gave(t, x, {"invalidated"}, {t.outcome})
    \/ /\ t.phase \in {"unauthorized", "invalidated"}
       /\ Gave(t, x, {"done"}, {"AuthenticationError"})
    \/ t.phase = "running" /\ t.version # 0 /\ Gave(t, x, {"stored"}, {t.outcome})
    \/ /\ t.phase = "stored" \/ (t.phase = "running" /\ t.version # 0)
       /\ x.phase = "done" /\ x.outcome = "ok" /\ x.version = t.version + 1
       /\ x.latest \in Overviews /\ x.latest.complete
    \/ t.phase = "done" /\ Gave(t, x, {"finished"}, {t.outcome})

\* Every step is one of these.
LEMMA StepIs ==
    ASSUME IInv, NEW r \in Refreshes, TaskStep(r) \/ PublishOrphan(r)
    PROVE  TaskStepIs(task[r], task'[r])
  <1> DEFINE t == task[r]
             x == task'[r]
             u == UserOfTask(r)
  <1>1. t \in Tasks /\ task \in [Refreshes -> Tasks] /\ TaskInv(t) /\ t.version \in Nat
    BY DEF IInv, TypeOK, Tasks
  <1>2. t.phase # "unused" => u \in Users
    BY <1>1, UserOfAssumption DEF TaskInv, UserOfTask
  <1>3. ASSUME Publish(r) \/ PublishOrphan(r)
        PROVE  /\ x.phase = t.phase /\ x.outcome = t.outcome /\ x.version = t.version + 1
               /\ x.latest \in Overviews /\ ~ x.latest.complete
               /\ \/ t.phase = "running"
                  \/ t.phase \in {"unauthorized", "invalidated"} /\ t.version # 0
                  \/ Done(t) /\ t.outcome \in {"AuthenticationError", "Bug"} /\ t.version # 0
    <2>1. x = Published(t, Partial(u)) /\ t.phase # "unused"
      BY <1>1, <1>3 DEF Publish, PublishOrphan
    <2>2. /\ x.phase = t.phase /\ x.outcome = t.outcome /\ x.version = t.version + 1
          /\ x.latest \in Overviews /\ ~ x.latest.complete
      <3>1. Partial(u) \in Overviews /\ ~ Partial(u).complete
        BY <1>2, <2>1 DEF Partial, Overviews
      <3> HIDE DEF t, x, u
      <3> QED
        BY <1>1, <2>1, <3>1, PublishesAs
    <2>3. \/ t.phase = "running"
          \/ t.phase \in {"unauthorized", "invalidated"} /\ t.version # 0
          \/ Done(t) /\ t.outcome \in {"AuthenticationError", "Bug"} /\ t.version # 0
      BY <1>1, <1>3, MaxPublishesAssumption DEF Publish, PublishOrphan, Done
    <2> QED
      BY <2>2, <2>3
  <1>4. ASSUME NEW error \in {"Outage", "Bug"}, Fail(r, error)
        PROVE  /\ t.phase = "running" /\ Gave(t, x, {"done"}, {error})
               /\ error = "Outage" => t.version = 0
    BY <1>1, <1>4 DEF Fail, Gave, Tasks
  <1>5. ASSUME Unauthorized(r)
        PROVE  t.phase = "running" /\ Gave(t, x, {"unauthorized"}, {t.outcome})
    BY <1>1, <1>5 DEF Unauthorized, Gave, Tasks
  <1>6. ASSUME Invalidate(r)
        PROVE  /\ t.phase = "unauthorized"
               /\ \/ Gave(t, x, {"invalidated"}, {t.outcome})
                  \/ Gave(t, x, {"done"}, {"AuthenticationError"})
    <2>1. CASE CacheYields
      BY <1>1, <1>6, <2>1 DEF Invalidate, Gave, Tasks
    <2>2. CASE ~ CacheYields
      BY <1>1, <1>6, <2>2 DEF Invalidate, Refused, Gave, Tasks
    <2> QED
      BY <2>1, <2>2
  <1>7. ASSUME RaiseRefused(r)
        PROVE  t.phase = "invalidated" /\ Gave(t, x, {"done"}, {"AuthenticationError"})
    BY <1>1, <1>7 DEF RaiseRefused, Refused, Gave, Tasks
  <1>8. ASSUME x = Returned(t, Result(r)), t.phase # "unused"
        PROVE  /\ x.phase = "done" /\ x.outcome = "ok" /\ x.version = t.version + 1
               /\ x.latest \in Overviews /\ x.latest.complete
    <2>1. Result(r) \in Overviews /\ Result(r).complete
      BY <1>2, <1>8 DEF Result, Complete, Overviews
    <2> DEFINE o == Result(r)
    <2> HIDE DEF t, x, o
    <2> QED
      BY <1>1, <1>8, <2>1, ReturnsAs DEF o
  <1>9. ASSUME Store(r)
        PROVE  /\ t.phase = "running" /\ t.version # 0
               /\ \/ Gave(t, x, {"stored"}, {t.outcome})
                  \/ /\ x.phase = "done" /\ x.outcome = "ok" /\ x.version = t.version + 1
                     /\ x.latest \in Overviews /\ x.latest.complete
    <2>1. t.phase = "running" /\ t.version # 0
      BY <1>1, <1>9 DEF Store
    <2>2. CASE CacheYields
      BY <1>1, <1>9, <2>1, <2>2 DEF Store, Gave, Tasks
    <2>3. CASE ~ CacheYields
      <3>1. x = Returned(t, Result(r))
        BY <1>1, <1>9, <2>3 DEF Store
      <3> QED
        BY <1>8, <2>1, <3>1
    <2> QED
      BY <2>1, <2>2, <2>3
  <1>10. ASSUME Return(r)
         PROVE  /\ t.phase = "stored"
                /\ x.phase = "done" /\ x.outcome = "ok" /\ x.version = t.version + 1
                /\ x.latest \in Overviews /\ x.latest.complete
    <2>1. x = Returned(t, Result(r)) /\ t.phase = "stored"
      BY <1>1, <1>10 DEF Return
    <2> QED
      BY <1>8, <2>1
  <1>11. ASSUME Finish(r)
         PROVE  t.phase = "done" /\ Gave(t, x, {"finished"}, {t.outcome})
    BY <1>1, <1>11 DEF Finish, Gave, Tasks
  <1> HIDE DEF t, x, u
  <1>12. TaskStepIs(t, x)
    <2>1. CASE Publish(r) \/ PublishOrphan(r)
      BY <1>3, <2>1 DEF TaskStepIs
    <2>2. CASE \E error \in {"Outage", "Bug"} : Fail(r, error)
      BY <1>4, <2>2 DEF TaskStepIs
    <2>3. CASE Store(r) \/ Return(r)
      BY <1>9, <1>10, <2>3 DEF TaskStepIs
    <2>4. CASE Unauthorized(r) \/ Invalidate(r) \/ RaiseRefused(r) \/ Finish(r)
      BY <1>5, <1>6, <1>7, <1>11, <2>4 DEF TaskStepIs
    <2> QED
      BY <2>1, <2>2, <2>3, <2>4 DEF TaskStep
  <1> QED
    BY <1>12 DEF t, x

\* The contract's steps, in the state S of a task and what its overview lacks, L.
Allowed(S, L, S1, L1) ==
    \/ /\ S = "running" \/ (S = "failed" /\ L # Unpublished)
       /\ L1 # Unpublished /\ L1 \in SUBSET {"a section"}
       /\ L # Unpublished => L1 \subseteq L
       /\ S1 = S
    \/ S = "running" /\ L # Unpublished /\ S1 = "returned" /\ L1 = {}
    \/ S = "running" /\ L = Unpublished /\ S1 = "outage" /\ L1 = L
    \/ S = "running" /\ S1 = "failed" /\ L1 = L

\* They are the contract's.
LEMMA PromiseIs ==
    ASSUME NEW r \in Refreshes
    PROVE  Promise(r)!Next <=>
               Allowed(StatusOf(task[r]), LackedBy(task[r]), StatusOf(task'[r]), LackedBy(task'[r]))
  BY DEF Promise!Next, Promise!Publish, Promise!Return, Promise!Outage, Promise!Fail, Allowed

\* A step of a task is a step of the contract, or none.
LEMMA StepKeepsPromise ==
    ASSUME NEW t \in Tasks, TaskInv(t), PublishedOK(t), NEW x, TaskStepIs(t, x)
    PROVE  /\ PublishedOK(x)
           /\ \/ Allowed(StatusOf(t), LackedBy(t), StatusOf(x), LackedBy(x))
              \/ StatusOf(x) = StatusOf(t) /\ LackedBy(x) = LackedBy(t)
  <1>1. t.version \in Nat /\ None \notin Overviews
    BY NoOverviewAssumption DEF Tasks
  <1>2. \A y : /\ y.latest = None => LackedBy(y) = Unpublished
               /\ y.latest # None /\ y.latest.complete => LackedBy(y) = {}
               /\ y.latest # None /\ ~ y.latest.complete => LackedBy(y) = {"a section"}
    BY DEF LackedBy
  <1>3. Unpublished # {} /\ Unpublished # {"a section"}
    BY DEF Unpublished
  <1>4. \A y : /\ Done(y) /\ y.outcome = "ok" => StatusOf(y) = "returned"
               /\ Done(y) /\ y.outcome = "Outage" => StatusOf(y) = "outage"
               /\ Done(y) /\ y.outcome \in {"AuthenticationError", "Bug"} => StatusOf(y) = "failed"
               /\ y.phase \in {"unauthorized", "invalidated"} => StatusOf(y) = "failed"
               /\ y.phase \in {"running", "stored"} => StatusOf(y) = "running"
               /\ Done(y) <=> y.phase \in {"done", "finished"}
    BY DEF StatusOf, Done
  <1>5. t.latest = None <=> t.version = 0
    BY DEF PublishedOK
  <1>6. t.latest # None /\ t.latest.complete => Done(t) /\ t.outcome = "ok"
    BY DEF PublishedOK
  <1>7. CASE /\ x.phase = t.phase /\ x.outcome = t.outcome /\ x.version = t.version + 1
             /\ x.latest \in Overviews /\ ~ x.latest.complete
             /\ \/ t.phase = "running"
                \/ t.phase \in {"unauthorized", "invalidated"} /\ t.version # 0
                \/ Done(t) /\ t.outcome \in {"AuthenticationError", "Bug"} /\ t.version # 0
    <2>1. x.latest # None /\ x.version # 0
      BY <1>1, <1>7
    <2>2. PublishedOK(x)
      BY <1>7, <2>1 DEF PublishedOK
    <2>3. StatusOf(x) = StatusOf(t) /\ LackedBy(x) = {"a section"}
      BY <1>2, <1>4, <1>7, <2>1
    <2>4. StatusOf(t) = "running" \/ (StatusOf(t) = "failed" /\ t.latest # None)
      BY <1>4, <1>5, <1>7
    <2>5. LackedBy(t) \in {Unpublished, {"a section"}}
      BY <1>2, <1>4, <1>6, <1>7
    <2>6. t.latest # None => LackedBy(t) = {"a section"}
      BY <1>2, <1>4, <1>6, <1>7
    <2> QED
      BY <1>3, <2>2, <2>3, <2>4, <2>5, <2>6 DEF Allowed
  <1>8. CASE t.phase = "running" /\ Gave(t, x, {"done", "unauthorized"}, {"Bug", "AuthenticationError", "Outage", t.outcome})
             /\ (x.phase = "unauthorized" \/ x.outcome = "Bug" \/ (x.outcome = "Outage" /\ t.version = 0))
    <2>1. /\ x.latest = t.latest /\ x.version = t.version /\ ~ Done(t)
          /\ StatusOf(t) = "running" /\ LackedBy(x) = LackedBy(t)
      BY <1>4, <1>8 DEF Gave, LackedBy
    <2>2. StatusOf(x) = "failed" \/ (StatusOf(x) = "outage" /\ t.version = 0)
      BY <1>4, <1>8 DEF Gave
    <2>3. PublishedOK(x)
      BY <1>6, <1>8, <2>1 DEF PublishedOK, Gave
    <2> QED
      BY <1>2, <1>5, <2>1, <2>2, <2>3 DEF Allowed
  <1>9. CASE t.phase \in {"unauthorized", "invalidated"}
             /\ (Gave(t, x, {"invalidated"}, {t.outcome}) \/ Gave(t, x, {"done"}, {"AuthenticationError"}))
    <2>1. /\ x.latest = t.latest /\ x.version = t.version /\ ~ Done(t)
          /\ StatusOf(x) = StatusOf(t) /\ LackedBy(x) = LackedBy(t)
      BY <1>4, <1>9 DEF Gave, LackedBy
    <2>2. PublishedOK(x)
      BY <1>6, <1>9, <2>1 DEF PublishedOK, Gave
    <2> QED
      BY <2>1, <2>2
  <1>10. CASE t.phase = "running" /\ t.version # 0 /\ Gave(t, x, {"stored"}, {t.outcome})
    <2>1. /\ x.latest = t.latest /\ x.version = t.version /\ ~ Done(t)
          /\ StatusOf(x) = StatusOf(t) /\ LackedBy(x) = LackedBy(t)
      BY <1>4, <1>10 DEF Gave, LackedBy
    <2>2. PublishedOK(x)
      BY <1>5, <1>6, <1>10, <2>1 DEF PublishedOK, Gave
    <2> QED
      BY <2>1, <2>2
  <1>11. CASE /\ t.phase = "stored" \/ (t.phase = "running" /\ t.version # 0)
              /\ x.phase = "done" /\ x.outcome = "ok" /\ x.version = t.version + 1
              /\ x.latest \in Overviews /\ x.latest.complete
    <2>1. x.latest # None /\ x.version # 0 /\ Done(x)
      BY <1>1, <1>4, <1>11
    <2>2. PublishedOK(x) /\ StatusOf(x) = "returned" /\ LackedBy(x) = {}
      BY <1>2, <1>4, <1>11, <2>1 DEF PublishedOK
    <2>3. StatusOf(t) = "running" /\ t.latest # None /\ LackedBy(t) # Unpublished
      BY <1>2, <1>3, <1>4, <1>5, <1>11 DEF PublishedOK
    <2> QED
      BY <2>2, <2>3 DEF Allowed
  <1>12. CASE t.phase = "done" /\ Gave(t, x, {"finished"}, {t.outcome})
    <2>1. /\ x.latest = t.latest /\ x.version = t.version /\ Done(t) /\ Done(x)
          /\ x.phase = "finished" /\ x.outcome = t.outcome /\ LackedBy(x) = LackedBy(t)
      BY <1>4, <1>12 DEF Gave, LackedBy
    <2>2. PublishedOK(x)
      BY <1>6, <2>1 DEF PublishedOK
    <2>3. t.outcome \in {"ok", "Outage", "AuthenticationError", "Bug"}
      BY <2>1 DEF TaskInv, Errors, ApplicationErrors
    <2>4. StatusOf(x) = StatusOf(t)
      BY <1>4, <2>1, <2>3
    <2> QED
      BY <2>1, <2>2, <2>4
  <1>13. CASE /\ t.phase = "running"
              /\ \/ Gave(t, x, {"done"}, {"Bug"})
                 \/ t.version = 0 /\ Gave(t, x, {"done"}, {"Outage"})
                 \/ Gave(t, x, {"unauthorized"}, {t.outcome})
    BY <1>8, <1>13 DEF Gave
  <1> QED
    BY <1>7, <1>9, <1>10, <1>11, <1>12, <1>13 DEF TaskStepIs

\* And so is whatever the process does.
LEMMA KeepsIt ==
    ASSUME IInv, Next, NEW r \in Refreshes, PublishedOK(task[r])
    PROVE  PublishedOK(task'[r]) /\ KeepsPromise(r)
  <1> DEFINE t == task[r]
             x == task'[r]
  <1>1. t \in Tasks /\ TaskInv(t) /\ PublishedOK(t)
    BY DEF IInv, TypeOK, Tasks
  <1>2. None \notin Overviews
    BY NoOverviewAssumption
  <1>3. CASE x = t
    BY <1>3 DEF KeepsPromise
  <1>4. CASE t.phase \in {"unused", "finished"} /\ \E s \in Sessions : x = NewTask(s)
    <2>1. x.phase = "running" /\ x.latest = None /\ x.version = 0
      BY <1>4 DEF NewTask, NoTask
    <2> HIDE DEF x
    <2>2. PublishedOK(x) /\ StatusOf(x) = "running" /\ LackedBy(x) = Unpublished
      BY <2>1 DEF PublishedOK, StatusOf, LackedBy, Done
    <2> QED
      BY <1>4, <2>2 DEF x, KeepsPromise, Promise!Init
  <1>5. CASE TaskStep(r) \/ PublishOrphan(r)
    <2>1. TaskStepIs(t, x)
      BY <1>5, StepIs
    <2> HIDE DEF t, x
    <2>2. /\ PublishedOK(x)
          /\ \/ Allowed(StatusOf(t), LackedBy(t), StatusOf(x), LackedBy(x))
             \/ StatusOf(x) = StatusOf(t) /\ LackedBy(x) = LackedBy(t)
      BY <1>1, <2>1, StepKeepsPromise
    <2> QED
      BY <2>2, PromiseIs DEF KeepsPromise, t, x
  <1> QED
    BY <1>3, <1>4, <1>5, TaskMoves

\* A refresh, as its callers see it, keeps to RefreshContract from its start to the
\* next refresh its object is used for: what it publishes lacks less and less, what
\* it returns lacks nothing, an outage comes before anything was published.
THEOREM TasksKeepTheContract ==
    Spec => [][\A r \in Refreshes : KeepsPromise(r)]_vars
  <1>1. Init => AllPublishedOK
    BY DEF Init, AllPublishedOK, PublishedOK, NoTask
  <1>2. ASSUME IInv, AllPublishedOK, [Next]_vars
        PROVE  AllPublishedOK' /\ [\A r \in Refreshes : KeepsPromise(r)]_vars
    <2>1. CASE UNCHANGED vars
      BY <1>2, <2>1 DEF vars, AllPublishedOK, PublishedOK, Done
    <2>2. CASE Next
      <3>1. \A r \in Refreshes : PublishedOK(task'[r]) /\ KeepsPromise(r)
        BY <1>2, <2>2, KeepsIt DEF AllPublishedOK
      <3>2. AllPublishedOK'
        BY <3>1 DEF AllPublishedOK, PublishedOK, Done
      <3> QED
        BY <3>1, <3>2
    <2> QED
      BY <1>2, <2>1, <2>2
  <1>3. Spec => []AllPublishedOK
    BY <1>1, <1>2, Invariance, PTL DEF Spec
  <1> QED
    BY <1>2, <1>3, Invariance, PTL DEF Spec

=============================================================================
