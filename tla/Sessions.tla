------------------------------ MODULE Sessions ------------------------------
(***************************************************************************)
(* Sessions and their tokens: login, resolution, logout and the exchange   *)
(* of refresh tokens (CompleteLogin, ResolveSession, Logout and            *)
(* EnsureFreshToken in application/use_cases.py), on either session store, *)
(* with the purge loop, the ActivityTracker and the background cycle over  *)
(* the active sessions (main.py).                                          *)
(*                                                                         *)
(* A caller is a request, or the cycle, which makes one call at a time.    *)
(* An action is what runs between two awaits; a store operation and a      *)
(* request to GitHub take effect at one instant.                           *)
(*                                                                         *)
(* A session's tokens come in pairs, numbered as GitHub issues them.  Time *)
(* is what it changes: sessions lapse, pairs become due, refresh tokens    *)
(* unusable, activity old - each at any moment.                            *)
(***************************************************************************)
EXTENDS Naturals, Sequences

CONSTANTS
    SessionIds,   \* ids: random, so that every login has one of its own
    Users,
    UserOf,       \* the account that logs in under an id
    Requests,     \* requests the process serves at the same time
    Cycle,        \* the background cycle, as a caller
    Backends,     \* the session stores: "sqlite", "redis"
    MaxPairs,     \* bound: pairs GitHub issues per session
    MaxEvents,    \* bound: what happens of itself: time, outages, crashes
    None

ASSUME SessionsAssumption ==
    /\ UserOf \in [SessionIds -> Users]
    /\ Backends \subseteq {"sqlite", "redis"}
    /\ MaxPairs \in Nat \ {0} /\ MaxEvents \in Nat
    /\ Cycle \notin Requests

Callers == Requests \cup {Cycle}
Pairs == 1 .. MaxPairs

\* SessionRecord, as stored: which pair its access and its refresh token are of,
\* and whether the entry has an expiry of its own (a Redis key that expires, a
\* row the purge loop deletes).
Records == [access : Pairs, refresh : Pairs, expires : BOOLEAN]

\* A call: "overview" asks for the overview, whose refresh deletes the session
\* when GitHub refuses its token; "direct" (a rerun, a list) does not; "warm" is
\* the cycle's overview.
Kinds == {"login", "logout", "overview", "direct", "warm"}
Locations == {"idle", "code", "viewer", "deny", "create", "get", "expired", "found",
              "exchange", "update", "write", "drop", "use", "refused",
              "logout", "revoke", "ended"}
Outcomes == {"ok", "none", "auth", "limited", "unavailable", "denied"}
NoCall == [pc |-> "idle", kind |-> "overview", session |-> None, record |-> None,
           raw |-> None, new |-> None, out |-> None, denied |-> FALSE]
NoHistory == [targets |-> {}, calls |-> << >>]

\* None is none of what it stands for the lack of.
ASSUME NoneAssumption ==
    /\ None \notin Records /\ None \notin Pairs
    /\ \A active \in SUBSET SessionIds : active # None

VARIABLES
    backend,   \* which store this deployment uses
    store,     \* SessionRepository: id -> record
    live,      \* GitHub: id -> the pair it accepts, if it still accepts one
    issued,    \* GitHub: id -> pairs issued so far
    lapsed,    \* ids whose expires_at has passed
    due,       \* id -> the newest pair whose access token is within the leeway of its expiry
    spent,     \* id -> the newest pair whose refresh token has expired
    activity,  \* ActivityTracker: id -> seen recently, longer ago, or not tracked
    call,      \* every caller; as history, whether its exchange was denied: answered
               \* without tokens, though GitHub accepts the pair it named
    todo,      \* the cycle: active sessions not yet looked at, None between cycles
    refreshed, \* the cycle: accounts whose overview it has refreshed
    history,   \* the cycle: whom it set out for, and what became of each it called for
    torn,      \* ids for which an exchange was answered, and the answer lost
    left       \* events that can still happen

github == <<live, issued>>
time == <<lapsed, due, spent>>
cycle == <<todo, refreshed, history>>
vars == <<backend, store, github, time, activity, call, cycle, torn, left>>

Init ==
    /\ backend \in Backends
    /\ store = [s \in SessionIds |-> None]
    /\ live = [s \in SessionIds |-> None]
    /\ issued = [s \in SessionIds |-> 0]
    /\ lapsed = {}
    /\ due = [s \in SessionIds |-> 0]
    /\ spent = [s \in SessionIds |-> 0]
    /\ activity = [s \in SessionIds |-> "untracked"]
    /\ call = [c \in Callers |-> NoCall]
    /\ todo = None /\ refreshed = {}
    /\ history = NoHistory
    /\ torn = {}
    /\ left = MaxEvents

TypeOK ==
    /\ backend \in Backends
    /\ store \in [SessionIds -> {None} \cup Records]
    /\ live \in [SessionIds -> {None} \cup Pairs]
    /\ issued \in [SessionIds -> 0 .. MaxPairs]
    /\ lapsed \subseteq SessionIds /\ torn \subseteq SessionIds
    /\ due \in [SessionIds -> 0 .. MaxPairs] /\ spent \in [SessionIds -> 0 .. MaxPairs]
    /\ activity \in [SessionIds -> {"untracked", "recent", "old"}]
    /\ call \in [Callers ->
          [pc : Locations, kind : Kinds, session : {None} \cup SessionIds,
           record : {None} \cup Records, raw : {None} \cup Records,
           new : {None} \cup Pairs, out : {None} \cup Outcomes, denied : BOOLEAN]]
    /\ todo \in {None} \cup SUBSET SessionIds /\ refreshed \subseteq Users
    /\ history.targets \subseteq SessionIds
    /\ history.calls \in Seq([session : SessionIds, out : Outcomes])
    /\ left \in 0 .. MaxEvents

-----------------------------------------------------------------------------
(* Steps of a call                                                         *)

At(c, pc) == call[c].pc = pc
Goto(c, pc) == call' = [call EXCEPT ![c].pc = pc]

\* Only these refresh the overview, and others of the account can wait for them.
Refreshing(k) == k.kind \in {"overview", "warm"}

\* The call of k has its outcome: a refresh has it for all who wait for it, and for
\* the cycle to settle; any other request is answered.
Ended(k, out) ==
    IF ~ Refreshing(k) THEN NoCall
    ELSE [NoCall EXCEPT !.pc = "ended", !.kind = k.kind, !.session = k.session, !.out = out]

End(c, out) == call' = [call EXCEPT ![c] = Ended(@, out)]
Happens == left > 0 /\ left' = left - 1

\* An AuthenticationError: the refresh of an overview deletes the session (again).
Unauthorized(k) ==
    IF k.kind = "direct" THEN Ended(k, "auth") ELSE [k EXCEPT !.pc = "refused"]

Delete(s) == store' = [store EXCEPT ![s] = None]

Begin(c, kind, s) ==
    /\ At(c, "idle")
    /\ call' = [call EXCEPT ![c] = [NoCall EXCEPT
                    !.pc = IF kind = "login" THEN "code" ELSE "get",
                    !.kind = kind, !.session = s]]

\* A request arrives: with the cookie of a session that once was there, or with
\* the code of a new login.
Request(c) ==
    /\ c \in Requests
    /\ \E s \in SessionIds, kind \in Kinds \ {"warm"} :
          /\ kind = "login" <=> issued[s] = 0
          /\ Begin(c, kind, s)
    /\ UNCHANGED <<backend, store, github, time, activity, cycle, torn, left>>

-----------------------------------------------------------------------------
(* CompleteLogin                                                           *)

\* exchange_code: GitHub issues the first pair, or refuses the code, or is out.
ExchangeCode(c) ==
    LET s == call[c].session IN
    /\ At(c, "code")
    /\ \/ /\ issued[s] = 0
          /\ issued' = [issued EXCEPT ![s] = 1] /\ live' = [live EXCEPT ![s] = 1]
          /\ Goto(c, "viewer") /\ UNCHANGED left
       \/ Happens /\ End(c, "unavailable") /\ UNCHANGED github
    /\ UNCHANGED <<backend, store, time, activity, cycle, torn>>

\* fetch_viewer, and the policy: the account may be one that may not sign in.
\* When it fails nobody revokes the new token.
Viewer(c) ==
    /\ At(c, "viewer")
    /\ \/ (\E pc \in {"create", "deny"} : Goto(c, pc)) /\ UNCHANGED left
       \/ Happens /\ End(c, "unavailable")
    /\ UNCHANGED <<backend, store, github, time, activity, cycle, torn>>

\* A revocation that fails hides the AccessDenied it was made for.
Deny(c) ==
    LET s == call[c].session IN
    /\ At(c, "deny")
    /\ \/ live' = [live EXCEPT ![s] = None] /\ End(c, "denied") /\ UNCHANGED left
       \/ Happens /\ End(c, "unavailable") /\ UNCHANGED live
    /\ UNCHANGED <<backend, store, issued, time, activity, cycle, torn>>

Create(c) ==
    LET s == call[c].session IN
    /\ At(c, "create")
    /\ store' = [store EXCEPT ![s] = [access |-> 1, refresh |-> 1, expires |-> TRUE]]
    /\ End(c, "ok")
    /\ UNCHANGED <<backend, github, time, activity, cycle, torn, left>>

-----------------------------------------------------------------------------
(* ResolveSession                                                          *)

Get(c) ==
    LET s == call[c].session
        record == store[s]
    IN
    /\ At(c, "get")
    /\ IF record = None THEN End(c, "none")
       ELSE call' = [call EXCEPT ![c].record = record,
                                 ![c].pc = IF s \in lapsed THEN "expired" ELSE "found"]
    /\ UNCHANGED <<backend, store, github, time, activity, cycle, torn, left>>

DeleteExpired(c) ==
    /\ At(c, "expired")
    /\ Delete(call[c].session)
    /\ End(c, "none")
    /\ UNCHANGED <<backend, github, time, activity, cycle, torn, left>>

\* What touch leaves: the background cycle resolves with touch=False.
Touched(c) ==
    IF c \in Requests THEN [activity EXCEPT ![call[c].session] = "recent"] ELSE activity

\* EnsureFreshToken, on the record the call has read.
Remedy(record, s) ==
    CASE record.access > due[s] -> "use"
      [] record.access <= due[s] /\ record.refresh > spent[s] -> "exchange"
      [] OTHER -> "drop"

Found(c) ==
    LET k == call[c] IN
    /\ At(c, "found")
    /\ activity' = Touched(c)
    /\ Goto(c, IF k.kind = "logout" THEN "logout" ELSE Remedy(k.record, k.session))
    /\ UNCHANGED <<backend, store, github, time, cycle, torn, left>>

\* GetOverview answers without a refresh of this session: a request from the cache,
\* by the failure it remembers or by another's refresh; the cycle, which forces its
\* refresh, by one of the account that a request has started.
Shared(c) ==
    LET k == call[c] IN
    /\ At(c, "found")
    /\ activity' = Touched(c)
    /\ \/ k.kind = "overview" /\ call' = [call EXCEPT ![c] = NoCall]
       \/ /\ k.kind = "warm"
          /\ \E d \in Requests :
                /\ At(d, "ended") /\ call[d].out # "none"
                /\ UserOf[call[d].session] = UserOf[k.session]
                /\ End(c, call[d].out)
    /\ UNCHANGED <<backend, store, github, time, cycle, torn, left>>

\* The request that a refresh was made for is answered.
Answered(c) ==
    /\ c \in Requests /\ At(c, "ended")
    /\ call' = [call EXCEPT ![c] = NoCall]
    /\ UNCHANGED <<backend, store, github, time, activity, cycle, torn, left>>

-----------------------------------------------------------------------------
(* EnsureFreshToken: the exchange                                          *)

\* A refresh token works once: GitHub then issues the next pair and accepts only
\* that.
Issue(s) ==
    /\ issued[s] < MaxPairs
    /\ issued' = [issued EXCEPT ![s] = @ + 1]
    /\ live' = [live EXCEPT ![s] = issued[s] + 1]

\* Mutant: any failure of the exchange ends the session.
ExchangeFailsForGood(c) == Goto(c, "drop")

\* An exchange that fails is not taken for a refusal: the session stays.
ExchangeFails(c) == End(c, "unavailable")

\* A refusal is any answer below 500 without an access token: that the refresh token
\* is used up or revoked, but also that the application is throttled (403, 429) or
\* that its own credentials are wrong.  The code does not tell them apart.
Exchange(c) ==
    LET s == call[c].session IN
    /\ At(c, "exchange")
    /\ \/ /\ live[s] = call[c].record.refresh
          /\ Issue(s)
          /\ call' = [call EXCEPT ![c].pc = "update", ![c].new = issued'[s]]
          /\ UNCHANGED <<torn, left>>
       \/ /\ live[s] # call[c].record.refresh
          /\ Goto(c, "drop")
          /\ UNCHANGED <<github, torn, left>>
       \/ /\ live[s] = call[c].record.refresh
          /\ Happens
          /\ call' = [call EXCEPT ![c].pc = "drop", ![c].denied = TRUE]
          /\ UNCHANGED <<github, torn>>
       \/ Happens /\ ExchangeFails(c) /\ UNCHANGED <<github, torn>>
       \/ /\ live[s] = call[c].record.refresh    \* GitHub's answer is lost
          /\ Issue(s)
          /\ torn' = torn \cup {s}
          /\ Happens /\ ExchangeFails(c)
    /\ UNCHANGED <<backend, store, time, activity, cycle>>

\* Mutants: the new refresh token is not stored, or replaced by nothing.
WithAccessTokenOnly(record, pair) == [record EXCEPT !.access = pair]
WithoutRefreshToken(record, pair) == [record EXCEPT !.access = pair, !.refresh = None]

\* The record that update_tokens leaves of record, with pair the tokens.
WithTokens(record, pair) == [record EXCEPT !.access = pair, !.refresh = pair]

\* The caller goes on with the tokens it was given.
Renewed(k) == [k EXCEPT !.pc = "use", !.record = WithTokens(@, k.new),
                           !.raw = None, !.new = None]

\* Mutant: a row is written whether there is one or not.
RowUpserted(s, pair) == [access |-> pair, refresh |-> pair, expires |-> TRUE]

\* SQLite: one UPDATE, of no row if there is none.
RowUpdated(s, pair) == IF store[s] = None THEN None ELSE WithTokens(store[s], pair)

UpdateSqlite(c) ==
    LET k == call[c] IN
    /\ backend = "sqlite" /\ At(c, "update")
    /\ store' = [store EXCEPT ![k.session] = RowUpdated(k.session, k.new)]
    /\ call' = [call EXCEPT ![c] = Renewed(@)]
    /\ UNCHANGED <<backend, github, time, activity, cycle, torn, left>>

\* Redis: the record is read ...
UpdateReadRedis(c) ==
    LET k == call[c]
        raw == store[k.session]
    IN
    /\ backend = "redis" /\ At(c, "update")
    /\ call' = [call EXCEPT ![c] = IF raw = None THEN Renewed(@)
                                   ELSE [@ EXCEPT !.pc = "write", !.raw = raw]]
    /\ UNCHANGED <<backend, store, github, time, activity, cycle, torn, left>>

\* ... and written back with KEEPTTL: a key that is gone by then is made anew,
\* and has no expiry to keep.
KeepTtl(s, record) == [record EXCEPT !.expires = store[s] # None /\ store[s].expires]

UpdateWriteRedis(c) ==
    LET k == call[c] IN
    /\ At(c, "write")
    /\ store' = [store EXCEPT ![k.session] = KeepTtl(k.session, WithTokens(k.raw, k.new))]
    /\ call' = [call EXCEPT ![c] = Renewed(@)]
    /\ UNCHANGED <<backend, github, time, activity, cycle, torn, left>>

Drop(c) ==
    /\ At(c, "drop")
    /\ Delete(call[c].session)
    /\ call' = [call EXCEPT ![c] = Unauthorized(@)]
    /\ UNCHANGED <<backend, github, time, activity, cycle, torn, left>>

\* The requests to GitHub that the call is for.
Use(c) ==
    LET accepted == live[call[c].session] = call[c].record.access IN
    /\ At(c, "use")
    /\ \/ accepted /\ End(c, "ok") /\ UNCHANGED left
       \/ ~ accepted /\ call' = [call EXCEPT ![c] = Unauthorized(@)] /\ UNCHANGED left
       \/ Happens /\ \E out \in {"limited", "unavailable"} : End(c, out)
    /\ UNCHANGED <<backend, store, github, time, activity, cycle, torn>>

\* GetOverview._refresh: the session of a refused token is deleted.
Refused(c) ==
    /\ At(c, "refused")
    /\ Delete(call[c].session)
    /\ End(c, "auth")
    /\ UNCHANGED <<backend, github, time, activity, cycle, torn, left>>

-----------------------------------------------------------------------------
(* Logout                                                                  *)

LogoutDelete(c) ==
    /\ At(c, "logout")
    /\ Delete(call[c].session)
    /\ Goto(c, "revoke")
    /\ UNCHANGED <<backend, github, time, activity, cycle, torn, left>>

\* Best effort, and of the token the call has read.
LogoutRevoke(c) ==
    LET s == call[c].session IN
    /\ At(c, "revoke")
    /\ \/ /\ live' = [live EXCEPT ![s] = IF @ = call[c].record.access THEN None ELSE @]
          /\ UNCHANGED left
       \/ Happens /\ UNCHANGED live
    /\ End(c, "ok")
    /\ UNCHANGED <<backend, store, issued, time, activity, cycle, torn>>

-----------------------------------------------------------------------------
(* The background: purge_expired, and a cycle over the active sessions     *)

\* _purge_loop: the rows whose expiry has passed.  On Redis it deletes nothing.
Purged == [s \in SessionIds |-> IF s \in lapsed THEN None ELSE store[s]]

Purge ==
    /\ backend = "sqlite"
    /\ store' = Purged
    /\ UNCHANGED <<backend, github, time, activity, call, cycle, torn, left>>

\* Redis drops a key whose expiry has passed, if it has one.
KeyExpires ==
    /\ backend = "redis"
    /\ \E s \in lapsed : store[s] # None /\ store[s].expires /\ Delete(s)
    /\ UNCHANGED <<backend, github, time, activity, call, cycle, torn, left>>

Tick ==
    LET active == {s \in SessionIds : activity[s] = "recent"} IN
    /\ todo = None
    /\ todo' = active
    /\ refreshed' = {}
    /\ history' = [targets |-> active, calls |-> << >>]
    /\ UNCHANGED <<backend, store, github, time, activity, call, torn, left>>

\* Mutant: every session is warmed up.
NeverSkipped(s) == FALSE

\* One warm-up per user: another session of his is passed over.
Skipped(s) == UserOf[s] \in refreshed

Take ==
    /\ At(Cycle, "idle") /\ todo # None
    /\ \E s \in todo :
          /\ todo' = todo \ {s}
          /\ IF Skipped(s) THEN UNCHANGED call ELSE Begin(Cycle, "warm", s)
    /\ UNCHANGED <<backend, store, github, time, activity, refreshed, history, torn, left>>

Forget(s) == [activity EXCEPT ![s] = "untracked"]

\* Mutant: an account counts as refreshed once it was tried.
RefreshedIfTried(s, out) == refreshed \cup {UserOf[s]}

\* An account counts as refreshed when a refresh has succeeded.
Refreshed(s, out) == IF out = "ok" THEN refreshed \cup {UserOf[s]} ELSE refreshed

\* What an outcome means for the rest of the cycle.
Settle ==
    LET s == call[Cycle].session
        out == call[Cycle].out
    IN
    /\ At(Cycle, "ended")
    /\ activity' = IF out \in {"none", "auth"} THEN Forget(s) ELSE activity
    /\ refreshed' = Refreshed(s, out)
    /\ todo' = IF out = "limited" THEN {} ELSE todo
    /\ history' = [history EXCEPT !.calls = Append(@, [session |-> s, out |-> out])]
    /\ call' = [call EXCEPT ![Cycle] = NoCall]
    /\ UNCHANGED <<backend, store, github, time, torn, left>>

CycleEnds ==
    /\ todo = {} /\ At(Cycle, "idle")
    /\ todo' = None /\ refreshed' = {} /\ history' = NoHistory
    /\ UNCHANGED <<backend, store, github, time, activity, call, torn, left>>

-----------------------------------------------------------------------------
(* What happens of itself                                                  *)

TimePasses ==
    /\ Happens
    /\ \E s \in SessionIds :
          \/ store[s] # None /\ lapsed' = lapsed \cup {s} /\ UNCHANGED <<due, spent, activity>>
          \/ /\ issued[s] \in 1 .. MaxPairs - 1 /\ due' = [due EXCEPT ![s] = issued[s]]
             /\ UNCHANGED <<lapsed, spent, activity>>
          \/ /\ issued[s] > 0 /\ due[s] = issued[s] /\ spent' = [spent EXCEPT ![s] = issued[s]]
             /\ UNCHANGED <<lapsed, due, activity>>
          \/ /\ activity[s] = "recent" /\ activity' = [activity EXCEPT ![s] = "old"]
             /\ UNCHANGED <<lapsed, due, spent>>
    /\ UNCHANGED <<backend, store, github, call, cycle, torn>>

\* The user, or GitHub, revokes a token.
Revoke ==
    /\ Happens
    /\ \E s \in SessionIds : live[s] # None /\ live' = [live EXCEPT ![s] = None]
    /\ UNCHANGED <<backend, store, issued, time, activity, call, cycle, torn>>

\* The process stops and is started again: the store is all that stays.
Restart ==
    /\ Happens
    /\ activity' = [s \in SessionIds |-> "untracked"]
    /\ call' = [c \in Callers |-> NoCall]
    /\ todo' = None /\ refreshed' = {} /\ history' = NoHistory
    /\ torn' = torn \cup {call[c].session : c \in {d \in Callers : call[d].pc \in {"update", "write"}}}
    /\ UNCHANGED <<backend, store, github, time>>

-----------------------------------------------------------------------------

Step(c) ==
    \/ ExchangeCode(c) \/ Viewer(c) \/ Deny(c) \/ Create(c)
    \/ Get(c) \/ DeleteExpired(c) \/ Found(c) \/ Shared(c) \/ Answered(c)
    \/ Exchange(c) \/ UpdateSqlite(c) \/ UpdateReadRedis(c) \/ UpdateWriteRedis(c)
    \/ Drop(c) \/ Use(c) \/ Refused(c)
    \/ LogoutDelete(c) \/ LogoutRevoke(c)

CycleStep == Tick \/ Take \/ Settle \/ CycleEnds

Next ==
    \/ \E c \in Callers : Request(c) \/ Step(c)
    \/ CycleStep \/ Purge \/ KeyExpires
    \/ TimePasses \/ Revoke \/ Restart

Spec == Init /\ [][Next]_vars

-----------------------------------------------------------------------------
(* What must hold                                                          *)

\* A session that is gone - logged out, lapsed, refused - does not come back
\* because a token exchange that was under way stores its result.  SQLite's one
\* UPDATE sees to it; Redis's read and write do not.
DeletedStaysDeleted ==
    [][\A s \in SessionIds :
          store[s] = None /\ store'[s] # None =>
             backend = "redis" \/ \E c \in Callers : At(c, "create") /\ call[c].session = s]_vars

\* What Redis's comment promises: storing new tokens leaves a session its end.
LifetimeIsKept == \A s \in SessionIds : store[s] # None => store[s].expires

\* However exchanges, logouts and reads interleave, a stored session holds the
\* pair GitHub issued last, both halves of it, unless the tokens were revoked, a
\* caller is about to store them, or the answer to an exchange was lost.
NewestPairIsStored ==
    \A s \in SessionIds :
        \/ store[s] = None \/ live[s] = None \/ s \in torn
        \/ \E c \in Callers : call[c].pc \in {"update", "write"} /\ call[c].session = s
        \/ store[s].access = live[s] /\ store[s].refresh = live[s]

\* A caller whose pair has been exchanged by another since it read its record.
Overtaken(c) == call[c].record # None /\ call[c].record.refresh # live[call[c].session]

\* A session whose stored tokens GitHub accepts, and that has not lapsed.
Good(s) == store[s] # None /\ store[s].refresh = live[s] /\ s \notin lapsed

\* Nobody is logged out for an outage: a good session is deleted by a logout, because
\* its refresh token has expired, by a caller that another one's exchange has
\* overtaken, or by one that GitHub did answer, but denied the tokens.
DeletedForCause ==
    [][\A s \in SessionIds :
          Good(s) /\ store'[s] = None =>
             \E c \in Callers :
                /\ call[c].session = s /\ call'[c] # call[c]
                /\ At(c, "logout") \/ live[s] <= spent[s] \/ Overtaken(c) \/ call[c].denied]_vars

\* A cycle costs what it must: one successful refresh per user at most, and
\* nothing more once GitHub has said that the limit is reached.
CycleIsSparing ==
    \A i, j \in DOMAIN history.calls :
        i < j => /\ history.calls[i].out # "limited"
                 /\ history.calls[i].out = "ok" =>
                       UserOf[history.calls[i].session] # UserOf[history.calls[j].session]

\* A cycle that was not cut short has refreshed every user it set out for, or has
\* tried all of his active sessions: one session's failure stops no other.
CycleReachesAll ==
    todo = {} /\ At(Cycle, "idle") =>
        \/ \E i \in DOMAIN history.calls : history.calls[i].out = "limited"
        \/ \A s \in history.targets :
              \E i \in DOMAIN history.calls :
                  \/ history.calls[i].session = s
                  \/ /\ UserOf[history.calls[i].session] = UserOf[s]
                     /\ history.calls[i].out = "ok"
=============================================================================
