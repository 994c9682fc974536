--------------------------- MODULE SessionsProofs ---------------------------
(***************************************************************************)
(* A session's newest pair is in the store or on its way there, the cycle  *)
(* reaches everybody at the least cost, and a session ends for a reason:   *)
(* for any sessions, requests, pairs and events.                           *)
(*                                                                         *)
(* Most steps only take away - a call moves on, a record is deleted, a     *)
(* token revoked (Lessens) - and keep what is known of every session for   *)
(* one reason.  The steps that give - a pair issued, a record created or   *)
(* renewed - change one session, of which one caller knows it all (Local). *)
(***************************************************************************)
EXTENDS Sessions, SequenceTheorems, TLAPS

Calls == [pc : Locations, kind : Kinds, session : {None} \cup SessionIds,
          record : {None} \cup Records, raw : {None} \cup Records,
          new : {None} \cup Pairs, out : {None} \cup Outcomes, denied : BOOLEAN]
Histories == [targets : SUBSET SessionIds, calls : Seq([session : SessionIds, out : Outcomes])]

\* Where a call holds the record it has read, stores the pair it was given, or
\* has a token but no session yet.
Holding == {"found", "expired", "exchange", "update", "write", "drop", "use", "refused",
            "logout", "revoke"}
Storing == {"update", "write"}
LoggingIn == {"viewer", "deny", "create"}

-----------------------------------------------------------------------------
(* What can be said of a call alone                                        *)

Shape(c, k) ==
    /\ k.pc # "idle" => k.session \in SessionIds /\ (k.kind = "warm" <=> c = Cycle)
    /\ k.pc \in Holding <=> k.record # None
    /\ k.pc \in Storing => k.new \in Pairs
    /\ k.pc = "write" => k.raw # None /\ backend = "redis"
    /\ k.pc = "ended" => k.out \in Outcomes

\* A record's tokens are one pair, one that was issued.
Genuine(record, s) == record.access = record.refresh /\ record.refresh <= issued[s]

\* Why the session of k may be deleted: it is over, or its refresh token is, or
\* GitHub has denied it another.
Expired(k) == k.pc = "expired" => k.session \in lapsed
Doomed(k) ==
    k.pc \in {"drop", "refused"} =>
        \/ k.record.refresh # live[k.session] \/ k.record.refresh <= spent[k.session]
        \/ k.denied

CallsInv ==
    \A c \in Callers :
        /\ Shape(c, call[c])
        /\ call[c].record # None => Genuine(call[c].record, call[c].session)
        /\ Expired(call[c]) /\ Doomed(call[c])

-----------------------------------------------------------------------------
(* What can be said of a session and all who call for it                   *)

PairsAt(s) ==
    /\ live[s] \in {None, issued[s]} /\ spent[s] <= issued[s] /\ due[s] <= issued[s]
    /\ store[s] # None => Genuine(store[s], s)

\* While a caller has the newest pair to store, nobody else has it.
StoringAt(s) ==
    \A c \in Callers : call[c].session = s /\ call[c].pc \in Storing =>
        /\ call[c].new = issued[s]
        /\ store[s] # None => store[s].refresh < issued[s]
        /\ \A d \in Callers : call[d].session = s =>
              /\ call[d].record # None => call[d].record.refresh < issued[s]
              /\ call[d].pc \in Storing => d = c

\* Nobody knows of a session before it is created.
LoginAt(s) ==
    \A c \in Callers : call[c].session = s /\ call[c].pc \in LoggingIn =>
        /\ issued[s] = 1 /\ store[s] = None
        /\ \A d \in Callers : call[d].session = s =>
              call[d].record = None /\ (call[d].pc \in LoggingIn => d = c)

NewestAt(s) ==
    \/ store[s] = None \/ s \in torn
    \/ \E c \in Callers : call[c].pc \in Storing /\ call[c].session = s
    \/ store[s].refresh = issued[s]

SessionInv(s) == PairsAt(s) /\ StoringAt(s) /\ LoginAt(s) /\ NewestAt(s)

-----------------------------------------------------------------------------
(* The cycle                                                               *)

Cut == \E i \in DOMAIN history.calls : history.calls[i].out = "limited"

Tried(s) ==
    \E i \in DOMAIN history.calls :
        \/ history.calls[i].session = s
        \/ UserOf[history.calls[i].session] = UserOf[s] /\ history.calls[i].out = "ok"

CycleInv ==
    /\ todo = None => history = NoHistory /\ call[Cycle].pc = "idle"
    /\ Cut => todo = {} /\ call[Cycle].pc = "idle"
    /\ \A u \in Users : u \in refreshed <=>
          \E i \in DOMAIN history.calls :
              UserOf[history.calls[i].session] = u /\ history.calls[i].out = "ok"
    /\ call[Cycle].pc # "idle" => UserOf[call[Cycle].session] \notin refreshed
    /\ CycleIsSparing
    /\ Cut \/ \A s \in history.targets :
                 \/ Tried(s) \/ (todo # None /\ s \in todo)
                 \/ call[Cycle].pc # "idle" /\ call[Cycle].session = s

IInv ==
    /\ TypeOK /\ history \in Histories
    /\ CallsInv /\ (\A s \in SessionIds : SessionInv(s)) /\ CycleInv

-----------------------------------------------------------------------------
(* How a call moves                                                        *)

\* What c does next leaves every other call alone, and its own a call.
Moved(c) ==
    /\ call' \in [Callers -> Calls]
    /\ \A d \in Callers : d # c => call'[d] = call[d]
    /\ Shape(c, call'[c])
    /\ IF call[c].pc = "idle" THEN c # Cycle
       ELSE \/ call'[c].session = call[c].session /\ call'[c].pc # "idle"
            \/ call'[c].pc = "idle" /\ c # Cycle

\* Every caller has a call.
LEMMA CallTypes == ASSUME TypeOK PROVE call \in [Callers -> Calls]
BY DEF TypeOK, Calls

\* A caller makes its call k.
LEMMA Moving ==
    ASSUME call \in [Callers -> Calls], NEW c \in Callers, NEW k \in Calls, call' = [call EXCEPT ![c] = k]
    PROVE  /\ call' \in [Callers -> Calls] /\ call'[c] = k
           /\ \A d \in Callers : d # c => call'[d] = call[d]
OBVIOUS

\* Goto changes where the call is.
LEMMA Going ==
    ASSUME NEW k \in Calls, NEW pc \in Locations
    PROVE  LET n == [k EXCEPT !.pc = pc] IN
           /\ n \in Calls /\ n.pc = pc /\ n.kind = k.kind /\ n.session = k.session
           /\ n.record = k.record /\ n.raw = k.raw /\ n.new = k.new /\ n.out = k.out
           /\ n.denied = k.denied
BY DEF Calls

\* A caller without a call.
LEMMA NoCallIs == /\ NoCall \in Calls /\ NoCall.pc = "idle" /\ NoCall.record = None
                  /\ NoCall.session = None
BY DEF NoCall, Calls, Locations, Kinds

\* What is left of a call that has its outcome.
LEMMA Ending ==
    ASSUME NEW k \in Calls, NEW out \in Outcomes
    PROVE  LET n == Ended(k, out) IN
           /\ n \in Calls /\ n.record = None
           /\ ~ Refreshing(k) => n = NoCall
           /\ Refreshing(k) =>
                 n.pc = "ended" /\ n.kind = k.kind /\ n.session = k.session /\ n.out = out
BY NoCallIs DEF Ended, Calls, NoCall, Locations, Kinds

\* A call that ends, ends its own.
LEMMA EndingMoves ==
    ASSUME IInv, NEW c \in Callers, call[c].pc # "idle", NEW out \in Outcomes, End(c, out)
    PROVE  Moved(c) /\ call'[c] = Ended(call[c], out) /\ call'[c].record = None /\ call'[c].pc \in {"idle", "ended"}
<1>1. call \in [Callers -> Calls] /\ call[c] \in Calls /\ Shape(c, call[c])
  BY CallTypes DEF IInv, CallsInv
<1>2. Ended(call[c], out) \in Calls
  BY <1>1, Ending
<1>3. /\ call' \in [Callers -> Calls] /\ call'[c] = Ended(call[c], out)
      /\ \A d \in Callers : d # c => call'[d] = call[d]
  <2> DEFINE n == Ended(call[c], out)
  <2>1. n \in Calls /\ call' = [call EXCEPT ![c] = n]
    BY <1>2 DEF End
  <2> HIDE DEF n
  <2>2. /\ call' \in [Callers -> Calls] /\ call'[c] = n
        /\ \A d \in Callers : d # c => call'[d] = call[d]
    BY <1>1, <2>1, Moving
  <2> QED BY <2>2 DEF n
<1>4. CASE ~ Refreshing(call[c])
  <2>1. call'[c] = NoCall /\ c # Cycle
    BY <1>1, <1>3, <1>4, Ending DEF Shape, Refreshing
  <2>2. Shape(c, call'[c])
    BY <2>1, NoCallIs DEF Shape, Holding, Storing
  <2> QED BY <1>3, <2>1, <2>2, NoCallIs DEF Moved
<1>5. CASE Refreshing(call[c])
  <2> DEFINE n == call'[c]
  <2>1. /\ n.record = None /\ n.pc = "ended" /\ n.kind = call[c].kind /\ n.session = call[c].session
        /\ n.out = out
    BY <1>1, <1>3, <1>5, Ending
  <2> HIDE DEF n
  <2>2. Shape(c, n)
    BY <1>1, <1>5, <2>1 DEF Shape, Holding, Storing
  <2>3. Moved(c)
    BY <1>3, <2>1, <2>2 DEF Moved, n
  <2> QED BY <1>3, <2>1, <2>3 DEF n
<1> QED BY <1>4, <1>5


-----------------------------------------------------------------------------
(* Steps that take away                                                    *)

Follows(d) ==
    LET k == call[d]
        n == call'[d]
    IN
    \/ n = k
    \/ /\ n.record # None => n.session = k.session /\ n.record \in {k.record, store[n.session]}
       /\ n.pc \in Storing => k.pc \in Storing /\ n.new = k.new /\ n.session = k.session
       /\ n.pc \in LoggingIn => k.pc \in LoggingIn /\ n.session = k.session
       /\ k.pc \in Storing /\ n.pc \notin Storing =>
             store'[k.session] = None \/ k.session \in torn'
       /\ n.pc = "expired" => n.session \in lapsed
       /\ n.pc \in {"drop", "refused"} =>
             \/ n.record.refresh # live[n.session] \/ n.record.refresh <= spent[n.session]
             \/ n.denied

Lessens ==
    /\ issued' = issued /\ backend' = backend
    /\ \A s \in SessionIds :
          /\ store'[s] \in {None, store[s]} /\ live'[s] \in {None, live[s]}
          /\ spent[s] <= spent'[s] /\ spent'[s] <= issued[s] /\ due'[s] <= issued[s]
    /\ torn \subseteq torn' /\ lapsed \subseteq lapsed'
    /\ \A d \in Callers : Shape(d, call'[d]) /\ Follows(d)

\* What the types say of one call, and of one session.
LEMMA CallFacts ==
    ASSUME TypeOK, NEW c \in Callers
    PROVE  /\ call[c] \in Calls /\ call[c].session \in {None} \cup SessionIds
           /\ call[c].record # None => call[c].record.refresh \in Nat /\ call[c].record \in Records
           /\ call[c].record # None => call[c].record.refresh \in Pairs /\ call[c].record.access \in Pairs
           /\ call[c].new \in Pairs => call[c].new \in Nat
BY SessionsAssumption DEF TypeOK, Calls, Records, Pairs

LEMMA SessionFacts ==
    ASSUME TypeOK, NEW s \in SessionIds
    PROVE  /\ issued[s] \in Nat /\ spent[s] \in Nat /\ due[s] \in Nat /\ issued[s] <= MaxPairs
           /\ live[s] \in {None} \cup Pairs
           /\ live[s] # None => live[s] \in Nat
           /\ store[s] # None => store[s] \in Records /\ store[s].refresh \in Nat
           /\ store[s] # None => store[s].refresh \in Pairs /\ store[s].access \in Pairs
BY SessionsAssumption DEF TypeOK, Records, Pairs

\* Taking away breaks nothing that is known of calls and sessions.
LEMMA LessensKeeps ==
    ASSUME IInv, TypeOK', Lessens
    PROVE  CallsInv' /\ \A s \in SessionIds : SessionInv(s)'
<1>0. /\ TypeOK /\ CallsInv /\ issued' = issued /\ backend' = backend
      /\ \A s \in SessionIds : PairsAt(s) /\ StoringAt(s) /\ LoginAt(s) /\ NewestAt(s)
  BY DEF IInv, Lessens, SessionInv
<1>1. ASSUME NEW d \in Callers, call'[d].record # None
      PROVE  /\ call'[d].session \in SessionIds
             /\ Genuine(call'[d].record, call'[d].session)
             /\ call'[d].session = call[d].session
             /\ \/ call'[d].record = call[d].record
                \/ store[call[d].session] # None /\ call'[d].record = store[call[d].session]
  <2>1. Shape(d, call'[d]) /\ Follows(d) /\ Shape(d, call[d])
    BY <1>0 DEF Lessens, CallsInv
  <2>2. call'[d].session \in SessionIds /\ call'[d].session = call[d].session
    BY <2>1, <1>1 DEF Follows, Shape, Holding
  <2>3. call'[d].record \in {call[d].record, store[call[d].session]}
    BY <2>1, <1>1, <2>2 DEF Follows
  <2> QED BY <1>0, <1>1, <2>2, <2>3 DEF CallsInv, PairsAt, Genuine
<1>2. CallsInv'
  <2> SUFFICES ASSUME NEW d \in Callers
               PROVE  /\ Shape(d, call[d])'
                      /\ call'[d].record # None => Genuine(call[d].record, call[d].session)'
                      /\ Expired(call[d])' /\ Doomed(call[d])'
    BY DEF CallsInv
  <2>1. Shape(d, call[d])'
    BY <1>0 DEF Lessens, Shape
  <2>2. call'[d].record # None => Genuine(call[d].record, call[d].session)'
    BY <1>0, <1>1 DEF Genuine
  <2>3. Follows(d) /\ Expired(call[d]) /\ Doomed(call[d])
    BY <1>0 DEF Lessens, CallsInv
  <2>4. Expired(call[d])'
    BY <2>3 DEF Lessens, Expired, Follows
  <2>5. ASSUME call'[d].pc \in {"drop", "refused"}
        PROVE  \/ call'[d].record.refresh # live'[call'[d].session]
               \/ call'[d].record.refresh <= spent'[call'[d].session]
               \/ call'[d].denied
    <3> DEFINE s == call'[d].session
    <3>1. call'[d].record # None
      BY <2>1, <2>5 DEF Shape, Holding
    <3>2. /\ s \in SessionIds
          /\ \/ call'[d].record.refresh # live[s] \/ call'[d].record.refresh <= spent[s]
             \/ call'[d].denied
      BY <3>1, <1>1, <2>3, <2>5 DEF Follows, Doomed
    <3>3. /\ call'[d].record.refresh \in Nat /\ spent[s] \in Nat /\ spent'[s] \in Nat
          /\ call'[d].record.refresh # None
      BY <1>0, <3>1, <3>2, CallFacts, SessionFacts, NoneAssumption DEF TypeOK, Records, Pairs
    <3>4. live'[s] \in {None, live[s]} /\ spent[s] <= spent'[s]
      BY <3>2 DEF Lessens
    <3> HIDE DEF s
    <3>5. \/ call'[d].record.refresh # live'[s] \/ call'[d].record.refresh <= spent'[s]
          \/ call'[d].denied
      BY <3>2, <3>3, <3>4
    <3> QED BY <3>5 DEF s
  <2>6. Doomed(call[d])'
    BY <2>5 DEF Doomed
  <2> QED BY <2>1, <2>2, <2>4, <2>6
<1>3. ASSUME NEW s \in SessionIds PROVE SessionInv(s)'
  <2>1. /\ store'[s] \in {None, store[s]} /\ live'[s] \in {None, live[s]}
        /\ spent'[s] <= issued[s] /\ due'[s] <= issued[s] /\ torn \subseteq torn'
    BY DEF Lessens
  <2>2. PairsAt(s)'
    BY <1>0, <2>1 DEF PairsAt, Genuine
  <2>3. StoringAt(s)'
    <3> SUFFICES ASSUME NEW c \in Callers, call'[c].session = s, call'[c].pc \in Storing
                 PROVE  /\ call'[c].new = issued'[s]
                        /\ store'[s] # None => store'[s].refresh < issued'[s]
                        /\ \A d \in Callers : call'[d].session = s =>
                              /\ call'[d].record # None => call'[d].record.refresh < issued'[s]
                              /\ call'[d].pc \in Storing => d = c
      BY DEF StoringAt
    <3>1. \A d \in Callers : call'[d].pc \in Storing =>
             call[d].pc \in Storing /\ call'[d].new = call[d].new /\ call'[d].session = call[d].session
      BY DEF Lessens, Follows
    <3>2. /\ call[c].new = issued[s]
          /\ store[s] # None => store[s].refresh < issued[s]
          /\ \A d \in Callers : call[d].session = s =>
                /\ call[d].record # None => call[d].record.refresh < issued[s]
                /\ call[d].pc \in Storing => d = c
      BY <1>0, <3>1 DEF StoringAt
    <3>3. ASSUME NEW d \in Callers, call'[d].session = s
          PROVE  /\ call'[d].record # None => call'[d].record.refresh < issued'[s]
                 /\ call'[d].pc \in Storing => d = c
      BY <1>0, <1>1, <3>1, <3>2, <3>3
    <3> QED BY <1>0, <2>1, <3>1, <3>2, <3>3
  <2>4. LoginAt(s)'
    <3> SUFFICES ASSUME NEW c \in Callers, call'[c].session = s, call'[c].pc \in LoggingIn
                 PROVE  /\ issued'[s] = 1 /\ store'[s] = None
                        /\ \A d \in Callers : call'[d].session = s =>
                              call'[d].record = None /\ (call'[d].pc \in LoggingIn => d = c)
      BY DEF LoginAt
    <3>1. \A d \in Callers : call'[d].pc \in LoggingIn =>
             call[d].pc \in LoggingIn /\ call'[d].session = call[d].session
      BY DEF Lessens, Follows
    <3>2. /\ issued[s] = 1 /\ store[s] = None
          /\ \A d \in Callers : call[d].session = s =>
                call[d].record = None /\ (call[d].pc \in LoggingIn => d = c)
      BY <1>0, <3>1 DEF LoginAt
    <3>3. ASSUME NEW d \in Callers, call'[d].session = s
          PROVE  call'[d].record = None /\ (call'[d].pc \in LoggingIn => d = c)
      BY <1>1, <3>1, <3>2, <3>3
    <3> QED BY <1>0, <2>1, <3>2, <3>3
  <2>5. NewestAt(s)'
    <3>1. CASE store[s] = None \/ s \in torn \/ store[s].refresh = issued[s]
      BY <1>0, <2>1, <3>1 DEF NewestAt
    <3>2. ASSUME NEW c \in Callers, call[c].pc \in Storing, call[c].session = s
          PROVE  store'[s] = None \/ s \in torn' \/ (call'[c].pc \in Storing /\ call'[c].session = s)
      BY <3>2 DEF Lessens, Follows
    <3> QED BY <1>0, <3>1, <3>2 DEF NewestAt
  <2> QED BY <2>2, <2>3, <2>4, <2>5 DEF SessionInv
<1> QED BY <1>2, <1>3

\* A call that goes on as k.
LEMMA StayingMoves ==
    ASSUME IInv, NEW c \in Callers, call[c].pc # "idle", NEW k \in Calls, call' = [call EXCEPT ![c] = k],
           Shape(c, k), k.pc # "idle", k.session = call[c].session
    PROVE  Moved(c) /\ call'[c] = k
<1>1. /\ call' \in [Callers -> Calls] /\ call'[c] = k
      /\ \A d \in Callers : d # c => call'[d] = call[d]
  BY CallTypes, Moving DEF IInv
<1> QED BY <1>1 DEF Moved

\* A call that goes on as it is, elsewhere.
LEMMA GoingMoves ==
    ASSUME IInv, NEW c \in Callers, call[c].pc # "idle", NEW pc \in Locations, Goto(c, pc),
           pc \notin {"idle", "update", "write", "ended"}, pc \in Holding <=> call[c].record # None
    PROVE  /\ Moved(c)
           /\ call'[c].pc = pc /\ call'[c].kind = call[c].kind /\ call'[c].session = call[c].session
           /\ call'[c].record = call[c].record /\ call'[c].new = call[c].new
           /\ call'[c].denied = call[c].denied
<1> DEFINE k == [call[c] EXCEPT !.pc = pc]
<1>1. call \in [Callers -> Calls] /\ call[c] \in Calls /\ Shape(c, call[c])
  BY CallTypes DEF IInv, CallsInv
<1>2. /\ k \in Calls /\ k.pc = pc /\ k.kind = call[c].kind /\ k.session = call[c].session
      /\ k.record = call[c].record /\ k.new = call[c].new /\ k.denied = call[c].denied
  BY <1>1, Going
<1>3. call' = [call EXCEPT ![c] = k]
  BY <1>1 DEF Goto
<1> HIDE DEF k
<1>4. Shape(c, k)
  BY <1>1, <1>2 DEF Shape, Storing
<1>5. Moved(c) /\ call'[c] = k
  BY <1>2, <1>3, <1>4, StayingMoves
<1> QED BY <1>2, <1>5

\* A deletion takes away.
LEMMA Deleting ==
    ASSUME TypeOK, NEW s \in SessionIds, Delete(s)
    PROVE  /\ store' \in [SessionIds -> {None} \cup Records] /\ store'[s] = None
           /\ \A t \in SessionIds : store'[t] \in {None, store[t]}
BY DEF TypeOK, Delete

\* Events are counted down.
LEMMA Happening == ASSUME TypeOK, Happens PROVE left' \in 0 .. MaxEvents
BY SessionsAssumption DEF TypeOK, Happens

\* A step of c that takes nothing away but from its own session.
LEMMA OneCallLessens ==
    ASSUME IInv, NEW c \in Callers, Moved(c), Follows(c),
           UNCHANGED <<backend, issued, time, cycle, torn>>,
           store' \in [SessionIds -> {None} \cup Records],
           live' \in [SessionIds -> {None} \cup Pairs],
           \A s \in SessionIds : store'[s] \in {None, store[s]} /\ live'[s] \in {None, live[s]},
           activity' \in [SessionIds -> {"untracked", "recent", "old"}],
           left' \in 0 .. MaxEvents
    PROVE  Lessens /\ TypeOK' /\ history' \in Histories
<1>1. TypeOK /\ history \in Histories /\ CallsInv /\ \A s \in SessionIds : PairsAt(s)
  BY DEF IInv, SessionInv
<1>2. TypeOK'
  BY <1>1 DEF TypeOK, Moved, Calls, time, cycle
<1>3. \A d \in Callers : Shape(d, call'[d]) /\ Follows(d)
  BY <1>1 DEF Moved, CallsInv, Follows
<1>4. \A s \in SessionIds : spent[s] <= spent'[s] /\ spent'[s] <= issued[s] /\ due'[s] <= issued[s]
  <2> SUFFICES ASSUME NEW s \in SessionIds
               PROVE  spent[s] <= spent'[s] /\ spent'[s] <= issued[s] /\ due'[s] <= issued[s]
    OBVIOUS
  <2> QED BY <1>1, SessionFacts DEF PairsAt, time
<1> QED BY <1>1, <1>2, <1>3, <1>4 DEF Lessens, time, cycle


LessStep(c) == Moved(c) /\ Lessens /\ TypeOK' /\ history' \in Histories

\* The call of c is over; whatever else the step does takes away.
LEMMA EndingLessens ==
    ASSUME IInv, NEW c \in Callers, call[c].pc \notin {"idle", "update", "write"},
           NEW out \in Outcomes, End(c, out),
           UNCHANGED <<backend, issued, time, cycle, torn>>,
           store' \in [SessionIds -> {None} \cup Records],
           live' \in [SessionIds -> {None} \cup Pairs],
           \A s \in SessionIds : store'[s] \in {None, store[s]} /\ live'[s] \in {None, live[s]},
           activity' = activity, left' \in 0 .. MaxEvents
    PROVE  LessStep(c)
<1>1. Moved(c) /\ call'[c].record = None /\ call'[c].pc \in {"idle", "ended"}
  BY EndingMoves
<1>2. Follows(c)
  BY <1>1 DEF Follows, Storing, LoggingIn
<1>3. activity' \in [SessionIds -> {"untracked", "recent", "old"}]
  BY DEF IInv, TypeOK
<1> QED BY <1>1, <1>2, <1>3, OneCallLessens DEF LessStep

\* What does not change has its type, and takes nothing away.
LEMMA TypesStay ==
    ASSUME TypeOK
    PROVE  /\ \A s \in SessionIds : live[s] \in {None, live[s]} /\ store[s] \in {None, store[s]}
           /\ live \in [SessionIds -> {None} \cup Pairs]
           /\ store \in [SessionIds -> {None} \cup Records]
           /\ left \in 0 .. MaxEvents
           /\ activity \in [SessionIds -> {"untracked", "recent", "old"}]
BY DEF TypeOK

\* The outcomes, for citation.
LEMMA OutcomesAre == {"ok", "none", "auth", "limited", "unavailable", "denied"} \subseteq Outcomes
BY DEF Outcomes

\* A call is of a session, and holds a record where it should.
LEMMA InCall ==
    ASSUME IInv, NEW c \in Callers, call[c].pc # "idle"
    PROVE  /\ call[c].session \in SessionIds /\ call[c] \in Calls /\ Shape(c, call[c])
           /\ call[c].pc \in Holding <=> call[c].record # None
           /\ call[c].record # None => call[c].record \in Records
BY CallTypes DEF IInv, CallsInv, Shape, Calls

-----------------------------------------------------------------------------
(* The steps of a call that take away                                     *)

\* The actions, one by one: first those that only take away ...
LEMMA ViewerLess == ASSUME IInv, NEW c \in Callers, Viewer(c) PROVE LessStep(c)
<1>1. TypeOK /\ call[c].pc = "viewer" /\ call[c].pc # "idle"
  BY DEF IInv, Viewer, At
<1>2. UNCHANGED <<backend, store, live, issued, time, activity, cycle, torn>>
  BY DEF Viewer, github
<1>3. CASE \E pc \in {"create", "deny"} : Goto(c, pc) /\ UNCHANGED left
  <2>1. PICK pc \in {"create", "deny"} : Goto(c, pc) /\ left' = left
    BY <1>3
  <2>2. pc \in Locations /\ pc \notin Holding /\ "viewer" \notin Holding
    BY DEF Locations, Holding
  <2>3. Moved(c) /\ call'[c].pc = pc /\ call'[c].session = call[c].session /\ call'[c].record = None
    BY <1>1, <2>1, <2>2, InCall, GoingMoves
  <2>4. Follows(c)
    BY <1>1, <2>3 DEF Follows, LoggingIn, Storing
  <2> QED BY <1>1, <1>2, <2>1, <2>3, <2>4, TypesStay, OneCallLessens DEF LessStep
<1>4. CASE Happens /\ End(c, "unavailable")
  BY <1>1, <1>2, <1>4, TypesStay, Happening, OutcomesAre, EndingLessens
<1> QED BY <1>3, <1>4 DEF Viewer

LEMMA DenyLess == ASSUME IInv, NEW c \in Callers, Deny(c) PROVE LessStep(c)
<1> DEFINE s == call[c].session
<1>1. TypeOK /\ call[c].pc = "deny" /\ s \in SessionIds
  BY InCall DEF IInv, Deny, At
<1>2. UNCHANGED <<backend, store, issued, time, activity, cycle, torn>>
  BY DEF Deny
<1>3. CASE live' = [live EXCEPT ![s] = None] /\ End(c, "denied") /\ UNCHANGED left
  <2>1. /\ live' \in [SessionIds -> {None} \cup Pairs]
        /\ \A t \in SessionIds : live'[t] \in {None, live[t]}
    BY <1>1, <1>3 DEF TypeOK
  <2> QED BY <1>1, <1>2, <1>3, <2>1, TypesStay, OutcomesAre, EndingLessens
<1>4. CASE Happens /\ End(c, "unavailable") /\ UNCHANGED live
  BY <1>1, <1>2, <1>4, TypesStay, Happening, OutcomesAre, EndingLessens
<1> QED BY <1>3, <1>4 DEF Deny

LEMMA GetLess == ASSUME IInv, NEW c \in Callers, Get(c) PROVE LessStep(c)
<1> DEFINE s == call[c].session
<1>1. TypeOK /\ call[c].pc = "get" /\ s \in SessionIds /\ call[c] \in Calls /\ Shape(c, call[c])
  BY InCall DEF IInv, Get, At
<1>2. UNCHANGED <<backend, store, live, issued, time, activity, cycle, torn, left>>
  BY DEF Get, github
<1>3. CASE store[s] = None
  <2>1. End(c, "none")
    BY <1>3 DEF Get
  <2> QED BY <1>1, <1>2, <2>1, TypesStay, OutcomesAre, EndingLessens
<1>4. CASE store[s] # None
  <2> DEFINE pc == IF s \in lapsed THEN "expired" ELSE "found"
             k == [call[c] EXCEPT !.record = store[s], !.pc = pc]
  <2>1. pc \in {"expired", "found"} /\ (pc = "expired" => s \in lapsed)
    OBVIOUS
  <2>2. call' = [call EXCEPT ![c] = k]
    BY <1>4 DEF Get
  <2> HIDE DEF pc
  <2>3. /\ k \in Calls /\ k.pc = pc /\ k.record = store[s] /\ k.session = s /\ k.kind = call[c].kind
    BY <1>1, <2>1 DEF Calls, Locations, TypeOK
  <2> HIDE DEF k
  <2>4. Shape(c, k)
    BY <1>1, <1>4, <2>1, <2>3 DEF Shape, Holding, Storing
  <2>5. Moved(c) /\ call'[c] = k
    BY <1>1, <2>1, <2>2, <2>3, <2>4, StayingMoves
  <2>6. Follows(c)
    BY <1>1, <2>1, <2>3, <2>5 DEF Follows, Storing, LoggingIn
  <2> QED BY <1>1, <1>2, <2>5, <2>6, TypesStay, OneCallLessens DEF LessStep
<1> QED BY <1>3, <1>4


LEMMA DeleteExpiredLess == ASSUME IInv, NEW c \in Callers, DeleteExpired(c) PROVE LessStep(c)
<1>1. TypeOK /\ call[c].pc = "expired" /\ call[c].session \in SessionIds
  BY InCall DEF IInv, DeleteExpired, At
<1> QED BY <1>1, Deleting, TypesStay, OutcomesAre, EndingLessens DEF DeleteExpired, github

LEMMA RefusedLess == ASSUME IInv, NEW c \in Callers, Refused(c) PROVE LessStep(c)
<1>1. TypeOK /\ call[c].pc = "refused" /\ call[c].session \in SessionIds
  BY InCall DEF IInv, Refused, At
<1> QED BY <1>1, Deleting, TypesStay, OutcomesAre, EndingLessens DEF Refused, github

LEMMA LogoutDeleteLess == ASSUME IInv, NEW c \in Callers, LogoutDelete(c) PROVE LessStep(c)
<1>1. TypeOK /\ call[c].pc = "logout" /\ call[c].session \in SessionIds
      /\ "logout" \in Holding /\ call[c].record # None
  BY InCall DEF IInv, LogoutDelete, At, Holding
<1>2. "revoke" \in Locations /\ "revoke" \in Holding
  BY DEF Locations, Holding
<1>3. Moved(c) /\ call'[c].pc = "revoke" /\ call'[c].session = call[c].session
      /\ call'[c].record = call[c].record
  BY <1>1, <1>2, GoingMoves DEF LogoutDelete
<1>4. Follows(c)
  BY <1>1, <1>3 DEF Follows, Storing, LoggingIn
<1> QED BY <1>1, <1>3, <1>4, Deleting, TypesStay, OneCallLessens DEF LogoutDelete, github, LessStep

LEMMA LogoutRevokeLess == ASSUME IInv, NEW c \in Callers, LogoutRevoke(c) PROVE LessStep(c)
<1>1. TypeOK /\ call[c].pc = "revoke" /\ call[c].session \in SessionIds
  BY InCall DEF IInv, LogoutRevoke, At
<1>2. left' \in 0 .. MaxEvents
  BY <1>1, Happening, TypesStay DEF LogoutRevoke
<1>3. /\ live' \in [SessionIds -> {None} \cup Pairs]
      /\ \A t \in SessionIds : live'[t] \in {None, live[t]}
  BY <1>1 DEF LogoutRevoke, TypeOK
<1> QED BY <1>1, <1>2, <1>3, TypesStay, OutcomesAre, EndingLessens DEF LogoutRevoke

\* What EnsureFreshToken decides on, it decides for a reason.
LEMMA RemedyIs ==
    ASSUME IInv, NEW c \in Callers, call[c].record # None, NEW s \in SessionIds
    PROVE  /\ Remedy(call[c].record, s) \in {"use", "exchange", "drop"}
           /\ Remedy(call[c].record, s) = "drop" => call[c].record.refresh <= spent[s]
<1>1. call[c].record.access \in Nat /\ call[c].record.refresh \in Nat /\ due[s] \in Nat /\ spent[s] \in Nat
  BY SessionFacts, CallFacts DEF IInv, Pairs
<1> QED BY <1>1 DEF Remedy

LEMMA FoundLess == ASSUME IInv, NEW c \in Callers, Found(c) PROVE LessStep(c)
<1> DEFINE k == call[c]
           pc == IF k.kind = "logout" THEN "logout" ELSE Remedy(k.record, k.session)
<1>1. TypeOK /\ k.pc = "found" /\ k.session \in SessionIds /\ k.record # None
  BY InCall DEF IInv, Found, At, Holding
<1>2. /\ pc \in {"logout", "use", "exchange", "drop"}
      /\ pc = "drop" => k.record.refresh <= spent[k.session]
  BY <1>1, RemedyIs
<1>3. Goto(c, pc) /\ activity' = Touched(c)
      /\ UNCHANGED <<backend, store, live, issued, time, cycle, torn, left>>
  BY DEF Found, github
<1> HIDE DEF pc
<1>4. pc \in Locations /\ pc \in Holding
  BY <1>2 DEF Locations, Holding
<1>5. Moved(c) /\ call'[c].pc = pc /\ call'[c].session = k.session /\ call'[c].record = k.record
  BY <1>1, <1>2, <1>3, <1>4, GoingMoves
<1>6. Follows(c)
  BY <1>1, <1>2, <1>5 DEF Follows, Storing, LoggingIn
<1>7. activity' \in [SessionIds -> {"untracked", "recent", "old"}]
  BY <1>1, <1>3 DEF Touched, TypeOK
<1> QED BY <1>1, <1>3, <1>5, <1>6, <1>7, TypesStay, OneCallLessens DEF LessStep

\* What an AuthenticationError leads to, when there was a reason for it.
LEMMA UnauthorizedLess ==
    ASSUME IInv, NEW c \in Callers, call[c].pc \in {"drop", "use"},
           \/ call[c].record.refresh # live[call[c].session]
           \/ call[c].record.refresh <= spent[call[c].session]
           \/ call[c].denied,
           call' = [call EXCEPT ![c] = Unauthorized(@)],
           UNCHANGED <<backend, live, issued, time, activity, cycle, torn, left>>,
           store' \in [SessionIds -> {None} \cup Records],
           \A s \in SessionIds : store'[s] \in {None, store[s]}
    PROVE  LessStep(c)
<1>1. TypeOK /\ call[c].session \in SessionIds /\ call[c] \in Calls /\ Shape(c, call[c]) /\ call[c].record # None
  BY InCall DEF IInv, Holding
<1>2. CASE call[c].kind = "direct"
  <2>1. End(c, "auth")
    BY <1>1, <1>2 DEF Unauthorized, End
  <2> QED BY <1>1, <2>1, TypesStay, OutcomesAre, EndingLessens
<1>3. CASE call[c].kind # "direct"
  <2>1. Goto(c, "refused")
    BY <1>1, <1>3 DEF Unauthorized, Goto
  <2>2. "refused" \in Locations /\ "refused" \in Holding
    BY DEF Locations, Holding
  <2>3. Moved(c) /\ call'[c].pc = "refused" /\ call'[c].session = call[c].session
        /\ call'[c].record = call[c].record /\ call'[c].denied = call[c].denied
    BY <1>1, <2>1, <2>2, GoingMoves
  <2>4. Follows(c)
    BY <1>1, <2>3 DEF Follows, Storing, LoggingIn
  <2> QED BY <1>1, <2>3, <2>4, TypesStay, OneCallLessens DEF LessStep
<1> QED BY <1>2, <1>3

LEMMA DropLess == ASSUME IInv, NEW c \in Callers, Drop(c) PROVE LessStep(c)
<1>1. TypeOK /\ call[c].pc = "drop" /\ call[c].session \in SessionIds /\ Doomed(call[c])
  BY InCall DEF IInv, Drop, At, CallsInv
<1>2. \/ call[c].record.refresh # live[call[c].session]
      \/ call[c].record.refresh <= spent[call[c].session]
      \/ call[c].denied
  BY <1>1 DEF Doomed
<1> QED BY <1>1, <1>2, Deleting, UnauthorizedLess DEF Drop, github

LEMMA UseLess == ASSUME IInv, NEW c \in Callers, Use(c) PROVE LessStep(c)
<1>1. /\ TypeOK /\ call[c].pc = "use" /\ call[c].session \in SessionIds /\ call[c].record # None
      /\ call[c].record.access = call[c].record.refresh
  BY InCall DEF IInv, Use, At, CallsInv, Genuine, Holding
<1>2. UNCHANGED <<backend, store, live, issued, time, activity, cycle, torn>>
  BY DEF Use, github
<1>3. CASE End(c, "ok") /\ UNCHANGED left
  BY <1>1, <1>2, <1>3, TypesStay, OutcomesAre, EndingLessens
<1>4. CASE /\ live[call[c].session] # call[c].record.access
           /\ call' = [call EXCEPT ![c] = Unauthorized(@)] /\ UNCHANGED left
  BY <1>1, <1>2, <1>4, TypesStay, UnauthorizedLess
<1>5. CASE Happens /\ \E out \in {"limited", "unavailable"} : End(c, out)
  <2>1. PICK out \in Outcomes : End(c, out)
    BY <1>5, OutcomesAre
  <2> QED BY <1>1, <1>2, <1>5, <2>1, TypesStay, Happening, EndingLessens
<1> QED BY <1>3, <1>4, <1>5 DEF Use

\* A call of a request is over, whatever its outcome.
LEMMA LeavingLess ==
    ASSUME IInv, NEW c \in Requests, call[c].pc \in {"found", "ended"},
           call' = [call EXCEPT ![c] = NoCall],
           UNCHANGED <<backend, store, live, issued, time, cycle, torn, left>>,
           activity' \in [SessionIds -> {"untracked", "recent", "old"}]
    PROVE  LessStep(c)
<1>1. c \in Callers /\ c # Cycle /\ TypeOK
  BY SessionsAssumption DEF Callers, IInv
<1>2. /\ call' \in [Callers -> Calls] /\ call'[c] = NoCall
      /\ \A d \in Callers : d # c => call'[d] = call[d]
  BY <1>1, NoCallIs, CallTypes, Moving
<1>3. Shape(c, NoCall)
  BY NoCallIs DEF Shape, Holding, Storing
<1>4. Moved(c) /\ Follows(c)
  BY <1>1, <1>2, <1>3, NoCallIs DEF Moved, Follows, Storing, LoggingIn
<1> QED BY <1>1, <1>4, TypesStay, OneCallLessens DEF LessStep

LEMMA AnsweredLess == ASSUME IInv, NEW c \in Callers, Answered(c) PROVE LessStep(c)
BY TypesStay, LeavingLess DEF Answered, At, github, IInv

LEMMA SharedLess == ASSUME IInv, NEW c \in Callers, Shared(c) PROVE LessStep(c)
<1>1. /\ TypeOK /\ call[c].pc = "found" /\ call[c].pc # "idle" /\ call[c].session \in SessionIds
      /\ Shape(c, call[c]) /\ UNCHANGED <<backend, store, live, issued, time, cycle, torn, left>>
  BY InCall DEF Shared, At, IInv, github
<1>2. activity' \in [SessionIds -> {"untracked", "recent", "old"}]
  BY <1>1 DEF Shared, Touched, TypeOK
<1>3. CASE call[c].kind = "overview" /\ call' = [call EXCEPT ![c] = NoCall]
  BY <1>1, <1>2, <1>3, LeavingLess DEF Shape, Callers
<1>4. ASSUME NEW d \in Requests, At(d, "ended"), End(c, call[d].out) PROVE LessStep(c)
  <2>1. call[d].out \in Outcomes
    BY <1>4, InCall DEF At, Shape, Callers
  <2>2. Moved(c) /\ call'[c].record = None /\ call'[c].pc \in {"idle", "ended"}
    BY <1>1, <1>4, <2>1, EndingMoves
  <2>3. Follows(c)
    BY <1>1, <2>2 DEF Follows, Storing, LoggingIn
  <2> QED BY <1>1, <1>2, <2>2, <2>3, TypesStay, OneCallLessens DEF LessStep
<1> QED BY <1>3, <1>4 DEF Shared

LEMMA RequestLess == ASSUME IInv, NEW c \in Callers, Request(c) PROVE LessStep(c)
<1>1. PICK s \in SessionIds, kind \in Kinds \ {"warm"} : Begin(c, kind, s)
  BY DEF Request
<1> DEFINE k == [NoCall EXCEPT !.pc = IF kind = "login" THEN "code" ELSE "get",
                               !.kind = kind, !.session = s]
<1>2. call[c].pc = "idle" /\ call' = [call EXCEPT ![c] = k] /\ c # Cycle /\ TypeOK
      /\ UNCHANGED <<backend, store, live, issued, time, activity, cycle, torn, left>>
  BY <1>1, SessionsAssumption DEF Begin, At, Request, github, IInv
<1>3. k \in Calls /\ k.pc \in {"code", "get"} /\ k.record = None /\ k.session = s /\ k.kind # "warm"
  BY DEF NoCall, Calls, Locations
<1> HIDE DEF k
<1>4. Shape(c, k)
  BY <1>2, <1>3 DEF Shape, Holding, Storing
<1>5. Moved(c) /\ call'[c] = k
  BY <1>2, <1>3, <1>4, Moving, CallTypes DEF Moved
<1>6. Follows(c)
  BY <1>2, <1>3, <1>5 DEF Follows, Storing, LoggingIn
<1> QED BY <1>2, <1>5, <1>6, TypesStay, OneCallLessens DEF LessStep


-----------------------------------------------------------------------------
(* The steps of a call that give                                           *)

\* A step of c that may give something, to its own session only.
Local(c, s) ==
    /\ UNCHANGED <<backend, time>> /\ torn \subseteq torn'
    /\ \A t \in SessionIds \ {s} : store'[t] = store[t] /\ live'[t] = live[t] /\ issued'[t] = issued[t]
    /\ \/ issued'[s] = issued[s] /\ live'[s] = live[s]
       \/ issued'[s] = issued[s] + 1 /\ live'[s] = issued'[s]
    /\ call[c].session = s
    /\ \/ call'[c].session = s
       \/ call'[c].record = None /\ call'[c].pc \notin Storing \cup LoggingIn

\* What one caller gives its own session concerns no other session.
LEMMA LocalKeeps ==
    ASSUME IInv, TypeOK', NEW c \in Callers, NEW s \in SessionIds, Moved(c), Local(c, s),
           call'[c].record # None => Genuine(call[c].record, s)' /\ call'[c].session = s,
           call'[c].pc \notin {"expired", "drop", "refused"},
           SessionInv(s)'
    PROVE  CallsInv' /\ \A t \in SessionIds : SessionInv(t)'
<1>0. /\ TypeOK /\ CallsInv /\ backend' = backend /\ lapsed' = lapsed /\ due' = due /\ spent' = spent
      /\ \A t \in SessionIds : PairsAt(t) /\ StoringAt(t) /\ LoginAt(t) /\ NewestAt(t)
      /\ \A d \in Callers : d # c => call'[d] = call[d]
  BY DEF IInv, SessionInv, Local, Moved, time
<1>1. issued[s] \in Nat /\ issued'[s] \in Nat /\ issued[s] <= issued'[s]
  BY <1>0, SessionFacts DEF Local
<1>2. CallsInv'
  <2> SUFFICES ASSUME NEW d \in Callers
               PROVE  /\ Shape(d, call[d])'
                      /\ call'[d].record # None => Genuine(call[d].record, call[d].session)'
                      /\ Expired(call[d])' /\ Doomed(call[d])'
    BY DEF CallsInv
  <2>1. CASE d = c
    <3>1. Shape(c, call'[c])
      BY DEF Moved
    <3>2. Shape(c, call[c])'
      BY <1>0, <3>1 DEF Shape
    <3>3. Expired(call[c])' /\ Doomed(call[c])'
      BY DEF Expired, Doomed
    <3> QED BY <2>1, <3>2, <3>3 DEF Genuine
  <2>2. CASE d # c
    <3>1. /\ call'[d] = call[d] /\ Shape(d, call[d]) /\ Expired(call[d]) /\ Doomed(call[d])
          /\ call[d].record # None => Genuine(call[d].record, call[d].session)
      BY <1>0, <2>2 DEF CallsInv
    <3>2. Shape(d, call[d])' /\ Expired(call[d])'
      BY <1>0, <3>1 DEF Shape, Expired
    <3>3. call[d].record # None =>
             /\ call[d].session \in SessionIds /\ call[d].record.refresh \in Nat
             /\ call[d].record.refresh <= issued[call[d].session]
      BY <1>0, <3>1, CallFacts DEF Shape, Genuine, Holding
    <3>4. call'[d].record # None => Genuine(call[d].record, call[d].session)'
      BY <1>0, <1>1, <3>1, <3>3 DEF Genuine, Local
    <3>5. Doomed(call[d])'
      <4> SUFFICES ASSUME call[d].pc \in {"drop", "refused"}
                   PROVE  \/ call[d].record.refresh # live'[call[d].session]
                          \/ call[d].record.refresh <= spent[call[d].session]
                          \/ call[d].denied
        BY <1>0, <3>1 DEF Doomed
      <4>1. /\ call[d].record # None
            /\ \/ call[d].record.refresh # live[call[d].session]
               \/ call[d].record.refresh <= spent[call[d].session]
               \/ call[d].denied
        BY <3>1 DEF Doomed, Shape, Holding
      <4> QED BY <1>1, <3>3, <4>1 DEF Local
    <3> QED BY <3>2, <3>4, <3>5
  <2> QED BY <2>1, <2>2
<1>3. ASSUME NEW t \in SessionIds, t # s PROVE SessionInv(t)'
  <2>1. store'[t] = store[t] /\ live'[t] = live[t] /\ issued'[t] = issued[t]
    BY <1>3 DEF Local
  <2>2. \A d \in Callers : \/ call'[d] = call[d] /\ d # c
                           \/ call'[d].session # t
                           \/ call'[d].record = None /\ call'[d].pc \notin Storing \cup LoggingIn
    BY <1>0, <1>3 DEF Local
  <2>3. PairsAt(t)'
    BY <1>0, <2>1 DEF PairsAt, Genuine
  <2>4. StoringAt(t)'
    BY <1>0, <2>1, <2>2 DEF StoringAt
  <2>5. LoginAt(t)'
    BY <1>0, <2>1, <2>2 DEF LoginAt
  <2>6. NewestAt(t)'
    BY <1>0, <1>3, <2>1 DEF NewestAt, Local
  <2> QED BY <2>3, <2>4, <2>5, <2>6 DEF SessionInv
<1> QED BY <1>2, <1>3


KeepsAll(c) ==
    /\ Moved(c) /\ TypeOK' /\ history' \in Histories
    /\ CallsInv' /\ \A s \in SessionIds : SessionInv(s)'

\* A step of a call that takes away keeps it all.
LEMMA LessKeepsAll == ASSUME IInv, NEW c \in Callers, LessStep(c) PROVE KeepsAll(c)
BY LessensKeeps DEF LessStep, KeepsAll

\* What a caller knows whose refresh token GitHub accepts.
LEMMA NewestIs ==
    ASSUME IInv, NEW c \in Callers, NEW s \in SessionIds, call[c].session = s,
           call[c].record # None, live[s] = call[c].record.refresh
    PROVE  /\ live[s] = issued[s] /\ call[c].record.refresh = issued[s]
           /\ \A d \in Callers : call[d].session = s =>
                 /\ call[d].pc \notin Storing \cup LoggingIn
                 /\ call[d].record # None => call[d].record.refresh <= issued[s]
           /\ store[s] # None => store[s].refresh <= issued[s]
<1>1. /\ TypeOK /\ CallsInv /\ PairsAt(s) /\ StoringAt(s) /\ LoginAt(s)
      /\ call[c].record.refresh \in Nat /\ issued[s] \in Nat /\ call[c].record.refresh # None
  BY CallFacts, SessionFacts, NoneAssumption DEF IInv, SessionInv, Pairs
<1>2. live[s] = issued[s] /\ call[c].record.refresh = issued[s]
  BY <1>1 DEF PairsAt
<1>3. \A d \in Callers : call[d].session = s => call[d].pc \notin Storing \cup LoggingIn
  BY <1>1, <1>2 DEF StoringAt, LoginAt
<1> QED BY <1>1, <1>2, <1>3 DEF CallsInv, Genuine, PairsAt

\* GitHub issues a pair to the one caller with the newest, who stores it or loses it.
LEMMA IssuingKeeps ==
    ASSUME IInv, NEW c \in Callers, NEW s \in SessionIds, call[c].session = s, call[c].record # None,
           live[s] = call[c].record.refresh, Issue(s), Moved(c),
           UNCHANGED <<backend, store, time, activity, cycle>>,
           torn' \subseteq SessionIds, torn \subseteq torn', left' \in 0 .. MaxEvents,
           \/ /\ call'[c].session = s /\ call'[c].pc = "update" /\ call'[c].new = issued'[s]
              /\ call'[c].record = call[c].record
           \/ /\ call'[c].record = None /\ call'[c].pc \in {"idle", "ended"}
              /\ s \in torn'
    PROVE  KeepsAll(c)
<1>1. /\ TypeOK /\ history \in Histories /\ CallsInv
      /\ PairsAt(s) /\ StoringAt(s) /\ LoginAt(s) /\ NewestAt(s)
      /\ issued[s] \in Nat /\ issued[s] <= MaxPairs /\ spent[s] \in Nat /\ due[s] \in Nat
      /\ MaxPairs \in Nat
  BY SessionFacts, SessionsAssumption DEF IInv, SessionInv
<1>2. /\ issued[s] < MaxPairs
      /\ issued' \in [SessionIds -> 0 .. MaxPairs] /\ issued'[s] = issued[s] + 1
      /\ live' \in [SessionIds -> {None} \cup Pairs] /\ live'[s] = issued'[s]
      /\ \A t \in SessionIds \ {s} : live'[t] = live[t] /\ issued'[t] = issued[t]
  BY <1>1 DEF Issue, TypeOK, Pairs
<1>3. TypeOK' /\ history' \in Histories
  BY <1>1, <1>2 DEF TypeOK, Moved, Calls, time, cycle
<1>4. Local(c, s)
  BY <1>2 DEF Local, Storing, LoggingIn
<1>5. /\ \A d \in Callers : call[d].session = s =>
            /\ call[d].pc \notin Storing \cup LoggingIn
            /\ call[d].record # None => call[d].record.refresh <= issued[s]
      /\ store[s] # None => store[s].refresh <= issued[s]
      /\ call[c].record.refresh = issued[s]
  BY NewestIs
<1>6. call'[c].record # None => Genuine(call[c].record, s)' /\ call'[c].session = s
  BY <1>1, <1>2, <1>5 DEF CallsInv, Genuine
<1>7. \A d \in Callers : d # c => call'[d] = call[d]
  BY DEF Moved
<1>8. \A d \in Callers : call[d].record # None => call[d].record.refresh \in Nat
  BY <1>1, CallFacts
<1>9. store[s] # None => store[s].refresh \in Nat
  BY <1>1, SessionFacts
<1>10. PairsAt(s)'
  BY <1>1, <1>2, <1>5, <1>9 DEF PairsAt, Genuine, time
<1>11. StoringAt(s)'
  BY <1>1, <1>2, <1>5, <1>7, <1>8, <1>9 DEF StoringAt, Storing
<1>12. LoginAt(s)'
  BY <1>5, <1>7 DEF LoginAt, LoggingIn
<1>13. NewestAt(s)'
  BY DEF NewestAt, Storing
<1>14. SessionInv(s)'
  BY <1>10, <1>11, <1>12, <1>13 DEF SessionInv
<1> QED BY <1>3, <1>4, <1>6, <1>14, LocalKeeps DEF KeepsAll

\* The exchange: a pair is issued and stored, or refused, or fails, or is lost.
LEMMA ExchangeKeeps == ASSUME IInv, NEW c \in Callers, Exchange(c) PROVE KeepsAll(c)
<1> DEFINE s == call[c].session
<1>1. /\ TypeOK /\ call[c].pc = "exchange" /\ s \in SessionIds /\ call[c] \in Calls
      /\ Shape(c, call[c]) /\ call[c].record # None /\ torn \subseteq SessionIds
  BY InCall DEF IInv, Exchange, At, Holding, TypeOK
<1>2. UNCHANGED <<backend, store, time, activity, cycle>>
  BY DEF Exchange
<1>3. CASE /\ live[s] = call[c].record.refresh /\ Issue(s)
           /\ call' = [call EXCEPT ![c].pc = "update", ![c].new = issued'[s]]
           /\ UNCHANGED <<torn, left>>
  <2> DEFINE k == [call[c] EXCEPT !.pc = "update", !.new = issued'[s]]
  <2>1. issued'[s] \in Pairs
    BY <1>1, <1>3, SessionsAssumption DEF Issue, TypeOK, Pairs
  <2>2. /\ k \in Calls /\ k.pc = "update" /\ k.session = s /\ k.new = issued'[s]
        /\ k.record = call[c].record /\ k.kind = call[c].kind
    BY <1>1, <2>1 DEF Calls, Locations
  <2>3. call' = [call EXCEPT ![c] = k]
    BY <1>1, <1>3, CallTypes
  <2> HIDE DEF k
  <2>4. Shape(c, k)
    BY <1>1, <2>1, <2>2 DEF Shape, Holding, Storing
  <2>5. Moved(c) /\ call'[c] = k
    BY <1>1, <2>2, <2>3, <2>4, StayingMoves
  <2> QED BY <1>1, <1>2, <1>3, <2>2, <2>5, TypesStay, IssuingKeeps
<1>4. CASE live[s] # call[c].record.refresh /\ Goto(c, "drop") /\ UNCHANGED <<github, torn, left>>
  <2>1. "drop" \in Locations /\ "drop" \in Holding
    BY DEF Locations, Holding
  <2>2. Moved(c) /\ call'[c].pc = "drop" /\ call'[c].session = s /\ call'[c].record = call[c].record
    BY <1>1, <1>4, <2>1, GoingMoves
  <2>3. Follows(c)
    BY <1>1, <1>4, <2>2 DEF Follows, Storing, LoggingIn
  <2> QED BY <1>1, <1>2, <1>4, <2>2, <2>3, TypesStay, OneCallLessens, LessKeepsAll DEF LessStep, github
<1>7. CASE /\ live[s] = call[c].record.refresh /\ Happens
           /\ call' = [call EXCEPT ![c].pc = "drop", ![c].denied = TRUE]
           /\ UNCHANGED <<github, torn>>
  <2> DEFINE k == [call[c] EXCEPT !.pc = "drop", !.denied = TRUE]
  <2>1. /\ k \in Calls /\ k.pc = "drop" /\ k.session = s /\ k.denied
        /\ k.record = call[c].record /\ k.kind = call[c].kind
    BY <1>1 DEF Calls, Locations
  <2>2. call' = [call EXCEPT ![c] = k]
    BY <1>1, <1>7, CallTypes
  <2> HIDE DEF k
  <2>3. Shape(c, k)
    BY <1>1, <2>1 DEF Shape, Holding, Storing
  <2>4. Moved(c) /\ call'[c] = k
    BY <1>1, <2>1, <2>2, <2>3, StayingMoves
  <2>5. Follows(c)
    BY <1>1, <2>1, <2>4 DEF Follows, Storing, LoggingIn
  <2> QED BY <1>1, <1>2, <1>7, <2>4, <2>5, TypesStay, Happening, OneCallLessens, LessKeepsAll
          DEF LessStep, github
<1>5. CASE Happens /\ ExchangeFails(c) /\ UNCHANGED <<github, torn>>
  BY <1>1, <1>2, <1>5, TypesStay, Happening, OutcomesAre, EndingLessens, LessKeepsAll
     DEF ExchangeFails, github
<1>6. CASE /\ live[s] = call[c].record.refresh /\ Issue(s) /\ torn' = torn \cup {s}
           /\ Happens /\ ExchangeFails(c)
  <2>1. Moved(c) /\ call'[c].record = None /\ call'[c].pc \in {"idle", "ended"}
    BY <1>1, <1>6, OutcomesAre, EndingMoves DEF ExchangeFails
  <2> QED BY <1>1, <1>2, <1>6, <2>1, Happening, IssuingKeeps
<1> QED BY <1>3, <1>4, <1>5, <1>6, <1>7 DEF Exchange


\* The first pair is issued when nobody knows of the session yet.
LEMMA ExchangeCodeKeeps == ASSUME IInv, NEW c \in Callers, ExchangeCode(c) PROVE KeepsAll(c)
<1>0. PICK s \in SessionIds : s = call[c].session
  BY InCall DEF ExchangeCode, At
<1>1. /\ TypeOK /\ call[c].pc = "code" /\ s = call[c].session /\ call[c].record = None
      /\ UNCHANGED <<backend, store, time, activity, cycle, torn>>
  BY <1>0, InCall DEF IInv, ExchangeCode, At, Holding
<1>2. CASE Happens /\ End(c, "unavailable") /\ UNCHANGED github
  BY <1>1, <1>2, TypesStay, Happening, OutcomesAre, EndingLessens, LessKeepsAll DEF github
<1>3. CASE /\ issued[s] = 0
           /\ issued' = [issued EXCEPT ![s] = 1] /\ live' = [live EXCEPT ![s] = 1]
           /\ Goto(c, "viewer") /\ UNCHANGED left
  <2>1. "viewer" \in Locations /\ "viewer" \notin Holding
    BY DEF Locations, Holding
  <2>2. Moved(c) /\ call'[c].pc = "viewer" /\ call'[c].session = s /\ call'[c].record = None
    BY <1>1, <1>3, <2>1, GoingMoves
  <2>3. /\ issued' \in [SessionIds -> 0 .. MaxPairs] /\ issued'[s] = 1
        /\ live' \in [SessionIds -> {None} \cup Pairs] /\ live'[s] = 1
        /\ \A t \in SessionIds \ {s} : live'[t] = live[t] /\ issued'[t] = issued[t]
    BY <1>1, <1>3, SessionsAssumption DEF TypeOK, Pairs
  <2>4. TypeOK' /\ history' \in Histories
    BY <1>1, <1>3, <2>2, <2>3 DEF IInv, TypeOK, Moved, Calls, time, cycle
  <2>5. Local(c, s)
    BY <1>1, <1>3, <2>2, <2>3 DEF Local
  <2>6. /\ CallsInv /\ PairsAt(s) /\ StoringAt(s) /\ LoginAt(s)
        /\ \A d \in Callers : d # c => call'[d] = call[d]
    BY <2>2 DEF IInv, SessionInv, Moved
  <2>7. store[s] = None
    BY <1>1, <1>3, <2>6, SessionFacts DEF PairsAt, Genuine, Pairs
  <2>8. \A d \in Callers : call[d].session = s => call[d].record = None
    BY <1>1, <1>3, <2>6, CallFacts DEF CallsInv, Genuine, Pairs
  <2>9. \A d \in Callers : call[d].session = s => call[d].pc \notin Storing
    BY <2>6, <2>8 DEF CallsInv, Shape, Storing, Holding
  <2>10. \A d \in Callers : call[d].session = s => call[d].pc \notin LoggingIn
    BY <1>3, <2>6 DEF LoginAt
  <2>11. PairsAt(s)'
    BY <1>1, <1>3, <2>3, <2>6, <2>7, SessionFacts DEF PairsAt, time
  <2>12. StoringAt(s)'
    BY <2>2, <2>6, <2>9 DEF StoringAt, Storing
  <2>13. LoginAt(s)'
    BY <1>1, <2>2, <2>3, <2>6, <2>7, <2>8, <2>10 DEF LoginAt
  <2>14. NewestAt(s)'
    BY <1>1, <2>7 DEF NewestAt
  <2> QED BY <1>1, <2>2, <2>4, <2>5, <2>11, <2>12, <2>13, <2>14, LocalKeeps DEF KeepsAll, SessionInv
<1> QED BY <1>1, <1>2, <1>3 DEF ExchangeCode

\* A session is created by the one who logs in.
LEMMA CreateKeeps == ASSUME IInv, NEW c \in Callers, Create(c) PROVE KeepsAll(c)
<1> DEFINE new == [access |-> 1, refresh |-> 1, expires |-> TRUE]
<1>0. PICK s \in SessionIds : s = call[c].session
  BY InCall DEF Create, At
<1>1. /\ TypeOK /\ call[c].pc = "create" /\ s = call[c].session /\ call[c].record = None
      /\ UNCHANGED <<backend, live, issued, time, activity, cycle, torn, left>>
  BY <1>0, InCall DEF IInv, Create, At, Holding, github
<1>2. Moved(c) /\ call'[c].record = None /\ call'[c].pc \in {"idle", "ended"}
  BY <1>1, OutcomesAre, EndingMoves DEF Create
<1>3. new \in Records /\ new # None /\ new.access = 1 /\ new.refresh = 1
  <2>1. 1 \in Pairs
    BY SessionsAssumption DEF Pairs
  <2>2. new \in Records
    BY <2>1 DEF Records
  <2> QED BY <2>2, NoneAssumption
<1>4. store' = [store EXCEPT ![s] = new]
  BY <1>1 DEF Create
<1> HIDE DEF new
<1>5. /\ store' \in [SessionIds -> {None} \cup Records] /\ store'[s] = new
      /\ \A t \in SessionIds \ {s} : store'[t] = store[t]
  BY <1>1, <1>3, <1>4 DEF TypeOK
<1>6. TypeOK' /\ history' \in Histories
  BY <1>1, <1>2, <1>5 DEF IInv, TypeOK, Moved, Calls, time, cycle
<1>7. Local(c, s)
  BY <1>1, <1>2, <1>5 DEF Local, Storing, LoggingIn
<1>8. /\ CallsInv /\ PairsAt(s) /\ StoringAt(s) /\ LoginAt(s)
      /\ \A d \in Callers : d # c => call'[d] = call[d]
  BY <1>1, <1>2 DEF IInv, SessionInv, Moved
<1>9. /\ issued[s] = 1
      /\ \A d \in Callers : call[d].session = s =>
            call[d].record = None /\ (call[d].pc \in LoggingIn => d = c)
  BY <1>1, <1>8 DEF LoginAt, LoggingIn
<1>10. \A d \in Callers : call[d].session = s => call[d].pc \notin Storing
  BY <1>8, <1>9 DEF CallsInv, Shape, Storing, Holding
<1>11. PairsAt(s)'
  BY <1>1, <1>3, <1>5, <1>8, <1>9 DEF PairsAt, Genuine, time
<1>12. StoringAt(s)'
  BY <1>2, <1>8, <1>10 DEF StoringAt, Storing
<1>13. LoginAt(s)'
  BY <1>2, <1>8, <1>9 DEF LoginAt, LoggingIn
<1>14. NewestAt(s)'
  BY <1>1, <1>3, <1>5, <1>9 DEF NewestAt
<1> QED BY <1>1, <1>2, <1>6, <1>7, <1>11, <1>12, <1>13, <1>14, LocalKeeps DEF KeepsAll, SessionInv

\* The caller goes on with the pair it stores.
LEMMA Renewing ==
    ASSUME IInv, NEW c \in Callers, call[c].pc \in Storing
    PROVE  LET n == Renewed(call[c]) IN
           /\ n \in Calls /\ n.pc = "use" /\ n.session = call[c].session /\ n.kind = call[c].kind
           /\ n.record \in Records /\ n.record.access = call[c].new /\ n.record.refresh = call[c].new
<1>1. /\ call[c] \in Calls /\ Shape(c, call[c]) /\ call[c].record \in Records /\ call[c].new \in Pairs
  BY InCall DEF Storing, Holding, Shape
<1>2. /\ WithTokens(call[c].record, call[c].new) \in Records
      /\ WithTokens(call[c].record, call[c].new).access = call[c].new
      /\ WithTokens(call[c].record, call[c].new).refresh = call[c].new
  BY <1>1 DEF WithTokens, Records
<1> DEFINE r == WithTokens(call[c].record, call[c].new)
<1>3. r \in Records /\ r.access = call[c].new /\ r.refresh = call[c].new
  BY <1>2
<1>4. Renewed(call[c]) = [call[c] EXCEPT !.pc = "use", !.record = r, !.raw = None, !.new = None]
  BY <1>1 DEF Renewed, Calls
<1> HIDE DEF r
<1> QED BY <1>1, <1>3, <1>4 DEF Calls, Locations

\* Whatever the store makes of it, an update leaves the new pair there or nothing.
LEMMA RenewalKeeps ==
    ASSUME IInv, NEW c \in Callers, call[c].pc \in Storing, NEW s \in SessionIds, call[c].session = s,
           call' = [call EXCEPT ![c] = Renewed(@)],
           UNCHANGED <<backend, github, time, activity, cycle, torn, left>>,
           store' \in [SessionIds -> {None} \cup Records],
           store'[s] # None => store'[s].access = call[c].new /\ store'[s].refresh = call[c].new,
           \A t \in SessionIds \ {s} : store'[t] = store[t]
    PROVE  KeepsAll(c)
<1> DEFINE k == Renewed(call[c])
<1>1. /\ TypeOK /\ call[c] \in Calls /\ Shape(c, call[c]) /\ call[c].new \in Pairs /\ call[c].record # None
  BY InCall DEF IInv, Storing, Holding, Shape
<1>2. /\ k \in Calls /\ k.pc = "use" /\ k.session = s /\ k.kind = call[c].kind
      /\ k.record # None /\ k.record.access = call[c].new /\ k.record.refresh = call[c].new
  BY Renewing, NoneAssumption
<1>3. call' = [call EXCEPT ![c] = k]
  BY <1>1, CallTypes
<1> HIDE DEF k
<1>4. Shape(c, k)
  BY <1>1, <1>2 DEF Shape, Holding, Storing
<1>5. Moved(c) /\ call'[c] = k
  <2>1. call[c].pc # "idle" /\ k.pc # "idle" /\ k.session = call[c].session
    BY <1>2 DEF Storing
  <2> QED BY ONLY IInv, <1>2, <1>3, <1>4, <2>1, StayingMoves
<1>6. TypeOK' /\ history' \in Histories
  BY <1>1, <1>5 DEF IInv, TypeOK, Moved, Calls, time, cycle, github
<1>7. Local(c, s)
  BY <1>1, <1>2, <1>5 DEF Local, github
<1>8. /\ CallsInv /\ PairsAt(s) /\ StoringAt(s) /\ LoginAt(s) /\ issued[s] \in Nat
      /\ \A d \in Callers : d # c => call'[d] = call[d]
  BY <1>1, <1>5, SessionFacts DEF IInv, SessionInv, Moved
<1>9. /\ call[c].new = issued[s]
      /\ \A d \in Callers : call[d].session = s => (call[d].pc \in Storing => d = c)
      /\ \A d \in Callers : call[d].session = s => call[d].pc \notin LoggingIn
  BY <1>1, <1>8 DEF StoringAt, LoginAt
<1>10. Genuine(call[c].record, s)'
  BY <1>2, <1>5, <1>8, <1>9 DEF Genuine, github
<1>11. PairsAt(s)'
  BY <1>8, <1>9 DEF PairsAt, Genuine, time, github
<1>12. StoringAt(s)'
  BY <1>2, <1>5, <1>8, <1>9 DEF StoringAt, Storing
<1>13. LoginAt(s)'
  BY <1>2, <1>5, <1>8, <1>9 DEF LoginAt, LoggingIn
<1>14. NewestAt(s)'
  BY <1>8, <1>9 DEF NewestAt, github
<1> QED BY <1>2, <1>5, <1>6, <1>7, <1>10, <1>11, <1>12, <1>13, <1>14, LocalKeeps DEF KeepsAll, SessionInv


\* A record with new tokens.
LEMMA Updated ==
    ASSUME NEW record \in Records, NEW pair \in Pairs
    PROVE  LET r == WithTokens(record, pair) IN
           r \in Records /\ r.access = pair /\ r.refresh = pair /\ r.expires = record.expires
BY DEF WithTokens, Records

\* The three ways to store a pair.
LEMMA UpdateSqliteKeeps == ASSUME IInv, NEW c \in Callers, UpdateSqlite(c) PROVE KeepsAll(c)
<1>0. PICK s \in SessionIds : s = call[c].session
  BY InCall DEF UpdateSqlite, At
<1>1. /\ TypeOK /\ call[c].pc \in Storing /\ call[c].new \in Pairs
      /\ call' = [call EXCEPT ![c] = Renewed(@)]
      /\ store' = [store EXCEPT ![s] = RowUpdated(s, call[c].new)]
      /\ UNCHANGED <<backend, github, time, activity, cycle, torn, left>>
  BY <1>0, InCall DEF IInv, UpdateSqlite, At, Storing, Shape
<1> DEFINE row == RowUpdated(s, call[c].new)
<1>2. /\ row \in {None} \cup Records
      /\ row # None => row.access = call[c].new /\ row.refresh = call[c].new
  BY <1>1, SessionFacts, Updated DEF RowUpdated
<1> HIDE DEF row
<1>3. /\ store' \in [SessionIds -> {None} \cup Records] /\ store'[s] = row
      /\ \A t \in SessionIds \ {s} : store'[t] = store[t]
  <2>1. store' = [store EXCEPT ![s] = row]
    BY <1>1 DEF row
  <2> QED BY <1>1, <1>2, <2>1 DEF TypeOK
<1> QED BY <1>0, <1>1, <1>2, <1>3, RenewalKeeps

LEMMA UpdateReadRedisKeeps == ASSUME IInv, NEW c \in Callers, UpdateReadRedis(c) PROVE KeepsAll(c)
<1>0. PICK s \in SessionIds : s = call[c].session
  BY InCall DEF UpdateReadRedis, At
<1>1. /\ TypeOK /\ call[c].pc = "update" /\ call[c].pc \in Storing /\ call[c].new \in Pairs
      /\ call[c] \in Calls /\ Shape(c, call[c]) /\ backend = "redis" /\ call[c].record # None
      /\ UNCHANGED <<backend, store, live, issued, time, activity, cycle, torn, left>>
  BY <1>0, InCall DEF IInv, UpdateReadRedis, At, Storing, Holding, Shape, github
<1>2. CASE store[s] = None
  <2>1. call' = [call EXCEPT ![c] = Renewed(@)]
    BY <1>0, <1>1, <1>2 DEF UpdateReadRedis
  <2> QED BY <1>0, <1>1, <1>2, <2>1, TypesStay, RenewalKeeps DEF github
<1>3. CASE store[s] # None
  <2> DEFINE k == [call[c] EXCEPT !.pc = "write", !.raw = store[s]]
  <2>1. call' = [call EXCEPT ![c] = k]
    BY <1>0, <1>1, <1>3 DEF UpdateReadRedis
  <2>2. store[s] \in Records
    BY <1>1, <1>3, SessionFacts
  <2>3. /\ k \in Calls /\ k.pc = "write" /\ k.session = s /\ k.kind = call[c].kind
        /\ k.record = call[c].record /\ k.raw # None /\ k.new = call[c].new
    BY <1>0, <1>1, <1>3, <2>2 DEF Calls, Locations
  <2> HIDE DEF k
  <2>4. Shape(c, k)
    BY <1>0, <1>1, <2>3 DEF Shape, Storing, Holding
  <2>5. Moved(c) /\ call'[c] = k
    BY <1>0, <1>1, <2>1, <2>3, <2>4, StayingMoves
  <2>6. Follows(c)
    BY <1>0, <1>1, <2>3, <2>5 DEF Follows, Storing, LoggingIn
  <2> QED BY <1>1, <2>5, <2>6, TypesStay, OneCallLessens, LessKeepsAll DEF LessStep
<1> QED BY <1>2, <1>3

LEMMA UpdateWriteRedisKeeps == ASSUME IInv, NEW c \in Callers, UpdateWriteRedis(c) PROVE KeepsAll(c)
<1>0. PICK s \in SessionIds : s = call[c].session
  BY InCall DEF UpdateWriteRedis, At
<1> DEFINE r == WithTokens(call[c].raw, call[c].new)
           kept == KeepTtl(s, r)
<1>1. /\ TypeOK /\ call[c].pc \in Storing /\ call[c].new \in Pairs /\ call[c].raw \in Records
      /\ call' = [call EXCEPT ![c] = Renewed(@)]
      /\ store' = [store EXCEPT ![s] = kept]
      /\ UNCHANGED <<backend, github, time, activity, cycle, torn, left>>
  BY <1>0, InCall DEF IInv, UpdateWriteRedis, At, Storing, Shape, Calls
<1>2. r \in Records /\ r.access = call[c].new /\ r.refresh = call[c].new
  BY <1>1, Updated
<1> HIDE DEF r
<1>3. store[s] = None \/ store[s] \in Records
  BY <1>1, SessionFacts
<1>4. (store[s] # None /\ store[s].expires) \in BOOLEAN
  BY <1>3 DEF Records
<1>5. kept \in Records /\ kept.access = call[c].new /\ kept.refresh = call[c].new
  BY <1>2, <1>4 DEF KeepTtl, Records
<1> HIDE DEF kept
<1>6. /\ store' \in [SessionIds -> {None} \cup Records] /\ store'[s] = kept
      /\ \A t \in SessionIds \ {s} : store'[t] = store[t]
  BY <1>1, <1>5 DEF TypeOK
<1> QED BY <1>0, <1>1, <1>5, <1>6, RenewalKeeps

\* A step of a call keeps all that is not about the cycle.
LEMMA StepKeeps ==
    ASSUME IInv, NEW c \in Callers, Request(c) \/ Step(c)
    PROVE  KeepsAll(c)
BY RequestLess, ExchangeCodeKeeps, ViewerLess, DenyLess, CreateKeeps, GetLess, DeleteExpiredLess,
   FoundLess, SharedLess, AnsweredLess, ExchangeKeeps, UpdateSqliteKeeps, UpdateReadRedisKeeps, UpdateWriteRedisKeeps,
   DropLess, UseLess, RefusedLess, LogoutDeleteLess, LogoutRevokeLess, LessKeepsAll DEF Step

-----------------------------------------------------------------------------
(* Steps of nobody's call                                                  *)

NobodyKeeps == TypeOK' /\ history' \in Histories /\ CallsInv' /\ \A s \in SessionIds : SessionInv(s)'

\* Where nobody moves.
LEMMA CallsStay ==
    ASSUME IInv, UNCHANGED call
    PROVE  \A d \in Callers : Shape(d, call'[d]) /\ Follows(d)
BY DEF IInv, CallsInv, Follows

\* Where no time passes.
LEMMA TimeStays ==
    ASSUME IInv, UNCHANGED time
    PROVE  /\ \A s \in SessionIds :
                 spent[s] <= spent'[s] /\ spent'[s] <= issued[s] /\ due'[s] <= issued[s]
           /\ lapsed \subseteq lapsed'
<1>1. ASSUME NEW s \in SessionIds
      PROVE  spent[s] <= spent'[s] /\ spent'[s] <= issued[s] /\ due'[s] <= issued[s]
  BY SessionFacts DEF IInv, SessionInv, PairsAt, time
<1> QED BY <1>1 DEF time

\* What happens of itself, and the cycle, one by one.
LEMMA PurgeKeeps == IInv /\ Purge => NobodyKeeps
<1> SUFFICES ASSUME IInv, Purge PROVE NobodyKeeps
  OBVIOUS
<1>1. TypeOK /\ UNCHANGED <<backend, github, time, activity, call, cycle, torn, left>>
  BY DEF IInv, Purge
<1>2. /\ store' \in [SessionIds -> {None} \cup Records]
      /\ \A s \in SessionIds : store'[s] \in {None, store[s]}
  BY <1>1 DEF Purge, Purged, TypeOK
<1>3. TypeOK' /\ history' \in Histories
  BY <1>1, <1>2 DEF IInv, TypeOK, github, time, cycle
<1>4. Lessens
  BY <1>1, <1>2, CallsStay, TimeStays DEF Lessens, github
<1> QED BY <1>3, <1>4, LessensKeeps DEF NobodyKeeps

LEMMA KeyExpiresKeeps == IInv /\ KeyExpires => NobodyKeeps
<1> SUFFICES ASSUME IInv, KeyExpires PROVE NobodyKeeps
  OBVIOUS
<1>1. TypeOK /\ UNCHANGED <<backend, github, time, activity, call, cycle, torn, left>>
  BY DEF IInv, KeyExpires
<1>2. /\ store' \in [SessionIds -> {None} \cup Records]
      /\ \A s \in SessionIds : store'[s] \in {None, store[s]}
  BY <1>1, Deleting DEF KeyExpires, TypeOK
<1>3. TypeOK' /\ history' \in Histories
  BY <1>1, <1>2 DEF IInv, TypeOK, github, time, cycle
<1>4. Lessens
  BY <1>1, <1>2, CallsStay, TimeStays DEF Lessens, github
<1> QED BY <1>3, <1>4, LessensKeeps DEF NobodyKeeps

LEMMA RevokeKeeps == IInv /\ Revoke => NobodyKeeps
<1> SUFFICES ASSUME IInv, Revoke PROVE NobodyKeeps
  OBVIOUS
<1>1. /\ TypeOK /\ UNCHANGED <<backend, store, issued, time, activity, call, cycle, torn>>
      /\ left' \in 0 .. MaxEvents
  BY Happening DEF IInv, Revoke
<1>2. /\ live' \in [SessionIds -> {None} \cup Pairs]
      /\ \A s \in SessionIds : live'[s] \in {None, live[s]}
  BY <1>1 DEF Revoke, TypeOK
<1>3. TypeOK' /\ history' \in Histories
  BY <1>1, <1>2 DEF IInv, TypeOK, time, cycle
<1>4. Lessens
  BY <1>1, <1>2, CallsStay, TimeStays DEF Lessens
<1> QED BY <1>3, <1>4, LessensKeeps DEF NobodyKeeps

LEMMA TimePassesKeeps == IInv /\ TimePasses => NobodyKeeps
<1> SUFFICES ASSUME IInv, TimePasses PROVE NobodyKeeps
  OBVIOUS
<1>1. /\ TypeOK /\ UNCHANGED <<backend, store, live, issued, call, cycle, torn>>
      /\ left' \in 0 .. MaxEvents
  BY Happening DEF IInv, TimePasses, github
<1>2. \A s \in SessionIds : /\ spent[s] \in Nat /\ due[s] \in Nat /\ issued[s] \in 0 .. MaxPairs
                            /\ spent[s] <= issued[s] /\ due[s] <= issued[s]
  BY SessionFacts DEF IInv, SessionInv, PairsAt, TypeOK
<1>3. PICK s \in SessionIds :
         \/ lapsed' = lapsed \cup {s} /\ UNCHANGED <<due, spent, activity>>
         \/ due' = [due EXCEPT ![s] = issued[s]] /\ UNCHANGED <<lapsed, spent, activity>>
         \/ spent' = [spent EXCEPT ![s] = issued[s]] /\ UNCHANGED <<lapsed, due, activity>>
         \/ activity' = [activity EXCEPT ![s] = "old"] /\ UNCHANGED <<lapsed, due, spent>>
  BY DEF TimePasses
<1>4. /\ lapsed' \subseteq SessionIds /\ lapsed \subseteq lapsed'
      /\ due' \in [SessionIds -> 0 .. MaxPairs] /\ spent' \in [SessionIds -> 0 .. MaxPairs]
      /\ activity' \in [SessionIds -> {"untracked", "recent", "old"}]
  BY <1>1, <1>2, <1>3 DEF TypeOK
<1>5. ASSUME NEW t \in SessionIds
      PROVE  spent[t] <= spent'[t] /\ spent'[t] <= issued[t] /\ due'[t] <= issued[t]
  <2>1. spent'[t] \in {spent[t], issued[t]} /\ due'[t] \in {due[t], issued[t]}
    BY <1>1, <1>3 DEF TypeOK
  <2> QED BY <1>2, <2>1
<1>6. TypeOK' /\ history' \in Histories
  BY <1>1, <1>4 DEF IInv, TypeOK, cycle
<1>7. Lessens
  BY <1>1, <1>4, <1>5, CallsStay DEF Lessens
<1> QED BY <1>6, <1>7, LessensKeeps DEF NobodyKeeps


LEMMA RestartKeeps == IInv /\ Restart => NobodyKeeps
<1> SUFFICES ASSUME IInv, Restart PROVE NobodyKeeps
  OBVIOUS
<1>1. /\ TypeOK /\ UNCHANGED <<backend, store, live, issued, time>> /\ left' \in 0 .. MaxEvents
      /\ call' = [c \in Callers |-> NoCall]
      /\ todo' = None /\ refreshed' = {} /\ history' = NoHistory
      /\ torn' = torn \cup {call[c].session : c \in {d \in Callers : call[d].pc \in {"update", "write"}}}
      /\ activity' \in [SessionIds -> {"untracked", "recent", "old"}]
  BY Happening DEF IInv, Restart, github
<1>2. torn' \subseteq SessionIds
  BY <1>1, InCall DEF TypeOK
<1>3. TypeOK' /\ history' \in Histories
  BY <1>1, <1>2, NoCallIs DEF TypeOK, Calls, time, NoHistory, Histories
<1>4. ASSUME NEW d \in Callers PROVE Shape(d, call'[d]) /\ Follows(d)
  <2>1. call'[d] = NoCall /\ (call[d].pc \in Storing => call[d].session \in torn')
    BY <1>1 DEF Storing
  <2> QED BY <2>1, NoCallIs DEF Shape, Follows, Holding, Storing, LoggingIn
<1>5. Lessens
  BY <1>1, <1>4, TimeStays, TypesStay DEF Lessens
<1> QED BY <1>3, <1>5, LessensKeeps DEF NobodyKeeps

LEMMA TickKeeps == IInv /\ Tick => NobodyKeeps
<1> SUFFICES ASSUME IInv, Tick PROVE NobodyKeeps
  OBVIOUS
<1>1. /\ TypeOK /\ UNCHANGED <<backend, store, github, time, activity, call, torn, left>>
      /\ todo' \subseteq SessionIds /\ refreshed' = {}
      /\ history' = [targets |-> todo', calls |-> << >>]
  BY DEF IInv, Tick
<1>2. TypeOK' /\ history' \in Histories
  BY <1>1 DEF TypeOK, Histories, github, time
<1>3. Lessens
  BY <1>1, CallsStay, TimeStays, TypesStay DEF Lessens, github
<1> QED BY <1>2, <1>3, LessensKeeps DEF NobodyKeeps

LEMMA CycleEndsKeeps == IInv /\ CycleEnds => NobodyKeeps
<1> SUFFICES ASSUME IInv, CycleEnds PROVE NobodyKeeps
  OBVIOUS
<1>1. /\ TypeOK /\ UNCHANGED <<backend, store, github, time, activity, call, torn, left>>
      /\ todo' = None /\ refreshed' = {} /\ history' = NoHistory
  BY DEF IInv, CycleEnds
<1>2. TypeOK' /\ history' \in Histories
  BY <1>1 DEF TypeOK, Histories, NoHistory, github, time
<1>3. Lessens
  BY <1>1, CallsStay, TimeStays, TypesStay DEF Lessens, github
<1> QED BY <1>2, <1>3, LessensKeeps DEF NobodyKeeps

\* What Take does to the call of the cycle.
LEMMA Taking ==
    ASSUME IInv, NEW s \in SessionIds, Begin(Cycle, "warm", s)
    PROVE  /\ call' \in [Callers -> Calls]
           /\ \A d \in Callers : d # Cycle => call'[d] = call[d]
           /\ call'[Cycle].pc = "get" /\ call'[Cycle].session = s
           /\ \A d \in Callers : Shape(d, call'[d]) /\ Follows(d)
<1> DEFINE k == [NoCall EXCEPT !.pc = "get", !.kind = "warm", !.session = s]
<1>1. call[Cycle].pc = "idle" /\ call' = [call EXCEPT ![Cycle] = k] /\ Cycle \in Callers
  BY DEF Begin, At, Callers, NoCall
<1>2. k \in Calls /\ k.pc = "get" /\ k.record = None /\ k.session = s /\ k.kind = "warm"
  BY DEF NoCall, Calls, Locations, Kinds
<1> HIDE DEF k
<1>3. /\ call' \in [Callers -> Calls] /\ call'[Cycle] = k
      /\ \A d \in Callers : d # Cycle => call'[d] = call[d]
  BY <1>1, <1>2, Moving, CallTypes DEF IInv
<1>4. Shape(Cycle, k)
  BY <1>2 DEF Shape, Holding, Storing
<1>5. ASSUME NEW d \in Callers PROVE Shape(d, call'[d]) /\ Follows(d)
  <2>1. CASE d = Cycle
    BY <1>1, <1>2, <1>3, <1>4, <2>1 DEF Follows, Storing, LoggingIn
  <2>2. CASE d # Cycle
    BY <1>3, <2>2 DEF IInv, CallsInv, Follows
  <2> QED BY <2>1, <2>2
<1> QED BY <1>2, <1>3, <1>5

LEMMA TakeKeeps == IInv /\ Take => NobodyKeeps
<1> SUFFICES ASSUME IInv, Take PROVE NobodyKeeps
  OBVIOUS
<1>1. /\ TypeOK /\ history \in Histories
      /\ UNCHANGED <<backend, store, github, time, activity, refreshed, history, torn, left>>
  BY DEF IInv, Take
<1>2. PICK s \in todo : /\ todo' = todo \ {s}
                        /\ IF Skipped(s) THEN UNCHANGED call ELSE Begin(Cycle, "warm", s)
  BY DEF Take
<1>3. todo \in SUBSET SessionIds /\ s \in SessionIds
  BY <1>1, <1>2 DEF Take, TypeOK
<1>4. /\ call' \in [Callers -> Calls]
      /\ \A d \in Callers : Shape(d, call'[d]) /\ Follows(d)
  BY <1>1, <1>2, <1>3, CallsStay, CallTypes, Taking
<1>5. TypeOK' /\ history' \in Histories
  BY <1>1, <1>2, <1>3, <1>4 DEF TypeOK, Calls, github, time
<1>6. Lessens
  BY <1>1, <1>4, TimeStays, TypesStay DEF Lessens, github
<1> QED BY <1>5, <1>6, LessensKeeps DEF NobodyKeeps

\* What Settle adds to the history.
LEMMA Settling ==
    ASSUME IInv, Settle
    PROVE  /\ call[Cycle].session \in SessionIds /\ call[Cycle].out \in Outcomes
           /\ call' \in [Callers -> Calls] /\ call'[Cycle] = NoCall
           /\ \A d \in Callers : d # Cycle => call'[d] = call[d]
           /\ history' \in Histories /\ history'.targets = history.targets
           /\ Len(history'.calls) = Len(history.calls) + 1
           /\ \A i \in DOMAIN history.calls : history'.calls[i] = history.calls[i]
           /\ history'.calls[Len(history.calls) + 1]
                 = [session |-> call[Cycle].session, out |-> call[Cycle].out]
<1> DEFINE entry == [session |-> call[Cycle].session, out |-> call[Cycle].out]
           H == [session : SessionIds, out : Outcomes]
<1>1. /\ Cycle \in Callers /\ call[Cycle].session \in SessionIds /\ call[Cycle].out \in Outcomes
      /\ call' = [call EXCEPT ![Cycle] = NoCall]
  <2>1. Cycle \in Callers /\ call[Cycle].pc = "ended" /\ call[Cycle].pc # "idle"
    BY DEF Callers, Settle, At
  <2> QED BY <2>1, InCall DEF Settle, Shape
<1>2. /\ call' \in [Callers -> Calls] /\ call'[Cycle] = NoCall
      /\ \A d \in Callers : d # Cycle => call'[d] = call[d]
  BY <1>1, Moving, CallTypes, NoCallIs DEF IInv
<1>3. history \in Histories /\ history.calls \in Seq(H) /\ entry \in H
  BY <1>1 DEF IInv, Histories
<1>4. history' = [targets |-> history.targets, calls |-> Append(history.calls, entry)]
  BY <1>3 DEF Settle, Histories
<1> HIDE DEF entry, H
<1>5. /\ Append(history.calls, entry) \in Seq(H)
      /\ Len(Append(history.calls, entry)) = Len(history.calls) + 1
      /\ \A i \in 1 .. Len(history.calls) : Append(history.calls, entry)[i] = history.calls[i]
      /\ Append(history.calls, entry)[Len(history.calls) + 1] = entry
  BY <1>3, AppendProperties
<1>6. DOMAIN history.calls = 1 .. Len(history.calls)
  BY <1>3
<1>7. history' \in Histories
  BY <1>3, <1>4, <1>5 DEF Histories, H
<1> QED BY <1>1, <1>2, <1>4, <1>5, <1>6, <1>7 DEF entry

LEMMA SettleKeeps == IInv /\ Settle => NobodyKeeps
<1> SUFFICES ASSUME IInv, Settle PROVE NobodyKeeps
  OBVIOUS
<1>1. /\ TypeOK /\ UNCHANGED <<backend, store, github, time, torn, left>>
      /\ call[Cycle].pc = "ended" /\ todo # None
  BY DEF IInv, Settle, CycleInv, At
<1>2. /\ activity' \in [SessionIds -> {"untracked", "recent", "old"}]
      /\ refreshed' \subseteq Users /\ todo' \in {None} \cup SUBSET SessionIds
  BY <1>1, Settling, SessionsAssumption DEF Settle, Forget, Refreshed, TypeOK
<1>3. TypeOK' /\ history' \in Histories
  BY <1>1, <1>2, Settling DEF TypeOK, Calls, Histories, github, time
<1>4. ASSUME NEW d \in Callers PROVE Shape(d, call'[d]) /\ Follows(d)
  <2>1. CASE d = Cycle
    BY <1>1, <2>1, Settling, NoCallIs DEF Shape, Follows, Holding, Storing, LoggingIn
  <2>2. CASE d # Cycle
    BY <2>2, Settling DEF IInv, CallsInv, Follows
  <2> QED BY <2>1, <2>2
<1>5. Lessens
  BY <1>1, <1>4, TimeStays, TypesStay DEF Lessens, github
<1> QED BY <1>3, <1>5, LessensKeeps DEF NobodyKeeps


-----------------------------------------------------------------------------
(* The cycle                                                               *)

\* Steps of others, and steps inside the cycle's call, are none of the cycle.
LEMMA CycleStays ==
    ASSUME CycleInv, UNCHANGED cycle, call'[Cycle].pc = "idle" <=> call[Cycle].pc = "idle",
           call[Cycle].pc # "idle" => call'[Cycle].session = call[Cycle].session
    PROVE  CycleInv'
BY DEF CycleInv, Cut, Tried, CycleIsSparing, cycle

\* A step of a call leaves the cycle where it is.
LEMMA StepKeepsCycle ==
    ASSUME IInv, NEW c \in Callers, Request(c) \/ Step(c), Moved(c)
    PROVE  CycleInv'
<1>1. UNCHANGED cycle
  BY DEF Request, Step, ExchangeCode, Viewer, Deny, Create, Get, DeleteExpired, Found, Shared,
         Answered, Exchange, UpdateSqlite, UpdateReadRedis, UpdateWriteRedis, Drop, Use, Refused, LogoutDelete,
         LogoutRevoke
<1>2. Cycle \in Callers
  BY DEF Callers
<1>3. CASE c = Cycle
  BY <1>1, <1>3, CycleStays DEF Moved, IInv
<1>4. CASE c # Cycle
  BY <1>1, <1>2, <1>4, CycleStays DEF Moved, IInv
<1> QED BY <1>3, <1>4

\* A cycle sets out for all that are recent.
LEMMA TickKeepsCycle == IInv /\ Tick => CycleInv'
<1> SUFFICES ASSUME IInv, Tick PROVE CycleInv'
  OBVIOUS
<1>1. /\ todo' \in SUBSET SessionIds /\ refreshed' = {} /\ call' = call
      /\ history' = [targets |-> todo', calls |-> << >>] /\ call[Cycle].pc = "idle"
  BY DEF Tick, IInv, CycleInv
<1>2. todo' # None /\ history'.targets = todo' /\ DOMAIN history'.calls = {}
  BY <1>1, NoneAssumption
<1> QED BY <1>1, <1>2 DEF CycleInv, Cut, CycleIsSparing

\* Between cycles there is nothing to keep.
LEMMA CycleEndsKeepsCycle == IInv /\ (CycleEnds \/ Restart) => CycleInv'
<1> SUFFICES ASSUME IInv, CycleEnds \/ Restart PROVE CycleInv'
  OBVIOUS
<1>1. Cycle \in Callers
  BY DEF Callers
<1>2. todo' = None /\ refreshed' = {} /\ history' = NoHistory /\ call'[Cycle].pc = "idle"
  BY <1>1, NoCallIs DEF CycleEnds, Restart, At
<1>3. history'.targets = {} /\ DOMAIN history'.calls = {}
  BY <1>2 DEF NoHistory
<1> QED BY <1>2, <1>3 DEF CycleInv, Cut, CycleIsSparing

\* A session is passed over only if its account was refreshed.
LEMMA TakeKeepsCycle == IInv /\ Take => CycleInv'
<1> SUFFICES ASSUME IInv, Take PROVE CycleInv'
  OBVIOUS
<1>1. /\ CycleInv /\ TypeOK /\ history' = history /\ refreshed' = refreshed
      /\ call[Cycle].pc = "idle" /\ todo # None
  BY DEF IInv, Take, At
<1>2. PICK s \in todo : /\ todo' = todo \ {s}
                        /\ IF Skipped(s) THEN UNCHANGED call ELSE Begin(Cycle, "warm", s)
  BY DEF Take
<1>3. todo \in SUBSET SessionIds /\ s \in SessionIds /\ todo' \in SUBSET SessionIds
      /\ todo' # None /\ UserOf[s] \in Users
  BY <1>1, <1>2, NoneAssumption, SessionsAssumption DEF TypeOK
<1>4. ~ Cut /\ ~ Cut'
  BY <1>1, <1>2 DEF CycleInv, Cut
<1>5. CycleIsSparing'
  BY <1>1 DEF CycleInv, CycleIsSparing
<1>6. \A u \in Users : u \in refreshed' <=>
         \E i \in DOMAIN history'.calls :
            UserOf[history'.calls[i].session] = u /\ history'.calls[i].out = "ok"
  BY <1>1 DEF CycleInv
<1>7. \A t \in history.targets : Tried(t) \/ t \in todo
  BY <1>1, <1>4 DEF CycleInv
<1>8. \A t : Tried(t) => Tried(t)'
  BY <1>1 DEF Tried
<1>9. CASE Skipped(s)
  <2>1. call' = call /\ UserOf[s] \in refreshed
    BY <1>2, <1>9 DEF Skipped
  <2>2. Tried(s)
    BY <1>1, <1>3, <2>1 DEF CycleInv, Tried
  <2>3. \A t \in history'.targets : Tried(t)' \/ t \in todo'
    BY <1>1, <1>2, <1>7, <1>8, <2>2
  <2> QED BY <1>1, <1>3, <1>4, <1>5, <1>6, <2>1, <2>3 DEF CycleInv
<1>10. CASE ~ Skipped(s)
  <2>1. call'[Cycle].pc = "get" /\ call'[Cycle].session = s
    BY <1>2, <1>3, <1>10, Taking
  <2>2. UserOf[call'[Cycle].session] \notin refreshed'
    BY <1>1, <1>10, <2>1 DEF Skipped
  <2>3. \A t \in history'.targets : Tried(t)' \/ t \in todo' \/ call'[Cycle].session = t
    BY <1>1, <1>2, <1>7, <1>8, <2>1
  <2> QED BY <1>1, <1>3, <1>4, <1>5, <1>6, <2>1, <2>2, <2>3 DEF CycleInv
<1> QED BY <1>9, <1>10

\* An outcome is recorded: a success is the first of its account, a limit the last of all.
LEMMA SettleKeepsCycle == IInv /\ Settle => CycleInv'
<1> SUFFICES ASSUME IInv, Settle PROVE CycleInv'
  OBVIOUS
<1> DEFINE s == call[Cycle].session
           out == call[Cycle].out
           n == Len(history.calls)
           old == history.calls
           new == history'.calls
<1>1. /\ CycleInv /\ TypeOK /\ history \in Histories /\ call[Cycle].pc = "ended"
  BY DEF IInv, Settle, At
<1>2. /\ s \in SessionIds /\ out \in Outcomes /\ call'[Cycle].pc = "idle"
      /\ history' \in Histories /\ history'.targets = history.targets
      /\ Len(new) = n + 1 /\ \A i \in DOMAIN old : new[i] = old[i]
      /\ new[n + 1].session = s /\ new[n + 1].out = out
  BY Settling, NoCallIs
<1>3. n \in Nat /\ DOMAIN old = 1 .. n /\ DOMAIN new = 1 .. n + 1
  BY <1>1, <1>2 DEF Histories
<1>4. /\ todo # None /\ ~ Cut /\ UserOf[s] \notin refreshed /\ CycleIsSparing
      /\ \A t \in history.targets : Tried(t) \/ t \in todo \/ s = t
      /\ \A u \in Users : u \in refreshed <=>
            \E i \in DOMAIN old : UserOf[old[i].session] = u /\ old[i].out = "ok"
  BY <1>1 DEF CycleInv
<1>5. /\ todo' = IF out = "limited" THEN {} ELSE todo
      /\ refreshed' = IF out = "ok" THEN refreshed \cup {UserOf[s]} ELSE refreshed
  BY DEF Settle, Refreshed
<1>6. todo' # None /\ todo' \in SUBSET SessionIds
  BY <1>1, <1>4, <1>5, NoneAssumption DEF TypeOK
<1>7. Cut' <=> out = "limited"
  <2>1. Cut' <=> \E i \in 1 .. n + 1 : new[i].out = "limited"
    BY <1>3 DEF Cut
  <2>2. \A i \in 1 .. n : new[i].out # "limited"
    BY <1>2, <1>3, <1>4 DEF Cut
  <2> QED BY <1>2, <1>3, <2>1, <2>2
<1>8. ASSUME NEW u \in Users
      PROVE  u \in refreshed' <=>
                \E i \in DOMAIN new : UserOf[new[i].session] = u /\ new[i].out = "ok"
  <2>1. (\E i \in DOMAIN new : UserOf[new[i].session] = u /\ new[i].out = "ok") <=>
           \/ \E i \in DOMAIN old : UserOf[old[i].session] = u /\ old[i].out = "ok"
           \/ UserOf[s] = u /\ out = "ok"
    BY SMTT(30), <1>2, <1>3
  <2> QED BY <1>4, <1>5, <2>1
<1>9. CycleIsSparing'
  <2> SUFFICES ASSUME NEW i \in DOMAIN new, NEW j \in DOMAIN new, i < j
               PROVE  /\ new[i].out # "limited"
                      /\ new[i].out = "ok" => UserOf[new[i].session] # UserOf[new[j].session]
    BY DEF CycleIsSparing
  <2>1. i \in DOMAIN old /\ new[i] = old[i]
    BY <1>2, <1>3
  <2>2. CASE j \in DOMAIN old
    BY <1>2, <1>4, <2>1, <2>2 DEF CycleIsSparing
  <2>3. CASE j = n + 1
    <3>1. new[i].out # "limited"
      BY <1>4, <2>1 DEF Cut
    <3>2. ASSUME new[i].out = "ok" PROVE UserOf[new[i].session] # UserOf[s]
      <4>1. UserOf[s] \in Users
        BY <1>2, SessionsAssumption
      <4> QED BY <1>4, <2>1, <3>2, <4>1
    <3> QED BY <1>2, <2>3, <3>1, <3>2
  <2> QED BY <1>3, <2>2, <2>3
<1>10. ASSUME NEW t \in history.targets, out # "limited"
       PROVE  Tried(t)' \/ t \in todo'
  <2>1. CASE Tried(t)
    <3>1. PICK i \in DOMAIN old : \/ old[i].session = t
                                  \/ UserOf[old[i].session] = UserOf[t] /\ old[i].out = "ok"
      BY <2>1 DEF Tried
    <3>2. i \in DOMAIN new /\ new[i] = old[i]
      BY <1>2, <1>3
    <3> QED BY <3>1, <3>2 DEF Tried
  <2>2. CASE t \in todo
    BY <1>5, <1>10, <2>2
  <2>3. CASE s = t
    <3>1. n + 1 \in DOMAIN new /\ new[n + 1].session = t
      BY <1>2, <1>3, <2>3
    <3> QED BY <3>1 DEF Tried
  <2> QED BY <1>4, <2>1, <2>2, <2>3
<1> QED BY <1>2, <1>5, <1>6, <1>7, <1>8, <1>9, <1>10 DEF CycleInv

-----------------------------------------------------------------------------
(* The invariant                                                           *)

\* It holds at first ...
LEMMA InitInv == Init => IInv
<1> SUFFICES ASSUME Init PROVE IInv
  OBVIOUS
<1>1. TypeOK
  BY SessionsAssumption, NoCallIs DEF Init, TypeOK, Calls, NoHistory
<1>2. history \in Histories
  BY DEF Init, Histories, NoHistory
<1>3. CallsInv
  BY NoCallIs DEF Init, CallsInv, Shape, Expired, Doomed, Holding, Storing
<1>4. \A s \in SessionIds : SessionInv(s)
  <2> SUFFICES ASSUME NEW s \in SessionIds PROVE SessionInv(s)
    OBVIOUS
  <2>1. /\ store[s] = None /\ live[s] = None /\ issued[s] = 0 /\ spent[s] = 0 /\ due[s] = 0
        /\ \A c \in Callers : call[c].pc = "idle"
    BY NoCallIs DEF Init
  <2> QED BY <2>1 DEF SessionInv, PairsAt, StoringAt, LoginAt, NewestAt, Storing, LoggingIn
<1>5. CycleInv
  <2>1. Cycle \in Callers
    BY DEF Callers
  <2> QED BY <2>1, NoCallIs DEF Init, CycleInv, Cut, CycleIsSparing, NoHistory
<1> QED BY <1>1, <1>2, <1>3, <1>4, <1>5 DEF IInv

\* ... stays while nothing happens ...
LEMMA StutterInv == IInv /\ UNCHANGED vars => IInv'
<1> SUFFICES ASSUME IInv, UNCHANGED vars PROVE IInv'
  OBVIOUS
<1>1. UNCHANGED <<backend, store, live, issued, lapsed, due, spent, activity, call, todo, refreshed,
                  history, torn, left>>
  BY DEF vars, github, time, cycle
<1>2. TypeOK' /\ history' \in Histories
  BY <1>1 DEF IInv, TypeOK
<1>3. CycleInv'
  BY <1>1, CycleStays DEF IInv, cycle
<1>4. Lessens
  BY <1>1, CallsStay, TimeStays, TypesStay DEF Lessens, time, IInv
<1> QED BY <1>2, <1>3, <1>4, LessensKeeps DEF IInv

\* ... and with every step.
LEMMA NextInv == IInv /\ [Next]_vars => IInv'
<1> SUFFICES ASSUME IInv, [Next]_vars PROVE IInv'
  OBVIOUS
<1>1. ASSUME NEW c \in Callers, Request(c) \/ Step(c) PROVE IInv'
  BY <1>1, StepKeeps, StepKeepsCycle DEF KeepsAll, IInv
<1>2. CASE Tick
  BY <1>2, TickKeeps, TickKeepsCycle DEF NobodyKeeps, IInv
<1>3. CASE Take
  BY <1>3, TakeKeeps, TakeKeepsCycle DEF NobodyKeeps, IInv
<1>4. CASE Settle
  BY <1>4, SettleKeeps, SettleKeepsCycle DEF NobodyKeeps, IInv
<1>5. CASE CycleEnds
  BY <1>5, CycleEndsKeeps, CycleEndsKeepsCycle DEF NobodyKeeps, IInv
<1>6. CASE Restart
  BY <1>6, RestartKeeps, CycleEndsKeepsCycle DEF NobodyKeeps, IInv
<1>7. CASE Purge \/ KeyExpires \/ TimePasses \/ Revoke
  <2>1. NobodyKeeps
    BY <1>7, PurgeKeeps, KeyExpiresKeeps, TimePassesKeeps, RevokeKeeps
  <2>2. UNCHANGED <<call, cycle>>
    BY <1>7 DEF Purge, KeyExpires, TimePasses, Revoke
  <2> QED BY <2>1, <2>2, CycleStays DEF NobodyKeeps, IInv
<1>8. CASE UNCHANGED vars
  BY <1>8, StutterInv
<1> QED BY <1>1, <1>2, <1>3, <1>4, <1>5, <1>6, <1>7, <1>8 DEF Next, CycleStep

\* The invariant, of every behaviour.
THEOREM Invariance == Spec => []IInv
<1>1. Init => IInv
  BY InitInv
<1>2. IInv /\ [Next]_vars => IInv'
  BY NextInv
<1> QED BY <1>1, <1>2, PTL DEF Spec


-----------------------------------------------------------------------------
(* What holds of every execution                                           *)

\* Calls, sessions, the cycle and its history are what they are meant to be: no
\* token is stored that is none, no call holds a record it has not read.
THEOREM TypeCorrect == Spec => []TypeOK
<1>1. IInv => TypeOK
  BY DEF IInv
<1> QED BY <1>1, Invariance, PTL

\* A stored session holds the pair GitHub issued last.
THEOREM NewestPairStays == Spec => []NewestPairIsStored
<1>1. ASSUME IInv, NEW s \in SessionIds
      PROVE  \/ store[s] = None \/ live[s] = None \/ s \in torn
             \/ \E c \in Callers : call[c].pc \in {"update", "write"} /\ call[c].session = s
             \/ store[s].access = live[s] /\ store[s].refresh = live[s]
  BY <1>1 DEF IInv, SessionInv, PairsAt, NewestAt, Genuine, Storing
<1>2. IInv => NewestPairIsStored
  BY <1>1 DEF NewestPairIsStored
<1> QED BY <1>2, Invariance, PTL

\* A cycle costs what it must.
THEOREM CyclesAreSparing == Spec => []CycleIsSparing
<1>1. IInv => CycleIsSparing
  BY DEF IInv, CycleInv
<1> QED BY <1>1, Invariance, PTL

\* A cycle that was not cut short reaches every user.
THEOREM CyclesReachAll == Spec => []CycleReachesAll
<1>1. IInv => CycleReachesAll
  BY DEF IInv, CycleInv, CycleReachesAll, Cut, Tried, At
<1> QED BY <1>1, Invariance, PTL

-----------------------------------------------------------------------------
(* What no step does                                                       *)


\* The steps that change the store, and what each of them leaves there.
LEMMA StoreChanges ==
    ASSUME IInv, Next, NEW s \in SessionIds, store'[s] # store[s]
    PROVE  \/ s \in lapsed /\ store'[s] = None
           \/ \E c \in Callers :
                 /\ call[c].session = s
                 /\ \/ At(c, "create") /\ store'[s] # None /\ store'[s].expires
                    \/ store[s] # None /\ store'[s] # None /\ store'[s].expires = store[s].expires
                    \/ backend = "redis" /\ store'[s] # None
                    \/ store'[s] = None /\ (Drop(c) \/ Refused(c) \/ LogoutDelete(c))
<1>1. TypeOK
  BY DEF IInv
<1>2. CASE Purge \/ KeyExpires
  BY <1>1, <1>2 DEF Purge, Purged, KeyExpires, Delete, TypeOK
<1>3. ASSUME NEW c \in Callers, Drop(c) \/ Refused(c) \/ LogoutDelete(c) \/ DeleteExpired(c)
      PROVE  call[c].session = s /\ store'[s] = None
  BY <1>1, <1>3 DEF Drop, Refused, LogoutDelete, DeleteExpired, Delete, TypeOK
<1>4. ASSUME NEW c \in Callers, DeleteExpired(c) PROVE s \in lapsed
  BY <1>3, <1>4 DEF DeleteExpired, At, IInv, CallsInv, Expired
<1>5. ASSUME NEW c \in Callers, Create(c)
      PROVE  call[c].session = s /\ At(c, "create") /\ store'[s] # None /\ store'[s].expires
  <2> DEFINE new == [access |-> 1, refresh |-> 1, expires |-> TRUE]
  <2>1. store' = [store EXCEPT ![call[c].session] = new] /\ At(c, "create")
    BY <1>5 DEF Create
  <2>2. 1 \in Pairs
    BY SessionsAssumption DEF Pairs
  <2>3. new \in Records /\ new.expires
    BY <2>2 DEF Records
  <2> HIDE DEF new
  <2> QED BY <1>1, <2>1, <2>3, NoneAssumption DEF TypeOK
<1>6. ASSUME NEW c \in Callers, UpdateSqlite(c)
      PROVE  /\ call[c].session = s /\ store[s] # None /\ store'[s] # None
             /\ store'[s].expires = store[s].expires
  <2>1. call[c].session = s /\ store'[s] = RowUpdated(s, call[c].new)
    BY <1>1, <1>6 DEF UpdateSqlite, TypeOK
  <2>2. store[s] # None /\ store[s] \in Records /\ call[c].new \in Pairs
    BY <1>1, <1>6, <2>1, SessionFacts, InCall DEF RowUpdated, UpdateSqlite, At, Shape, Storing
  <2> QED BY <2>1, <2>2, Updated, NoneAssumption DEF RowUpdated
<1>7. ASSUME NEW c \in Callers, UpdateWriteRedis(c)
      PROVE  call[c].session = s /\ backend = "redis" /\ store'[s] # None
  <2> DEFINE r == WithTokens(call[c].raw, call[c].new)
  <2>1. call[c].session = s /\ store'[s] = KeepTtl(s, r)
    BY <1>1, <1>7 DEF UpdateWriteRedis, TypeOK
  <2>2. backend = "redis" /\ call[c].raw \in Records /\ call[c].new \in Pairs
    BY <1>7, InCall DEF UpdateWriteRedis, At, Shape, Storing, Calls
  <2>3. r \in Records
    BY <2>2, Updated
  <2> HIDE DEF r
  <2>4. (store[s] # None /\ store[s].expires) \in BOOLEAN
    BY <1>1, SessionFacts DEF Records
  <2>5. KeepTtl(s, r) \in Records
    BY <2>3, <2>4 DEF KeepTtl, Records
  <2> QED BY <2>1, <2>2, <2>5, NoneAssumption
<1>8. \/ Purge \/ KeyExpires
      \/ \E c \in Callers : \/ Drop(c) \/ Refused(c) \/ LogoutDelete(c) \/ DeleteExpired(c)
                            \/ Create(c) \/ UpdateSqlite(c) \/ UpdateWriteRedis(c)
  BY DEF Next, CycleStep, Step, Request, ExchangeCode, Viewer, Deny, Get, Found, Shared, Answered,
         Exchange, UpdateReadRedis, Use, LogoutRevoke, Tick, Take, Settle, CycleEnds, TimePasses, Revoke, Restart
<1> QED BY <1>2, <1>3, <1>4, <1>5, <1>6, <1>7, <1>8

\* A session that is gone does not come back on SQLite.
THEOREM DeletedSessionsStayDeleted == Spec => DeletedStaysDeleted
<1>1. ASSUME IInv, [Next]_vars, NEW s \in SessionIds, store[s] = None, store'[s] # None
      PROVE  backend = "redis" \/ \E c \in Callers : At(c, "create") /\ call[c].session = s
  <2>1. CASE Next
    BY <1>1, <2>1, StoreChanges
  <2>2. CASE UNCHANGED vars
    BY <1>1, <2>2 DEF vars
  <2> QED BY <1>1, <2>1, <2>2
<1>2. IInv /\ [Next]_vars =>
         [\A s \in SessionIds :
             store[s] = None /\ store'[s] # None =>
                backend = "redis" \/ \E c \in Callers : At(c, "create") /\ call[c].session = s]_vars
  BY <1>1
<1> QED BY <1>2, Invariance, PTL DEF Spec, DeletedStaysDeleted

\* On SQLite a session keeps its end: what LifetimeIsKept promises, and what
\* Redis's read and write break, is broken there only.
THEOREM LifetimeIsKeptOnSqlite == Spec => [](backend = "sqlite" => LifetimeIsKept)
<1> DEFINE Kept == backend = "sqlite" => LifetimeIsKept
<1>1. Init => Kept
  BY DEF Init, LifetimeIsKept
<1>2. ASSUME IInv, Kept, [Next]_vars PROVE Kept'
  <2>1. backend' = backend
    BY <1>2 DEF vars, Next, CycleStep, Step, Request, ExchangeCode, Viewer, Deny, Create, Get,
       DeleteExpired, Found, Shared, Answered, Exchange, UpdateSqlite, UpdateReadRedis, UpdateWriteRedis, Drop, Use,
       Refused, LogoutDelete, LogoutRevoke, Tick, Take, Settle, CycleEnds, Purge, KeyExpires,
       TimePasses, Revoke, Restart
  <2> SUFFICES ASSUME backend = "sqlite", NEW s \in SessionIds, store'[s] # None
               PROVE  store'[s].expires
    BY <2>1 DEF LifetimeIsKept
  <2>2. store[s] # None => store[s].expires
    BY <1>2 DEF LifetimeIsKept
  <2>3. CASE store'[s] = store[s]
    BY <2>2, <2>3
  <2>4. CASE store'[s] # store[s]
    <3>1. Next
      BY <1>2, <2>4 DEF vars
    <3> QED BY <1>2, <2>2, <2>4, <3>1, StoreChanges
  <2> QED BY <2>3, <2>4
<1> HIDE DEF Kept
<1>3. Spec => []Kept
  BY <1>1, <1>2, Invariance, PTL DEF Spec
<1> QED BY <1>3 DEF Kept

\* A call that deletes a session goes on.
LEMMA DeletingMoves ==
    ASSUME IInv, NEW c \in Callers, Drop(c) \/ Refused(c) \/ LogoutDelete(c)
    PROVE  call'[c] # call[c]
<1>1. CASE Drop(c)
  <2>1. call[c].pc = "drop" /\ call' = [call EXCEPT ![c] = Unauthorized(@)] /\ call \in [Callers -> Calls]
    BY <1>1, CallTypes DEF Drop, At, IInv
  <2>2. Unauthorized(call[c]).pc # "drop"
    <3> DEFINE k == call[c]
    <3>1. k \in Calls /\ k.pc = "drop"
      BY <2>1
    <3> HIDE DEF k
    <3>2. Ended(k, "auth").pc # "drop"
      BY NoCallIs DEF Ended, NoCall
    <3>3. [k EXCEPT !.pc = "refused"].pc # "drop"
      BY <3>1 DEF Calls
    <3>4. Unauthorized(k).pc # "drop"
      BY <3>2, <3>3 DEF Unauthorized
    <3> QED BY <3>4 DEF k
  <2> QED BY <2>1, <2>2
<1>2. CASE Refused(c)
  <2>1. call[c].pc = "refused" /\ call'[c].pc \in {"idle", "ended"}
    BY <1>2, EndingMoves, OutcomesAre DEF Refused, At
  <2> QED BY <2>1
<1>3. CASE LogoutDelete(c)
  <2>1. call[c].pc = "logout" /\ call[c] \in Calls /\ call' = [call EXCEPT ![c].pc = "revoke"]
        /\ call \in [Callers -> Calls]
    BY <1>3, CallTypes DEF LogoutDelete, At, Goto, IInv
  <2>2. call'[c].pc = "revoke"
    BY <2>1 DEF Calls
  <2> QED BY <2>1, <2>2
<1> QED BY <1>1, <1>2, <1>3

\* Nobody is logged out for an outage.
THEOREM SessionsEndForCause == Spec => DeletedForCause
<1> DEFINE ForCause(s) ==
              \E c \in Callers :
                 /\ call[c].session = s /\ call'[c] # call[c]
                 /\ At(c, "logout") \/ live[s] <= spent[s] \/ Overtaken(c) \/ call[c].denied
<1>1. ASSUME IInv, [Next]_vars, NEW s \in SessionIds, Good(s), store'[s] = None
      PROVE  ForCause(s)
  <2>1. Next
    BY <1>1 DEF vars, Good
  <2>2. PICK c \in Callers : call[c].session = s /\ (Drop(c) \/ Refused(c) \/ LogoutDelete(c))
    BY <1>1, <2>1, StoreChanges DEF Good
  <2>3. call'[c] # call[c]
    BY <1>1, <2>2, DeletingMoves
  <2>4. CASE LogoutDelete(c)
    BY <2>2, <2>3, <2>4 DEF LogoutDelete
  <2>5. CASE Drop(c) \/ Refused(c)
    <3>1. call[c].pc \in {"drop", "refused"} /\ Doomed(call[c]) /\ call[c].record # None
      BY <1>1, <2>5, InCall DEF Drop, Refused, At, IInv, CallsInv, Holding
    <3>2. \/ call[c].record.refresh # live[s] \/ call[c].record.refresh <= spent[s]
          \/ call[c].denied
      BY <2>2, <3>1 DEF Doomed
    <3>3. Overtaken(c) \/ live[s] <= spent[s] \/ call[c].denied
      BY <2>2, <3>1, <3>2 DEF Overtaken
    <3> QED BY <2>2, <2>3, <3>3
  <2> QED BY <2>2, <2>4, <2>5
<1>2. IInv /\ [Next]_vars =>
         [\A s \in SessionIds :
             Good(s) /\ store'[s] = None => ForCause(s)]_vars
  BY <1>1
<1> QED BY <1>2, Invariance, PTL DEF Spec, DeletedForCause

====
