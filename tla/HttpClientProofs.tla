-------------------------- MODULE HttpClientProofs --------------------------
(***************************************************************************)
(* For any number of calls at the same time, attempts, cached entries,     *)
(* pages and repositories: reads are fresh and patient, cost no more than  *)
(* their budget, a rerun is not asked for twice, a batch is returned       *)
(* whole, a month's runs are counted once each, and the cache is an LRU    *)
(* cache.                                                                  *)
(*                                                                         *)
(* A step changes one call (CallStep), so the invariant is one of a call   *)
(* (CallInv) next to one of the cache (CacheOK) and one of the reruns      *)
(* still to be answered (RerunInv).  PagesInv adds which pages a count has *)
(* read.                                                                   *)
(***************************************************************************)
EXTENDS HttpClient, FiniteSetTheorems, SequenceTheorems, WellFoundedInduction, TLAPS

Keys == {<<kind>> : kind \in Kinds} \cup {<<"durations", page>> : page \in Nat}
Entries == [key : Keys, runs : 0 .. MaxRuns]
Hows == Failures \cup Payloads \cup
            {"200", "200 no etag", "304", "202", "200 without token", "not json", "204", "422"}
Answers == [how : Hows, runs : 0 .. MaxRuns]
Bodies == [page : Nat \ {0}, runs : 0 .. MaxRuns]
Ids == Seq(Range(Repos))
Calls == [pc : {"idle", "sent", "answered", "ended"}, kind : Kinds, attempt : Nat \ {0},
          outer : Nat \ {0}, page : Nat \ {0}, cached : {None} \cup Entries, since : 0 .. MaxRuns,
          answer : {None} \cup Answers, bodies : Seq(Bodies), ids : Ids, rest : Seq(Ids),
          got : SUBSET Range(Repos), lost : SUBSET Range(Repos), nulled : SUBSET Range(Repos),
          requests : Nat,
          out : {None} \cup Outcomes]

-----------------------------------------------------------------------------
(* The cache                                                               *)

\* An LRU cache: no key twice, and no more than there is room for.
CacheOK(entries) ==
    /\ entries \in Seq(Entries) /\ Len(entries) <= MaxEntries
    /\ \A i, j \in DOMAIN entries : entries[i].key = entries[j].key => i = j

-----------------------------------------------------------------------------
(* A call                                                                  *)

InFlight(k) == k.pc \in {"sent", "answered"}

\* What a read has, and what its answer stands for, was so when it began or later.
FreshCall(k) ==
    /\ k.since <= runs
    /\ \A i \in DOMAIN k.bodies : k.bodies[i].runs \in k.since .. runs
    /\ k.pc = "answered" /\ k.kind \in RestKinds =>
          /\ k.answer.runs \in k.since .. runs
          /\ k.answer.how = "304" => k.cached # None /\ k.cached.runs = k.answer.runs

\* What a call has spent so far, and so may spend: each of its outer attempts
\* makes Attempts requests.
SpentCall(k) ==
    /\ k.requests <= Budget(k.kind)
    /\ InFlight(k) =>
          /\ k.attempt <= Attempts
          /\ k.kind \in RestKinds => k.requests <= k.attempt
          /\ k.kind \in {"query", "repositories"} =>
                k.outer <= Attempts /\ k.requests <= (k.outer - 1) * Attempts + k.attempt
          /\ k.kind = "hygiene" =>
                \/ FirstTry(k) /\ k.requests <= k.attempt
                \/ k.outer = 2 /\ k.rest = << >> /\ k.requests <= 2 * Attempts + k.attempt
                \/ k.outer = 2 /\ Len(k.rest) = 1 /\ k.requests <= Attempts + k.attempt

\* The repositories of a batch that have still to be asked for.
Left(k) == IF k.rest = << >> THEN {} ELSE Range(Head(k.rest))

\* A batch is what it has, has lost, is asking for and has still to ask for, each
\* once.
BatchCall(k) ==
    k.kind = "hygiene" =>
        /\ InFlight(k) =>
              /\ k.got \cup k.nulled \cup k.lost \cup Range(k.ids) \cup Left(k) = Range(Repos)
              /\ k.got \cap k.nulled = {} /\ (k.got \cup k.nulled) \cap k.lost = {} /\ (k.got \cup k.nulled \cup k.lost) \cap (Range(k.ids) \cup Left(k)) = {}
              /\ Range(k.ids) \cap Left(k) = {}
              /\ FirstTry(k) => k.ids = Repos /\ k.rest = << >>
        /\ k.out = "ok" =>
              k.got \cup k.nulled \cup k.lost = Range(Repos) /\ k.got \cap k.nulled = {} /\ (k.got \cup k.nulled) \cap k.lost = {}

CallInv(k) ==
    /\ k \in Calls
    /\ k.pc # "ended" => k.out = None
    /\ k.pc = "answered" => k.answer \in Answers
    /\ FreshCall(k) /\ SpentCall(k) /\ BatchCall(k)

-----------------------------------------------------------------------------
(* The rerun                                                               *)

\* Reruns that have been asked for and not been answered.
Unanswered == {c \in Callers : call[c].pc = "sent" /\ call[c].kind = "rerun"}

RerunInv == reruns \in Nat /\ asked \in 0 .. MaxReruns /\ reruns + Cardinality(Unanswered) <= asked

IInv ==
    /\ mix \in Mixes /\ runs \in 0 .. MaxRuns /\ created \in 0 .. MaxCreated
    /\ CacheOK(cache) /\ RerunInv
    /\ call \in [Callers -> Calls] /\ \A c \in Callers : CallInv(call[c])

-----------------------------------------------------------------------------
(* The cache is LRU                                                        *)

\* Held finds the entry of a key, if there is one.
LEMMA HeldIs ==
    ASSUME NEW entries, CacheOK(entries), NEW key
    PROVE  LET i == Held(entries, key) IN
           \/ i = 0 /\ \A j \in DOMAIN entries : entries[j].key # key
           \/ i \in DOMAIN entries /\ i # 0 /\ entries[i].key = key
<1> DEFINE at == {i \in DOMAIN entries : entries[i].key = key}
<1>1. DOMAIN entries = 1 .. Len(entries) /\ Len(entries) \in Nat
  BY DEF CacheOK
<1>2. CASE at = {}
  <2>1. Held(entries, key) = 0
    BY <1>2 DEF Held
  <2> QED BY <1>2, <2>1
<1>3. CASE at # {}
  <2>1. Held(entries, key) = CHOOSE i \in at : TRUE
    BY <1>3 DEF Held
  <2> QED BY <1>1, <1>3, <2>1
<1> QED BY <1>2, <1>3

\* get returns an entry, or None.
LEMMA FoundIs ==
    ASSUME NEW entries, CacheOK(entries), NEW key
    PROVE  Found(entries, key) \in {None} \cup Entries
<1>1. entries \in Seq(Entries)
  BY DEF CacheOK
<1> QED BY <1>1, HeldIs, ElementOfSeq DEF Found

\* Without an entry, the others are as they were and its key is gone.
LEMMA RemoveIs ==
    ASSUME NEW entries, CacheOK(entries), NEW i \in DOMAIN entries
    PROVE  LET others == RemoveAt(entries, i) IN
           /\ CacheOK(others) /\ Len(others) = Len(entries) - 1
           /\ \A j \in DOMAIN others : others[j].key # entries[i].key
<1> DEFINE n == Len(entries)
           s == SubSeq(entries, 1, i - 1)
           t == SubSeq(entries, i + 1, n)
           o == s \o t
<1>1. entries \in Seq(Entries) /\ n \in Nat /\ DOMAIN entries = 1 .. n /\ i \in 1 .. n
  BY DEF CacheOK
<1>2. /\ s \in Seq(Entries) /\ Len(s) = i - 1 /\ \A j \in 1 .. i - 1 : s[j] = entries[j]
      /\ t \in Seq(Entries) /\ Len(t) = n - i /\ \A j \in 1 .. n - i : t[j] = entries[i + j]
  <2>1. \A j \in 1 .. n : entries[j] \in Entries
    BY <1>1, ElementOfSeq
  <2>2. /\ s \in Seq(Entries) /\ Len(s) = IF 1 <= i - 1 THEN (i - 1) - 1 + 1 ELSE 0
        /\ \A j \in 1 .. (i - 1) - 1 + 1 : s[j] = entries[1 + j - 1]
    BY <1>1, <2>1, SubSeqProperties
  <2>3. /\ t \in Seq(Entries) /\ Len(t) = IF i + 1 <= n THEN n - (i + 1) + 1 ELSE 0
        /\ \A j \in 1 .. n - (i + 1) + 1 : t[j] = entries[i + 1 + j - 1]
    BY <1>1, <2>1, SubSeqProperties
  <2> HIDE DEF s, t, n
  <2>4. Len(s) = i - 1 /\ Len(t) = n - i
    BY <1>1, <2>2, <2>3
  <2>5. \A j \in 1 .. i - 1 : s[j] = entries[j]
    <3>1. (i - 1) - 1 + 1 = i - 1 /\ \A j \in 1 .. i - 1 : 1 + j - 1 = j
      BY <1>1
    <3> QED BY ONLY <2>2, <3>1
  <2>6. \A j \in 1 .. n - i : t[j] = entries[i + j]
    <3>1. n - (i + 1) + 1 = n - i /\ \A j \in 1 .. n - i : i + 1 + j - 1 = i + j
      BY <1>1
    <3> QED BY ONLY <2>3, <3>1
  <2> QED BY <2>2, <2>3, <2>4, <2>5, <2>6
<1> HIDE DEF s, t
<1>3. /\ o \in Seq(Entries) /\ Len(o) = n - 1
      /\ \A j \in 1 .. n - 1 : o[j] = IF j < i THEN entries[j] ELSE entries[j + 1]
  <2>1. o \in Seq(Entries) /\ Len(o) = n - 1
    <3>1. s \o t \in Seq(Entries) /\ Len(s \o t) = Len(s) + Len(t)
      BY ONLY <1>2, ConcatProperties
    <3>2. (i - 1) + (n - i) = n - 1
      BY <1>1
    <3> QED BY <1>2, <3>1, <3>2
  <2>2. \A j \in 1 .. n - 1 : o[j] = IF j <= Len(s) THEN s[j] ELSE t[j - Len(s)]
    <3>1. \A j \in 1 .. Len(s) + Len(t) : (s \o t)[j] = IF j <= Len(s) THEN s[j] ELSE t[j - Len(s)]
      BY ONLY <1>2, ConcatProperties
    <3>2. Len(s) + Len(t) = n - 1
      BY <1>1, <1>2
    <3> QED BY <3>1, <3>2
  <2>3. ASSUME NEW j \in 1 .. n - 1 PROVE o[j] = IF j < i THEN entries[j] ELSE entries[j + 1]
    <3>1. CASE j < i
      <4>1. j \in 1 .. i - 1 /\ j <= Len(s)
        BY <1>1, <1>2, <3>1
      <4> QED BY <1>2, <2>2, <3>1, <4>1
    <3>2. CASE j >= i
      <4> DEFINE m == j - (i - 1)
      <4>1. m \in 1 .. n - i /\ i + m = j + 1 /\ ~ j <= Len(s) /\ j - Len(s) = m /\ ~ j < i
        BY <1>1, <1>2, <3>2
      <4> HIDE DEF m
      <4>2. o[j] = t[m] /\ t[m] = entries[i + m]
        BY <1>2, <2>2, <4>1
      <4> QED BY <4>1, <4>2
    <3>3. j < i \/ j >= i
      BY ONLY <1>1
    <3> QED BY ONLY <3>1, <3>2, <3>3
  <2> QED BY <2>1, <2>3
<1> HIDE DEF o
<1>4. DOMAIN o = 1 .. n - 1
  BY <1>1, <1>3
<1>5. ASSUME NEW j \in 1 .. n - 1
      PROVE  \E m \in 1 .. n : m # i /\ o[j] = entries[m] /\ m = IF j < i THEN j ELSE j + 1
  BY <1>1, <1>3
<1>6. \A j \in DOMAIN o : o[j].key # entries[i].key
  BY <1>1, <1>4, <1>5 DEF CacheOK
<1>7. CacheOK(o)
  <2>1. ASSUME NEW j \in 1 .. n - 1, NEW l \in 1 .. n - 1, o[j].key = o[l].key PROVE j = l
    BY <1>1, <1>5, <2>1 DEF CacheOK
  <2>2. Len(o) <= MaxEntries
    BY <1>1, <1>3, HttpAssumption DEF CacheOK
  <2> QED BY <1>3, <1>4, <2>1, <2>2 DEF CacheOK
<1> QED BY <1>3, <1>6, <1>7 DEF RemoveAt, o, s, t

\* A new key may be added while there is room.
LEMMA AppendOK ==
    ASSUME NEW entries, CacheOK(entries), Len(entries) < MaxEntries, NEW entry \in Entries,
           \A j \in DOMAIN entries : entries[j].key # entry.key
    PROVE  CacheOK(Append(entries, entry))
<1>1. entries \in Seq(Entries) /\ Len(entries) \in Nat
  BY DEF CacheOK
<1>2. /\ Append(entries, entry) \in Seq(Entries) /\ Len(Append(entries, entry)) = Len(entries) + 1
      /\ \A j \in 1 .. Len(entries) : Append(entries, entry)[j] = entries[j]
      /\ Append(entries, entry)[Len(entries) + 1] = entry
  BY <1>1, AppendProperties
<1> DEFINE n == Len(entries)
           a == Append(entries, entry)
<1>3. DOMAIN a = 1 .. n + 1 /\ DOMAIN entries = 1 .. n
  BY <1>1, <1>2
<1>4. \A j \in 1 .. n + 1 : j \in 1 .. n \/ j = n + 1
  BY <1>1
<1> HIDE DEF n, a
<1>5. ASSUME NEW i \in 1 .. n + 1, NEW j \in 1 .. n + 1, a[i].key = a[j].key PROVE i = j
  <2>1. \A m \in 1 .. n : a[m] = entries[m] /\ a[n + 1] = entry
    BY <1>2 DEF a, n
  <2> QED BY <1>3, <1>4, <1>5, <2>1 DEF CacheOK
<1>6. Len(a) <= MaxEntries
  BY <1>1, <1>2, HttpAssumption DEF a
<1> QED BY <1>2, <1>3, <1>5, <1>6 DEF CacheOK, a

\* Who gives up its place is the least recently used one.
LEMMA TailOK ==
    ASSUME NEW entries, CacheOK(entries), entries # << >>
    PROVE  /\ CacheOK(Tail(entries)) /\ Len(Tail(entries)) = Len(entries) - 1
           /\ \A j \in DOMAIN Tail(entries) :
                 j + 1 \in DOMAIN entries /\ Tail(entries)[j] = entries[j + 1]
<1>1. entries \in Seq(Entries) /\ Len(entries) \in Nat
  BY DEF CacheOK
<1>2. /\ Tail(entries) \in Seq(Entries) /\ Len(Tail(entries)) = Len(entries) - 1
      /\ \A j \in 1 .. Len(Tail(entries)) : Tail(entries)[j] = entries[j + 1]
  BY <1>1, HeadTailProperties
<1> QED BY <1>1, <1>2, HttpAssumption DEF CacheOK

\* get keeps an LRU cache.
LEMMA UsedOK ==
    ASSUME NEW entries, CacheOK(entries), NEW key
    PROVE  CacheOK(Used(entries, key))
<1> DEFINE i == Held(entries, key)
<1>1. CASE i = 0
  BY <1>1 DEF Used
<1>2. CASE i # 0
  <2>1. i \in DOMAIN entries /\ entries[i] \in Entries /\ Len(entries) \in Nat
    BY <1>2, HeldIs, ElementOfSeq DEF CacheOK
  <2>2. Used(entries, key) = Append(RemoveAt(entries, i), entries[i])
    BY <1>2 DEF Used
  <2> HIDE DEF i
  <2> QED BY <2>1, <2>2, RemoveIs, AppendOK DEF CacheOK
<1> QED BY <1>1, <1>2

\* So does put, whether or not the key is there, and when it is full.
LEMMA PutOK ==
    ASSUME CacheOK(cache), NEW entry \in Entries
    PROVE  CacheOK(Put(entry))
<1> DEFINE i == Held(cache, entry.key)
           others == IF i = 0 THEN cache ELSE RemoveAt(cache, i)
           kept == IF Len(others) < MaxEntries THEN others ELSE Tail(others)
<1>1. CacheOK(others) /\ \A j \in DOMAIN others : others[j].key # entry.key
  <2>1. CASE i = 0
    BY <2>1, HeldIs
  <2>2. CASE i # 0
    <3>1. i \in DOMAIN cache /\ cache[i].key = entry.key
      BY <2>2, HeldIs
    <3> HIDE DEF i
    <3> QED BY <2>2, <3>1, RemoveIs
  <2> QED BY <2>1, <2>2
<1> HIDE DEF i, others
<1>2. CacheOK(kept) /\ Len(kept) < MaxEntries /\ \A j \in DOMAIN kept : kept[j].key # entry.key
  <2>1. CASE Len(others) < MaxEntries
    BY <1>1, <2>1
  <2>2. CASE ~ Len(others) < MaxEntries
    <3>1. others # << >> /\ Len(others) \in Nat /\ Len(others) <= MaxEntries
      BY <1>1, <2>2, HttpAssumption DEF CacheOK
    <3> QED BY <1>1, <2>2, <3>1, TailOK, HttpAssumption
  <2> QED BY <2>1, <2>2
<1>3. Put(entry) = Append(kept, entry)
  BY DEF Put, kept, others, i
<1> HIDE DEF kept
<1> QED BY <1>2, <1>3, AppendOK

-----------------------------------------------------------------------------
(* Halves of a batch                                                       *)

\* The halves of a batch are the batch, and share nothing.
LEMMA HalvesAre ==
    ASSUME NEW s \in Ids, IsInjective(s)
    PROVE  \/ Halves(s) = <<s>>
           \/ \E a, b \in Ids : /\ Halves(s) = <<a, b>> /\ Range(a) \cup Range(b) = Range(s)
                                /\ Range(a) \cap Range(b) = {}
<1> DEFINE n == Len(s)
           mid == Max({1, n \div 2})
           a == SubSeq(s, 1, mid)
           b == SubSeq(s, mid + 1, n)
           R == Range(Repos)
<1>1. s \in Seq(R) /\ n \in Nat /\ DOMAIN s = 1 .. n /\ \A i \in 1 .. n : s[i] \in R
  BY ElementOfSeq DEF Ids
<1>2. CASE n > 1
  <2>1. mid \in 1 .. n
    <3>1. n \div 2 \in 1 .. n
      BY <1>1, <1>2
    <3>2. \E x \in {1, n \div 2} : \A y \in {1, n \div 2} : x >= y
      BY <1>1, <3>1
    <3>3. mid \in {1, n \div 2}
      BY <3>2 DEF Max
    <3> QED BY <1>1, <1>2, <3>1, <3>3
  <2> HIDE DEF mid
  <2>2. /\ a \in Seq(R) /\ Len(a) = mid /\ \A i \in 1 .. mid : a[i] = s[i]
    <3>1. /\ a \in Seq(R) /\ Len(a) = IF 1 <= mid THEN mid - 1 + 1 ELSE 0
          /\ \A i \in 1 .. mid - 1 + 1 : a[i] = s[1 + i - 1]
      BY <1>1, <2>1, SubSeqProperties
    <3> QED BY <2>1, <3>1
  <2>3. /\ b \in Seq(R) /\ Len(b) = n - mid /\ \A i \in 1 .. n - mid : b[i] = s[mid + i]
    <3>1. /\ b \in Seq(R) /\ Len(b) = IF mid + 1 <= n THEN n - (mid + 1) + 1 ELSE 0
          /\ \A i \in 1 .. n - (mid + 1) + 1 : b[i] = s[mid + 1 + i - 1]
      BY <1>1, <2>1, SubSeqProperties
    <3> QED BY <1>1, <2>1, <3>1
  <2> HIDE DEF a, b
  <2>4. Range(a) = {s[i] : i \in 1 .. mid}
    BY <2>1, <2>2 DEF Range
  <2>5. Range(b) = {s[i] : i \in mid + 1 .. n}
    <3>1. DOMAIN b = 1 .. n - mid
      BY <1>1, <2>1, <2>3
    <3>2. \A i \in 1 .. n - mid : mid + i \in mid + 1 .. n
      BY <1>1, <2>1
    <3>3. \A i \in mid + 1 .. n : i - mid \in 1 .. n - mid /\ b[i - mid] = s[i]
      BY <1>1, <2>1, <2>3
    <3>4. Range(b) = {b[i] : i \in 1 .. n - mid}
      BY <3>1 DEF Range
    <3>5. {b[i] : i \in 1 .. n - mid} \subseteq {s[i] : i \in mid + 1 .. n}
      BY <2>3, <3>2
    <3>6. {s[i] : i \in mid + 1 .. n} \subseteq {b[i] : i \in 1 .. n - mid}
      BY <3>3
    <3> QED BY <3>4, <3>5, <3>6
  <2>6. Range(s) = {s[i] : i \in 1 .. n}
    BY <1>1 DEF Range
  <2>7. 1 .. n = (1 .. mid) \cup (mid + 1 .. n) /\ (1 .. mid) \cap (mid + 1 .. n) = {}
    BY <1>1, <2>1
  <2>8. Range(a) \cup Range(b) = Range(s)
    BY <2>4, <2>5, <2>6, <2>7
  <2>9. Range(a) \cap Range(b) = {}
    BY <1>1, <2>4, <2>5, <2>7 DEF IsInjective
  <2>10. Halves(s) = <<a, b>>
    BY <1>2 DEF Halves, a, b, mid
  <2> QED BY <2>2, <2>3, <2>8, <2>9, <2>10 DEF Ids
<1>3. CASE ~ n > 1
  BY <1>3 DEF Halves
<1> QED BY <1>2, <1>3

-----------------------------------------------------------------------------
(* Records                                                                 *)

\* A caller that asks for nothing.
LEMMA NoCallIs ==
    /\ NoCall \in Calls /\ NoCall.pc = "idle" /\ NoCall.page = 1 /\ NoCall.since = 0
    /\ NoCall.bodies = << >> /\ NoCall.rest = << >> /\ NoCall.got = {} /\ NoCall.lost = {}
    /\ NoCall.nulled = {} /\ NoCall.requests = 0 /\ NoCall.out = None /\ NoCall.outer = 1
BY HttpAssumption DEF NoCall, Calls, Kinds, RestKinds, Ids

\* What a request leaves as it was.
LEMMA SentIs ==
    ASSUME NEW k \in Calls, NEW entries, CacheOK(entries), runs \in 0 .. MaxRuns
    PROVE  LET n == Sent(k, entries) IN
           /\ n \in Calls /\ n.pc = "sent" /\ n.attempt = 1 /\ n.requests = 1 /\ n.answer = None
           /\ n.since = IF k.kind \in RestKinds /\ k.page = 1 THEN runs ELSE k.since
           /\ n.kind = k.kind /\ n.outer = k.outer /\ n.page = k.page /\ n.bodies = k.bodies
           /\ n.ids = k.ids /\ n.rest = k.rest /\ n.got = k.got /\ n.lost = k.lost /\ n.out = k.out
           /\ n.nulled = k.nulled
<1> DEFINE held == IF k.kind \in RestKinds THEN Found(entries, KeyOf(k)) ELSE None
           since == IF k.kind \in RestKinds /\ k.page = 1 THEN runs ELSE k.since
<1>1. held \in {None} \cup Entries
  BY FoundIs
<1>2. since \in 0 .. MaxRuns
  BY DEF Calls
<1>3. Sent(k, entries) = [k EXCEPT !.pc = "sent", !.attempt = 1, !.requests = 1, !.answer = None,
                                   !.cached = held, !.since = since]
  BY DEF Sent
<1> HIDE DEF held, since
<1> DEFINE n == [k EXCEPT !.pc = "sent", !.attempt = 1, !.requests = 1, !.answer = None,
                          !.cached = held, !.since = since]
<1>4. /\ n.pc = "sent" /\ n.attempt = 1 /\ n.requests = 1 /\ n.answer = None /\ n.since = since
      /\ n.kind = k.kind /\ n.outer = k.outer /\ n.page = k.page /\ n.bodies = k.bodies
      /\ n.ids = k.ids /\ n.rest = k.rest /\ n.got = k.got /\ n.lost = k.lost /\ n.out = k.out
      /\ n.nulled = k.nulled
  BY ONLY k \in Calls DEF Calls
<1>5. n \in Calls
  <2>1. 1 \in Nat \ {0} /\ 1 \in Nat
    OBVIOUS
  <2> QED BY ONLY <1>1, <1>2, <2>1, k \in Calls DEF Calls
<1> QED BY <1>3, <1>4, <1>5 DEF since

\* What a call that ends leaves as it was.
LEMMA EndedIs ==
    ASSUME NEW k \in Calls, NEW out \in Outcomes
    PROVE  LET n == Ended(k, out) IN
           /\ n \in Calls /\ n.pc = "ended" /\ n.out = out
           /\ n.kind = k.kind /\ n.since = k.since /\ n.bodies = k.bodies /\ n.requests = k.requests
           /\ n.got = k.got /\ n.lost = k.lost /\ n.nulled = k.nulled /\ n.answer = k.answer
<1> DEFINE n == Ended(k, out)
<1>1. /\ n.pc = "ended" /\ n.out = out
      /\ n.kind = k.kind /\ n.since = k.since /\ n.bodies = k.bodies /\ n.requests = k.requests
      /\ n.got = k.got /\ n.lost = k.lost /\ n.nulled = k.nulled /\ n.answer = k.answer
  BY DEF Ended, Calls
<1>2. n \in Calls
  <2>1. 1 \in Nat \ {0} /\ << >> \in Ids /\ << >> \in Seq(Ids)
    BY EmptySeq DEF Ids
  <2> QED BY <2>1 DEF Ended, Calls
<1> QED BY <1>1, <1>2

-----------------------------------------------------------------------------
(* Steps of one call                                                       *)

\* What one call does concerns no other.
LEMMA CallStep ==
    ASSUME IInv, NEW c \in Callers, NEW k, CallInv(k), call' = [call EXCEPT ![c] = k],
           CacheOK(cache)', RerunInv', UNCHANGED <<mix, runs, created>>
    PROVE  IInv'
<1>1. k \in Calls
  BY DEF CallInv
<1>2. call' \in [Callers -> Calls] /\ \A d \in Callers : call'[d] = IF d = c THEN k ELSE call[d]
  BY <1>1 DEF IInv
<1>3. \A d \in Callers : CallInv(call'[d])
  BY <1>2 DEF IInv
<1>4. \A d \in Callers : CallInv(call[d])'
  <2> SUFFICES ASSUME NEW d \in Callers PROVE CallInv(call[d])'
    OBVIOUS
  <2>1. CallInv(call'[d]) /\ runs' = runs
    BY <1>3
  <2>2. FreshCall(call[d])'
    BY ONLY <2>1 DEF CallInv, FreshCall
  <2>3. SpentCall(call[d])' /\ BatchCall(call[d])'
    BY ONLY <2>1 DEF CallInv, SpentCall, BatchCall, Budget
  <2> QED BY ONLY <2>1, <2>2, <2>3 DEF CallInv
<1> QED BY <1>2, <1>4 DEF IInv

\* Who does not ask for a rerun leaves it to those who did.
LEMMA RerunKeeps ==
    ASSUME IInv, NEW c \in Callers, NEW k, call' = [call EXCEPT ![c] = k],
           ~ (k.pc = "sent" /\ k.kind = "rerun"), UNCHANGED <<reruns, asked>>
    PROVE  RerunInv'
<1>1. call \in [Callers -> Calls] /\ RerunInv
  BY DEF IInv
<1>2. Unanswered' \in SUBSET Unanswered
  BY <1>1 DEF Unanswered
<1>3. IsFiniteSet(Unanswered)
  BY HttpAssumption, FS_Subset DEF Unanswered
<1>4. Cardinality(Unanswered') <= Cardinality(Unanswered) /\ IsFiniteSet(Unanswered')
  BY <1>2, <1>3, FS_Subset
<1>5. Cardinality(Unanswered') \in Nat /\ Cardinality(Unanswered) \in Nat
  BY <1>3, <1>4, FS_CardinalityType
<1> QED BY <1>1, <1>4, <1>5, HttpAssumption DEF RerunInv

\* What the invariant says of one caller.
LEMMA CallIs ==
    ASSUME IInv, NEW c \in Callers
    PROVE  call[c] \in Calls /\ CallInv(call[c]) /\ runs \in 0 .. MaxRuns /\ CacheOK(cache)
BY DEF IInv

\* Products that the solver does not find by itself.
LEMMA Times ==
    ASSUME NEW a \in Nat, NEW n \in Nat, NEW m \in Nat, n <= m
    PROVE  n * a \in Nat /\ n * a <= m * a /\ (n + 1) * a = n * a + a
OBVIOUS

\* What each kind of call may cost.
LEMMA BudgetIs ==
    /\ \A kind \in Kinds : Budget(kind) \in Nat \ {0}
    /\ \A kind \in RestKinds : Budget(kind) = Attempts
    /\ \A kind \in {"query", "repositories"} : Budget(kind) = Attempts * Attempts
    /\ Budget("hygiene") = 3 * Attempts
<1>1. \A kind \in RestKinds : Budget(kind) = Attempts
  BY DEF Budget, SentOnce, RestKinds
<1>2. \A kind \in {"query", "repositories"} : Budget(kind) = Attempts * Attempts
  BY DEF Budget, SentOnce, RestKinds
<1>3. Budget("hygiene") = 3 * Attempts
  BY DEF Budget, SentOnce, RestKinds
<1>4. \A kind \in {"rerun", "token", "viewer", "revoke"} : Budget(kind) = 1
  BY DEF Budget, SentOnce, RestKinds
<1>5. Attempts * Attempts \in Nat \ {0} /\ 3 * Attempts \in Nat \ {0} /\ Attempts \in Nat \ {0}
  BY HttpAssumption
<1> QED BY <1>1, <1>2, <1>3, <1>4, <1>5 DEF Kinds, GraphqlKinds

\* A call begins with one request, and knows the runs there are.
LEMMA BeginInv == ASSUME IInv, NEW c \in Callers, Begin(c) PROVE IInv'
<1>1. PICK kind \in mix[c].kinds :
         /\ kind = "rerun" => asked < MaxReruns
         /\ asked' = IF kind = "rerun" THEN asked + 1 ELSE asked
         /\ LET k == [NoCall EXCEPT !.kind = kind, !.ids = IF kind = "hygiene" THEN Repos ELSE << >>]
            IN  call' = [call EXCEPT ![c] = Sent(k, cache)] /\ cache' = Looked(k, cache)
  BY DEF Begin
<1> DEFINE k == [NoCall EXCEPT !.kind = kind, !.ids = IF kind = "hygiene" THEN Repos ELSE << >>]
           n == Sent(k, cache)
<1>2. kind \in Kinds /\ CacheOK(cache) /\ runs \in 0 .. MaxRuns /\ call[c].pc = "idle"
      /\ UNCHANGED <<mix, runs, created, reruns>> /\ call \in [Callers -> Calls]
  BY HttpAssumption DEF IInv, Begin
<1>3. /\ k \in Calls /\ k.kind = kind /\ k.page = 1 /\ k.since = 0 /\ k.bodies = << >>
      /\ k.rest = << >> /\ k.got = {} /\ k.lost = {} /\ k.nulled = {} /\ k.out = None /\ k.outer = 1
      /\ kind = "hygiene" => k.ids = Repos
  <2> DEFINE ids == IF kind = "hygiene" THEN Repos ELSE << >>
  <2>1. ids \in Ids /\ (kind = "hygiene" => ids = Repos)
    BY HttpAssumption, EmptySeq DEF Ids
  <2> HIDE DEF ids
  <2>2. k = [NoCall EXCEPT !.kind = kind, !.ids = ids]
    BY DEF ids
  <2> HIDE DEF k
  <2> QED BY ONLY ZenonT(30), <1>2, <2>1, <2>2, NoCallIs DEF Calls
<1> HIDE DEF k
<1>4. call' = [call EXCEPT ![c] = n] /\ cache' = Looked(k, cache)
  BY <1>1 DEF k
<1>5. /\ n \in Calls /\ n.pc = "sent" /\ n.attempt = 1 /\ n.requests = 1 /\ n.kind = kind
      /\ n.since = IF kind \in RestKinds THEN runs ELSE 0
      /\ n.bodies = << >> /\ n.rest = << >> /\ n.got = {} /\ n.lost = {} /\ n.nulled = {} /\ n.out = None
      /\ n.outer = 1 /\ (kind = "hygiene" => n.ids = Repos)
  BY <1>2, <1>3, SentIs
<1> HIDE DEF n
<1>6. CallInv(n)
  <2>1. FreshCall(n)
    BY <1>2, <1>5, HttpAssumption DEF FreshCall
  <2>2. SpentCall(n)
    <3>1. 1 <= Budget(kind) /\ 1 <= Attempts /\ 1 <= (1 - 1) * Attempts + 1
      BY <1>2, BudgetIs, HttpAssumption
    <3> QED BY <1>5, <3>1 DEF SpentCall, FirstTry
  <2>3. BatchCall(n)
    BY <1>5, NoneIsNoOutcome DEF BatchCall, Left, Outcomes
  <2> QED BY <1>5, <2>1, <2>2, <2>3 DEF CallInv
<1>7. CacheOK(cache)'
  BY <1>2, <1>4, UsedOK DEF Looked
<1>8. RerunInv'
  <2>1. CASE kind # "rerun"
    BY <1>1, <1>2, <1>4, <1>5, <2>1, RerunKeeps
  <2>2. CASE kind = "rerun"
    <3>1. Unanswered' = Unanswered \cup {c} /\ c \notin Unanswered
      BY <1>2, <1>4, <1>5, <2>2 DEF Unanswered
    <3>2. IsFiniteSet(Unanswered)
      BY HttpAssumption, FS_Subset DEF Unanswered
    <3>3. Cardinality(Unanswered') = Cardinality(Unanswered) + 1 /\ Cardinality(Unanswered) \in Nat
      BY <3>1, <3>2, FS_AddElement, FS_CardinalityType
    <3>4. /\ asked' = asked + 1 /\ asked < MaxReruns /\ reruns' = reruns
          /\ reruns \in Nat /\ asked \in 0 .. MaxReruns /\ MaxReruns \in Nat
          /\ reruns + Cardinality(Unanswered) <= asked
      BY <1>1, <1>2, <2>2, HttpAssumption DEF IInv, RerunInv
    <3>5. asked' \in 0 .. MaxReruns /\ reruns' + Cardinality(Unanswered') <= asked'
      BY ONLY <3>3, <3>4
    <3> QED BY <3>4, <3>5 DEF RerunInv
  <2> QED BY <2>1, <2>2
<1> QED BY <1>2, <1>4, <1>6, <1>7, <1>8, CallStep

\* A reply tells of the runs there are; a rerun that is answered has been asked for.
LEMMA AnswerInv == ASSUME IInv, NEW c \in Callers, Answer(c) PROVE IInv'
<1> DEFINE k == call[c]
<1>1. PICK reply \in Replies(c, k) :
          /\ call' = [call EXCEPT ![c].pc = "answered", ![c].answer = reply]
          /\ reruns' \in IF k.kind = "rerun" /\ reply.how \in {"202", "dropped"}
                         THEN (IF reply.how = "202" THEN {} ELSE {reruns}) \cup {reruns + 1}
                         ELSE {reruns}
  BY DEF Answer
<1> DEFINE n == [k EXCEPT !.pc = "answered", !.answer = reply]
<1>2. /\ k \in Calls /\ CallInv(k) /\ k.pc = "sent" /\ CacheOK(cache) /\ runs \in 0 .. MaxRuns
      /\ UNCHANGED <<mix, runs, created, asked, cache>> /\ call \in [Callers -> Calls]
      /\ mix[c].meets \subseteq Failures
  BY CallIs, HttpAssumption DEF IInv, Answer
<1>3. PICK how : /\ reply = Reply(how, IF k.kind \in RestKinds THEN runs ELSE 0)
                 /\ how \in mix[c].meets \cup
                       CASE k.kind \in RestKinds ->
                              IF k.cached # None /\ k.cached.runs = runs THEN {"304"}
                              ELSE {"200", "200 no etag"}
                         [] k.kind \in GraphqlKinds -> Payloads
                         [] k.kind = "rerun" -> {"202"}
                         [] k.kind = "token" -> {"200", "200 without token", "not json"}
                         [] k.kind = "viewer" -> {"200"}
                         [] OTHER -> {"204", "422"}
  BY DEF Replies
<1>4. how \in Hows
  <2>1. k.kind \in Kinds
    BY <1>2 DEF Calls
  <2> HIDE DEF k
  <2> QED BY <1>2, <1>3, <2>1 DEF Hows, Kinds
<1>5. k.kind \in RestKinds /\ how = "304" => k.cached # None /\ k.cached.runs = runs
  <2> SUFFICES ASSUME k.kind \in RestKinds, how = "304" PROVE k.cached # None /\ k.cached.runs = runs
    OBVIOUS
  <2>1. how \notin mix[c].meets
    BY <1>2 DEF Failures, Statuses, Gateway
  <2>2. k.kind \notin GraphqlKinds /\ k.kind \notin {"rerun", "token", "viewer"}
    BY DEF RestKinds, GraphqlKinds
  <2> HIDE DEF k
  <2>3. how \in IF k.cached # None /\ k.cached.runs = runs THEN {"304"} ELSE {"200", "200 no etag"}
    BY <1>3, <2>1, <2>2
  <2> QED BY <2>3
<1>6. /\ reply \in Answers /\ reply.how = how /\ (k.kind \in RestKinds => reply.runs = runs)
  <2>1. 0 \in 0 .. MaxRuns
    BY HttpAssumption
  <2> HIDE DEF k
  <2> QED BY <1>2, <1>3, <1>4, <2>1 DEF Reply, Answers
<1>7. call' = [call EXCEPT ![c] = n]
  BY <1>1, <1>2
<1>8. /\ n \in Calls /\ n.pc = "answered" /\ n.answer = reply /\ n.kind = k.kind
      /\ n.attempt = k.attempt /\ n.outer = k.outer /\ n.cached = k.cached /\ n.since = k.since
      /\ n.bodies = k.bodies /\ n.ids = k.ids /\ n.rest = k.rest /\ n.got = k.got
      /\ n.lost = k.lost /\ n.nulled = k.nulled /\ n.requests = k.requests /\ n.out = k.out
  <2>1. k \in Calls /\ reply \in Answers
    BY <1>2, <1>6
  <2> QED BY ONLY <2>1 DEF Calls, n
<1> HIDE DEF n
<1>9. CallInv(n)
  <2>1. FreshCall(n)
    BY <1>2, <1>5, <1>6, <1>8 DEF CallInv, FreshCall, Calls
  <2>2. SpentCall(n)
    BY <1>2, <1>8 DEF CallInv, SpentCall, InFlight, FirstTry
  <2>3. BatchCall(n)
    BY <1>2, <1>8 DEF CallInv, BatchCall, InFlight, FirstTry, Left
  <2> QED BY <1>2, <1>6, <1>8, <2>1, <2>2, <2>3 DEF CallInv
<1>10. RerunInv'
  <2>1. CASE k.kind # "rerun"
    <3>1. reruns' = reruns
      BY <1>1, <2>1
    <3> QED BY <1>2, <1>7, <1>8, <2>1, <3>1, RerunKeeps
  <2>2. CASE k.kind = "rerun"
    <3>1. Unanswered' = Unanswered \ {c} /\ c \in Unanswered
      BY <1>2, <1>7, <1>8, <2>2 DEF Unanswered
    <3>2. IsFiniteSet(Unanswered)
      BY HttpAssumption, FS_Subset DEF Unanswered
    <3>3. Cardinality(Unanswered') = Cardinality(Unanswered) - 1 /\ Cardinality(Unanswered) \in Nat
      BY <3>1, <3>2, FS_RemoveElement, FS_CardinalityType
    <3>4. reruns' \in {reruns, reruns + 1}
      BY <1>1
    <3> QED BY <1>2, <3>3, <3>4, HttpAssumption DEF IInv, RerunInv
  <2> QED BY <2>1, <2>2
<1> QED BY <1>2, <1>7, <1>9, <1>10, CallStep

\* An attempt that is made again is one more request.
LEMMA RetryInv == ASSUME IInv, NEW c \in Callers, Retry(c) PROVE IInv'
<1> DEFINE k == call[c]
           n == [k EXCEPT !.pc = "sent", !.answer = None, !.attempt = @ + 1, !.requests = @ + 1]
<1>1. /\ k \in Calls /\ CallInv(k) /\ k.pc = "answered" /\ CacheOK(cache) /\ Retried(k)
      /\ UNCHANGED <<mix, runs, created, reruns, asked, cache>> /\ call \in [Callers -> Calls]
  BY CallIs DEF IInv, Retry
<1>2. call' = [call EXCEPT ![c] = n]
  BY <1>1 DEF Retry
<1>3. /\ n \in Calls /\ n.pc = "sent" /\ n.kind = k.kind /\ n.attempt = k.attempt + 1
      /\ n.outer = k.outer /\ n.since = k.since
      /\ n.bodies = k.bodies /\ n.ids = k.ids /\ n.rest = k.rest /\ n.got = k.got
      /\ n.lost = k.lost /\ n.nulled = k.nulled /\ n.requests = k.requests + 1 /\ n.out = k.out
  <2>1. k \in Calls
    BY <1>1
  <2> HIDE DEF k
  <2>2. k.attempt + 1 \in Nat \ {0} /\ k.requests + 1 \in Nat
    BY <2>1 DEF Calls
  <2> QED BY ONLY <2>1, <2>2 DEF Calls, n
<1> HIDE DEF n
<1>4. ~ SentOnce(k.kind) /\ k.attempt < Attempts
  BY <1>1, HttpAssumption DEF Retried, ThroughSend, LastAttempt, Calls
<1>5. CallInv(n)
  <2>1. FreshCall(n)
    BY <1>1, <1>3 DEF CallInv, FreshCall
  <2>2. SpentCall(n)
    <3>1. n.attempt <= Attempts /\ n.attempt = k.attempt + 1 /\ n.requests = k.requests + 1
      BY <1>1, <1>3, <1>4, HttpAssumption DEF Calls
    <3>2. CASE k.kind \in RestKinds
      <4>1. k.kind \notin {"query", "repositories", "hygiene"}
        BY <3>2 DEF RestKinds
      <4> QED BY SMTT(30), <1>1, <1>3, <3>1, <3>2, <4>1, BudgetIs, HttpAssumption
              DEF CallInv, SpentCall, InFlight, Calls
    <3>3. CASE k.kind \in {"query", "repositories"}
      <4>1. k.kind \notin RestKinds /\ k.kind # "hygiene"
        BY <3>3 DEF RestKinds
      <4> DEFINE m == (k.outer - 1) * Attempts
      <4>2. k.outer - 1 \in Nat /\ k.outer \in Nat /\ k.outer <= Attempts /\ Attempts \in Nat
        BY SMTT(30), <1>1, <3>3, HttpAssumption DEF CallInv, SpentCall, InFlight, Calls
      <4>3. m \in Nat /\ m + Attempts <= Attempts * Attempts
        <5>1. (k.outer - 1) + 1 = k.outer
          BY <4>2
        <5> QED BY <4>2, <5>1, Times
      <4>4. k.requests <= m + k.attempt /\ k.requests \in Nat /\ k.attempt \in Nat
        BY <1>1, <3>3 DEF CallInv, SpentCall, InFlight, Calls
      <4> HIDE DEF m
      <4>5. n.requests <= m + n.attempt /\ n.requests <= Attempts * Attempts
        BY <3>1, <4>2, <4>3, <4>4
      <4> QED BY <1>3, <3>1, <3>3, <4>1, <4>2, <4>5, BudgetIs DEF SpentCall, m
    <3>4. CASE k.kind = "hygiene"
      <4>1. k.kind \notin RestKinds
        BY <3>4 DEF RestKinds
      <4>2. /\ k.requests \in Nat /\ k.attempt \in Nat /\ Attempts \in Nat
            /\ \/ k.outer = 1 /\ k.requests <= k.attempt
               \/ k.outer = 2 /\ k.rest = << >> /\ k.requests <= 2 * Attempts + k.attempt
               \/ k.outer = 2 /\ Len(k.rest) = 1 /\ k.requests <= Attempts + k.attempt
        BY <1>1, <3>4, HttpAssumption DEF CallInv, SpentCall, InFlight, FirstTry, Calls
      <4>3. /\ n.requests <= 3 * Attempts
            /\ \/ n.outer = 1 /\ n.requests <= n.attempt
               \/ n.outer = 2 /\ n.rest = << >> /\ n.requests <= 2 * Attempts + n.attempt
               \/ n.outer = 2 /\ Len(n.rest) = 1 /\ n.requests <= Attempts + n.attempt
        <5> HIDE DEF k
        <5> QED BY SMTT(30), <1>3, <3>1, <4>2
      <4> QED BY <1>3, <3>1, <3>4, <4>1, <4>3, BudgetIs DEF SpentCall, FirstTry
    <3>5. k.kind \in Kinds
      BY <1>1 DEF Calls
    <3> QED BY <1>4, <3>2, <3>3, <3>4, <3>5 DEF Kinds, GraphqlKinds, SentOnce
  <2>3. BatchCall(n)
    BY <1>1, <1>3 DEF CallInv, BatchCall, InFlight, FirstTry, Left
  <2> QED BY <1>1, <1>3, <2>1, <2>2, <2>3 DEF CallInv
<1>6. RerunInv'
  BY <1>1, <1>2, <1>3, <1>4, RerunKeeps DEF SentOnce
<1> QED BY <1>1, <1>2, <1>5, <1>6, CallStep

-----------------------------------------------------------------------------
(* What answers mean                                                       *)

\* _raise_for_status takes no failure for success.
LEMMA RaisedIs ==
    ASSUME NEW how
    PROVE  /\ RaiseForStatus(how) \in {None, "auth", "limited", "unavailable"}
           /\ how \in Failures => RaiseForStatus(how) \in {"auth", "limited", "unavailable"}
BY DEF RaiseForStatus, IsRateLimited

\* Nor is an optional endpoint that is not there a success.
LEMMA OptionalIs ==
    ASSUME NEW how
    PROVE  OptionalOrRaise(how) \in {None, "auth", "none", "limited", "unavailable"}
BY DEF OptionalOrRaise

\* The error of a read is none, or an outcome that is not "ok".
LEMMA ErrorIs ==
    ASSUME NEW k
    PROVE  ErrorOf(k) \in {None} \cup (Outcomes \ {"ok"})
BY RaisedIs, OptionalIs DEF ErrorOf, RunsOrRaise, Outcomes

\* What is sent once ends, whatever comes back.
LEMMA OnceIs ==
    ASSUME NEW kind, NEW how
    PROVE  OnceOutcome(kind, how) \in Outcomes
BY RaisedIs DEF OnceOutcome, RerunOrRaise, TokenOrRaise, RevokeOrRaise, Outcomes

\* A GraphQL answer without data is an error.
LEMMA GraphqlIs ==
    ASSUME NEW how
    PROVE  /\ GraphqlError(how) \in {None, "auth", "limited", "unavailable"}
           /\ how \notin {"data", "partial"} => GraphqlError(how) \in {"auth", "limited", "unavailable"}
BY RaisedIs DEF GraphqlError

-----------------------------------------------------------------------------
(* Calls that end, or go on                                                *)

\* A call ends with what it has.
LEMMA EndedInv ==
    ASSUME NEW k \in Calls, FreshCall(k), k.requests <= Budget(k.kind), NEW out \in Outcomes,
           k.kind = "hygiene" /\ out = "ok" => k.got \cup k.nulled \cup k.lost = Range(Repos) /\ k.got \cap k.nulled = {} /\ (k.got \cup k.nulled) \cap k.lost = {}
    PROVE  CallInv(Ended(k, out))
<1> DEFINE n == Ended(k, out)
<1>1. /\ n \in Calls /\ n.pc = "ended" /\ n.out = out
      /\ n.kind = k.kind /\ n.since = k.since /\ n.bodies = k.bodies /\ n.requests = k.requests
      /\ n.got = k.got /\ n.lost = k.lost /\ n.nulled = k.nulled
  BY EndedIs
<1> HIDE DEF n
<1>2. FreshCall(n) /\ SpentCall(n) /\ BatchCall(n)
  BY <1>1 DEF FreshCall, SpentCall, BatchCall, InFlight
<1> QED BY <1>1, <1>2 DEF CallInv, n

\* A call that asks for no rerun goes on by itself.
LEMMA GoesOn ==
    ASSUME IInv, NEW c \in Callers, NEW k, CallInv(k), call' = [call EXCEPT ![c] = k],
           CacheOK(cache)', k.pc = "sent" => k.kind # "rerun",
           UNCHANGED <<mix, runs, created, reruns, asked>>
    PROVE  IInv'
BY RerunKeeps, CallStep

\* What is sent once has cost one request.
LEMMA OnceInv == ASSUME IInv, NEW c \in Callers, Once(c) PROVE IInv'
<1> DEFINE k == call[c]
           out == OnceOutcome(k.kind, k.answer.how)
           n == Ended(k, out)
<1>1. /\ k \in Calls /\ CallInv(k) /\ CacheOK(cache)' /\ SentOnce(k.kind)
      /\ call' = [call EXCEPT ![c] = n] /\ UNCHANGED <<mix, runs, created, reruns, asked>>
  BY CallIs DEF Once, CacheOK
<1>2. out \in Outcomes
  BY OnceIs
<1> HIDE DEF out
<1>3. CallInv(n) /\ n.pc = "ended"
  BY <1>1, <1>2, EndedInv, EndedIs DEF CallInv, SpentCall, SentOnce
<1> HIDE DEF n
<1> QED BY <1>1, <1>3, GoesOn

\* A read that fails keeps what it has.
LEMMA GetFailsInv == ASSUME IInv, NEW c \in Callers, GetFails(c) PROVE IInv'
<1> DEFINE k == call[c]
           out == IF ErrorOf(k) = "none" /\ k.page > 1 THEN "ok" ELSE ErrorOf(k)
           n == Ended(k, out)
<1>1. /\ k \in Calls /\ CallInv(k) /\ CacheOK(cache)' /\ k.kind # "hygiene" /\ ErrorOf(k) # None
      /\ call' = [call EXCEPT ![c] = n] /\ UNCHANGED <<mix, runs, created, reruns, asked>>
  BY CallIs DEF GetFails, CacheOK, RestKinds
<1>2. out \in Outcomes
  BY <1>1, ErrorIs DEF Outcomes
<1> HIDE DEF out
<1>3. CallInv(n) /\ n.pc = "ended"
  BY <1>1, <1>2, EndedInv, EndedIs DEF CallInv, SpentCall
<1> HIDE DEF n
<1> QED BY <1>1, <1>3, GoesOn

\* A page that is read is not older than the read.
LEMMA GetInv == ASSUME IInv, NEW c \in Callers, Get(c) PROVE IInv'
<1> DEFINE k == call[c]
           body == [page |-> k.page, runs |-> Body(k)]
           read == [k EXCEPT !.bodies = Append(@, body)]
           next == [read EXCEPT !.page = @ + 1]
<1>1. /\ k \in Calls /\ CallInv(k) /\ CacheOK(cache) /\ k.kind \in RestKinds /\ k.pc = "answered"
      /\ runs \in 0 .. MaxRuns /\ k.answer \in Answers
      /\ UNCHANGED <<mix, runs, created, reruns, asked>>
  BY CallIs DEF Get, Received, CallInv
<1>2. Body(k) = k.answer.runs /\ Body(k) \in 0 .. MaxRuns /\ Body(k) \in k.since .. runs
  BY <1>1 DEF Body, CallInv, FreshCall, Answers
<1>3. CacheOK(Stored(k))
  <2>1. KeyOf(k) \in Keys
    BY <1>1 DEF KeyOf, Keys, Calls, Kinds
  <2>2. [key |-> KeyOf(k), runs |-> k.answer.runs] \in Entries
    BY <1>1, <2>1 DEF Entries, Answers
  <2> QED BY <1>1, <2>2, PutOK DEF Stored
<1>4. body \in Bodies /\ body.runs \in k.since .. runs
  BY <1>1, <1>2 DEF Bodies, Calls
<1> HIDE DEF body
<1>5. /\ read \in Calls /\ read.kind = k.kind /\ read.pc = "answered" /\ read.since = k.since
      /\ read.answer = k.answer /\ read.cached = k.cached
      /\ read.requests = k.requests /\ read.out = k.out /\ read.page = k.page
      /\ read.bodies = Append(k.bodies, body)
  <2>1. Append(k.bodies, body) \in Seq(Bodies)
    BY <1>1, <1>4, AppendProperties DEF Calls
  <2> HIDE DEF k
  <2> QED BY <1>1, <2>1 DEF Calls
<1> HIDE DEF read
<1>6. \A i \in DOMAIN read.bodies : read.bodies[i].runs \in k.since .. runs
  <2> DEFINE n == Len(k.bodies)
  <2>1. /\ k.bodies \in Seq(Bodies) /\ n \in Nat /\ Len(read.bodies) = n + 1
        /\ \A i \in 1 .. n : read.bodies[i] = k.bodies[i]
        /\ read.bodies[n + 1] = body /\ read.bodies \in Seq(Bodies)
    <3>1. k.bodies \in Seq(Bodies)
      BY <1>1 DEF Calls
    <3> HIDE DEF k
    <3> QED BY <1>4, <1>5, <3>1, AppendProperties
  <2>2. \A i \in 1 .. n : k.bodies[i].runs \in k.since .. runs
    BY <1>1, <2>1 DEF CallInv, FreshCall
  <2>3. body.runs \in k.since .. runs
    BY <1>4
  <2> HIDE DEF n, body
  <2>4. DOMAIN read.bodies = 1 .. n + 1
    BY <2>1
  <2>5. \A i \in 1 .. n + 1 : i \in 1 .. n \/ i = n + 1
    BY <2>1
  <2> QED BY ONLY <2>1, <2>2, <2>3, <2>4, <2>5
<1>7. FreshCall(read) /\ read.requests <= Budget(read.kind)
  BY <1>1, <1>5, <1>6 DEF CallInv, FreshCall, SpentCall
<1>8. /\ next \in Calls /\ next.kind = k.kind /\ next.since = k.since /\ next.page # 1
      /\ next.out = k.out /\ next.bodies = read.bodies
  <2>1. read.page \in Nat \ {0} /\ read.page + 1 \in Nat \ {0} /\ read.page + 1 # 1
    BY SMTT(30), <1>5 DEF Calls
  <2> QED BY <1>5, <2>1 DEF Calls
<1> HIDE DEF next
<1>9. CASE call' = [call EXCEPT ![c] = Sent(next, Stored(k))] /\ cache' = Looked(next, Stored(k))
  <2> DEFINE n == Sent(next, Stored(k))
  <2>1. /\ n \in Calls /\ n.pc = "sent" /\ n.attempt = 1 /\ n.requests = 1 /\ n.kind = k.kind
        /\ n.since = k.since /\ n.bodies = read.bodies /\ n.out = k.out
    BY <1>1, <1>3, <1>8, SentIs
  <2> HIDE DEF n
  <2>2. FreshCall(n)
    BY <1>1, <1>6, <2>1 DEF CallInv, FreshCall
  <2>3. k.kind \notin {"query", "repositories", "hygiene", "rerun"} /\ 1 <= Attempts
    BY <1>1, HttpAssumption DEF RestKinds
  <2>4. SpentCall(n) /\ BatchCall(n)
    BY <1>1, <2>1, <2>3, BudgetIs DEF SpentCall, BatchCall
  <2>5. CallInv(n)
    BY <1>1, <2>1, <2>2, <2>4 DEF CallInv
  <2>6. CacheOK(cache)'
    BY <1>3, <1>9, UsedOK DEF Looked, CacheOK
  <2>7. call' = [call EXCEPT ![c] = n]
    BY <1>9 DEF n
  <2> QED BY <1>1, <2>1, <2>3, <2>5, <2>6, <2>7, GoesOn
<1>10. CASE call' = [call EXCEPT ![c] = Ended(read, "ok")] /\ cache' = Stored(k)
  <2>1. "ok" \in Outcomes /\ read.kind # "hygiene"
    BY <1>1, <1>5 DEF Outcomes, RestKinds
  <2> DEFINE n == Ended(read, "ok")
  <2>2. CallInv(n) /\ n.pc = "ended"
    BY <1>5, <1>7, <2>1, EndedInv, EndedIs
  <2>3. CacheOK(cache)'
    BY <1>3, <1>10 DEF CacheOK
  <2> HIDE DEF n
  <2>4. call' = [call EXCEPT ![c] = n]
    BY <1>10 DEF n
  <2> QED BY <1>1, <2>2, <2>3, <2>4, GoesOn
<1> QED BY <1>9, <1>10 DEF Get, read, next, body

\* Who leaves has nothing.
LEMMA LeaveInv == ASSUME IInv, NEW c \in Callers, Leave(c) PROVE IInv'
<1>1. CacheOK(cache)' /\ runs \in 0 .. MaxRuns /\ UNCHANGED <<mix, runs, created, reruns, asked>>
      /\ call' = [call EXCEPT ![c] = NoCall]
  BY CallIs DEF Leave, CacheOK
<1>2. FreshCall(NoCall)
  BY <1>1, NoCallIs, HttpAssumption DEF FreshCall
<1>3. SpentCall(NoCall) /\ BatchCall(NoCall)
  BY NoCallIs, BudgetIs, NoneIsNoOutcome DEF SpentCall, BatchCall, InFlight, Calls, Outcomes
<1>4. CallInv(NoCall)
  BY <1>2, <1>3, NoCallIs DEF CallInv
<1> QED BY <1>1, <1>4, NoCallIs, GoesOn

\* New runs make no read older than it was when it began.
LEMMA RunCreatedInv == ASSUME IInv, RunCreated PROVE IInv'
<1>1. runs' \in 0 .. MaxRuns /\ runs' >= runs /\ runs \in 0 .. MaxRuns /\ created' \in 0 .. MaxCreated
      /\ UNCHANGED <<mix, reruns, asked, cache, call>>
  BY HttpAssumption DEF IInv, RunCreated
<1>2. RerunInv' /\ CacheOK(cache)'
  BY <1>1 DEF IInv, RerunInv, Unanswered, CacheOK
<1>3. \A c \in Callers : CallInv(call[c])'
  <2> SUFFICES ASSUME NEW c \in Callers PROVE CallInv(call[c])'
    OBVIOUS
  <2>1. CallInv(call[c]) /\ call[c].since \in 0 .. MaxRuns
    BY CallIs DEF Calls
  <2>2. FreshCall(call[c])'
    BY <1>1, <2>1 DEF CallInv, FreshCall
  <2> QED BY <1>1, <2>1, <2>2 DEF CallInv, SpentCall, BatchCall, Budget
<1> QED BY <1>1, <1>2, <1>3 DEF IInv

\* A query that goes on costs what its attempts cost.
LEMMA GraphqlInv == ASSUME IInv, NEW c \in Callers, Graphql(c) PROVE IInv'
<1> DEFINE k == call[c]
           how == k.answer.how
           error == GraphqlError(how)
<1>1. /\ k \in Calls /\ CallInv(k) /\ CacheOK(cache) /\ k.pc = "answered" /\ runs \in 0 .. MaxRuns
      /\ k.kind \in {"query", "repositories"} /\ k.kind \notin RestKinds /\ k.out = None
      /\ UNCHANGED <<mix, runs, created, reruns, asked>> /\ CacheOK(cache)'
      /\ call \in [Callers -> Calls]
  BY CallIs DEF Graphql, Received, CallInv, CacheOK, RestKinds, IInv
<1>2. /\ k.requests \in Nat /\ k.attempt \in Nat /\ k.attempt <= Attempts /\ k.outer \in Nat \ {0}
      /\ Attempts \in Nat \ {0} /\ k.page \in Nat \ {0} /\ k.outer <= Attempts
      /\ k.requests <= (k.outer - 1) * Attempts + k.attempt /\ k.requests <= Budget(k.kind)
  BY <1>1, HttpAssumption DEF CallInv, SpentCall, InFlight, Calls
<1>3. CASE GraphqlRetried(k)
  <2> DEFINE n == [Sent(k, cache) EXCEPT !.outer = k.outer + 1, !.requests = k.requests + 1]
             s == Sent(k, cache)
  <2>1. call' = [call EXCEPT ![c] = n]
    BY <1>1, <1>3 DEF Graphql
  <2>2. /\ s \in Calls /\ s.pc = "sent" /\ s.attempt = 1 /\ s.since = k.since /\ s.kind = k.kind
        /\ s.bodies = k.bodies /\ s.out = k.out
    BY <1>1, SentIs
  <2> HIDE DEF s
  <2>3. n = [s EXCEPT !.outer = k.outer + 1, !.requests = k.requests + 1]
    BY DEF s
  <2>4. k.outer + 1 \in Nat \ {0} /\ k.requests + 1 \in Nat
    BY <1>2
  <2> HIDE DEF n, k
  <2>5. /\ n \in Calls /\ n.pc = "sent" /\ n.attempt = 1 /\ n.since = k.since /\ n.kind = k.kind
        /\ n.bodies = k.bodies /\ n.out = k.out /\ n.outer = k.outer + 1 /\ n.requests = k.requests + 1
    BY ONLY <2>2, <2>3, <2>4 DEF Calls
  <2>6. FreshCall(n)
    BY <1>1, <2>5 DEF CallInv, FreshCall
  <2>7. SpentCall(n)
    <3> DEFINE m == (k.outer - 1) * Attempts
    <3>1. k.outer < Attempts
      BY <1>2, <1>3 DEF GraphqlRetried, k
    <3>2. m \in Nat /\ k.outer * Attempts = m + Attempts
      <4>1. k.outer - 1 \in Nat /\ (k.outer - 1) + 1 = k.outer
        BY <1>2
      <4> QED BY <1>2, <4>1, Times
    <3>3. k.outer * Attempts + Attempts <= Attempts * Attempts
      <4>1. k.outer + 1 \in Nat /\ k.outer + 1 <= Attempts
        BY <1>2, <3>1
      <4>2. (k.outer + 1) * Attempts = k.outer * Attempts + Attempts
        BY <1>2, Times
      <4>3. (k.outer + 1) * Attempts <= Attempts * Attempts
        BY <1>2, <4>1, Times
      <4> QED BY <4>2, <4>3
    <3> HIDE DEF m
    <3> DEFINE p == k.outer * Attempts
               q == Attempts * Attempts
    <3>4. p \in Nat /\ q \in Nat /\ k.requests <= m + k.attempt /\ p = m + Attempts /\ p + Attempts <= q
      BY <1>2, <3>2, <3>3, Times DEF m
    <3> HIDE DEF p, q
    <3>5. n.requests <= p + 1 /\ n.requests <= q
      BY <1>2, <2>5, <3>2, <3>4
    <3>6. n.outer <= Attempts /\ n.outer - 1 = k.outer /\ 1 <= Attempts
      BY <1>2, <2>5, <3>1
    <3>7. n.kind # "hygiene" /\ n.kind \notin RestKinds /\ Budget(n.kind) = q
      BY <1>1, <2>5, BudgetIs DEF q
    <3> QED BY <2>5, <3>5, <3>6, <3>7 DEF SpentCall, p
  <2>8. CallInv(n)
    BY <1>1, <2>5, <2>6, <2>7 DEF CallInv, BatchCall
  <2> QED BY <1>1, <2>1, <2>5, <2>8, GoesOn
<1>4. CASE ~ GraphqlRetried(k) /\ error # None
  <2> DEFINE n == Ended(k, error)
  <2>1. call' = [call EXCEPT ![c] = n]
    BY <1>1, <1>4 DEF Graphql
  <2>2. error \in Outcomes
    BY <1>4, GraphqlIs DEF Outcomes
  <2> HIDE DEF error
  <2>3. CallInv(n) /\ n.pc = "ended"
    BY <1>1, <1>2, <2>2, EndedInv, EndedIs DEF CallInv
  <2> HIDE DEF n
  <2> QED BY <1>1, <2>1, <2>3, GoesOn
<1>5. CASE ~ GraphqlRetried(k) /\ error = None /\ k.kind = "repositories" /\ k.page < ListPages
  <2> DEFINE r == [k EXCEPT !.page = @ + 1]
             s == Sent(r, cache)
             n == [s EXCEPT !.outer = 1]
  <2>1. call' = [call EXCEPT ![c] = n]
    BY <1>1, <1>5 DEF Graphql, NextPage
  <2>2. r \in Calls /\ r.kind = k.kind /\ r.since = k.since /\ r.bodies = k.bodies /\ r.out = k.out
    <3>1. k.page + 1 \in Nat \ {0} /\ k \in Calls
      BY <1>1, <1>2
    <3> HIDE DEF k
    <3> QED BY ONLY <3>1 DEF Calls, r
  <2> HIDE DEF r
  <2>3. /\ s \in Calls /\ s.pc = "sent" /\ s.attempt = 1 /\ s.since = k.since /\ s.kind = k.kind
        /\ s.bodies = k.bodies /\ s.out = k.out /\ s.requests = 1
    BY <1>1, <2>2, SentIs
  <2> HIDE DEF s
  <2>4. /\ n \in Calls /\ n.pc = "sent" /\ n.attempt = 1 /\ n.since = k.since /\ n.kind = k.kind
        /\ n.bodies = k.bodies /\ n.out = k.out /\ n.outer = 1 /\ n.requests = 1
    <3>1. 1 \in Nat \ {0}
      OBVIOUS
    <3> HIDE DEF k
    <3> QED BY ONLY <2>3, <3>1 DEF Calls, n
  <2> HIDE DEF n
  <2>5. FreshCall(n)
    BY <1>1, <2>4 DEF CallInv, FreshCall
  <2>6. SpentCall(n)
    <3>1. 1 <= Budget(k.kind) /\ 1 <= Attempts /\ 1 <= (1 - 1) * Attempts + 1
      BY <1>1, <1>2, BudgetIs DEF Kinds, GraphqlKinds
    <3> QED BY <1>1, <2>4, <3>1 DEF SpentCall
  <2>7. CallInv(n)
    BY <1>1, <2>4, <2>5, <2>6 DEF CallInv, BatchCall
  <2> QED BY <1>1, <2>1, <2>4, <2>7, GoesOn
<1>6. CASE ~ GraphqlRetried(k) /\ error = None /\ ~ (k.kind = "repositories" /\ k.page < ListPages)
  <2> DEFINE n == Ended(k, "ok")
  <2>1. call' = [call EXCEPT ![c] = n]
    BY <1>1, <1>6 DEF Graphql
  <2>2. CallInv(n) /\ n.pc = "ended"
    BY ZenonT(30), <1>1, <1>2, EndedInv, EndedIs DEF CallInv, Outcomes
  <2> HIDE DEF n
  <2> QED BY <1>1, <2>1, <2>2, GoesOn
<1> QED BY <1>3, <1>4, <1>5, <1>6

\* The next half is asked for: one that nothing is known of yet.
LEMMA NextHalfInv ==
    ASSUME NEW k \in Calls, FreshCall(k), k.kind = "hygiene", k.out = None, k.rest # << >>,
           CacheOK(cache), runs \in 0 .. MaxRuns,
           NEW a \in Ids, NEW t \in Seq(Ids), Head(k.rest) = a, Tail(k.rest) = t,
           \/ t = << >> /\ k.requests <= 2 * Attempts
           \/ Len(t) = 1 /\ k.requests <= Attempts,
           LET left == IF t = << >> THEN {} ELSE Range(Head(t)) IN
              /\ k.got \cup k.nulled \cup k.lost \cup Range(a) \cup left = Range(Repos)
              /\ k.got \cap k.nulled = {} /\ (k.got \cup k.nulled) \cap k.lost = {} /\ (k.got \cup k.nulled \cup k.lost) \cap (Range(a) \cup left) = {}
              /\ Range(a) \cap left = {}
    PROVE  CallInv(NextHalf(k)) /\ NextHalf(k).kind = "hygiene"
<1> DEFINE s == Sent(k, cache)
           n == [s EXCEPT !.ids = a, !.rest = t, !.outer = 2, !.requests = k.requests + 1]
<1>1. NextHalf(k) = n
  BY DEF NextHalf
<1>2. /\ s \in Calls /\ s.pc = "sent" /\ s.attempt = 1 /\ s.since = k.since /\ s.kind = k.kind
      /\ s.bodies = k.bodies /\ s.out = None /\ s.got = k.got /\ s.lost = k.lost /\ s.nulled = k.nulled
  BY SentIs DEF RestKinds
<1> HIDE DEF s
<1>3. /\ n \in Calls /\ n.pc = "sent" /\ n.attempt = 1 /\ n.since = k.since /\ n.kind = k.kind
      /\ n.bodies = k.bodies /\ n.out = None /\ n.got = k.got /\ n.lost = k.lost /\ n.nulled = k.nulled
      /\ n.ids = a /\ n.rest = t /\ n.outer = 2 /\ n.requests = k.requests + 1
  <2>1. k.requests + 1 \in Nat /\ 2 \in Nat \ {0} /\ a \in Ids /\ t \in Seq(Ids)
    BY DEF Calls
  <2> QED BY ONLY ZenonT(30), <1>2, <2>1 DEF Calls, n
<1> HIDE DEF n
<1>4. FreshCall(n)
  BY <1>3 DEF FreshCall
<1>5. SpentCall(n)
  <2>1. n.requests \in Nat /\ k.requests \in Nat /\ Attempts \in Nat \ {0}
    BY <1>3, HttpAssumption DEF Calls
  <2>2. n.requests <= 3 * Attempts
    BY <1>3, <2>1
  <2>3. \/ n.rest = << >> /\ n.requests <= 2 * Attempts + n.attempt
        \/ Len(n.rest) = 1 /\ n.requests <= Attempts + n.attempt
    BY <1>3, <2>1
  <2> QED BY <1>3, <2>1, <2>2, <2>3, BudgetIs DEF SpentCall, RestKinds
<1>6. BatchCall(n)
  BY <1>3, NoneIsNoOutcome DEF BatchCall, Left, FirstTry, Outcomes
<1> QED BY <1>1, <1>3, <1>4, <1>5, <1>6 DEF CallInv

\* Where a batch is after one of its parts was answered or lost.
LEMMA PartIs ==
    ASSUME NEW k \in Calls, FreshCall(k), k.kind = "hygiene", k.out = None,
           CacheOK(cache), runs \in 0 .. MaxRuns,
           k.got \cup k.nulled \cup k.lost \cup Left(k) = Range(Repos), k.got \cap k.nulled = {} /\ (k.got \cup k.nulled) \cap k.lost = {},
           (k.got \cup k.nulled \cup k.lost) \cap Left(k) = {},
           \/ k.rest = << >> /\ k.requests <= 3 * Attempts
           \/ Len(k.rest) = 1 /\ k.requests <= 2 * Attempts
    PROVE  CallInv(NextHalf(k)) /\ NextHalf(k).kind = "hygiene"
<1>1. CASE k.rest = << >>
  <2>1. NextHalf(k) = Ended(k, "ok")
    BY <1>1 DEF NextHalf
  <2>2. k.requests <= Budget(k.kind)
    BY <1>1, BudgetIs, EmptySeq
  <2>3. k.got \cup k.nulled \cup k.lost = Range(Repos)
    BY <1>1 DEF Left
  <2> QED BY <2>1, <2>2, <2>3, EndedInv, EndedIs DEF Outcomes
<1>2. CASE k.rest # << >>
  <2>1. k.rest \in Seq(Ids) /\ Len(k.rest) = 1 /\ k.requests <= 2 * Attempts
    BY <1>2 DEF Calls
  <2>2. /\ Head(k.rest) \in Ids /\ Tail(k.rest) \in Seq(Ids) /\ Len(Tail(k.rest)) = 0
    BY <1>2, <2>1, HeadTailProperties
  <2>3. Tail(k.rest) = << >>
    BY <2>2, EmptySeq
  <2>4. Left(k) = Range(Head(k.rest))
    BY <1>2 DEF Left
  <2> QED BY <1>2, <2>1, <2>2, <2>3, <2>4, NextHalfInv
<1> QED BY <1>1, <1>2

\* A batch is split, or asked for part by part.
LEMMA HygieneInv == ASSUME IInv, NEW c \in Callers, Hygiene(c) PROVE IInv'
<1> DEFINE k == call[c]
           how == k.answer.how
           R == Range(Repos)
<1>1. /\ k \in Calls /\ CallInv(k) /\ CacheOK(cache) /\ k.pc = "answered" /\ runs \in 0 .. MaxRuns
      /\ k.kind = "hygiene" /\ k.kind \notin RestKinds /\ k.out = None /\ FreshCall(k)
      /\ UNCHANGED <<mix, runs, created, reruns, asked>> /\ CacheOK(cache)'
      /\ call \in [Callers -> Calls]
  BY CallIs DEF Hygiene, Received, CallInv, CacheOK, RestKinds, IInv
<1>2. /\ k.got \cup k.nulled \cup k.lost \cup Range(k.ids) \cup Left(k) = R
      /\ k.got \cap k.nulled = {} /\ (k.got \cup k.nulled) \cap k.lost = {} /\ (k.got \cup k.nulled \cup k.lost) \cap (Range(k.ids) \cup Left(k)) = {}
      /\ Range(k.ids) \cap Left(k) = {}
      /\ FirstTry(k) => k.ids = Repos /\ k.rest = << >>
  BY <1>1 DEF CallInv, BatchCall, InFlight
<1>3. /\ k.requests \in Nat /\ k.attempt \in Nat /\ k.attempt <= Attempts /\ Attempts \in Nat \ {0}
      /\ \/ FirstTry(k) /\ k.requests <= k.attempt
         \/ k.outer = 2 /\ k.rest = << >> /\ k.requests <= 2 * Attempts + k.attempt
         \/ k.outer = 2 /\ Len(k.rest) = 1 /\ k.requests <= Attempts + k.attempt
  BY <1>1, HttpAssumption DEF CallInv, SpentCall, InFlight, Calls
<1>4. \/ k.rest = << >> /\ k.requests <= 3 * Attempts
      \/ Len(k.rest) = 1 /\ k.requests <= 2 * Attempts
  BY <1>2, <1>3
<1>5. ASSUME NEW n, CallInv(n), n.kind = "hygiene", call' = [call EXCEPT ![c] = n] PROVE IInv'
  BY <1>1, <1>5, GoesOn
<1>6. CASE HygieneForNow(how) /\ FirstTry(k)
  <2> DEFINE h == Halves(k.ids)
             r == [k EXCEPT !.rest = h]
  <2>1. call' = [call EXCEPT ![c] = NextHalf(r)]
    BY <1>1, <1>6 DEF Hygiene, HygieneForNow, Gateway
  <2>2. k.ids \in Ids /\ IsInjective(k.ids) /\ k.ids = Repos
    BY <1>1, <1>2, <1>6, HttpAssumption DEF Calls
  <2> HIDE DEF h
  <2>3. ASSUME NEW a \in Ids, NEW t \in Seq(Ids), h # << >>, Head(h) = a, Tail(h) = t, h \in Seq(Ids),
               t = << >> \/ Len(t) = 1,
               LET left == IF t = << >> THEN {} ELSE Range(Head(t)) IN
                  Range(a) \cup left = R /\ Range(a) \cap left = {}
        PROVE  IInv'
    <3> HIDE DEF k
    <3>1. /\ r \in Calls /\ r.kind = "hygiene" /\ r.out = None /\ r.rest = h /\ r.got = k.got
          /\ r.lost = k.lost /\ r.nulled = k.nulled /\ r.requests = k.requests /\ r.since = k.since /\ r.bodies = k.bodies
      BY ONLY ZenonT(30), <1>1, <2>3 DEF Calls
    <3> HIDE DEF r
    <3>2. FreshCall(r)
      BY <1>1, <3>1 DEF FreshCall
    <3>3. r.requests <= Attempts
      BY <1>3, <1>6, <3>1 DEF FirstTry
    <3>4. k.got = {} /\ k.lost = {} /\ k.nulled = {}
      BY <1>2, <2>2 DEF k
    <3>5. r.requests <= 2 * Attempts
      BY <1>3, <3>1, <3>3
    <3>6. CallInv(NextHalf(r)) /\ NextHalf(r).kind = "hygiene"
      <4>1. LET left == IF t = << >> THEN {} ELSE Range(Head(t)) IN
              /\ r.got \cup r.nulled \cup r.lost \cup Range(a) \cup left = Range(Repos)
              /\ r.got \cap r.nulled = {} /\ (r.got \cup r.nulled) \cap r.lost = {} /\ (r.got \cup r.nulled \cup r.lost) \cap (Range(a) \cup left) = {}
              /\ Range(a) \cap left = {}
        BY <2>3, <3>1, <3>4
      <4>2. r.rest # << >> /\ Head(r.rest) = a /\ Tail(r.rest) = t
        BY <2>3, <3>1
      <4> QED BY <1>1, <2>3, <3>1, <3>2, <3>3, <3>5, <4>1, <4>2, NextHalfInv
    <3> QED BY <1>5, <2>1, <3>6
  <2>4. CASE h = <<k.ids>>
    <3>1. /\ h \in Seq(Ids) /\ << >> \in Seq(Ids) /\ h # << >>
          /\ Head(h) = k.ids /\ Tail(h) = << >>
      BY <2>2, <2>4
    <3> QED BY <2>2, <2>3, <3>1
  <2>5. ASSUME NEW a \in Ids, NEW b \in Ids, h = <<a, b>>,
               Range(a) \cup Range(b) = Range(k.ids), Range(a) \cap Range(b) = {}
        PROVE  IInv'
    <3>1. /\ h \in Seq(Ids) /\ <<b>> \in Seq(Ids) /\ h # << >> /\ <<b>> # << >>
          /\ Head(h) = a /\ Tail(h) = <<b>> /\ Len(<<b>>) = 1 /\ Head(<<b>>) = b
      BY <2>5
    <3> QED BY <2>2, <2>3, <2>5, <3>1
  <2> QED BY <2>2, <2>4, <2>5, HalvesAre DEF h
<1>7. ASSUME NEW r \in Calls, call' = [call EXCEPT ![c] = NextHalf(r)],
             r.kind = "hygiene", r.out = None, r.rest = k.rest, r.requests = k.requests,
             r.since = k.since, r.bodies = k.bodies,
             \/ /\ r.lost = k.lost
                /\ \E null \in SUBSET Range(k.ids) :
                      r.got = k.got \cup (Range(k.ids) \ null) /\ r.nulled = k.nulled \cup null
             \/ r.got = k.got /\ r.nulled = k.nulled /\ r.lost = k.lost \cup Range(k.ids)
      PROVE  IInv'
  <2>1. FreshCall(r) /\ Left(r) = Left(k)
    BY <1>1, <1>7 DEF FreshCall, Left
  <2> HIDE DEF k
  <2>2. /\ r.got \cup r.nulled \cup r.lost \cup Left(r) = R /\ r.got \cap r.nulled = {} /\ (r.got \cup r.nulled) \cap r.lost = {}
        /\ (r.got \cup r.nulled \cup r.lost) \cap Left(r) = {}
    BY <1>2, <1>7, <2>1
  <2>3. \/ r.rest = << >> /\ r.requests <= 3 * Attempts
        \/ Len(r.rest) = 1 /\ r.requests <= 2 * Attempts
    BY <1>4, <1>7
  <2>4. CallInv(NextHalf(r)) /\ NextHalf(r).kind = "hygiene"
    BY <1>1, <1>7, <2>1, <2>2, <2>3, PartIs
  <2> QED BY <1>5, <1>7, <2>4
<1>8. Range(k.ids) \subseteq R
  BY <1>2
<1>9. CASE HygieneForNow(how) /\ ~ FirstTry(k)
  <2> DEFINE r == [k EXCEPT !.lost = @ \cup Range(k.ids)]
  <2>1. call' = [call EXCEPT ![c] = NextHalf(r)]
    BY <1>1, <1>9 DEF Hygiene, HalfFails, HygieneForNow, Gateway
  <2> HIDE DEF k
  <2>2. /\ r \in Calls /\ r.kind = k.kind /\ r.out = k.out /\ r.rest = k.rest
        /\ r.requests = k.requests /\ r.since = k.since /\ r.bodies = k.bodies
        /\ r.got = k.got /\ r.nulled = k.nulled /\ r.lost = k.lost \cup Range(k.ids)
    BY ONLY ZenonT(30), <1>1, <1>8 DEF Calls
  <2> HIDE DEF r
  <2> QED BY <1>1, <1>7, <2>1, <2>2
<1>10. CASE how \in {"data", "partial"}
  <2>1. PICK null \in SUBSET Range(k.ids) : call' = [call EXCEPT ![c] = HasAllBut(k, null)]
    <3>1. ~ HygieneForNow(how)
      BY <1>10 DEF HygieneForNow, Gateway
    <3> QED BY <1>1, <1>10, <3>1 DEF Hygiene
  <2> DEFINE r == [k EXCEPT !.got = @ \cup (Range(k.ids) \ null), !.nulled = @ \cup null]
  <2>2. call' = [call EXCEPT ![c] = NextHalf(r)]
    BY <2>1 DEF HasAllBut
  <2> HIDE DEF k
  <2>3. k.got \cup (Range(k.ids) \ null) \in SUBSET R /\ k.nulled \cup null \in SUBSET R
    BY ONLY <1>1, <1>8, <2>1 DEF Calls
  <2>4. /\ r \in Calls /\ r.kind = k.kind /\ r.out = k.out /\ r.rest = k.rest
        /\ r.requests = k.requests /\ r.since = k.since /\ r.bodies = k.bodies
        /\ r.got = k.got \cup (Range(k.ids) \ null) /\ r.nulled = k.nulled \cup null /\ r.lost = k.lost
    BY ONLY ZenonT(30), <1>1, <2>3 DEF Calls
  <2> HIDE DEF r
  <2> QED BY <1>1, <1>7, <2>1, <2>2, <2>4
<1>11. CASE ~ HygieneForNow(how) /\ how \notin {"data", "partial"}
  <2> DEFINE out == GraphqlError(how)
  <2>1. call' = [call EXCEPT ![c] = Ended(k, out)]
    BY <1>1, <1>11 DEF Hygiene
  <2>2. out \in Outcomes /\ out # "ok"
    BY <1>11, GraphqlIs DEF Outcomes
  <2> HIDE DEF out
  <2>3. CallInv(Ended(k, out)) /\ Ended(k, out).kind = "hygiene"
    BY <1>1, <2>2, EndedInv, EndedIs DEF CallInv, SpentCall
  <2> QED BY <1>5, <2>1, <2>3
<1> QED BY <1>6, <1>9, <1>10, <1>11

-----------------------------------------------------------------------------
(* The invariant, and what follows from it                                 *)

\* Nobody has asked for anything at first.
LEMMA InitInv == ASSUME Init PROVE IInv
<1>1. FreshCall(NoCall)
  BY NoCallIs, HttpAssumption DEF FreshCall, Init
<1>2. SpentCall(NoCall) /\ BatchCall(NoCall)
  BY NoCallIs, BudgetIs, NoneIsNoOutcome DEF SpentCall, BatchCall, InFlight, Calls, Outcomes
<1>3. CallInv(NoCall)
  BY <1>1, <1>2, NoCallIs DEF CallInv
<1>4. call \in [Callers -> Calls] /\ \A c \in Callers : call[c] = NoCall
  BY NoCallIs DEF Init
<1>5. Unanswered = {}
  BY <1>4, NoCallIs DEF Unanswered
<1>6. RerunInv
  BY <1>5, FS_EmptySet, HttpAssumption DEF RerunInv, Init
<1>7. CacheOK(cache)
  BY EmptySeq, HttpAssumption DEF Init, CacheOK
<1> QED BY <1>3, <1>4, <1>6, <1>7, HttpAssumption DEF Init, IInv

\* Every step keeps the invariant.
LEMMA NextInv == ASSUME IInv, [Next]_vars PROVE IInv'
<1>1. CASE RunCreated
  BY <1>1, RunCreatedInv
<1>2. ASSUME NEW c \in Callers, Begin(c) PROVE IInv'
  BY <1>2, BeginInv
<1>3. ASSUME NEW c \in Callers, Step(c) PROVE IInv'
  <2>1. CASE Answer(c)
    BY <2>1, AnswerInv
  <2>2. CASE Retry(c)
    BY <2>2, RetryInv
  <2>3. CASE Once(c)
    BY <2>3, OnceInv
  <2>4. CASE Get(c)
    BY <2>4, GetInv
  <2>5. CASE GetFails(c)
    BY <2>5, GetFailsInv
  <2>6. CASE Graphql(c)
    BY <2>6, GraphqlInv
  <2>7. CASE Hygiene(c)
    BY <2>7, HygieneInv
  <2>8. CASE Leave(c)
    BY <2>8, LeaveInv
  <2> QED BY <1>3, <2>1, <2>2, <2>3, <2>4, <2>5, <2>6, <2>7, <2>8 DEF Step
<1>4. CASE UNCHANGED vars
  <2>1. \A c \in Callers : CallInv(call[c])'
    BY <1>4 DEF vars, IInv, CallInv, FreshCall, SpentCall, BatchCall, Budget
  <2> QED BY <1>4, <2>1 DEF vars, IInv, RerunInv, Unanswered, CacheOK
<1> QED BY <1>1, <1>2, <1>3, <1>4 DEF Next

\* For any number of callers, retries, cached entries, pages and repositories the
\* invariant holds throughout.
THEOREM HttpInvariance == Spec => []IInv
<1>1. Init => IInv
  BY InitInv
<1>2. IInv /\ [Next]_vars => IInv'
  BY NextInv
<1> QED BY <1>1, <1>2, PTL DEF Spec

\* http_cache.py, ConditionalCache: never more entries than there is room for, none twice for a URL.
THEOREM TypeCorrect == Spec => []TypeOK
<1>1. ASSUME IInv PROVE TypeOK
  <2>1. \A i \in DOMAIN cache : cache[i].runs \in 0 .. MaxRuns
    <3>1. cache \in Seq(Entries)
      BY <1>1 DEF IInv, CacheOK
    <3>2. \A i \in DOMAIN cache : cache[i] \in Entries
      BY <3>1, ElementOfSeq
    <3> QED BY <3>2 DEF Entries
  <2>2. reruns \in 0 .. MaxReruns
    <3>1. IsFiniteSet(Unanswered)
      BY HttpAssumption, FS_Subset DEF Unanswered
    <3>2. Cardinality(Unanswered) \in Nat
      BY <3>1, FS_CardinalityType
    <3> QED BY <1>1, <3>2, HttpAssumption DEF IInv, RerunInv
  <2>3. ASSUME NEW c \in Callers
        PROVE  /\ call[c].pc \in {"idle", "sent", "answered", "ended"}
               /\ call[c].kind \in Kinds
               /\ call[c].out \in {None} \cup Outcomes
               /\ call[c].attempt \in Nat \ {0} /\ call[c].outer \in Nat \ {0}
    BY <1>1, CallIs DEF Calls
  <2> QED BY <1>1, <2>1, <2>2, <2>3 DEF TypeOK, IInv, CacheOK, RerunInv
<1> QED BY <1>1, HttpInvariance, PTL

\* _conditional_get: no read returns a body that was out of date when it began.
THEOREM ReadsAreFresh == Spec => []FreshBody
<1>1. IInv => FreshBody
  BY DEF IInv, CallInv, FreshCall, FreshBody
<1> QED BY <1>1, HttpInvariance, PTL

\* _send, _graphql, fetch_hygiene: no call makes more requests than its budget.
THEOREM BudgetIsKept == Spec => []RequestBudget
<1>1. IInv => RequestBudget
  BY DEF IInv, CallInv, SpentCall, RequestBudget
<1> QED BY <1>1, HttpInvariance, PTL

\* rerun_failed_jobs: what is asked for once is not started twice.
THEOREM RerunsAreNotRepeated == Spec => []RerunAtMostOnce
<1>1. ASSUME IInv PROVE RerunAtMostOnce
  <2>1. IsFiniteSet(Unanswered)
    BY HttpAssumption, FS_Subset DEF Unanswered
  <2>2. Cardinality(Unanswered) \in Nat
    BY <2>1, FS_CardinalityType
  <2> QED BY <1>1, <2>2, HttpAssumption DEF IInv, RerunInv, RerunAtMostOnce
<1> QED BY <1>1, HttpInvariance, PTL

\* fetch_hygiene: each repository of a batch that is returned is had, or was null, or
\* was lost with its half, and only one of these.
THEOREM BatchesAreWhole == Spec => []LossIsConfined
<1>1. IInv => LossIsConfined
  BY DEF IInv, CallInv, BatchCall, LossIsConfined
<1> QED BY <1>1, HttpInvariance, PTL

-----------------------------------------------------------------------------
(* Giving up                                                               *)

\* What was not tried again was the last attempt, or no failure to try again.
LEMMA LastIs ==
    ASSUME NEW k, CallInv(k), k.pc = "answered", ~ Retried(k), ThroughSend(k.kind)
    PROVE  /\ k.answer.how = "dropped" => k.attempt = Attempts
           /\ k.kind # "hygiene" /\ k.answer.how = Gateway => k.attempt = Attempts
           /\ k.kind \in {"query", "repositories"} /\ k.answer.how = "untyped error"
              /\ ~ GraphqlRetried(k) => k.outer = Attempts
<1>1. k.attempt \in Nat /\ k.outer \in Nat /\ Attempts \in Nat /\ k.attempt <= Attempts
  BY HttpAssumption DEF CallInv, Calls, SpentCall, InFlight
<1>2. k.kind \in {"query", "repositories"} => k.outer <= Attempts
  BY DEF CallInv, SpentCall, InFlight
<1>3. k.answer.how = "dropped" => k.attempt = Attempts
  BY <1>1 DEF Retried, LastAttempt
<1>4. k.kind # "hygiene" /\ k.answer.how = Gateway => k.attempt = Attempts
  BY <1>1 DEF Retried, LastAttempt, RetryStatuses
<1>5. k.kind \in {"query", "repositories"} /\ k.answer.how = "untyped error" /\ ~ GraphqlRetried(k)
      => k.outer = Attempts
  <2> SUFFICES ASSUME k.outer <= Attempts, ~ (k.outer < Attempts) PROVE k.outer = Attempts
    BY <1>2 DEF GraphqlRetried
  <2> QED BY <1>1
<1> QED BY <1>3, <1>4, <1>5

\* Of one call that ends "unavailable".
LEMMA PatientIs ==
    ASSUME IInv, NEW c \in Callers, Next, call[c].pc = "answered", call'[c].out = "unavailable",
           ThroughSend(call[c].kind)
    PROVE  LET k == call[c] IN
           /\ k.answer.how \in {"dropped", Gateway} => k.attempt = Attempts
           /\ k.kind \in {"query", "repositories"} /\ k.answer.how = "untyped error" =>
                 k.outer = Attempts
<1> DEFINE k == call[c]
           how == k.answer.how
<1>1. /\ k \in Calls /\ CallInv(k) /\ k.out # "unavailable" /\ call \in [Callers -> Calls]
      /\ ThroughSend(k.kind) /\ CacheOK(cache) /\ runs \in 0 .. MaxRuns
  BY CallIs, NoneIsNoOutcome DEF CallInv, IInv, ThroughSend, SentOnce, RestKinds, GraphqlKinds, Outcomes
<1>2. PICK d \in Callers : Begin(d) \/ Step(d)
  BY <1>1 DEF Next, RunCreated
<1>3. CASE d # c
  <2>1. call'[c] = call[c]
    BY <1>1, <1>2, <1>3 DEF Begin, Step, Answer, Retry, Once, Get, GetFails, Graphql, Hygiene, Leave
  <2> QED BY <1>1, <2>1
<1>4. CASE d = c /\ GetFails(c)
  <2>1. k.kind \in RestKinds /\ ~ Retried(k) /\ ErrorOf(k) # None
    BY <1>4 DEF GetFails, Received
  <2>2. how # "untyped error"
    BY <2>1 DEF ErrorOf, OptionalOrRaise, RunsOrRaise, RaiseForStatus, IsRateLimited, Failures,
                Statuses, Gateway
  <2> QED BY <1>1, <2>1, <2>2, LastIs DEF RestKinds
<1>5. CASE d = c /\ Graphql(c)
  <2>1. k.kind \in {"query", "repositories"} /\ ~ Retried(k)
    BY <1>5 DEF Graphql, Received
  <2>2. ASSUME GraphqlRetried(k) \/ GraphqlError(how) = None PROVE FALSE
    <3>1. call'[c].out \in {k.out, "ok"}
      BY <1>1, <1>5, <2>2 DEF Graphql, NextPage, Sent, Ended, Calls
    <3> QED BY <1>1, <3>1
  <2> QED BY <1>1, <2>1, <2>2, LastIs
<1>6. CASE d = c /\ Hygiene(c)
  <2>1. k.kind = "hygiene" /\ ~ Retried(k)
    BY <1>6 DEF Hygiene, Received
  <2>2. ASSUME how = Gateway PROVE FALSE
    <3> DEFINE n == IF FirstTry(k) THEN NextHalf([k EXCEPT !.rest = Halves(k.ids)]) ELSE HalfFails(k)
    <3>1. call' = [call EXCEPT ![c] = n]
      BY <1>6, <2>2 DEF Hygiene, HygieneForNow, Gateway
    <3>2. n.out \in {k.out, "ok"}
      BY <1>1 DEF HalfFails, NextHalf, Sent, Ended, Calls
    <3>3. call'[c].out \in {k.out, "ok"}
      BY <1>1, <3>1, <3>2
    <3> QED BY <1>1, <3>3
  <2> QED BY <1>1, <2>1, <2>2, LastIs
<1>7. CASE d = c /\ Get(c)
  <2>1. call'[c].out \in {k.out, "ok"}
    <3> DEFINE read == [k EXCEPT !.bodies = Append(@, [page |-> k.page, runs |-> Body(k)])]
               next == [read EXCEPT !.page = @ + 1]
    <3>1. \/ call' = [call EXCEPT ![c] = Sent(next, Stored(k))]
          \/ call' = [call EXCEPT ![c] = Ended(read, "ok")]
      BY <1>7 DEF Get
    <3>2. /\ next.out = k.out /\ DOMAIN next = DOMAIN k /\ "out" \in DOMAIN k
          /\ next = [f \in DOMAIN k |-> next[f]]
      BY <1>1 DEF Calls
    <3> HIDE DEF next
    <3>3. Sent(next, Stored(k)).out = k.out
      BY <3>2 DEF Sent
    <3>4. Ended(read, "ok").out = "ok"
      BY <1>1 DEF Ended, Calls
    <3> HIDE DEF read
    <3> QED BY <1>1, <3>1, <3>3, <3>4
  <2> QED BY <1>1, <2>1
<1>8. CASE d = c /\ Retry(c)
  <2>1. call'[c].out = k.out
    BY <1>1, <1>8 DEF Retry, Calls
  <2> QED BY <1>1, <2>1
<1>9. d = c => ~ Begin(c) /\ ~ Answer(c) /\ ~ Once(c) /\ ~ Leave(c)
  BY <1>1 DEF Begin, Answer, Once, Leave, ThroughSend
<1> QED BY <1>2, <1>3, <1>4, <1>5, <1>6, <1>7, <1>8, <1>9 DEF Step

\* What goes through _send, and through _graphql's own loop, is given up for what
\* these try again only after the last attempt.
THEOREM ReadsDoNotGiveUp == Spec => ReadsArePatient
<1> DEFINE Patient == \A c \in Callers :
              LET k == call[c] IN
              k.pc = "answered" /\ call'[c].out = "unavailable" =>
                 /\ ThroughSend(k.kind) /\ k.answer.how \in {"dropped", Gateway} =>
                       k.attempt = Attempts
                 /\ k.kind \in {"query", "repositories"} /\ k.answer.how = "untyped error" =>
                       k.outer = Attempts
<1>1. ASSUME IInv, [Next]_vars PROVE [Patient]_vars
  <2>1. \A kind : kind \in {"query", "repositories"} => ThroughSend(kind)
    BY DEF ThroughSend, SentOnce
  <2> QED BY <1>1, <2>1, PatientIs
<1> HIDE DEF Patient
<1>2. Spec => [][Patient]_vars
  BY <1>1, HttpInvariance, PTL DEF Spec
<1> QED BY <1>2 DEF ReadsArePatient, Patient

-----------------------------------------------------------------------------
(* What a month's usage adds up to                                         *)
(*                                                                         *)
(* The pages of a count are concatenated by a recursive function.  What it *)
(* returns is proved by least counterexample: a set of numbers has a least *)
(* one (Least), and the value before that one is right.                    *)

\* A set of natural numbers that is not empty has a least one: induction over data.
LEMMA Least ==
    ASSUME NEW T \in SUBSET Nat, NEW a \in T
    PROVE  \E m \in T : \A n \in T : m <= n
<1> DEFINE R == OpToRel(<, Nat)
<1>1. IsWellFoundedOn(R, Nat)
  BY NatLessThanWellFounded
<1>2. \A x, y \in Nat : <<x, y>> \in R <=> x < y
  BY DEF OpToRel
<1> HIDE DEF R
<1>3. PICK m \in T : \A n \in T : <<n, m>> \notin R
  BY <1>1, WFMin
<1>4. m \in Nat /\ \A n \in T : n \in Nat /\ ~ (n < m)
  BY <1>2, <1>3
<1> QED BY <1>3, <1>4

\* The concatenation of the first sequences of seqs.
Joins(seqs, n, f) == f = [i \in 1 .. n |-> IF i = 1 THEN seqs[i] ELSE f[i - 1] \o seqs[i]]

\* That function exists: the least n without one would follow one that has it.
LEMMA JoinExists ==
    ASSUME NEW seqs, NEW n \in Nat PROVE \E f : Joins(seqs, n, f)
<1> DEFINE T == {m \in Nat : ~ \E f : Joins(seqs, m, f)}
<1> SUFFICES ASSUME n \in T PROVE FALSE
  OBVIOUS
<1>1. PICK m \in T : \A j \in T : m <= j
  BY Least
<1>2. m \in Nat /\ ~ \E f : Joins(seqs, m, f)
  BY <1>1
<1>3. CASE m = 0
  <2>1. Joins(seqs, 0, [i \in 1 .. 0 |-> i])
    BY DEF Joins
  <2> QED BY <1>2, <1>3, <2>1
<1>4. CASE m # 0
  <2>1. m - 1 \in Nat /\ m - 1 \notin T
    BY <1>1, <1>2, <1>4
  <2>2. PICK f : Joins(seqs, m - 1, f)
    BY <2>1
  <2> DEFINE F(i) == IF i < m THEN f[i] ELSE IF i = 1 THEN seqs[i] ELSE f[i - 1] \o seqs[i]
             g == [i \in 1 .. m |-> F(i)]
  <2>3. \A i \in 1 .. m - 1 : f[i] = IF i = 1 THEN seqs[i] ELSE f[i - 1] \o seqs[i]
    BY <2>2 DEF Joins
  <2>4. \A i \in 1 .. m : g[i] = IF i = 1 THEN seqs[i] ELSE g[i - 1] \o seqs[i]
    <3> SUFFICES ASSUME NEW i \in 1 .. m PROVE g[i] = IF i = 1 THEN seqs[i] ELSE g[i - 1] \o seqs[i]
      OBVIOUS
    <3>1. i # 1 => i - 1 \in 1 .. m /\ i - 1 < m
      BY <1>2
    <3>2. i # 1 => g[i - 1] = f[i - 1]
      BY <3>1
    <3>3. i < m => i \in 1 .. m - 1
      BY <1>2
    <3>4. g[i] = F(i)
      OBVIOUS
    <3> HIDE DEF g
    <3> QED BY <2>3, <3>2, <3>3, <3>4
  <2>5. g = [i \in 1 .. m |-> g[i]]
    OBVIOUS
  <2> HIDE DEF g
  <2>6. Joins(seqs, m, g)
    BY <2>4, <2>5 DEF Joins
  <2> QED BY <1>2, <2>6
<1> QED BY <1>3, <1>4

\* FlattenSeq is a concatenation in this sense.
LEMMA FlattenIs ==
    ASSUME NEW seqs, Len(seqs) \in Nat, Len(seqs) # 0
    PROVE  \E f : Joins(seqs, Len(seqs), f) /\ FlattenSeq(seqs) = f[Len(seqs)]
<1> DEFINE n == Len(seqs)
           f == CHOOSE f : Joins(seqs, n, f)
<1>1. Joins(seqs, n, f)
  BY JoinExists
<1>2. FlattenSeq(seqs) = f[n]
  BY DEF FlattenSeq, Joins
<1> QED BY <1>1, <1>2

\* The least and the greatest of two.
LEMMA LesserIs ==
    ASSUME NEW a \in Int, NEW b \in Int
    PROVE  /\ Min({a, b}) = IF a <= b THEN a ELSE b
           /\ Max({a, b}) = IF a >= b THEN a ELSE b
<1>1. Min({a, b}) = IF a <= b THEN a ELSE b
  <2> DEFINE m == IF a <= b THEN a ELSE b
  <2>1. m \in {a, b} /\ \A y \in {a, b} : m <= y
    OBVIOUS
  <2>2. \A x \in {a, b} : (\A y \in {a, b} : x <= y) => x = m
    OBVIOUS
  <2> HIDE DEF m
  <2> QED BY <2>1, <2>2 DEF Min
<1>2. Max({a, b}) = IF a >= b THEN a ELSE b
  <2> DEFINE m == IF a >= b THEN a ELSE b
  <2>1. m \in {a, b} /\ \A y \in {a, b} : m >= y
    OBVIOUS
  <2>2. \A x \in {a, b} : (\A y \in {a, b} : x >= y) => x = m
    OBVIOUS
  <2> HIDE DEF m
  <2> QED BY <2>1, <2>2 DEF Max
<1> QED BY <1>1, <1>2

\* The first n runs of a list of them, newest first.
Newest(all, n) == [i \in 1 .. Min({all, n}) |-> all - i + 1]

\* One more page is PageSize more of the newest runs.
LEMMA PageIs ==
    ASSUME NEW all \in Nat, NEW n \in Nat, NEW page \in Nat, page # 0, n = (page - 1) * PageSize
    PROVE  /\ Newest(all, n) \o OnPage(all, page) = Newest(all, n + PageSize)
           /\ n = 0 => OnPage(all, page) = Newest(all, n + PageSize)
<1> DEFINE first == all - n
           size == Max({0, Min({first, PageSize})})
           had == Min({all, n})
           has == Min({all, n + PageSize})
           s == [i \in 1 .. had |-> all - i + 1]
           t == [i \in 1 .. size |-> first - i + 1]
           u == [i \in 1 .. has |-> all - i + 1]
<1>1. PageSize \in Nat \ {0} /\ first \in Int /\ n + PageSize \in Nat
  BY HttpAssumption
<1>2. had = IF all <= n THEN all ELSE n
  BY LesserIs
<1>3. has = IF all <= n + PageSize THEN all ELSE n + PageSize
  BY <1>1, LesserIs
<1>4. size = IF first <= 0 THEN 0 ELSE IF first <= PageSize THEN first ELSE PageSize
  <2>1. Min({first, PageSize}) = IF first <= PageSize THEN first ELSE PageSize
    BY <1>1, LesserIs
  <2> DEFINE m == Min({first, PageSize})
  <2> HIDE DEF m
  <2>2. m \in Int /\ m = IF first <= PageSize THEN first ELSE PageSize
    BY <1>1, <2>1 DEF m
  <2>3. Max({0, m}) = IF 0 >= m THEN 0 ELSE m
    <3>1. 0 \in Int
      OBVIOUS
    <3> QED BY ONLY <2>2, <3>1, LesserIs
  <2> HIDE DEF first
  <2> QED BY <1>1, <2>2, <2>3 DEF m
<1>5. s = Newest(all, n) /\ u = Newest(all, n + PageSize)
  BY DEF Newest
<1>6. t = OnPage(all, page)
  BY DEF OnPage
<1> HIDE DEF had, has, size
<1>7. had \in Nat /\ size \in Nat /\ has \in Nat /\ has = had + size /\ (size > 0 => had = n)
  BY <1>1, <1>2, <1>3, <1>4
<1>8. s \in Seq(Int) /\ t \in Seq(Int) /\ Len(s) = had /\ Len(t) = size
  BY <1>1, <1>7
<1>9. s \o t = u
  <2> DEFINE v == s \o t
  <2>1. /\ v \in Seq(Int) /\ Len(v) = has
        /\ \A i \in 1 .. has : v[i] = IF i <= had THEN s[i] ELSE t[i - had]
    <3> HIDE DEF s, t
    <3> QED BY <1>7, <1>8, ConcatProperties
  <2>2. \A i \in 1 .. has : (IF i <= had THEN s[i] ELSE t[i - had]) = all - i + 1
    <3> SUFFICES ASSUME NEW i \in 1 .. has PROVE (IF i <= had THEN s[i] ELSE t[i - had]) = all - i + 1
      OBVIOUS
    <3>1. CASE i <= had
      BY <1>7, <3>1
    <3>2. CASE i > had
      <4>1. i - had \in 1 .. size /\ had = n
        BY <1>7, <3>2
      <4>2. t[i - had] = first - (i - had) + 1
        BY <4>1
      <4> QED BY <1>1, <1>7, <3>2, <4>1, <4>2
    <3> QED BY <1>7, <3>1, <3>2
  <2> HIDE DEF s, t, v
  <2>3. v = [i \in 1 .. has |-> v[i]]
    BY <2>1
  <2>4. \A i \in 1 .. has : v[i] = all - i + 1
    BY <2>1, <2>2
  <2> QED BY <2>3, <2>4 DEF v
<1>10. n = 0 => t = u
  <2> SUFFICES ASSUME n = 0 PROVE t = u
    OBVIOUS
  <2>1. had = 0 /\ size = has /\ first = all
    BY <1>1, <1>2, <1>7
  <2> QED BY <2>1
<1> QED BY <1>5, <1>6, <1>9, <1>10

\* The first pages of a list, one after the other, are its newest runs.
LEMMA PagesAre ==
    ASSUME NEW all \in Nat, NEW n \in Nat \ {0}, NEW f, Joins([i \in 1 .. n |-> OnPage(all, i)], n, f)
    PROVE  f[n] = Newest(all, n * PageSize)
<1> DEFINE s == [i \in 1 .. n |-> OnPage(all, i)]
           T == {m \in 1 .. n : f[m] # Newest(all, m * PageSize)}
<1>1. PageSize \in Nat
  BY HttpAssumption
<1>2. \A i \in 1 .. n : f[i] = IF i = 1 THEN OnPage(all, 1) ELSE f[i - 1] \o OnPage(all, i)
  BY DEF Joins
<1> SUFFICES ASSUME n \in T PROVE FALSE
  OBVIOUS
<1>3. PICK m \in T : \A j \in T : m <= j
  <2>1. T \in SUBSET Nat
    OBVIOUS
  <2> HIDE DEF T
  <2> QED BY <2>1, Least
<1>4. m \in 1 .. n /\ f[m] # Newest(all, m * PageSize)
  BY <1>3
<1>5. CASE m = 1
  <2>1. OnPage(all, 1) = Newest(all, 0 + PageSize)
    <3>1. 0 \in Nat /\ 1 \in Nat /\ 1 # 0 /\ 0 = (1 - 1) * PageSize
      BY <1>1
    <3> QED BY ONLY <3>1, PageIs
  <2>2. f[1] = OnPage(all, 1) /\ 1 * PageSize = 0 + PageSize
    BY <1>1, <1>2
  <2> QED BY <1>4, <1>5, <2>1, <2>2
<1>6. CASE m # 1
  <2>1. m - 1 \in 1 .. n /\ m - 1 \notin T /\ m - 1 \in Nat /\ (m - 1) + 1 = m
    BY <1>3, <1>4, <1>6
  <2> DEFINE p == (m - 1) * PageSize
  <2>2. f[m - 1] = Newest(all, p)
    BY <2>1
  <2>3. f[m] = f[m - 1] \o OnPage(all, m)
    BY <1>2, <1>4, <1>6
  <2>4. p \in Nat /\ m * PageSize = p + PageSize
    BY ONLY <1>1, <2>1, Times
  <2>5. Newest(all, p) \o OnPage(all, m) = Newest(all, p + PageSize)
    <3>1. m \in Nat /\ m # 0
      BY <1>4
    <3> QED BY ONLY <2>4, <3>1, PageIs, HttpAssumption
  <2> HIDE DEF p
  <2> QED BY <1>4, <2>2, <2>3, <2>4, <2>5
<1> QED BY <1>5, <1>6

\* The first n pages.
Paged(k, n) == Len(k.bodies) = n /\ \A i \in 1 .. n : k.bodies[i].page = i

\* The first page has promised more than a page.
Promised(k) == k.bodies[1].runs > PageSize

\* A count goes from page to page while there is more, and ends only where there
\* is no more, or with the last page it may ask for.
PagesCall(k) ==
    k.kind = "durations" =>
        /\ InFlight(k) =>
              /\ Paged(k, k.page - 1) /\ k.page <= MaxPages
              /\ k.page > 1 => Promised(k)
        /\ k.out = "ok" /\ OptionalOrRaise(k.answer.how) = None =>
              Paged(k, IF Promised(k) THEN MaxPages ELSE 1)

PagesInv == \A c \in Callers : PagesCall(call[c])

\* The call once it has read a page.
ReadOf(k) == [k EXCEPT !.bodies = Append(@, [page |-> k.page, runs |-> Body(k)])]

\* What a page that was read leaves as it was.
LEMMA ReadIs ==
    ASSUME NEW k, CallInv(k), k.kind \in RestKinds, k.pc = "answered", runs \in 0 .. MaxRuns
    PROVE  LET n == Len(k.bodies)
               read == ReadOf(k)
           IN  /\ read \in Calls /\ read.kind = k.kind /\ read.page = k.page /\ read.out = k.out
               /\ n \in Nat /\ Len(read.bodies) = n + 1
               /\ \A i \in 1 .. n : read.bodies[i] = k.bodies[i]
               /\ read.bodies[n + 1].page = k.page
<1> DEFINE body == [page |-> k.page, runs |-> Body(k)]
           n == Len(k.bodies)
           read == ReadOf(k)
<1>1. k \in Calls /\ k.bodies \in Seq(Bodies) /\ n \in Nat
  BY DEF CallInv, Calls
<1>2. Body(k) \in 0 .. MaxRuns
  BY <1>1 DEF Body, CallInv, FreshCall, Answers
<1>3. body \in Bodies /\ body.page = k.page
  BY <1>1, <1>2 DEF Bodies, Calls
<1> HIDE DEF body
<1>4. /\ Append(k.bodies, body) \in Seq(Bodies) /\ Len(Append(k.bodies, body)) = n + 1
      /\ \A i \in 1 .. n : Append(k.bodies, body)[i] = k.bodies[i]
      /\ Append(k.bodies, body)[n + 1] = body
  BY <1>1, <1>3, AppendProperties
<1>5. /\ read \in Calls /\ read.kind = k.kind /\ read.page = k.page /\ read.out = k.out
      /\ read.bodies = Append(k.bodies, body)
  <2>1. read = [k EXCEPT !.bodies = Append(k.bodies, body)]
    BY DEF ReadOf, body
  <2> QED BY ONLY <1>1, <1>4, <2>1 DEF Calls
<1> QED BY <1>1, <1>3, <1>4, <1>5

\* A page that was read is the next one, and asks for another where the first promised it.
LEMMA GetPages == ASSUME IInv, PagesInv, NEW c \in Callers, Get(c) PROVE PagesCall(call'[c])
<1> DEFINE k == call[c]
           read == ReadOf(k)
           next == [read EXCEPT !.page = @ + 1]
           n == Len(k.bodies)
<1>1. /\ CallInv(k) /\ k.kind \in RestKinds /\ k.pc = "answered" /\ runs \in 0 .. MaxRuns
      /\ CacheOK(cache) /\ call \in [Callers -> Calls] /\ k.out = None /\ PagesCall(k)
      /\ k.answer \in Answers /\ k.page \in Nat \ {0}
  BY CallIs DEF Get, Received, CallInv, IInv, PagesInv, Calls
<1>2. /\ read \in Calls /\ read.kind = k.kind /\ read.page = k.page /\ read.out = None
      /\ n \in Nat /\ Len(read.bodies) = n + 1
      /\ \A i \in 1 .. n : read.bodies[i] = k.bodies[i]
      /\ read.bodies[n + 1].page = k.page
  BY <1>1, ReadIs
<1>3. CacheOK(Stored(k))
  <2>1. KeyOf(k) \in Keys
    BY <1>1 DEF KeyOf, Keys, Calls, Kinds
  <2>2. [key |-> KeyOf(k), runs |-> k.answer.runs] \in Entries
    BY <1>1, <2>1 DEF Entries, Answers
  <2> QED BY <1>1, <2>2, PutOK DEF Stored
<1>4. \/ /\ k.kind = "durations" /\ MorePages(read)
         /\ call'[c] = Sent(next, Stored(k))
      \/ ~ (k.kind = "durations" /\ MorePages(read)) /\ call'[c] = Ended(read, "ok")
  BY <1>1 DEF Get, ReadOf
<1> HIDE DEF read
<1>5. CASE k.kind # "durations"
  <2>1. call'[c] = Ended(read, "ok")
    BY <1>4, <1>5
  <2>2. call'[c].kind = k.kind
    BY <1>2, <2>1, EndedIs DEF Outcomes
  <2> QED BY <1>5, <2>2 DEF PagesCall
<1>6. CASE k.kind = "durations"
  <2>1. /\ n = k.page - 1 /\ k.page <= MaxPages /\ MaxPages \in Nat
        /\ \A i \in 1 .. n : k.bodies[i].page = i
        /\ k.page > 1 => Promised(k)
    BY <1>1, <1>6, HttpAssumption DEF PagesCall, InFlight, Paged
  <2>2. Paged(read, k.page) /\ (k.page > 1 => Promised(read))
    <3>1. Len(read.bodies) = k.page
      BY <1>1, <1>2, <2>1
    <3>2. \A i \in 1 .. k.page : read.bodies[i].page = i
      <4>1. \A i \in 1 .. k.page : i \in 1 .. n \/ i = n + 1
        BY <1>1, <2>1
      <4>2. n + 1 = k.page
        BY <1>1, <2>1
      <4> HIDE DEF n, k
      <4> QED BY <1>2, <2>1, <4>1, <4>2
    <3>3. k.page > 1 => read.bodies[1] = k.bodies[1]
      BY <1>1, <1>2, <2>1
    <3> QED BY <2>1, <3>1, <3>2, <3>3 DEF Paged, Promised
  <2>3. CASE MorePages(read)
    <3>1. /\ next \in Calls /\ next.page = k.page + 1 /\ next.kind = "durations"
          /\ next.bodies = read.bodies /\ next.out = None
      <4>1. k.page + 1 \in Nat \ {0}
        BY <1>1
      <4> HIDE DEF k
      <4> QED BY <1>2, <1>6, <4>1 DEF Calls
    <3> HIDE DEF next
    <3> DEFINE s == Sent(next, Stored(k))
    <3>2. /\ s.kind = "durations" /\ s.page = k.page + 1 /\ s.bodies = read.bodies
          /\ s.out = None
      BY <1>1, <1>3, <3>1, SentIs
    <3>3. Promised(read) /\ k.page < MaxPages
      BY <1>2, <2>3 DEF MorePages, Promised
    <3>4. call'[c] = s
      BY <1>4, <1>6, <2>3
    <3> HIDE DEF s
    <3>5. s.page - 1 = k.page /\ s.page <= MaxPages
      BY <1>1, <2>1, <3>2, <3>3
    <3>6. Paged(s, s.page - 1) /\ Promised(s)
      BY <2>2, <3>2, <3>3, <3>5 DEF Paged, Promised
    <3> QED BY <3>2, <3>4, <3>5, <3>6, NoneIsNoOutcome DEF PagesCall, Outcomes
  <2>4. CASE ~ MorePages(read)
    <3> DEFINE e == Ended(read, "ok")
    <3>1. e.kind = "durations" /\ e.pc = "ended" /\ e.bodies = read.bodies
      BY <1>2, <1>6, EndedIs DEF Outcomes
    <3>2. call'[c] = e
      BY <1>4, <2>4
    <3> HIDE DEF e
    <3>3. ~ (Promised(read) /\ k.page < MaxPages)
      BY <1>2, <2>4 DEF MorePages, Promised
    <3>4. k.page = IF Promised(read) THEN MaxPages ELSE 1
      BY <1>1, <2>1, <2>2, <3>3
    <3>5. Paged(e, IF Promised(e) THEN MaxPages ELSE 1)
      BY <2>2, <3>1, <3>4 DEF Paged, Promised
    <3> QED BY <3>1, <3>2, <3>5 DEF PagesCall, InFlight
  <2> QED BY <2>3, <2>4
<1> QED BY <1>5, <1>6

\* No other step changes what pages a count has read.
LEMMA OtherPages ==
    ASSUME IInv, PagesInv, NEW c \in Callers, Begin(c) \/ (Step(c) /\ ~ Get(c))
    PROVE  PagesCall(call'[c])
<1> DEFINE k == call[c]
<1>1. /\ k \in Calls /\ CallInv(k) /\ call \in [Callers -> Calls] /\ PagesCall(k)
      /\ CacheOK(cache) /\ runs \in 0 .. MaxRuns
  BY CallIs DEF IInv, PagesInv
<1>2. ASSUME NEW n, call'[c] = n, n.kind # "durations" PROVE PagesCall(call'[c])
  BY <1>2 DEF PagesCall
<1>3. CASE Begin(c)
  <2>1. PICK kind \in mix[c].kinds :
          LET b == [NoCall EXCEPT !.kind = kind, !.ids = IF kind = "hygiene" THEN Repos ELSE << >>]
          IN  call' = [call EXCEPT ![c] = Sent(b, cache)]
    BY <1>3 DEF Begin
  <2> DEFINE b == [NoCall EXCEPT !.kind = kind, !.ids = IF kind = "hygiene" THEN Repos ELSE << >>]
             s == Sent(b, cache)
  <2>2. /\ b \in Calls /\ b.page = 1 /\ b.bodies = << >> /\ b.out = None
    <3>1. kind \in Kinds /\ (IF kind = "hygiene" THEN Repos ELSE << >>) \in Ids
      BY HttpAssumption DEF IInv, Ids
    <3> QED BY ZenonT(30), NoCallIs, <3>1 DEF Calls
  <2> HIDE DEF b
  <2>3. s.page = 1 /\ s.bodies = << >> /\ s.out = None
    BY <1>1, <2>2, SentIs
  <2>4. call'[c] = s
    BY <1>1, <2>1 DEF b
  <2> HIDE DEF s
  <2>5. Paged(s, s.page - 1) /\ s.page <= MaxPages /\ ~ s.page > 1
    BY <2>3, HttpAssumption DEF Paged
  <2> QED BY <2>3, <2>4, <2>5, NoneIsNoOutcome DEF PagesCall, Outcomes
<1>4. CASE Answer(c)
  <2>1. PICK reply : call' = [call EXCEPT ![c].pc = "answered", ![c].answer = reply]
    BY <1>4 DEF Answer
  <2> DEFINE n == [k EXCEPT !.pc = "answered", !.answer = reply]
  <2>2. n.kind = k.kind /\ n.page = k.page /\ n.bodies = k.bodies /\ n.out = None /\ InFlight(k)
    BY <1>1, <1>4 DEF Calls, Answer, InFlight, CallInv
  <2>3. call'[c] = n
    BY <1>1, <2>1
  <2> HIDE DEF n
  <2> QED BY <1>1, <2>2, <2>3, NoneIsNoOutcome DEF PagesCall, Paged, Promised, Outcomes
<1>5. CASE Retry(c)
  <2> DEFINE n == [k EXCEPT !.pc = "sent", !.answer = None, !.attempt = @ + 1, !.requests = @ + 1]
  <2>1. n.kind = k.kind /\ n.page = k.page /\ n.bodies = k.bodies /\ n.out = None /\ InFlight(k)
    BY <1>1, <1>5 DEF Calls, Retry, InFlight, CallInv
  <2>2. call'[c] = n
    BY <1>1, <1>5 DEF Retry
  <2> HIDE DEF n
  <2> QED BY <1>1, <2>1, <2>2, NoneIsNoOutcome DEF PagesCall, Paged, Promised, Outcomes
<1>6. CASE Once(c)
  <2>1. call'[c].kind = k.kind /\ k.kind # "durations"
    BY <1>1, <1>6, OnceIs, EndedIs DEF Once, SentOnce
  <2> QED BY <1>2, <2>1
<1>7. CASE GetFails(c)
  <2> DEFINE out == IF ErrorOf(k) = "none" /\ k.page > 1 THEN "ok" ELSE ErrorOf(k)
             n == Ended(k, out)
  <2>1. call'[c] = n /\ ErrorOf(k) # None
    BY <1>1, <1>7 DEF GetFails
  <2>2. out \in Outcomes
    BY <2>1, ErrorIs DEF Outcomes
  <2> HIDE DEF out
  <2>3. n.kind = k.kind /\ n.answer = k.answer /\ n.pc = "ended"
    BY <1>1, <2>2, EndedIs
  <2> HIDE DEF n
  <2>4. k.kind = "durations" => OptionalOrRaise(k.answer.how) # None
    BY <2>1 DEF ErrorOf
  <2> QED BY <2>1, <2>3, <2>4 DEF PagesCall, InFlight
<1>8. CASE Graphql(c) \/ Hygiene(c)
  <2> DEFINE how == k.answer.how
             error == GraphqlError(how)
  <2>1. CASE Graphql(c)
    <3> DEFINE again == [Sent(k, cache) EXCEPT !.outer = k.outer + 1, !.requests = k.requests + 1]
    <3>1. again.kind = k.kind /\ NextPage(k).kind = k.kind
      BY <1>1 DEF NextPage, Sent, Calls
    <3>2. Ended(k, error).kind = k.kind /\ Ended(k, "ok").kind = k.kind
      BY <1>1 DEF Ended, Calls
    <3>3. \/ call' = [call EXCEPT ![c] = again]
          \/ call' = [call EXCEPT ![c] = NextPage(k)]
          \/ call' = [call EXCEPT ![c] = Ended(k, error)]
          \/ call' = [call EXCEPT ![c] = Ended(k, "ok")]
      <4>1. CASE GraphqlRetried(k)
        BY <2>1, <4>1 DEF Graphql
      <4>2. CASE ~ GraphqlRetried(k) /\ error # None
        BY <2>1, <4>2 DEF Graphql
      <4>3. CASE ~ GraphqlRetried(k) /\ error = None
        BY <2>1, <4>3 DEF Graphql
      <4> QED BY <4>1, <4>2, <4>3
    <3> HIDE DEF again, error
    <3>4. call'[c].kind = k.kind
      BY <1>1, <3>1, <3>2, <3>3
    <3> QED BY <1>2, <2>1, <3>4 DEF Graphql
  <2>2. CASE Hygiene(c)
    <3> DEFINE halves == [k EXCEPT !.rest = Halves(k.ids)]
               got(null) == [k EXCEPT !.got = @ \cup (Range(k.ids) \ null), !.nulled = @ \cup null]
               lost == [k EXCEPT !.lost = @ \cup Range(k.ids)]
    <3>1. ASSUME NEW n, n.kind = k.kind,
                 n \in {halves, lost} \/ \E null \in SUBSET Range(k.ids) : n = got(null)
          PROVE  NextHalf(n).kind = k.kind
      BY <1>1, <3>1 DEF NextHalf, Sent, Ended, Calls
    <3>2. /\ halves.kind = k.kind /\ lost.kind = k.kind
          /\ \A null \in SUBSET Range(k.ids) : got(null).kind = k.kind
      BY <1>1 DEF Calls
    <3>3. Ended(k, error).kind = k.kind
      BY <1>1 DEF Ended, Calls
    <3>4. \/ call' = [call EXCEPT ![c] = NextHalf(halves)]
          \/ \E null \in SUBSET Range(k.ids) : call' = [call EXCEPT ![c] = NextHalf(got(null))]
          \/ call' = [call EXCEPT ![c] = NextHalf(lost)]
          \/ call' = [call EXCEPT ![c] = Ended(k, error)]
      <4>1. CASE HygieneForNow(how)
        BY <2>2, <4>1 DEF Hygiene, HygieneForNow, Gateway, HalfFails
      <4>2. CASE ~ HygieneForNow(how) /\ how \in {"data", "partial"}
        BY <2>2, <4>2 DEF Hygiene, HygieneForNow, Gateway, HasAllBut
      <4>3. CASE ~ HygieneForNow(how) /\ how \notin {"data", "partial"}
        BY <2>2, <4>3 DEF Hygiene, HygieneForNow, Gateway
      <4> QED BY <4>1, <4>2, <4>3
    <3> HIDE DEF halves, got, lost, error
    <3>5. call'[c].kind = k.kind
      BY <1>1, <3>1, <3>2, <3>3, <3>4
    <3> QED BY <1>2, <2>2, <3>5 DEF Hygiene
  <2> QED BY <1>8, <2>1, <2>2
<1>9. CASE Leave(c)
  <2>1. call'[c] = NoCall /\ NoCall.kind = "optional"
    BY <1>1, <1>9 DEF Leave, NoCall
  <2> QED BY <1>2, <2>1
<1> QED BY <1>3, <1>4, <1>5, <1>6, <1>7, <1>8, <1>9 DEF Step

\* So the pages of all calls are in order after every step.
LEMMA PagesStep == ASSUME IInv, PagesInv, [Next]_vars PROVE PagesInv'
<1>1. CASE RunCreated \/ UNCHANGED vars
  <2>1. call' = call
    BY <1>1 DEF RunCreated, vars
  <2> QED BY <2>1 DEF PagesInv, PagesCall, Paged, Promised, InFlight
<1>2. ASSUME NEW c \in Callers, Begin(c) \/ Step(c) PROVE PagesInv'
  <2>1. PagesCall(call'[c])
    BY <1>2, GetPages, OtherPages
  <2>2. \A d \in Callers \ {c} : call'[d] = call[d]
    BY <1>2 DEF IInv, Begin, Step, Answer, Retry, Once, Get, GetFails, Graphql, Hygiene, Leave
  <2>3. \A d \in Callers : PagesCall(call'[d])
    BY <2>1, <2>2 DEF PagesInv
  <2> SUFFICES ASSUME NEW d \in Callers PROVE PagesCall(call[d])'
    BY DEF PagesInv
  <2> QED BY <2>3 DEF PagesCall, Paged, Promised, InFlight
<1> QED BY <1>1, <1>2 DEF Next

\* More than all there are is all there are.
LEMMA NewestAll ==
    ASSUME NEW all \in Nat, NEW n \in Nat, NEW m \in Nat, all <= n, all <= m
    PROVE  Newest(all, n) = Newest(all, m)
<1>1. Min({all, n}) = all /\ Min({all, m}) = all
  BY LesserIs
<1> QED BY <1>1 DEF Newest

\* What the pages of a finished count add up to.
LEMMA CountIs ==
    ASSUME IInv, PagesInv, NEW c \in Callers,
           call[c].kind = "durations", call[c].out = "ok", call[c].since = runs,
           OptionalOrRaise(call[c].answer.how) = None
    PROVE  /\ Counted(call[c]) = Newest(runs, PageSize * MaxPages)
           /\ Truncated(call[c]) <=> runs > PageSize * MaxPages
<1> DEFINE k == call[c]
           n == IF Promised(k) THEN MaxPages ELSE 1
           all == runs
           s == [i \in DOMAIN k.bodies |-> OnPage(k.bodies[i].runs, k.bodies[i].page)]
           t == [i \in 1 .. n |-> OnPage(all, i)]
<1>1. all \in Nat /\ PageSize \in Nat \ {0} /\ MaxPages \in Nat \ {0} /\ n \in Nat \ {0}
  BY HttpAssumption DEF IInv
<1>2. Paged(k, n) /\ k \in Calls /\ CallInv(k)
  BY CallIs DEF PagesInv, PagesCall
<1>3. DOMAIN k.bodies = 1 .. n
  <2>1. k.bodies \in Seq(Bodies) /\ Len(k.bodies) = n
    BY <1>2 DEF Paged, Calls
  <2> HIDE DEF n, k
  <2> QED BY <2>1
<1>4. \A i \in 1 .. n : k.bodies[i].runs = all /\ k.bodies[i].page = i
  <2>1. \A i \in 1 .. n : k.bodies[i].runs \in all .. all
    BY <1>2, <1>3 DEF CallInv, FreshCall
  <2> HIDE DEF n, k
  <2> QED BY <1>1, <1>2, <2>1 DEF Paged
<1>5. 1 \in 1 .. n
  BY <1>1
<1> HIDE DEF n
<1>6. s = t
  BY <1>3, <1>4
<1>7. Counted(k) = Newest(all, n * PageSize)
  <2>1. Len(t) = n
    BY <1>1
  <2>2. PICK f : Joins(t, n, f) /\ FlattenSeq(t) = f[n]
    BY <1>1, <2>1, FlattenIs
  <2>3. f[n] = Newest(all, n * PageSize)
    BY ONLY <1>1, <2>2, PagesAre, HttpAssumption
  <2> HIDE DEF t
  <2> QED BY <1>6, <2>2, <2>3 DEF Counted
<1>8. MaxPages * PageSize = PageSize * MaxPages /\ MaxPages * PageSize \in Nat
      /\ PageSize <= MaxPages * PageSize /\ 1 * PageSize = PageSize
  <2>1. 1 \in Nat /\ MaxPages \in Nat /\ 1 <= MaxPages /\ PageSize \in Nat
    BY <1>1
  <2>2. 1 * PageSize <= MaxPages * PageSize
    BY ONLY <2>1, Times
  <2> QED BY <1>1, <2>2
<1>9. k.bodies[1].runs = all
  BY <1>4, <1>5
<1>10. CASE Promised(k)
  BY <1>7, <1>8, <1>9, <1>10 DEF n, Truncated
<1>11. CASE ~ Promised(k)
  <2>1. n = 1 /\ all <= PageSize
    BY <1>1, <1>9, <1>11 DEF n, Promised
  <2> DEFINE p == MaxPages * PageSize
  <2> HIDE DEF p
  <2>2. all <= p /\ p \in Nat
    BY <1>1, <1>8, <2>1 DEF p
  <2>3. Newest(all, PageSize) = Newest(all, p)
    BY <1>1, <2>1, <2>2, NewestAll
  <2>4. PageSize * MaxPages = p
    BY <1>8 DEF p
  <2>5. Counted(k) = Newest(all, p)
    BY <1>7, <1>8, <2>1, <2>3
  <2>6. ~ all > p
    BY <1>1, <2>2
  <2> QED BY <1>9, <2>4, <2>5, <2>6 DEF Truncated
<1> QED BY <1>10, <1>11

\* list_run_durations: a month's runs are counted once each, up to what MAX_PAGES hold,
\* and a count is called truncated exactly when there were more.
THEOREM UsageIsExactAlways == Spec => []UsageIsExact
<1>1. Init => PagesInv
  <2> SUFFICES ASSUME Init, NEW c \in Callers PROVE PagesCall(call[c])
    BY DEF PagesInv
  <2>1. call[c] = NoCall /\ NoCall.kind = "optional"
    BY DEF Init, NoCall
  <2> QED BY <2>1 DEF PagesCall
<1>2. IInv /\ PagesInv => UsageIsExact
  BY CountIs DEF UsageIsExact, Newest
<1> QED BY <1>1, <1>2, HttpInvariance, PagesStep, PTL DEF Spec
=============================================================================
