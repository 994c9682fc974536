---------------------------- MODULE MCHttpClient ----------------------------
(* A small instance of HttpClient for TLC. *)
EXTENDS HttpClient, TLC

CONSTANTS c1, c2, a, b, d

Makes(kinds, meets) == [kinds |-> kinds, meets |-> meets]
Alone(kinds) == c1 :> Makes(kinds, Failures) @@ c2 :> Makes({}, {})

\* Each kind of call with every failure it can meet; and two callers who share
\* the cache, and have other entries in it.
SmallMixes ==
    {Alone(RestKinds), Alone(Kinds \ RestKinds),
     c1 :> Makes({"optional", "durations"}, {"dropped"}) @@ c2 :> Makes({"durations"}, {})}
ThreeRepos == <<a, b, d>>
=============================================================================
