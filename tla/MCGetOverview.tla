--------------------------- MODULE MCGetOverview ---------------------------
(* Small instances of GetOverview for TLC. *)
EXTENDS GetOverview, TLC

CONSTANTS u1, u2, s1, s2, s3

\* Two browsers of one account; or one browser of each of two accounts.
OneAccount == s1 :> u1 @@ s2 :> u1
OneBrowser == s1 :> u1
TwoAccounts == s1 :> u1 @@ s2 :> u1 @@ s3 :> u2

\* Delivering an answer changes nothing but the call's own record: exploring it
\* before anything else loses no behaviour an invariant could tell.
AnswersFirst ==
    (\E c \in Callers : call[c].pc = "answered") => \E c \in Callers : Leave(c)

\* Five kinds of calls: force acts before the modes differ, so that not every
\* mode needs both.
FiveRequests == {<<"wait", FALSE>>, <<"poll", FALSE>>, <<"stream", FALSE>>,
                 <<"stream", TRUE>>, <<"warm", TRUE>>}

\* One call that waits for the complete overview, and one that does not.
WaitAndPoll == {<<"wait", FALSE>>, <<"poll", FALSE>>}

\* Refreshes that are free are all alike, and so are tokens nobody holds.
View == <<sessions, {s \in revoked : sessions[s] # "none" \/ ~Forgotten(s)}, cache, refreshes, failures, call,
          [r \in Refreshes |-> IF r \in Free THEN NoTask ELSE task[r]]>>

Symmetry == Permutations(Callers) \cup Permutations(Refreshes)
=============================================================================
