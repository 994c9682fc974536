----------------------------- MODULE MCSessions -----------------------------
(* Small instances of Sessions for TLC. *)
EXTENDS Sessions, TLC

CONSTANTS u1, s1, s2

\* Two browsers of one account.
OneAccount == s1 :> u1 @@ s2 :> u1
Symmetry == Permutations(SessionIds)
=============================================================================
