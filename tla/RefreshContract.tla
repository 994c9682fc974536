-------------------------- MODULE RefreshContract --------------------------
(***************************************************************************)
(* What a refresh promises those who share it (GetOverview builds on       *)
(* exactly this): it publishes overviews that only ever get more complete, *)
(* returns one that lacks nothing, and is given up for an outage only      *)
(* before anything was published.  What is left of a refresh that failed   *)
(* later may go on publishing.                                             *)
(***************************************************************************)
CONSTANTS Sections, None

VARIABLES
    status,   \* "running", "returned", "outage" or "failed"
    latest    \* the sections the newest overview still lacks; None before the first

contract == <<status, latest>>

Init == status = "running" /\ latest = None

Publish ==
    /\ \/ status = "running"
       \/ status = "failed" /\ latest # None
    /\ latest' # None /\ latest' \in SUBSET Sections
    /\ latest # None => latest' \subseteq latest
    /\ UNCHANGED status

Return ==
    /\ status = "running" /\ latest # None
    /\ status' = "returned" /\ latest' = {}

Outage ==
    /\ status = "running" /\ latest = None
    /\ status' = "outage" /\ UNCHANGED latest

Fail ==
    /\ status = "running"
    /\ status' = "failed" /\ UNCHANGED latest

Next == Publish \/ Return \/ Outage \/ Fail

Spec == Init /\ [][Next]_contract
=============================================================================
