--------------------------- MODULE MCRefreshLoad ---------------------------
(* Small instances of RefreshLoad for TLC. *)
EXTENDS RefreshLoad, TLC

\* Everything on but the Actions usage, which runs like the inbox does and
\* stands for itself; CI time without the hygiene lookup.
SomeFeatures == {Optional \ {"ACTIONS_USAGE"}, {"CI_USAGE", "FAILED_JOBS"}, {"ACTIONS_USAGE"}}

\* The default configuration.
AllFeatures == {Optional}
=============================================================================
