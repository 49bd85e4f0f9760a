----------------------------- MODULE MCWatchDog -----------------------------
(***************************************************************************)
(* Instances of WatchDog for TLC.                                          *)
(***************************************************************************)
EXTENDS WatchDog

\* a unit of time is the period of the ticker of the longer lease; the shorter
\* one makes NewTicker panic
Leases == {6, 7}
=============================================================================
