---------------------------- MODULE MCRssMonitor ----------------------------
(* One configuration: the schedule has a run of its own.                   *)
EXTENDS RssMonitor, MCConfig

MCFiles == {[check_interval |-> 2, max_backoff |-> 4, pause_sleep |-> 1]}
MCEnvironments == {<<>>}
=============================================================================
