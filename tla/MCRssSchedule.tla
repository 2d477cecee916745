---------------------------- MODULE MCRssSchedule ----------------------------
(* Six-bit durations: every interval and cap that fits, so that doubling     *)
(* wraps around whenever the code lets it.  An environment may override the  *)
(* file, for better or worse; a configuration without the rss monitor and    *)
(* one without credentials are among the files.                              *)
EXTENDS RssSchedule, MCConfig

MCMaxInt == 31
MCDurations == (-1)..31

MCFiles == [check_interval : MCDurations, max_backoff : MCDurations, pause_sleep : {-1, 0, 1, 31}]
             \cup {[ws_enabled |-> TRUE], [rss_enabled |-> FALSE], [email_enabled |-> TRUE],
                   [min_reward |-> 0]}

MCEnvironments == {<<>>, [check_interval |-> 1], [check_interval |-> 0, max_backoff |-> -1],
                   [user_id |-> "u", user_session |-> "s"],
                   [rss_enabled |-> FALSE, ws_enabled |-> TRUE],
                   [rss_enabled |-> TRUE, credentials_path |-> "c"]}
=============================================================================
