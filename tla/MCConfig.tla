------------------------------ MODULE MCConfig ------------------------------
(* Defaults for small durations.                                           *)

MCDefaults == [check_interval |-> 6, min_reward |-> 5, pause_sleep |-> 2, max_backoff |-> 20,
               pause_file |-> "", state_file |-> "state.json", sound_file |-> "bell.wav",
               ws_url |-> "wss://live", rss_url |-> "https://feed",
               ws_enabled |-> FALSE, rss_enabled |-> TRUE,
               email_enabled |-> FALSE, website_enabled |-> FALSE,
               credentials_path |-> "", token_path |-> "",
               user_id |-> "", user_session |-> ""]
=============================================================================
