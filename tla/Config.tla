-------------------------------- MODULE Config --------------------------------
(***************************************************************************)
(* internal/config/config.go and what cmd/gengowatcher/main.go makes of it *)
(* before it starts the ui.  A file and an environment are functions of    *)
(* the settings they name; durations are integers.                         *)
(***************************************************************************)
LOCAL INSTANCE Integers

CONSTANTS Defaults,         \* setting -> its value in defaults.go, or "" for none
          MinCheckInterval  \* minRSSCheckInterval

\* Settings that only the environment has.
Secrets == {"user_id", "user_session"}

\* AutomaticEnv: a variable of the environment replaces every setting viper knows,
\* because setDefaults or the file names it.  BindEnv gives some of them a second
\* variable; GENGO_RSS.ENABLED is the one of rss.enabled.
Overridable(file) == (DOMAIN Defaults \ {"credentials_path", "token_path"}) \cup DOMAIN file

\* viper: the environment, then the file, then setDefaults.
Layered(file, env) ==
    [s \in DOMAIN Defaults |->
        IF s \in DOMAIN env \cap Overridable(file) THEN env[s]
        ELSE IF s \in DOMAIN file \ Secrets THEN file[s]
        ELSE Defaults[s]]

\* applyDefaults: values that stand for "not given".
ApplyDefaults(cfg) ==
    [s \in DOMAIN cfg |->
        IF \/ s \in {"check_interval", "min_reward"} /\ cfg[s] = 0
           \/ s \in {"pause_sleep", "max_backoff"} /\ cfg[s] <= 0
           \/ s \in {"ws_url", "rss_url", "state_file", "sound_file"} /\ cfg[s] = ""
        THEN Defaults[s] ELSE cfg[s]]

Load(file, env) == ApplyDefaults(Layered(file, env))

\* Fault in Validate: any positive interval will do.
ValidateLoosely(cfg) ==
    /\ cfg.ws_enabled => cfg.user_id # "" /\ cfg.user_session # ""
    /\ cfg.email_enabled => cfg.credentials_path # "" /\ cfg.token_path # ""
    /\ cfg.rss_enabled => cfg.check_interval > 0
    /\ cfg.pause_sleep >= 0 /\ cfg.max_backoff > 0

Validate(cfg) ==
    /\ cfg.ws_enabled => cfg.user_id # "" /\ cfg.user_session # ""
    /\ cfg.email_enabled => cfg.credentials_path # "" /\ cfg.token_path # ""
    /\ cfg.rss_enabled => cfg.check_interval >= MinCheckInterval
    /\ cfg.pause_sleep >= 0
    /\ cfg.max_backoff > 0

HasEnabledMonitors(cfg) ==
    cfg.ws_enabled \/ cfg.rss_enabled \/ cfg.email_enabled \/ cfg.website_enabled

\* What run of main.go hands to the ui.
Accepted(cfg) == Validate(cfg) /\ HasEnabledMonitors(cfg)
===============================================================================
