------------------------------ MODULE MCConfig ------------------------------
EXTENDS Config, TLC

\* What a user may write.  The values of the settings other ones copy are
\* told apart from "mine".
Mine(s) == CASE s = "secret" -> "app"
             [] s = "broadcast_key" -> "key"
             [] s = "enats_service_addr" -> "addr"
             [] s = "server_port" -> "port"
             [] OTHER -> "mine"

Lists == VarFlags \cup {"node_id"}

Written(s) ==
  {Mine(s), Defaults[s], "zero"} \ (IF s \in Lists THEN {"zero"} ELSE {})

\* The settings a user cannot write at all.
Computed == {"http_broadcast_secret_base", "rpc_secret_base",
             "disconnector_disabled", "metrics_log_interval", "presets"}

Nothing == <<>>
Maybe(s, V) == {Nothing} \cup [{s} -> V]

\* One setting, in the file, as a flag, in both or in none.
Single ==
  UNION {[file : Maybe(s, Written(s)),
          args : IF s \in DirectFlags \cup VarFlags
                 THEN Maybe(s, Written(s)) ELSE {Nothing}] :
           s \in Settings \ Computed}

Partial(S, V) == UNION {[T -> V] : T \in SUBSET S}

\* Every secret, the public mode and the deprecated key of the JWT.
SecretCases ==
  {[file |-> IF inFile THEN k @@ o ELSE Nothing,
    args |-> IF inFile THEN p ELSE k @@ o @@ p] :
     k \in Maybe("secret", {"app", "none"}),
     o \in Partial({"broadcast_key", "http_broadcast_secret", "jwt_secret",
                    "streams_secret"}, {"mine", "none"}),
     p \in {Nothing} \cup [{"public"} -> {"mine"}]
            \cup [{"jwt_id_key"} -> {"idkey"}],
     inFile \in BOOLEAN}

Together == {
  {"enats_cluster_addr", "enats_cluster_name"},
  {"metrics_statsd_host", "metrics_statsd_prefix"},
  {"enats_enabled", "enats_service_addr", "nats_servers"},
  {"logging_debug", "logging_level"},
  {"disconnector_disabled", "app_disconnect_mode"},
  {"server_port", "http_broadcast_port", "metrics_port", "secret"},
  {"metrics_rotate_interval", "metrics_log_interval"},
  {"server_port", "public", "http_broadcast_secret"}}

GroupCases ==
  UNION {UNION {{[file |-> Nothing, args |-> a] :
                   a \in {f \in [T -> {"zero", "mine", "app", "addr", "port"}] :
                            \A s \in T : f[s] \in {"zero", Mine(s)}}} :
                 T \in SUBSET G} : G \in Together}

DeprecatedCases ==
  {[file |-> Nothing, args |-> a] :
     a \in Partial(DeprecatedFlags, {"mine"})}

PresetSettings == {"server_host", "redis_url", "pubsub_adapter", "nats_servers",
                   "broadcast_adapters", "enats_enabled", "rpc_host"}

PresetCases ==
  {[file |-> Nothing, args |-> p @@ a] :
     p \in Maybe("presets", {"fly", "heroku", "broker", "none"}),
     a \in Partial(PresetSettings, {"mine"})}

MCCases == Single \cup SecretCases \cup GroupCases \cup DeprecatedCases
             \cup PresetCases

MCDeployments == {[platform |-> "zero", rpcApp |-> FALSE],
                  [platform |-> "fly", rpcApp |-> TRUE]}
=============================================================================
