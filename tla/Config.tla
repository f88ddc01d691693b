------------------------------- MODULE Config -------------------------------
(***************************************************************************)
(* How a configuration is put together and printed: the defaults of the    *)
(* structs, the TOML file, the flags (given on the command line or by the  *)
(* environment), the settling of the dependent settings                    *)
(* (cli/options.go), the presets (config/presets.go), and the file         *)
(* --print-config writes, with which a second process is started.          *)
(*                                                                         *)
(* A setting is named by its path in the TOML file.  Its value is "zero"   *)
(* (the zero value of its Go type), "default" (what NewConfig gives it),   *)
(* "mine" (anything else a user may write) or, where the code computes     *)
(* one, the name of what it is computed from.                              *)
(***************************************************************************)
CONSTANTS
  Cases,         \* the inputs: what the file and the flags may give together
  Deployments    \* the environments a process is deployed in

\* A row of a struct: the value NewConfig gives, and when ToToml writes the
\* setting as a line that is not a comment.
DA == [default |-> "default", printed |-> "always"]
DS == [default |-> "default", printed |-> "set"]
DN == [default |-> "default", printed |-> "gated"]
ZA == [default |-> "zero", printed |-> "always"]
ZS == [default |-> "zero", printed |-> "set"]
ZN == [default |-> "zero", printed |-> "never"]

\* config.Config: the top-level settings.  secret, broadcast_key and node_id
\* have rules of their own (Printed).
generalConfig ==
  [public |-> ZS, noauth |-> ZS, node_id |-> DN, secret |-> ZA,
   broadcast_key |-> ZS, broadcast_adapters |-> DA, pubsub_adapter |-> ZS,
   presets |-> ZS]

serverConfig ==
  [server_host |-> DA, server_port |-> DA, server_allowed_origins |-> ZA,
   server_max_conn |-> ZS, server_health_path |-> DA,
   server_ssl_cert_path |-> ZS, server_ssl_key_path |-> ZS]

loggerConfig ==
  [logging_level |-> DA, logging_format |-> DA, logging_debug |-> ZS]

brokerConfig ==
  [broker_adapter |-> ZS, broker_history_ttl |-> DA,
   broker_history_limit |-> DA, broker_sessions_ttl |-> DA,
   broker_presence_ttl |-> DA]

jwtConfig == [jwt_secret |-> ZA, jwt_param |-> DA, jwt_force |-> ZS]

streamsConfig ==
  [streams_secret |-> ZS, streams_public |-> ZS, streams_whisper |-> ZS,
   streams_presence |-> ZS, streams_pubsub_channel |-> DA,
   streams_turbo |-> ZS, streams_turbo_secret |-> ZS,
   streams_cable_ready |-> ZS, streams_cable_ready_secret |-> ZS]

wsConfig ==
  [ws_paths |-> DA, ws_read_buffer_size |-> DA, ws_write_buffer_size |-> DA,
   ws_max_message_size |-> DA, ws_enable_compression |-> ZS]

sseConfig == [sse_enabled |-> ZS, sse_path |-> DA]

redisConfig ==
  [redis_url |-> DA, redis_internal_channel |-> DA, redis_sentinels |-> ZA,
   redis_sentinel_discovery_interval |-> DA,
   redis_keepalive_ping_interval |-> DA, redis_tls_verify |-> ZS,
   redis_max_reconnect_attempts |-> DA, redis_disable_cache |-> ZS]

natsConfig ==
  [nats_servers |-> DA, nats_dont_randomize_servers |-> ZS,
   nats_max_reconnect_attempts |-> DA]

httpBroadcastConfig ==
  [http_broadcast_port |-> ZA, http_broadcast_path |-> DA,
   http_broadcast_secret |-> ZS, http_broadcast_secret_base |-> ZN,
   http_broadcast_cors_headers |-> ZS]

redisBroadcastConfig ==
  [redis_stream_broadcast_stream |-> DA, redis_stream_broadcast_group |-> DA,
   redis_stream_broadcast_read_block |-> DA]

legacyRedisConfig == [redis_pubsub_broadcast_channel |-> DA]
legacyNATSConfig == [nats_broadcast_channel |-> DA]
redisPubSubConfig == [redis_pubsub_channel |-> DA]
natsPubSubConfig == [nats_pubsub_channel |-> DA]

\* metrics.Config.ToToml writes the HTTP path under the key "http", which no
\* field of the struct has (its tag is http_path).
metricsConfig ==
  [metrics_http_path |-> ZN, metrics_host |-> ZS, metrics_port |-> ZS,
   metrics_log |-> ZS, metrics_rotate_interval |-> DA,
   metrics_log_interval |-> ZN, metrics_log_formatter |-> ZN,
   metrics_log_filter |-> ZS, metrics_tags |-> ZS,
   metrics_statsd_host |-> ZS, metrics_statsd_prefix |-> DN,
   metrics_statsd_tags_format |-> DN, metrics_statsd_max_packet_size |-> DN]

appConfig ==
  [app_ping_interval |-> DA, app_ping_timestamp_precision |-> DA,
   app_pong_timeout |-> ZS, app_disconnect_mode |-> DA,
   app_shutdown_timeout |-> DA, app_stats_refresh_interval |-> DA,
   app_broadcast_gopool_size |-> DA,
   app_shutdown_disconnect_gopool_size |-> DA]

disconnectorConfig ==
  [disconnector_rate |-> DA, disconnector_backlog |-> DA,
   disconnector_shutdown_timeout |-> ZN, disconnector_disabled |-> ZN]

enatsConfig ==
  [enats_enabled |-> ZS, enats_debug |-> ZS, enats_trace |-> ZS,
   enats_name |-> ZA, enats_service_addr |-> DA, enats_cluster_addr |-> ZS,
   enats_cluster_name |-> DN, enats_gateway_addr |-> ZS,
   enats_gateway_advertise |-> ZS, enats_gateways |-> ZS,
   enats_routes |-> ZS, enats_jetstream |-> ZS, enats_store_dir |-> ZS,
   enats_jetstream_ready_timeout |-> DN]

\* rpc.Config.ToToml writes tls_root_ca_path when it is empty and comments it
\* out when it is not, and comments tls_verify out when it is false.
rpcConfig ==
  [rpc_implementation |-> ZA, rpc_host |-> DA, rpc_proxy_headers |-> DS,
   rpc_proxy_cookies |-> ZS, rpc_concurrency |-> DA, rpc_enable_tls |-> ZS,
   rpc_tls_verify |-> DS,
   rpc_tls_root_ca_path |-> [default |-> "zero", printed |-> "unset"],
   rpc_secret |-> ZS, rpc_secret_base |-> ZN,
   rpc_http_request_timeout |-> DA, rpc_max_recv_size |-> ZA,
   rpc_max_send_size |-> ZA]

\* the structs of Config
Structs ==
  {generalConfig, serverConfig, loggerConfig, brokerConfig, jwtConfig,
   streamsConfig, wsConfig, sseConfig, redisConfig, natsConfig,
   httpBroadcastConfig, redisBroadcastConfig, legacyRedisConfig,
   legacyNATSConfig, redisPubSubConfig, natsPubSubConfig, metricsConfig,
   appConfig, disconnectorConfig, enatsConfig, rpcConfig}

Settings == UNION {DOMAIN t : t \in Structs}

\* the default of a setting is that of the one struct it is a field of
NewConfig == [s \in Settings |-> (CHOOSE t \in Structs : s \in DOMAIN t)[s]]
-----------------------------------------------------------------------------
(***************************************************************************)
(* The flags.  withDefaults gives a flag with a destination an action that *)
(* writes the destination only when the flag was given, after the file was *)
(* loaded; its Value, written at definition, is the default of the struct. *)
(* The flags of VarFlags write a local variable that NewConfigFromCLI      *)
(* copies later, and the deprecated ones have names of their own.          *)
(***************************************************************************)
serverCLIFlags ==
  {"server_host", "server_port", "server_allowed_origins", "secret",
   "broadcast_key", "public", "noauth", "server_max_conn",
   "server_health_path", "app_shutdown_timeout",
   "app_shutdown_disconnect_gopool_size", "node_id"}

sslCLIFlags == {"server_ssl_cert_path", "server_ssl_key_path"}

broadcastCLIFlags ==
  {"broker_adapter", "pubsub_adapter", "redis_pubsub_broadcast_channel",
   "nats_broadcast_channel", "app_broadcast_gopool_size"}

brokerCLIFlags ==
  {"broker_history_limit", "broker_history_ttl", "broker_sessions_ttl",
   "broker_presence_ttl"}

redisCLIFlags ==
  {"redis_url", "redis_sentinels", "redis_sentinel_discovery_interval",
   "redis_keepalive_ping_interval", "redis_tls_verify",
   "redis_disable_cache"}

httpBroadcastCLIFlags ==
  {"http_broadcast_port", "http_broadcast_path", "http_broadcast_secret",
   "http_broadcast_cors_headers"}

natsCLIFlags == {"nats_servers", "nats_dont_randomize_servers"}

embeddedNatsCLIFlags ==
  {"enats_enabled", "enats_service_addr", "enats_cluster_addr",
   "enats_cluster_name", "enats_gateway_addr", "enats_gateway_advertise",
   "enats_store_dir", "enats_name", "enats_debug", "enats_trace"}

rpcCLIFlags ==
  {"rpc_host", "rpc_concurrency", "rpc_enable_tls", "rpc_tls_verify",
   "rpc_tls_root_ca_path", "rpc_max_recv_size", "rpc_max_send_size",
   "rpc_implementation", "rpc_secret", "rpc_http_request_timeout"}

disconnectorCLIFlags ==
  {"app_disconnect_mode", "disconnector_rate", "disconnector_backlog",
   "disconnector_shutdown_timeout", "disconnector_disabled"}

logCLIFlags == {"logging_level", "logging_format", "logging_debug"}

metricsCLIFlags ==
  {"metrics_log", "metrics_rotate_interval", "metrics_log_interval",
   "metrics_log_formatter", "metrics_http_path", "metrics_host",
   "metrics_port", "app_stats_refresh_interval"}

wsCLIFlags ==
  {"ws_read_buffer_size", "ws_write_buffer_size", "ws_max_message_size",
   "ws_enable_compression"}

pingCLIFlags ==
  {"app_ping_interval", "app_ping_timestamp_precision", "app_pong_timeout"}

jwtCLIFlags == {"jwt_secret", "jwt_param", "jwt_force"}

signedStreamsCLIFlags ==
  {"streams_secret", "streams_public", "streams_whisper", "streams_turbo",
   "streams_cable_ready", "streams_turbo_secret",
   "streams_cable_ready_secret"}

statsdCLIFlags ==
  {"metrics_statsd_host", "metrics_statsd_prefix",
   "metrics_statsd_max_packet_size", "metrics_statsd_tags_format"}

sseCLIFlags == {"sse_enabled", "sse_path"}

DirectFlags ==
  UNION {serverCLIFlags, sslCLIFlags, broadcastCLIFlags, brokerCLIFlags,
         redisCLIFlags, httpBroadcastCLIFlags, natsCLIFlags,
         embeddedNatsCLIFlags, rpcCLIFlags, disconnectorCLIFlags,
         logCLIFlags, metricsCLIFlags, wsCLIFlags, pingCLIFlags, jwtCLIFlags,
         signedStreamsCLIFlags, statsdCLIFlags, sseCLIFlags}

\* path and headers have a non-empty Value; the others have none.
VarFlags ==
  {"broadcast_adapters", "ws_paths", "rpc_proxy_headers", "rpc_proxy_cookies",
   "metrics_tags", "metrics_log_filter", "enats_routes", "enats_gateways",
   "presets"}

DeprecatedFlags ==
  {"turbo_rails_key", "cable_ready_key", "jwt_id_key", "jwt_id_param",
   "jwt_id_enforce", "norpc"}

Flags == DirectFlags \cup VarFlags \cup DeprecatedFlags

\* What a user may write: in the file, every setting but the two SecretBase,
\* which have no key of their own (ToToml writes none) and are filled from the
\* secret; on the command line, the flags.  A switch is off or on.
CanWrite(f, g) ==
  /\ DOMAIN f \subseteq Settings \ {"http_broadcast_secret_base", "rpc_secret_base"}
  /\ DOMAIN g \subseteq Flags
  /\ "enats_enabled" \in DOMAIN f => f.enats_enabled \in {"zero", "mine"}
  /\ "enats_enabled" \in DOMAIN g => g.enats_enabled \in {"zero", "mine"}

ASSUME ConfigAssumption == \A c \in Cases : CanWrite(c.file, c.args)

VARIABLES
  stage,   \* where the start of the process is
  conf,    \* the Config: setting -> value
  file,    \* the settings of the TOML file (a partial function)
  args,    \* the flags given (a partial function)
  env,     \* the deployment
  first    \* what the first process printed itself from; <<>> until it did

cvars == <<stage, conf, file, args, env, first>>

Defaults == [s \in Settings |-> NewConfig[s].default]

CInit ==
  /\ stage = "start"
  /\ conf = Defaults
  /\ \E c \in Cases : file = c.file /\ args = c.args
  /\ env \in Deployments
  /\ first = <<>>

\* the values of f where it has one, and those of g elsewhere
Over(f, g) ==
  [s \in DOMAIN f \cup DOMAIN g |-> IF s \in DOMAIN f THEN f[s] ELSE g[s]]

Given(f) == f \in DOMAIN args

Picked(f, S) == [s \in S \cap DOMAIN f |-> f[s]]

\* app.Run: Before loads the file over the defaults.
LoadFromFile ==
  /\ stage = "start"
  /\ conf' = Over(file, conf)
  /\ stage' = "loaded"
  /\ UNCHANGED <<file, args, env, first>>

\* mutant: the file wins over the flags
FlagActions_FileWins ==
  /\ stage = "loaded"
  /\ conf' = Over(Picked(args, DirectFlags \ DOMAIN file), conf)
  /\ stage' = "flagged"
  /\ UNCHANGED <<file, args, env, first>>

\* app.Run: the actions of the flags that were given.
FlagActions ==
  /\ stage = "loaded"
  /\ conf' = Over(Picked(args, DirectFlags), conf)
  /\ stage' = "flagged"
  /\ UNCHANGED <<file, args, env, first>>

\* NewConfigFromCLI, after app.Run: the variables of the flags are copied,
\* an empty one only for the headers and the paths, whose flags have a Value.
FromVariables(c) ==
  [s \in Settings |->
     IF s \in VarFlags /\ Given(s) THEN args[s]
     ELSE IF s \in {"ws_paths", "rpc_proxy_headers"} THEN "default" ELSE c[s]]

\* Settings that follow from others.
Dependent(c) ==
  [c EXCEPT
     !.logging_level = IF c.logging_debug # "zero" THEN "debug" ELSE @,
     !.metrics_port = IF @ = "zero" THEN c.server_port ELSE @,
     !.metrics_rotate_interval =
         IF @ = "zero" THEN c.metrics_log_interval ELSE @,
     !.nats_servers = IF c.enats_enabled # "zero" /\ @ = "default"
                      THEN c.enats_service_addr ELSE @,
     !.app_disconnect_mode =
         IF c.disconnector_disabled # "zero" THEN "never" ELSE @]

\* The deprecated flags.  jwt_id_param is used only when jwt.param is empty.
Deprecated(c) ==
  [c EXCEPT
     !.streams_turbo_secret =
         IF Given("turbo_rails_key") THEN args.turbo_rails_key ELSE @,
     !.streams_turbo = IF Given("turbo_rails_key") THEN "mine" ELSE @,
     !.streams_cable_ready_secret =
         IF Given("cable_ready_key") THEN args.cable_ready_key ELSE @,
     !.streams_cable_ready = IF Given("cable_ready_key") THEN "mine" ELSE @,
     !.jwt_secret =
         IF Given("jwt_id_key") /\ @ = "zero" THEN args.jwt_id_key ELSE @,
     !.jwt_param =
         IF Given("jwt_id_param") /\ @ = "zero" THEN args.jwt_id_param ELSE @,
     !.jwt_force = IF Given("jwt_id_enforce") THEN "mine" ELSE @,
     !.rpc_implementation = IF Given("norpc") THEN "none" ELSE @]

\* mutant: the application secret is used before the broadcast key
FallbackSecrets_KeyLast(c) ==
  [c EXCEPT
     !.streams_secret = IF @ = "zero" THEN c.secret ELSE @,
     !.jwt_secret = IF @ = "zero" THEN c.secret ELSE @,
     !.http_broadcast_secret_base =
         IF c.http_broadcast_secret = "zero" THEN c.secret ELSE @,
     !.rpc_secret_base = IF c.rpc_secret = "zero" THEN c.secret ELSE @,
     !.http_broadcast_secret = IF @ = "zero" THEN c.broadcast_key ELSE @]

\* The broadcast key stands in for the HTTP secret, then the application
\* secret for every secret that is still empty.
FallbackSecrets(c) ==
  LET k == [c EXCEPT !.http_broadcast_secret =
                         IF @ = "zero" THEN c.broadcast_key ELSE @]
  IN  IF k.secret = "zero" THEN k ELSE
      [k EXCEPT
         !.streams_secret = IF @ = "zero" THEN k.secret ELSE @,
         !.jwt_secret = IF @ = "zero" THEN k.secret ELSE @,
         !.http_broadcast_secret_base =
             IF k.http_broadcast_secret = "zero" THEN k.secret ELSE @,
         !.rpc_secret_base = IF k.rpc_secret = "zero" THEN k.secret ELSE @]

Secrets == {"secret", "streams_secret", "jwt_secret", "rpc_secret",
            "http_broadcast_secret"}

NullifySecrets(c) ==
  [s \in Settings |->
     IF s \in Secrets /\ c[s] = "none" THEN "zero" ELSE c[s]]

IsSecured(c) ==
  c.http_broadcast_secret # "zero" \/ c.http_broadcast_secret_base # "zero"

DefaultHTTPPort(c) ==
  [c EXCEPT !.http_broadcast_port =
     IF @ # "zero" THEN @ ELSE IF IsSecured(c) THEN c.server_port ELSE "8090"]

ApplyPublicMode(c) ==
  IF c.public = "zero" THEN c ELSE
  [c EXCEPT !.noauth = "mine", !.streams_public = "mine",
            !.http_broadcast_secret = "zero",
            !.http_broadcast_secret_base = "zero"]

Settle ==
  /\ stage = "flagged"
  /\ conf' = ApplyPublicMode(DefaultHTTPPort(NullifySecrets(FallbackSecrets(
               Deprecated(Dependent(FromVariables(conf)))))))
  /\ stage' = "ready"
  /\ UNCHANGED <<file, args, env, first>>

-----------------------------------------------------------------------------
\* The presets replace what still has the value NewConfig gives it.
Untouched(c, s) == c[s] = Defaults[s]

Preset(c, s, v) == IF Untouched(c, s) THEN v ELSE c[s]

RedisEnabled(c) == ~Untouched(c, "redis_url")

\* The fly preset; the port is never 0 here, so it is left alone.
loadFlyPreset(c) ==
  LET addr == Preset(c, "enats_service_addr", "fly")
      embed == /\ Untouched(c, "pubsub_adapter")
               /\ ~RedisEnabled(c)
               /\ c.enats_enabled = "zero" \/ Untouched(c, "nats_servers")
  IN  [c EXCEPT
         !.server_host = Preset(c, "server_host", "fly"),
         !.http_broadcast_port =
             Preset(c, "http_broadcast_port", c.server_port),
         !.enats_name = Preset(c, "enats_name", "fly"),
         !.enats_service_addr = addr,
         !.enats_cluster_addr = Preset(c, "enats_cluster_addr", "fly"),
         !.enats_cluster_name = Preset(c, "enats_cluster_name", "fly"),
         !.enats_routes = Preset(c, "enats_routes", "fly"),
         !.enats_gateway_advertise =
             Preset(c, "enats_gateway_advertise", "fly"),
         !.pubsub_adapter = Preset(c, "pubsub_adapter",
                              IF RedisEnabled(c) THEN "redis" ELSE "nats"),
         !.enats_enabled = IF embed THEN "mine" ELSE @,
         !.nats_servers = IF embed THEN addr ELSE @,
         !.broadcast_adapters =
             IF embed THEN "http,nats"
             ELSE IF RedisEnabled(c) THEN @
             ELSE Preset(c, "broadcast_adapters", "http"),
         !.rpc_host = IF env.rpcApp THEN Preset(c, "rpc_host", "fly") ELSE @]

loadHerokuPreset(c) ==
  [c EXCEPT !.server_host = Preset(c, "server_host", "heroku"),
            !.http_broadcast_port =
                Preset(c, "http_broadcast_port", "heroku")]

loadBrokerPreset(c) ==
  LET enats == c.enats_enabled # "zero"
  IN  [c EXCEPT
         !.broker_adapter =
             Preset(c, "broker_adapter", IF enats THEN "nats" ELSE "memory"),
         !.broadcast_adapters =
             Preset(c, "broadcast_adapters",
                    IF enats THEN "http,nats"
                    ELSE IF RedisEnabled(c) THEN "http,redisx,redis"
                    ELSE "http"),
         !.pubsub_adapter =
             Preset(c, "pubsub_adapter",
                    IF enats THEN "nats"
                    ELSE IF RedisEnabled(c) THEN "redis" ELSE "zero")]

\* The user's preset, or the one the environment is recognized by.
Presets(c) == IF c.presets # "zero" THEN c.presets ELSE env.platform

\* The fly preset fails outside of Fly, where its variables are not set.
LoadPresets ==
  /\ stage = "ready"
  /\ first = <<>>
  /\ LET p == Presets(conf)
     IN  IF p = "fly" /\ env.platform # "fly"
         THEN stage' = "failed" /\ UNCHANGED conf
         ELSE /\ stage' = "running"
              /\ conf' = CASE p = "fly" -> loadFlyPreset(conf)
                           [] p = "heroku" -> loadHerokuPreset(conf)
                           [] p = "broker" -> loadBrokerPreset(conf)
                           [] OTHER -> conf
  /\ first' = conf
  /\ UNCHANGED <<file, args, env>>

-----------------------------------------------------------------------------
\* The setting that lets a gated one be written: cluster_name only with a
\* cluster address, the JetStream timeout with JetStream, StatsD's with a host,
\* and the node id when it is not generated.
Gate(s) ==
  CASE s = "enats_cluster_name" -> "enats_cluster_addr"
    [] s = "enats_jetstream_ready_timeout" -> "enats_jetstream"
    [] s = "node_id" -> "node_id"
    [] OTHER -> "metrics_statsd_host"

\* mutant: zero values are never written
Writes_NonZero(c, s) == NewConfig[s].printed # "never" /\ c[s] # "zero"

Writes(c, s) ==
  LET when == NewConfig[s].printed
  IN  \/ when = "always"
      \/ when = "set" /\ c[s] # "zero"
      \/ when = "unset" /\ c[s] = "zero"
      \/ /\ when = "gated" /\ ~Untouched(c, Gate(s))
         /\ s = "enats_cluster_name" => c[s] # "zero"

\* An empty secret is written as "none", and so is an empty broadcast key
\* unless it follows from the secret.
ToToml(c) ==
  LET plain == {s \in Settings : Writes(c, s)}
      key == IF c.broadcast_key = "zero" /\ c.secret = "zero"
             THEN {"broadcast_key"} ELSE {}
  IN  [s \in plain \cup key |->
         IF s \in {"secret", "broadcast_key"} /\ c[s] = "zero"
         THEN "none" ELSE c[s]]

\* A process started with --print-config, and one started from what it wrote.
PrintConfig ==
  /\ stage = "ready"
  /\ first = <<>>
  /\ first' = conf
  /\ file' = ToToml(conf)
  /\ args' = <<>>
  /\ conf' = Defaults
  /\ stage' = "start"
  /\ UNCHANGED env

CNext ==
  LoadFromFile \/ FlagActions \/ Settle \/ LoadPresets \/ PrintConfig

CSpec == CInit /\ [][CNext]_cvars
-----------------------------------------------------------------------------
\* What the user wrote for a setting: the flag, or else the file.
Explicit(s) == Given(s) \/ s \in DOMAIN file

Provided(s) == IF Given(s) THEN args[s]
               ELSE IF s \in DOMAIN file THEN file[s] ELSE Defaults[s]

\* Settings another one may replace (Dependent, Deprecated, the secrets and
\* the public mode); the value of the file for two lists is always lost.
Replaceable ==
  Secrets \cup
  {"logging_level", "metrics_port", "metrics_rotate_interval", "nats_servers",
   "app_disconnect_mode", "streams_turbo", "streams_turbo_secret",
   "streams_cable_ready", "streams_cable_ready_secret", "jwt_force",
   "jwt_param", "rpc_implementation", "http_broadcast_port",
   "http_broadcast_secret_base", "rpc_secret_base", "noauth",
   "streams_public"}

LostFromFile == {"ws_paths", "rpc_proxy_headers"}

Started == stage = "ready" /\ first = <<>>

\* A flag wins over the file and the file over the default, for every setting
\* that no other one replaces and however the setting is carried from its
\* source to the Config (a destination, a variable, the file alone), except
\* that ws.paths and rpc.proxy_headers of the file are overwritten by the
\* Value of their flags.
SourcesInOrder ==
  Started =>
    \A s \in Settings \ Replaceable :
      conf[s] = Provided(s) \/ (s \in LostFromFile /\ ~Given(s))

\* the secret that follows from a part's own one and the application's
Effective(own) ==
  IF own = "zero" THEN Provided("secret")
  ELSE IF own = "none" THEN "zero" ELSE own

\* The secret a part of the server uses: its own one, unless that is "none",
\* or else the application's; the HTTP broadcaster also takes the broadcast
\* key, and in the public mode it takes none.  The application secret "none"
\* is left out: it secures HTTP broadcasts and RPC with a key made from the
\* word "none".
SecretsResolve ==
  Started /\ Provided("secret") # "none" /\ ~Given("jwt_id_key") =>
    LET key == IF Provided("http_broadcast_secret") # "zero"
               THEN Provided("http_broadcast_secret")
               ELSE Provided("broadcast_key")
    IN  /\ conf.jwt_secret = Effective(Provided("jwt_secret"))
        /\ conf.streams_secret = Effective(Provided("streams_secret"))
        /\ IsSecured(conf) <=> /\ Effective(key) # "zero"
                               /\ conf.public = "zero"

\* Settings --print-config does not carry over: written under another name or
\* not at all, or commented out when they differ from the default.
NotPrinted ==
  LostFromFile \cup
  {"metrics_http_path", "metrics_log_interval", "metrics_log_formatter",
   "disconnector_shutdown_timeout", "disconnector_disabled",
   "rpc_tls_root_ca_path", "rpc_tls_verify", "enats_cluster_name",
   "enats_jetstream_ready_timeout", "metrics_statsd_prefix",
   "metrics_statsd_tags_format", "metrics_statsd_max_packet_size"}

\* Settings derived again from the secrets that were written.
DerivedSecrets ==
  {"broadcast_key", "streams_secret", "jwt_secret", "http_broadcast_secret",
   "http_broadcast_secret_base", "rpc_secret_base"}

\* A process started from what --print-config wrote has the configuration of
\* the process that wrote it, whatever the flags, the file and the deprecated
\* options it was put together from, but for the settings of NotPrinted.  A
\* secret in use stays the same; only one that was switched off may come back.
\* With the server port 0, the port of HTTP broadcasts may be settled anew: it
\* depends on a secret that the public mode has removed by the time of printing.
PrintedConfigLoads ==
  stage = "ready" /\ first # <<>> =>
    \A s \in Settings \ NotPrinted :
      \/ conf[s] = first[s]
      \/ s \in DerivedSecrets /\ first[s] \in {"zero", "none"}
      \/ s = "http_broadcast_port" /\ first.server_port = "zero"

\* "Presets do not override explicitly provided configuration values"
\* (docs/configuration.md:154): a preset leaves alone what the user wrote,
\* by the file or by a flag.  It cannot tell the default written out from
\* nothing written, and the fly preset overwrites the broadcast adapters and
\* the NATS servers when it embeds NATS.
PresetsKeepExplicit ==
  stage = "running" =>
    \A s \in Settings :
      Explicit(s) /\ ~Untouched(first, s) =>
        \/ conf[s] = first[s]
        \/ /\ s \in {"broadcast_adapters", "nats_servers"}
           /\ Presets(first) = "fly" /\ conf.pubsub_adapter = "nats"

\* The configuration comes from its sources in the documented order.
Precedence == SourcesInOrder /\ PresetsKeepExplicit
=============================================================================
