---------------------------- MODULE ConfigProofs ----------------------------
(***************************************************************************)
(* The precedence of the sources of the configuration, the secrets that    *)
(* follow from it, and the configuration read back from what               *)
(* --print-config wrote, for every file and all flags that can be given.   *)
(*                                                                         *)
(* NewConfigFromCLI is a chain of functions on the configuration. Each     *)
(* lemma says which settings one of them replaces (SameBut), so that the   *)
(* others are followed from their source to the Config; the secrets, which *)
(* several of them rewrite in turn, are followed through each of them.     *)
(*                                                                         *)
(* A configuration that has been through the chain is IsSettled: the chain *)
(* would change nothing in it. The printed file leaves out what is empty   *)
(* or cannot be written, and what it leaves out the chain finds again.     *)
(***************************************************************************)
EXTENDS Config, TLAPS

\* a value for every setting
IsConf(c) == DOMAIN c = Settings

\* c and d agree but for the settings of S
SameBut(c, d, S) == \A s \in Settings \ S : d[s] = c[s]

\* the settings that secure something
SecretSettings ==
  {"secret", "broadcast_key", "public", "jwt_secret", "streams_secret",
   "http_broadcast_secret", "http_broadcast_secret_base"}

\* The dependent settings replace five.
LEMMA DependentKeeps ==
  ASSUME NEW c, IsConf(c)
  PROVE  /\ IsConf(Dependent(c))
         /\ SameBut(c, Dependent(c),
              {"logging_level", "metrics_port", "metrics_rotate_interval",
               "nats_servers", "app_disconnect_mode"})
BY Zenon DEF IsConf, Dependent, SameBut

\* The deprecated flags replace eight.  Of the secrets, only jwt.secret is one,
\* and only when its deprecated flag is given.
LEMMA DeprecatedKeeps ==
  ASSUME NEW c, IsConf(c)
  PROVE  /\ IsConf(Deprecated(c))
         /\ SameBut(c, Deprecated(c),
              {"streams_turbo", "streams_turbo_secret", "streams_cable_ready",
               "streams_cable_ready_secret", "jwt_secret", "jwt_param", "jwt_force",
               "rpc_implementation"})
         /\ ~Given("jwt_id_key") => Deprecated(c).jwt_secret = c.jwt_secret
<1>1. IsConf(Deprecated(c))
  BY Zenon DEF IsConf, Deprecated
<1>2. SameBut(c, Deprecated(c),
              {"streams_turbo", "streams_turbo_secret", "streams_cable_ready",
               "streams_cable_ready_secret", "jwt_secret", "jwt_param", "jwt_force",
               "rpc_implementation"})
  BY Zenon DEF IsConf, Deprecated, SameBut
<1>3. ~Given("jwt_id_key") => Deprecated(c).jwt_secret = c.jwt_secret
  BY DEF IsConf, Deprecated
<1> QED  BY <1>1, <1>2, <1>3, Zenon

\* The fallbacks replace secrets and the bases secrets are made from.
LEMMA FallbackKeeps ==
  ASSUME NEW c, IsConf(c)
  PROVE  /\ IsConf(FallbackSecrets(c))
         /\ SameBut(c, FallbackSecrets(c),
              {"streams_secret", "jwt_secret", "http_broadcast_secret",
               "http_broadcast_secret_base", "rpc_secret_base"})
<1> DEFINE k == [c EXCEPT !.http_broadcast_secret = IF @ = "zero" THEN c.broadcast_key ELSE @]
<1>1. IsConf(k) /\ SameBut(c, k, {"http_broadcast_secret"})
  BY Zenon DEF IsConf, SameBut
<1>2. FallbackSecrets(c) = IF k.secret = "zero" THEN k ELSE
      [k EXCEPT
         !.streams_secret = IF @ = "zero" THEN k.secret ELSE @,
         !.jwt_secret = IF @ = "zero" THEN k.secret ELSE @,
         !.http_broadcast_secret_base =
             IF k.http_broadcast_secret = "zero" THEN k.secret ELSE @,
         !.rpc_secret_base = IF k.rpc_secret = "zero" THEN k.secret ELSE @]
  BY Zenon DEF FallbackSecrets
<1> HIDE DEF k
<1>3. IsConf(FallbackSecrets(c))
  BY <1>1, <1>2, Zenon DEF IsConf
<1>4. SameBut(k, FallbackSecrets(c),
              {"streams_secret", "jwt_secret", "http_broadcast_secret_base", "rpc_secret_base"})
  BY <1>1, <1>2, Zenon DEF IsConf, SameBut
<1> QED  BY <1>1, <1>3, <1>4, Zenon DEF SameBut

\* The secrets that are "none" are emptied, and nothing else.
LEMMA NullifyKeeps ==
  ASSUME NEW c, IsConf(c)
  PROVE  /\ IsConf(NullifySecrets(c))
         /\ SameBut(c, NullifySecrets(c), Secrets)
BY Zenon DEF IsConf, NullifySecrets, SameBut

\* The default port of the HTTP broadcaster.
LEMMA PortKeeps ==
  ASSUME NEW c, IsConf(c)
  PROVE  /\ IsConf(DefaultHTTPPort(c))
         /\ SameBut(c, DefaultHTTPPort(c), {"http_broadcast_port"})
BY Zenon DEF IsConf, DefaultHTTPPort, SameBut

\* The public mode replaces two switches and what secures HTTP broadcasts.
LEMMA PublicKeeps ==
  ASSUME NEW c, IsConf(c)
  PROVE  /\ IsConf(ApplyPublicMode(c))
         /\ SameBut(c, ApplyPublicMode(c),
              {"noauth", "streams_public", "http_broadcast_secret",
               "http_broadcast_secret_base"})
BY Zenon DEF IsConf, ApplyPublicMode, SameBut

\* the settings the argument names
Named ==
  {"secret", "broadcast_key", "public", "pubsub_adapter", "broadcast_adapters", "noauth",
   "node_id", "server_port", "logging_level", "logging_debug", "jwt_secret", "jwt_force",
   "jwt_param", "streams_secret", "streams_public", "streams_turbo", "streams_turbo_secret",
   "streams_cable_ready", "streams_cable_ready_secret", "redis_url", "nats_servers",
   "http_broadcast_port", "http_broadcast_secret", "http_broadcast_secret_base",
   "metrics_port", "metrics_rotate_interval", "metrics_log_interval", "app_disconnect_mode",
   "disconnector_disabled", "enats_enabled", "enats_service_addr", "rpc_implementation",
   "rpc_host", "rpc_secret", "rpc_secret_base"}

\* They are settings.
LEMMA NamedSettings == Named \subseteq Settings
<1>1. ASSUME NEW t \in Structs PROVE DOMAIN t \subseteq Settings
  BY Zenon DEF Settings
<1> DEFINE some == {generalConfig, serverConfig, loggerConfig, jwtConfig, streamsConfig,
                    redisConfig, natsConfig, httpBroadcastConfig, metricsConfig, appConfig,
                    disconnectorConfig, enatsConfig, rpcConfig}
<1>2. ASSUME NEW t \in some PROVE DOMAIN t \subseteq Settings
  BY <1>1, Zenon DEF Structs
<1>3. ASSUME NEW s \in Named PROVE \E t \in some : s \in DOMAIN t
  BY DEF Named, generalConfig, serverConfig, loggerConfig, jwtConfig, streamsConfig,
     redisConfig, natsConfig, httpBroadcastConfig, metricsConfig, appConfig,
     disconnectorConfig, enatsConfig, rpcConfig
<1> QED  BY <1>2, <1>3, Zenon

\* the settings that are filled from the application secret only
SecretBases == {"http_broadcast_secret_base", "rpc_secret_base"}

\* What the argument needs of the row r of a setting s.  A setting that is
\* carried over by the printed file is written always, or unless it is empty
\* and empty by default.
RowOK(s, r) ==
  /\ s \notin DeprecatedFlags
  /\ s \in SecretBases \cup {"metrics_log_interval", "disconnector_disabled"} => r = ZN
  /\ s \in {"broadcast_key", "enats_enabled"} => r = ZS
  /\ s = "node_id" => r = DN
  /\ s \notin NotPrinted \cup SecretBases \cup {"node_id"} => r \in {DA, ZA, ZS}

\* The table of the settings is as required, struct by struct.
LEMMA StructRows ==
  ASSUME NEW t \in Structs, NEW s \in DOMAIN t
  PROVE  RowOK(s, t[s])
<1> USE DEF RowOK, DeprecatedFlags, NotPrinted, LostFromFile, SecretBases
<1>1. CASE t = generalConfig
  BY <1>1 DEF generalConfig
<1>2. CASE t = serverConfig
  BY <1>2 DEF serverConfig
<1>3. CASE t = loggerConfig
  BY <1>3 DEF loggerConfig
<1>4. CASE t = brokerConfig
  BY <1>4 DEF brokerConfig
<1>5. CASE t = jwtConfig
  BY <1>5 DEF jwtConfig
<1>6. CASE t = streamsConfig
  BY <1>6 DEF streamsConfig
<1>7. CASE t = wsConfig
  BY <1>7 DEF wsConfig
<1>8. CASE t = sseConfig
  BY <1>8 DEF sseConfig
<1>9. CASE t = redisConfig
  BY <1>9 DEF redisConfig
<1>10. CASE t = natsConfig
  BY <1>10 DEF natsConfig
<1>11. CASE t = httpBroadcastConfig
  BY <1>11 DEF httpBroadcastConfig
<1>12. CASE t = redisBroadcastConfig
  BY <1>12 DEF redisBroadcastConfig
<1>13. CASE t = legacyRedisConfig
  BY <1>13 DEF legacyRedisConfig
<1>14. CASE t = legacyNATSConfig
  BY <1>14 DEF legacyNATSConfig
<1>15. CASE t = redisPubSubConfig
  BY <1>15 DEF redisPubSubConfig
<1>16. CASE t = natsPubSubConfig
  BY <1>16 DEF natsPubSubConfig
<1>17. CASE t = metricsConfig
  BY <1>17 DEF metricsConfig
<1>18. CASE t = appConfig
  BY <1>18 DEF appConfig
<1>19. CASE t = disconnectorConfig
  BY <1>19 DEF disconnectorConfig
<1>20. CASE t = enatsConfig
  BY <1>20 DEF enatsConfig
<1>21. CASE t = rpcConfig
  BY <1>21 DEF rpcConfig
<1> QED
  BY <1>1, <1>2, <1>3, <1>4, <1>5, <1>6, <1>7, <1>8, <1>9, <1>10, <1>11, <1>12, <1>13,
     <1>14, <1>15, <1>16, <1>17, <1>18, <1>19, <1>20, <1>21, Zenon
  DEF Structs

\* So it is for every setting, whichever struct has it.
LEMMA Rows ==
  ASSUME NEW s \in Settings
  PROVE  RowOK(s, NewConfig[s])
<1> DEFINE t == CHOOSE r \in Structs : s \in DOMAIN r
<1>1. t \in Structs /\ s \in DOMAIN t
  BY Zenon DEF Settings
<1>2. NewConfig[s] = t[s]
  BY Zenon DEF NewConfig
<1> QED  BY <1>1, <1>2, StructRows, Zenon

\* The defaults the argument needs.
LEMMA EmptyDefaults ==
  ASSUME NEW s \in SecretBases \cup {"metrics_log_interval", "disconnector_disabled",
                                    "broadcast_key", "enats_enabled"}
  PROVE  Defaults[s] = "zero"
<1>1. s \in Settings
  BY NamedSettings, Zenon DEF Named, SecretBases
<1>2. NewConfig[s] \in {ZN, ZS}
  BY <1>1, Rows, Zenon DEF RowOK
<1> QED  BY <1>1, <1>2 DEF Defaults, ZN, ZS

\* the defaults, the file over them and the flags over both
Flagged == Over(Picked(args, DirectFlags), Over(file, Defaults))

\* what NewConfigFromCLI makes of it
Settled(c) ==
  ApplyPublicMode(DefaultHTTPPort(NullifySecrets(FallbackSecrets(
    Deprecated(Dependent(FromVariables(c)))))))

\* What the secrets fall back to.
LEMMA FallbackIs ==
  ASSUME NEW c, IsConf(c), NEW d, d = FallbackSecrets(c)
  PROVE  /\ d["http_broadcast_secret"] = IF c["http_broadcast_secret"] = "zero"
                                         THEN c["broadcast_key"] ELSE c["http_broadcast_secret"]
         /\ d["streams_secret"] = IF c["streams_secret"] = "zero" THEN c["secret"]
                                                                  ELSE c["streams_secret"]
         /\ d["jwt_secret"] = IF c["jwt_secret"] = "zero" THEN c["secret"] ELSE c["jwt_secret"]
         /\ d["http_broadcast_secret_base"] =
              IF d["http_broadcast_secret"] = "zero" /\ c["secret"] # "zero"
              THEN c["secret"] ELSE c["http_broadcast_secret_base"]
         /\ d["rpc_secret_base"] = IF c["rpc_secret"] = "zero" /\ c["secret"] # "zero"
                                   THEN c["secret"] ELSE c["rpc_secret_base"]
<1> USE NamedSettings DEF Named
<1> DEFINE k == [c EXCEPT !.http_broadcast_secret = IF @ = "zero" THEN c.broadcast_key ELSE @]
<1>1. /\ DOMAIN k = Settings
      /\ k["http_broadcast_secret"] = IF c["http_broadcast_secret"] = "zero"
                                      THEN c["broadcast_key"] ELSE c["http_broadcast_secret"]
      /\ \A s \in Settings \ {"http_broadcast_secret"} : k[s] = c[s]
  BY Zenon DEF IsConf
<1>2. d = IF k.secret = "zero" THEN k ELSE
      [k EXCEPT
         !.streams_secret = IF @ = "zero" THEN k.secret ELSE @,
         !.jwt_secret = IF @ = "zero" THEN k.secret ELSE @,
         !.http_broadcast_secret_base =
             IF k.http_broadcast_secret = "zero" THEN k.secret ELSE @,
         !.rpc_secret_base = IF k.rpc_secret = "zero" THEN k.secret ELSE @]
  BY Zenon DEF FallbackSecrets
<1> HIDE DEF k
<1>3. /\ k["secret"] = c["secret"] /\ k["jwt_secret"] = c["jwt_secret"]
      /\ k["streams_secret"] = c["streams_secret"] /\ k["rpc_secret"] = c["rpc_secret"]
      /\ k["http_broadcast_secret_base"] = c["http_broadcast_secret_base"]
      /\ k["rpc_secret_base"] = c["rpc_secret_base"]
  BY <1>1, ZenonT(60)
<1>4. CASE k["secret"] = "zero"
  BY <1>1, <1>2, <1>3, <1>4, Zenon
<1>5. CASE k["secret"] # "zero"
  <2>1. /\ d["streams_secret"] = IF k["streams_secret"] = "zero" THEN k["secret"]
                                                                 ELSE k["streams_secret"]
        /\ d["jwt_secret"] = IF k["jwt_secret"] = "zero" THEN k["secret"] ELSE k["jwt_secret"]
    BY <1>1, <1>2, <1>5, Zenon
  <2>2. /\ d["http_broadcast_secret"] = k["http_broadcast_secret"]
        /\ d["http_broadcast_secret_base"] =
             IF k["http_broadcast_secret"] = "zero" THEN k["secret"]
                                                    ELSE k["http_broadcast_secret_base"]
        /\ d["rpc_secret_base"] = IF k["rpc_secret"] = "zero" THEN k["secret"]
                                                              ELSE k["rpc_secret_base"]
    BY <1>1, <1>2, <1>5, Zenon
  <2> QED  BY <1>1, <1>3, <1>5, <2>1, <2>2, Zenon
<1> QED  BY <1>4, <1>5, Zenon

\* the value of a setting after NullifySecrets
Nullified(c, s) == IF s \in Secrets /\ c[s] = "none" THEN "zero" ELSE c[s]

\* the settings the last two steps may replace
LastSettings ==
  {"http_broadcast_port", "noauth", "streams_public", "http_broadcast_secret",
   "http_broadcast_secret_base"}

\* What the last three steps make of a configuration.
LEMMA LastStepsIs ==
  ASSUME NEW c, IsConf(c), NEW d, d = ApplyPublicMode(DefaultHTTPPort(NullifySecrets(c)))
  PROVE  /\ IsConf(d)
         /\ \A s \in Settings \ LastSettings : d[s] = Nullified(c, s)
         /\ c["public"] = "zero" =>
              /\ d["noauth"] = c["noauth"] /\ d["streams_public"] = c["streams_public"]
              /\ d["http_broadcast_secret"] = Nullified(c, "http_broadcast_secret")
              /\ d["http_broadcast_secret_base"] = c["http_broadcast_secret_base"]
         /\ c["public"] # "zero" =>
              /\ d["noauth"] = "mine" /\ d["streams_public"] = "mine"
              /\ d["http_broadcast_secret"] = "zero"
              /\ d["http_broadcast_secret_base"] = "zero"
         /\ c["http_broadcast_port"] # "zero" =>
              d["http_broadcast_port"] = c["http_broadcast_port"]
         /\ d["http_broadcast_port"] = "zero" => c["server_port"] = "zero"
<1> USE NamedSettings DEF Named
<1> DEFINE n == NullifySecrets(c)
           p == DefaultHTTPPort(n)
<1>1. IsConf(n) /\ \A s \in Settings : n[s] = Nullified(c, s)
  BY Zenon DEF NullifySecrets, Nullified, IsConf
<1>2. {"public", "noauth", "streams_public", "http_broadcast_secret_base",
       "http_broadcast_port", "server_port"} \cap Secrets = {}
  BY Zenon DEF Secrets
<1>3. /\ n["public"] = c["public"] /\ n["noauth"] = c["noauth"]
      /\ n["streams_public"] = c["streams_public"]
      /\ n["http_broadcast_secret_base"] = c["http_broadcast_secret_base"]
      /\ n["http_broadcast_port"] = c["http_broadcast_port"]
      /\ n["server_port"] = c["server_port"]
  BY <1>1, <1>2, Zenon DEF Nullified
<1> HIDE DEF n
<1>4. /\ IsConf(p) /\ SameBut(n, p, {"http_broadcast_port"})
      /\ p["http_broadcast_port"] =
           IF n["http_broadcast_port"] # "zero" THEN n["http_broadcast_port"]
           ELSE IF IsSecured(n) THEN n["server_port"] ELSE "8090"
  BY <1>1, PortKeeps, Zenon DEF DefaultHTTPPort, IsConf
<1> HIDE DEF p
<1>5. d = ApplyPublicMode(p)
  BY Zenon DEF p, n
<1>6. IsConf(d) /\ SameBut(p, d, {"noauth", "streams_public", "http_broadcast_secret",
                                  "http_broadcast_secret_base"})
  BY <1>4, <1>5, PublicKeeps, Zenon
<1>7. \A s \in Settings \ LastSettings : d[s] = Nullified(c, s)
  BY <1>1, <1>4, <1>6, Zenon DEF SameBut, LastSettings
<1>8. /\ d["http_broadcast_port"] = p["http_broadcast_port"]
      /\ p["public"] = n["public"] /\ p["noauth"] = n["noauth"]
      /\ p["streams_public"] = n["streams_public"]
      /\ p["http_broadcast_secret"] = n["http_broadcast_secret"]
      /\ p["http_broadcast_secret_base"] = n["http_broadcast_secret_base"]
  BY <1>4, <1>6, Zenon DEF SameBut
<1>9. CASE c["public"] = "zero"
  <2>1. d = p
    BY <1>3, <1>5, <1>8, <1>9, Zenon DEF ApplyPublicMode
  <2> QED  BY <1>1, <1>3, <1>4, <1>6, <1>7, <1>8, <1>9, <2>1, Zenon
<1>10. CASE c["public"] # "zero"
  <2>1. /\ d["noauth"] = "mine" /\ d["streams_public"] = "mine"
        /\ d["http_broadcast_secret"] = "zero" /\ d["http_broadcast_secret_base"] = "zero"
    BY <1>3, <1>4, <1>5, <1>8, <1>10, ZenonT(60) DEF ApplyPublicMode, IsConf
  <2> QED  BY <1>3, <1>4, <1>6, <1>7, <1>8, <1>10, <2>1, Zenon
<1> QED  BY <1>9, <1>10, Zenon

\* Where the value of a setting comes from before the settings depend on each
\* other.
LEMMA VariablesIs ==
  ASSUME CanWrite(file, args), NEW s \in Settings
  PROVE  /\ IsConf(FromVariables(Flagged))
         /\ FromVariables(Flagged)[s] = Provided(s) \/ (s \in LostFromFile /\ ~Given(s))
<1> DEFINE v == FromVariables(Flagged)
<1>1. DOMAIN v = Settings
  BY Zenon DEF FromVariables
<1>2. Flagged[s] = IF s \in DirectFlags \cap DOMAIN args THEN args[s]
                   ELSE IF s \in DOMAIN file THEN file[s] ELSE Defaults[s]
  <2>1. DOMAIN Defaults = Settings
    BY Zenon DEF Defaults
  <2>2. Over(file, Defaults)[s] = IF s \in DOMAIN file THEN file[s] ELSE Defaults[s]
    BY <2>1, Zenon DEF Over
  <2>3. s \in DOMAIN Over(file, Defaults)
    BY <2>1, Zenon DEF Over
  <2>4. DOMAIN Picked(args, DirectFlags) = DirectFlags \cap DOMAIN args
    BY Zenon DEF Picked
  <2>5. s \in DirectFlags \cap DOMAIN args => Picked(args, DirectFlags)[s] = args[s]
    BY Zenon DEF Picked
  <2>6. Flagged[s] = IF s \in DOMAIN Picked(args, DirectFlags)
                     THEN Picked(args, DirectFlags)[s] ELSE Over(file, Defaults)[s]
    BY <2>3, Zenon DEF Flagged, Over
  <2> QED  BY <2>2, <2>4, <2>5, <2>6, Zenon
<1>3. s \notin DeprecatedFlags
  BY Rows, Zenon DEF RowOK
<1>4. s \in DOMAIN args => s \in DirectFlags \cup VarFlags
  BY <1>3, Zenon DEF CanWrite, Flags
<1>5. LostFromFile \subseteq VarFlags
  BY Zenon DEF LostFromFile, VarFlags
<1>6. v[s] = IF s \in VarFlags /\ Given(s) THEN args[s]
             ELSE IF s \in LostFromFile THEN "default" ELSE Flagged[s]
  BY Zenon DEF FromVariables, LostFromFile
<1> QED  BY <1>1, <1>2, <1>4, <1>5, <1>6, Zenon DEF IsConf, Provided, Given

\* Settling changes only the settings that another one may replace.
LEMMA SettledKeeps ==
  ASSUME CanWrite(file, args)
  PROVE  IsConf(Settled(Flagged)) /\ SameBut(FromVariables(Flagged), Settled(Flagged), Replaceable)
<1> DEFINE c1 == FromVariables(Flagged)
           c2 == Dependent(c1)
           c3 == Deprecated(c2)
           c4 == FallbackSecrets(c3)
           c5 == NullifySecrets(c4)
           c6 == DefaultHTTPPort(c5)
           c7 == ApplyPublicMode(c6)
<1>1. IsConf(c1)
  BY Zenon DEF IsConf, FromVariables
<1> HIDE DEF c1
<1>2. IsConf(c2) /\ SameBut(c1, c2, Replaceable)
  BY <1>1, DependentKeeps, Zenon DEF SameBut, Replaceable
<1> HIDE DEF c2
<1>3. IsConf(c3) /\ SameBut(c2, c3, Replaceable)
  BY <1>2, DeprecatedKeeps, Zenon DEF SameBut, Replaceable, Secrets
<1> HIDE DEF c3
<1>4. IsConf(c4) /\ SameBut(c3, c4, Replaceable)
  BY <1>3, FallbackKeeps, Zenon DEF SameBut, Replaceable, Secrets
<1> HIDE DEF c4
<1>5. IsConf(c5) /\ SameBut(c4, c5, Replaceable)
  BY <1>4, NullifyKeeps, Zenon DEF SameBut, Replaceable
<1> HIDE DEF c5
<1>6. IsConf(c6) /\ SameBut(c5, c6, Replaceable)
  BY <1>5, PortKeeps, Zenon DEF SameBut, Replaceable
<1> HIDE DEF c6
<1>7. IsConf(c7) /\ SameBut(c6, c7, Replaceable)
  BY <1>6, PublicKeeps, Zenon DEF SameBut, Replaceable, Secrets
<1> HIDE DEF c7
<1>8. SameBut(c1, c7, Replaceable)
  BY <1>2, <1>3, <1>4, <1>5, <1>6, <1>7 DEF SameBut
<1>9. c7 = Settled(Flagged) /\ c1 = FromVariables(Flagged)
  BY Zenon DEF c7, c6, c5, c4, c3, c2, c1, Settled
<1> QED  BY <1>7, <1>8, <1>9, Zenon

\* What is true of every configuration that NewConfigFromCLI returns, so that
\* doing it all again changes nothing.
IsSettled(c) ==
  /\ IsConf(c) /\ c["enats_enabled"] \in {"zero", "mine"}
  /\ c["logging_debug"] # "zero" => c["logging_level"] = "debug"
  /\ c["metrics_port"] = "zero" => c["server_port"] = "zero"
  /\ c["enats_enabled"] # "zero" =>
       c["nats_servers"] # "default" \/ c["nats_servers"] = c["enats_service_addr"]
  /\ c["public"] # "zero" =>
       /\ c["noauth"] = "mine" /\ c["streams_public"] = "mine"
       /\ c["http_broadcast_secret"] = "zero" /\ c["http_broadcast_secret_base"] = "zero"
  /\ c["http_broadcast_port"] = "zero" => c["server_port"] = "zero"
  /\ \A s \in Secrets : c[s] # "none"
  /\ c["http_broadcast_secret_base"] \notin {"zero", "none"} =>
       /\ c["http_broadcast_secret_base"] = c["secret"]
       /\ c["http_broadcast_secret"] = "zero" /\ c["broadcast_key"] = "zero"
  /\ c["rpc_secret_base"] \notin {"zero", "none"} =>
       c["rpc_secret_base"] = c["secret"] /\ c["rpc_secret"] = "zero"

\* the settings Dependent copies or is decided by
DependentSettings ==
  {"logging_debug", "logging_level", "metrics_port", "server_port", "enats_enabled",
   "nats_servers", "enats_service_addr", "metrics_rotate_interval", "app_disconnect_mode",
   "metrics_log_interval", "disconnector_disabled"}

\* What the first step makes of a configuration.
LEMMA DependentIs ==
  ASSUME NEW c, IsConf(c), NEW d, d = Dependent(c)
  PROVE  /\ d["logging_level"] = IF c["logging_debug"] # "zero" THEN "debug"
                                                                ELSE c["logging_level"]
         /\ d["metrics_port"] = IF c["metrics_port"] = "zero" THEN c["server_port"]
                                                              ELSE c["metrics_port"]
         /\ d["metrics_rotate_interval"] =
              IF c["metrics_rotate_interval"] = "zero" THEN c["metrics_log_interval"]
                                                       ELSE c["metrics_rotate_interval"]
         /\ d["nats_servers"] =
              IF c["enats_enabled"] # "zero" /\ c["nats_servers"] = "default"
              THEN c["enats_service_addr"] ELSE c["nats_servers"]
         /\ d["app_disconnect_mode"] = IF c["disconnector_disabled"] # "zero" THEN "never"
                                       ELSE c["app_disconnect_mode"]
BY NamedSettings, Zenon DEF Named, Dependent, IsConf

\* Whatever the sources are, the configuration is settled.
LEMMA SettledIsSettled ==
  ASSUME CanWrite(file, args), NEW d, d = Settled(Flagged)
  PROVE  IsSettled(d)
<1> USE NamedSettings DEF Named
<1> DEFINE c1 == FromVariables(Flagged)
           c2 == Dependent(c1)
           c3 == Deprecated(c2)
           c4 == FallbackSecrets(c3)
<1>1. IsConf(c1) /\ c1["enats_enabled"] = Provided("enats_enabled")
      /\ \A s \in SecretBases : c1[s] = Provided(s)
  BY VariablesIs, Zenon DEF LostFromFile, SecretBases
<1>2. Provided("enats_enabled") \in {"zero", "mine"} /\ \A s \in SecretBases : Provided(s) = "zero"
  <2>1. SecretBases \cap Flags = {}
    BY
    DEF SecretBases, Flags, DirectFlags, VarFlags, DeprecatedFlags, serverCLIFlags, sslCLIFlags,
       broadcastCLIFlags, brokerCLIFlags, redisCLIFlags, httpBroadcastCLIFlags, natsCLIFlags,
       embeddedNatsCLIFlags, rpcCLIFlags, disconnectorCLIFlags, logCLIFlags, metricsCLIFlags,
       wsCLIFlags, pingCLIFlags, jwtCLIFlags, signedStreamsCLIFlags, statsdCLIFlags, sseCLIFlags
  <2>2. \A s \in SecretBases : Provided(s) = "zero"
    BY <2>1, EmptyDefaults, Zenon DEF Provided, Given, CanWrite, SecretBases
  <2>3. Provided("enats_enabled") \in {"zero", "mine"}
    BY EmptyDefaults, Zenon DEF Provided, Given, CanWrite
  <2> QED  BY <2>2, <2>3, Zenon
<1> HIDE DEF c1
<1>3. IsConf(c2) /\ SameBut(c1, c2, {"logging_level", "metrics_port", "metrics_rotate_interval",
                                     "nats_servers", "app_disconnect_mode"})
  BY <1>1, DependentKeeps, Zenon
<1>4. /\ c2["logging_debug"] # "zero" => c2["logging_level"] = "debug"
      /\ c2["metrics_port"] = "zero" => c2["server_port"] = "zero"
      /\ c2["enats_enabled"] # "zero" =>
           c2["nats_servers"] # "default" \/ c2["nats_servers"] = c2["enats_service_addr"]
  BY <1>1, <1>3, DependentIs DEF SameBut
<1>5. c2["enats_enabled"] \in {"zero", "mine"} /\ \A s \in SecretBases : c2[s] = "zero"
  BY <1>1, <1>2, <1>3, Zenon DEF SameBut, SecretBases
<1> HIDE DEF c2
<1>6. /\ IsConf(c3) /\ \A s \in DependentSettings : c3[s] = c2[s]
      /\ \A s \in SecretBases : c3[s] = "zero"
  BY <1>3, <1>5, DeprecatedKeeps DEF SameBut, DependentSettings, SecretBases
<1> HIDE DEF c3
<1>7. IsConf(c4) /\ \A s \in DependentSettings : c4[s] = c2[s]
  BY <1>6, FallbackKeeps DEF SameBut, DependentSettings
<1>8. /\ c4["http_broadcast_secret_base"] # "zero" =>
           /\ c4["http_broadcast_secret_base"] = c4["secret"]
           /\ c4["http_broadcast_secret"] = "zero" /\ c4["broadcast_key"] = "zero"
      /\ c4["rpc_secret_base"] # "zero" =>
           c4["rpc_secret_base"] = c4["secret"] /\ c4["rpc_secret"] = "zero"
  <2>1. c4["secret"] = c3["secret"] /\ c4["broadcast_key"] = c3["broadcast_key"]
        /\ c4["rpc_secret"] = c3["rpc_secret"]
    BY <1>6, FallbackKeeps, Zenon DEF SameBut
  <2> QED  BY <1>6, <2>1, FallbackIs DEF SecretBases
<1> HIDE DEF c4
<1>9. d = ApplyPublicMode(DefaultHTTPPort(NullifySecrets(c4)))
  BY Zenon DEF c4, c3, c2, c1, Settled
<1>10. IsConf(d) /\ \A s \in DependentSettings : d[s] = c2[s]
  <2>1. DependentSettings \cap (LastSettings \cup Secrets) = {}
        /\ DependentSettings \subseteq Settings
    BY ZenonT(60) DEF DependentSettings, LastSettings, Secrets
  <2> QED  BY <1>7, <1>9, <2>1, LastStepsIs DEF Nullified
<1>11. \A s \in Secrets : d[s] # "none"
  <2>1. /\ Secrets \subseteq Settings
        /\ Secrets \ {"http_broadcast_secret"} \subseteq Settings \ LastSettings
    BY Zenon DEF Secrets, LastSettings
  <2>2. d["http_broadcast_secret"] # "none"
    BY <1>7, <1>9, LastStepsIs DEF Nullified, Secrets
  <2> QED  BY <1>7, <1>9, <2>1, <2>2, LastStepsIs DEF Nullified
<1>12. /\ d["public"] = c4["public"] /\ d["broadcast_key"] = c4["broadcast_key"]
       /\ d["secret"] = Nullified(c4, "secret") /\ d["rpc_secret"] = Nullified(c4, "rpc_secret")
       /\ d["rpc_secret_base"] = c4["rpc_secret_base"] /\ d["server_port"] = c4["server_port"]
  <2>1. {"public", "broadcast_key", "rpc_secret_base", "server_port", "secret", "rpc_secret"}
          \subseteq Settings \ LastSettings
    BY Zenon DEF LastSettings
  <2>2. {"public", "broadcast_key", "rpc_secret_base", "server_port"} \cap Secrets = {}
    BY Zenon DEF Secrets
  <2> QED  BY <1>7, <1>9, <2>1, <2>2, LastStepsIs DEF Nullified
<1>13. d["http_broadcast_secret_base"] \notin {"zero", "none"} =>
         /\ d["http_broadcast_secret_base"] = d["secret"]
         /\ d["http_broadcast_secret"] = "zero" /\ d["broadcast_key"] = "zero"
  BY <1>7, <1>8, <1>9, <1>12, LastStepsIs DEF Nullified
<1>14. d["rpc_secret_base"] \notin {"zero", "none"} =>
         d["rpc_secret_base"] = d["secret"] /\ d["rpc_secret"] = "zero"
  BY <1>8, <1>12, Zenon DEF Nullified
<1>15. /\ d["public"] # "zero" =>
            /\ d["noauth"] = "mine" /\ d["streams_public"] = "mine"
            /\ d["http_broadcast_secret"] = "zero" /\ d["http_broadcast_secret_base"] = "zero"
       /\ d["http_broadcast_port"] = "zero" => d["server_port"] = "zero"
  BY <1>7, <1>9, <1>12, LastStepsIs
<1>16. /\ d["enats_enabled"] \in {"zero", "mine"}
       /\ d["logging_debug"] # "zero" => d["logging_level"] = "debug"
       /\ d["metrics_port"] = "zero" => d["server_port"] = "zero"
       /\ d["enats_enabled"] # "zero" =>
            d["nats_servers"] # "default" \/ d["nats_servers"] = d["enats_service_addr"]
  BY <1>4, <1>5, <1>10, Zenon DEF DependentSettings
<1> QED  BY <1>10, <1>11, <1>13, <1>14, <1>15, <1>16, Zenon DEF IsSettled

\* What is read back of a configuration that was written: all of a setting that
\* the file carries, and the application secret and the broadcast key, of which
\* an empty one may be written as "none".
LEMMA PrintedIs ==
  ASSUME NEW c, IsSettled(c), CanWrite(file, args), args = <<>>, file = ToToml(c),
         NEW v, v = FromVariables(Flagged)
  PROVE  /\ IsConf(v)
         /\ \A s \in Settings \ (NotPrinted \cup SecretBases \cup {"secret", "broadcast_key"}) :
              v[s] = c[s]
         /\ v["secret"] = c["secret"] \/ (c["secret"] = "zero" /\ v["secret"] = "none")
         /\ v["broadcast_key"] = c["broadcast_key"] \/ c["broadcast_key"] = "zero"
         /\ c["secret"] # "zero" => v["broadcast_key"] = c["broadcast_key"]
         /\ \A s \in SecretBases \cup {"metrics_log_interval", "disconnector_disabled"} :
              v[s] = "zero"
<1> USE NamedSettings DEF Named
<1>1. IsConf(c) /\ IsConf(v)
  BY VariablesIs, Zenon DEF IsSettled
<1>2. \A s : ~Given(s)
  BY DEF Given
<1>3. ASSUME NEW s \in Settings, s \notin LostFromFile
      PROVE  v[s] = IF s \in DOMAIN file THEN file[s] ELSE Defaults[s]
  BY <1>2, <1>3, VariablesIs, Zenon DEF Provided
<1>4. /\ DOMAIN file = {s \in Settings : Writes(c, s)} \cup
           (IF c["broadcast_key"] = "zero" /\ c["secret"] = "zero" THEN {"broadcast_key"} ELSE {})
      /\ \A s \in DOMAIN file : file[s] = IF s \in {"secret", "broadcast_key"} /\ c[s] = "zero"
                                          THEN "none" ELSE c[s]
  BY Zenon DEF ToToml
<1>5. ASSUME NEW s \in Settings, NewConfig[s] \in {DA, ZA, ZS} \/ s = "node_id"
      PROVE  Writes(c, s) \/ c[s] = Defaults[s]
  <2>1. CASE NewConfig[s] \in {DA, ZA}
    BY <2>1 DEF Writes, DA, ZA
  <2>2. CASE NewConfig[s] = ZS
    <3>1. NewConfig[s].default = "zero" /\ NewConfig[s].printed = "set"
      BY <2>2 DEF ZS
    <3> QED  BY <3>1, Zenon DEF Writes, Defaults
  <2>3. CASE s = "node_id"
    <3>1. NewConfig[s].printed = "gated"
      BY <2>3, Rows DEF RowOK, DN
    <3>2. Gate(s) = s
      BY <2>3, Zenon DEF Gate
    <3> QED  BY <2>3, <3>1, <3>2, Zenon DEF Writes, Untouched
  <2> QED  BY <1>5, <2>1, <2>2, <2>3, Zenon
<1>6. ASSUME NEW s \in Settings \ (NotPrinted \cup SecretBases \cup {"secret", "broadcast_key"})
      PROVE  v[s] = c[s]
  <2>1. s \notin LostFromFile
    BY <1>6, Zenon DEF NotPrinted
  <2>2. NewConfig[s] \in {DA, ZA, ZS} \/ s = "node_id"
    BY <1>6, Rows, Zenon DEF RowOK
  <2> QED  BY <1>3, <1>4, <1>5, <1>6, <2>1, <2>2, Zenon
<1>7. v["secret"] = c["secret"] \/ (c["secret"] = "zero" /\ v["secret"] = "none")
  <2>1. NewConfig["secret"] \in {DA, ZA, ZS}
    BY Rows, Zenon DEF RowOK, NotPrinted, LostFromFile, SecretBases
  <2> QED  BY <1>3, <1>4, <1>5, <2>1, Zenon DEF LostFromFile
<1>8. /\ v["broadcast_key"] = c["broadcast_key"] \/ c["broadcast_key"] = "zero"
      /\ c["secret"] # "zero" => v["broadcast_key"] = c["broadcast_key"]
  <2>1. NewConfig["broadcast_key"] = ZS /\ Defaults["broadcast_key"] = "zero"
    BY Rows, EmptyDefaults, Zenon DEF RowOK
  <2>2. c["broadcast_key"] = "zero" => ~Writes(c, "broadcast_key")
    BY <2>1 DEF Writes, ZS
  <2> QED  BY <1>3, <1>4, <1>5, <2>1, <2>2, Zenon DEF LostFromFile
<1>9. ASSUME NEW s \in SecretBases \cup {"metrics_log_interval", "disconnector_disabled"}
      PROVE  v[s] = "zero"
  <2>1. s \in Settings /\ s \notin LostFromFile /\ s # "broadcast_key" /\ Defaults[s] = "zero"
    BY EmptyDefaults, Zenon DEF SecretBases, LostFromFile
  <2>2. NewConfig[s].printed = "never"
    BY <2>1, Rows DEF RowOK, ZN
  <2>3. ~Writes(c, s)
    BY <2>2, Zenon DEF Writes
  <2> QED  BY <1>3, <1>4, <2>1, <2>3, Zenon
<1> QED  BY <1>1, <1>6, <1>7, <1>8, <1>9, Zenon

\* the settings of a printed file that are not read back as they were
ReadAnew == NotPrinted \cup SecretBases \cup {"secret", "broadcast_key"}

\* A process started from a printed file settles on the configuration printed.
LEMMA Reloads ==
  ASSUME NEW c, IsSettled(c), CanWrite(file, args), args = <<>>, file = ToToml(c),
         NEW d, d = Settled(Flagged), NEW s \in Settings \ NotPrinted
  PROVE  \/ d[s] = c[s]
         \/ s \in DerivedSecrets /\ c[s] \in {"zero", "none"}
         \/ s = "http_broadcast_port" /\ c["server_port"] = "zero"
<1> USE NamedSettings DEF Named
<1> DEFINE c1 == FromVariables(Flagged)
           c2 == Dependent(c1)
           c3 == Deprecated(c2)
           c4 == FallbackSecrets(c3)
<1>1. /\ IsConf(c1) /\ \A t \in Settings \ ReadAnew : c1[t] = c[t]
      /\ c1["secret"] = c["secret"] \/ (c["secret"] = "zero" /\ c1["secret"] = "none")
      /\ c1["broadcast_key"] = c["broadcast_key"] \/ c["broadcast_key"] = "zero"
      /\ c["secret"] # "zero" => c1["broadcast_key"] = c["broadcast_key"]
      /\ \A t \in SecretBases \cup {"metrics_log_interval", "disconnector_disabled"} :
           c1[t] = "zero"
  BY PrintedIs, Zenon DEF ReadAnew
<1> HIDE DEF c1
<1>2. /\ IsConf(c2) /\ \A t \in Settings \ ReadAnew : c2[t] = c[t]
      /\ \A t \in SecretBases \cup {"secret", "broadcast_key"} : c2[t] = c1[t]
  <2> DEFINE five == {"logging_level", "metrics_port", "metrics_rotate_interval",
                      "nats_servers", "app_disconnect_mode"}
  <2>1. IsConf(c2) /\ SameBut(c1, c2, five)
    BY <1>1, DependentKeeps, Zenon
  <2>2. (five \cup {"logging_debug", "server_port", "enats_enabled", "enats_service_addr"})
          \cap ReadAnew = {}
    BY Zenon DEF ReadAnew, NotPrinted, LostFromFile, SecretBases
  <2>3. /\ c2["logging_level"] = c["logging_level"] /\ c2["metrics_port"] = c["metrics_port"]
        /\ c2["metrics_rotate_interval"] = c["metrics_rotate_interval"]
        /\ c2["nats_servers"] = c["nats_servers"]
        /\ c2["app_disconnect_mode"] = c["app_disconnect_mode"]
    BY <1>1, <2>2, DependentIs DEF IsSettled
  <2> QED  BY <1>1, <2>1, <2>3, ZenonT(60) DEF SameBut, SecretBases
<1> HIDE DEF c2
<1>3. IsConf(c3) /\ \A t \in Settings : c3[t] = c2[t]
  <2>1. \A t : ~Given(t)
    BY DEF Given
  <2> QED  BY <1>2, <2>1, Zenon DEF Deprecated, IsConf
<1> HIDE DEF c3
<1>4. /\ IsConf(c4)
      /\ \A t \in Settings \ (ReadAnew \cup {"streams_secret", "jwt_secret",
                                             "http_broadcast_secret"}) : c4[t] = c[t]
      /\ c4["secret"] = c1["secret"] /\ c4["broadcast_key"] = c1["broadcast_key"]
  BY <1>2, <1>3, FallbackKeeps DEF SameBut, ReadAnew, SecretBases
<1>5. /\ {"streams_secret", "jwt_secret", "http_broadcast_secret", "rpc_secret"}
           \cap ReadAnew = {}
      /\ c3["secret"] = c1["secret"] /\ c3["broadcast_key"] = c1["broadcast_key"]
  BY <1>2, <1>3, Zenon DEF ReadAnew, NotPrinted, LostFromFile, SecretBases
<1>6. ASSUME NEW t \in {"streams_secret", "jwt_secret", "http_broadcast_secret"}, c[t] # "zero"
      PROVE  c4[t] = c[t]
  <2>1. c3[t] = c[t]
    BY <1>2, <1>3, <1>5, Zenon
  <2> QED  BY <1>3, <1>6, <2>1, FallbackIs
<1>7. /\ c["http_broadcast_secret_base"] \notin {"zero", "none"} =>
           c4["http_broadcast_secret_base"] = c["http_broadcast_secret_base"]
      /\ c["rpc_secret_base"] \notin {"zero", "none"} =>
           c4["rpc_secret_base"] = c["rpc_secret_base"]
  <2>1. c3["http_broadcast_secret"] = c["http_broadcast_secret"]
        /\ c3["rpc_secret"] = c["rpc_secret"]
    BY <1>2, <1>3, <1>5, Zenon
  <2> QED  BY <1>1, <1>3, <1>5, <2>1, FallbackIs DEF IsSettled
<1> HIDE DEF c4
<1>8. d = ApplyPublicMode(DefaultHTTPPort(NullifySecrets(c4)))
  BY Zenon DEF c4, c3, c2, c1, Settled
<1>9. c4["public"] = c["public"] /\ c4["http_broadcast_port"] = c["http_broadcast_port"]
      /\ c4["noauth"] = c["noauth"] /\ c4["streams_public"] = c["streams_public"]
  BY <1>4, Zenon DEF ReadAnew, NotPrinted, LostFromFile, SecretBases
<1>10. \A t \in Secrets : c[t] # "none"
  BY Zenon DEF IsSettled
<1>11. CASE s \in LastSettings
  <2>1. CASE s = "http_broadcast_port"
    BY <1>4, <1>8, <1>9, <2>1, LastStepsIs DEF IsSettled
  <2>2. CASE s \in {"noauth", "streams_public"}
    BY <1>4, <1>8, <1>9, <2>2, LastStepsIs DEF IsSettled
  <2>3. CASE s = "http_broadcast_secret"
    <3>1. c[s] # "zero" => c["public"] = "zero" /\ c4[s] = c[s] /\ c[s] # "none"
      BY <1>6, <1>10, <2>3, Zenon DEF IsSettled, Secrets
    <3> QED  BY <1>4, <1>8, <1>9, <2>3, <3>1, LastStepsIs DEF Nullified, DerivedSecrets
  <2>4. CASE s = "http_broadcast_secret_base"
    <3>1. c[s] \notin {"zero", "none"} => c["public"] = "zero" /\ c4[s] = c[s]
      BY <1>7, <2>4, Zenon DEF IsSettled
    <3> QED  BY <1>4, <1>8, <1>9, <2>4, <3>1, LastStepsIs DEF DerivedSecrets
  <2> QED  BY <1>11, <2>1, <2>2, <2>3, <2>4, Zenon DEF LastSettings
<1>12. CASE s \notin LastSettings
  <2>1. d[s] = Nullified(c4, s)
    BY <1>4, <1>8, <1>12, LastStepsIs
  <2>2. CASE s = "secret"
    BY <1>1, <1>4, <1>10, <2>1, <2>2, Zenon DEF Nullified, Secrets
  <2>3. CASE s \in {"streams_secret", "jwt_secret"}
    BY <1>6, <1>10, <2>1, <2>3, Zenon DEF Nullified, Secrets, DerivedSecrets
  <2>4. CASE s = "broadcast_key"
    BY <1>1, <1>4, <2>1, <2>4, Zenon DEF Nullified, Secrets, DerivedSecrets
  <2>5. CASE s = "rpc_secret_base"
    BY <1>7, <2>1, <2>5, Zenon DEF Nullified, Secrets, DerivedSecrets
  <2>6. CASE s \notin {"secret", "streams_secret", "jwt_secret", "broadcast_key"} \cup SecretBases
    <3>1. s \notin ReadAnew /\ s # "http_broadcast_secret"
      BY <1>12, <2>6, Zenon DEF ReadAnew, LastSettings
    <3>2. c4[s] = c[s]
      BY <1>4, <2>6, <3>1, Zenon
    <3> QED  BY <1>10, <2>1, <3>2, Zenon DEF Nullified
  <2> QED  BY <1>12, <2>2, <2>3, <2>4, <2>5, <2>6, Zenon DEF SecretBases, LastSettings
<1> QED  BY <1>11, <1>12, Zenon

\* The secrets of a configuration whose sources have been read.
LEMMA SettledSecrets ==
  ASSUME CanWrite(file, args), Provided("secret") # "none", ~Given("jwt_id_key"),
         NEW d, d = Settled(Flagged), NEW key,
         key = IF Provided("http_broadcast_secret") # "zero"
               THEN Provided("http_broadcast_secret") ELSE Provided("broadcast_key")
  PROVE  /\ d.jwt_secret = Effective(Provided("jwt_secret"))
         /\ d.streams_secret = Effective(Provided("streams_secret"))
         /\ IsSecured(d) <=> Effective(key) # "zero" /\ d.public = "zero"
<1> DEFINE c1 == FromVariables(Flagged)
           c2 == Dependent(c1)
           c3 == Deprecated(c2)
           c4 == FallbackSecrets(c3)
           c5 == NullifySecrets(c4)
           c6 == DefaultHTTPPort(c5)
           c7 == ApplyPublicMode(c6)
<1> USE NamedSettings DEF Named
<1>1. /\ IsConf(c1)
      /\ c1["secret"] = Provided("secret") /\ c1["broadcast_key"] = Provided("broadcast_key")
      /\ c1["jwt_secret"] = Provided("jwt_secret")
      /\ c1["streams_secret"] = Provided("streams_secret")
      /\ c1["http_broadcast_secret"] = Provided("http_broadcast_secret")
      /\ c1["http_broadcast_secret_base"] = Provided("http_broadcast_secret_base")
  BY VariablesIs, Zenon DEF LostFromFile
<1>2. Provided("http_broadcast_secret_base") = "zero"
  <2>1. "http_broadcast_secret_base" \notin Flags
    BY DEF Flags, DirectFlags, VarFlags, DeprecatedFlags, serverCLIFlags, sslCLIFlags,
       broadcastCLIFlags, brokerCLIFlags, redisCLIFlags, httpBroadcastCLIFlags, natsCLIFlags,
       embeddedNatsCLIFlags, rpcCLIFlags, disconnectorCLIFlags, logCLIFlags, metricsCLIFlags,
       wsCLIFlags, pingCLIFlags, jwtCLIFlags, signedStreamsCLIFlags, statsdCLIFlags, sseCLIFlags
  <2>2. Defaults["http_broadcast_secret_base"] = "zero"
    BY EmptyDefaults, Zenon DEF SecretBases
  <2> QED  BY <2>1, <2>2, Zenon DEF Provided, Given, CanWrite
<1> HIDE DEF c1
<1>3. IsConf(c2) /\ \A s \in SecretSettings : c2[s] = c1[s]
  BY <1>1, DependentKeeps, ZenonT(60) DEF SameBut, SecretSettings
<1> HIDE DEF c2
<1>4. IsConf(c3) /\ \A s \in SecretSettings : c3[s] = c2[s]
  BY <1>3, DeprecatedKeeps DEF SameBut, SecretSettings
<1> HIDE DEF c3
<1>5. /\ c3["secret"] = Provided("secret") /\ c3["broadcast_key"] = Provided("broadcast_key")
      /\ c3["jwt_secret"] = Provided("jwt_secret")
      /\ c3["streams_secret"] = Provided("streams_secret")
      /\ c3["http_broadcast_secret"] = Provided("http_broadcast_secret")
      /\ c3["http_broadcast_secret_base"] = "zero"
  BY <1>1, <1>2, <1>3, <1>4, Zenon DEF SecretSettings
<1>6. /\ IsConf(c4)
      /\ c4["jwt_secret"] = IF c3["jwt_secret"] = "zero" THEN c3["secret"] ELSE c3["jwt_secret"]
      /\ c4["streams_secret"] = IF c3["streams_secret"] = "zero" THEN c3["secret"]
                                                                 ELSE c3["streams_secret"]
      /\ c4["http_broadcast_secret"] = key
      /\ c4["http_broadcast_secret_base"] = IF key = "zero" THEN c3["secret"] ELSE "zero"
  BY <1>4, <1>5, FallbackKeeps, FallbackIs
<1> HIDE DEF c4
<1>7. /\ IsConf(c5)
      /\ \A s \in Secrets \cap Settings : c5[s] = IF c4[s] = "none" THEN "zero" ELSE c4[s]
      /\ c5["http_broadcast_secret_base"] = c4["http_broadcast_secret_base"]
  BY <1>6, Zenon DEF NullifySecrets, IsConf, Secrets
<1>8. /\ c5["jwt_secret"] = Effective(Provided("jwt_secret"))
      /\ c5["streams_secret"] = Effective(Provided("streams_secret"))
      /\ c5["http_broadcast_secret"] # "zero" \/ c5["http_broadcast_secret_base"] # "zero"
           <=> Effective(key) # "zero"
  BY <1>5, <1>6, <1>7, Zenon DEF Effective, Secrets
<1> HIDE DEF c5
<1>9. IsConf(c6) /\ \A s \in SecretSettings : c6[s] = c5[s]
  BY <1>7, PortKeeps, ZenonT(60) DEF SameBut, SecretSettings
<1> HIDE DEF c6
<1>10. /\ c7["jwt_secret"] = c6["jwt_secret"] /\ c7["streams_secret"] = c6["streams_secret"]
       /\ c7["public"] = c6["public"]
  BY <1>9, PublicKeeps, Zenon DEF SameBut
<1>11. IsSecured(c7) <=> IsSecured(c6) /\ c6["public"] = "zero"
  <2>1. CASE c6["public"] = "zero"
    BY <2>1, Zenon DEF ApplyPublicMode
  <2>2. CASE c6["public"] # "zero"
    <3>1. c7["http_broadcast_secret"] = "zero" /\ c7["http_broadcast_secret_base"] = "zero"
      BY <1>9, <2>2, Zenon DEF ApplyPublicMode, IsConf
    <3> QED  BY <2>2, <3>1, Zenon DEF IsSecured
  <2> QED  BY <2>1, <2>2, Zenon
<1> HIDE DEF c7
<1>12. IsSecured(c6) <=> Effective(key) # "zero"
  BY <1>8, <1>9, Zenon DEF IsSecured, SecretSettings
<1>13. d = c7
  BY Zenon DEF c7, c6, c5, c4, c3, c2, c1, Settled
<1> QED  BY <1>8, <1>9, <1>10, <1>11, <1>12, <1>13, Zenon DEF SecretSettings

\* a setting the user wrote, and a preset changed: only where the fly preset
\* embeds NATS
Spared(c, d, s) ==
  \/ d[s] = c[s]
  \/ /\ s \in {"broadcast_adapters", "nats_servers"}
     /\ Presets(c) = "fly" /\ d.pubsub_adapter = "nats"

\* The presets go by the values NewConfig gives.
LEMMA PresetsSpare ==
  ASSUME NEW c, IsConf(c), c.enats_enabled \in {"zero", "mine"},
         NEW s \in Settings, ~Untouched(c, s)
  PROVE  /\ Presets(c) = "fly" => Spared(c, loadFlyPreset(c), s)
         /\ loadHerokuPreset(c)[s] = c[s]
         /\ loadBrokerPreset(c)[s] = c[s]
<1>1. ASSUME NEW v PROVE Preset(c, s, v) = c[s]
  BY Zenon DEF Preset
<1>2. loadHerokuPreset(c)[s] = c[s]
  BY <1>1, Zenon DEF loadHerokuPreset, IsConf
<1>3. loadBrokerPreset(c)[s] = c[s]
  <2> DEFINE enats == c.enats_enabled # "zero"
  <2> QED  BY <1>1, Zenon DEF loadBrokerPreset, IsConf
<1>4. ASSUME Presets(c) = "fly" PROVE Spared(c, loadFlyPreset(c), s)
  <2> DEFINE addr == Preset(c, "enats_service_addr", "fly")
             embed == /\ Untouched(c, "pubsub_adapter")
                      /\ ~RedisEnabled(c)
                      /\ c.enats_enabled = "zero" \/ Untouched(c, "nats_servers")
             d == loadFlyPreset(c)
  <2>1. CASE s \notin {"enats_enabled", "nats_servers", "broadcast_adapters", "rpc_host"}
    <3>1. d[s] = c[s]
      BY <1>1, <2>1, ZenonT(60) DEF loadFlyPreset, IsConf
    <3> QED  BY <3>1, Zenon DEF Spared
  <2>2. d["pubsub_adapter"] = Preset(c, "pubsub_adapter",
                                IF RedisEnabled(c) THEN "redis" ELSE "nats")
    BY NamedSettings, Zenon DEF Named, loadFlyPreset, IsConf
  <2>3. embed => d["pubsub_adapter"] = "nats"
    BY <2>2, Zenon DEF Preset
  <2>4. CASE s = "enats_enabled"
    <3>1. d["enats_enabled"] = IF embed THEN "mine" ELSE c["enats_enabled"]
      BY NamedSettings, Zenon DEF Named, loadFlyPreset, IsConf
    <3>2. c["enats_enabled"] = "mine"
      BY <2>4, EmptyDefaults, Zenon DEF Untouched
    <3> QED  BY <2>4, <3>1, <3>2, Zenon DEF Spared
  <2>5. CASE s = "nats_servers"
    <3>1. d["nats_servers"] = IF embed THEN addr ELSE c["nats_servers"]
      BY NamedSettings, Zenon DEF Named, loadFlyPreset, IsConf
    <3> QED  BY <1>4, <2>3, <2>5, <3>1, Zenon DEF Spared
  <2>6. CASE s = "broadcast_adapters"
    <3>1. d["broadcast_adapters"] =
            IF embed THEN "http,nats"
            ELSE IF RedisEnabled(c) THEN c["broadcast_adapters"]
            ELSE Preset(c, "broadcast_adapters", "http")
      BY NamedSettings, Zenon DEF Named, loadFlyPreset, IsConf
    <3> QED  BY <1>1, <1>4, <2>3, <2>6, <3>1, Zenon DEF Spared
  <2>7. CASE s = "rpc_host"
    <3>1. d["rpc_host"] = IF env.rpcApp THEN Preset(c, "rpc_host", "fly") ELSE c["rpc_host"]
      BY NamedSettings, Zenon DEF Named, loadFlyPreset, IsConf
    <3> QED  BY <1>1, <2>7, <3>1, Zenon DEF Spared
  <2> QED  BY <2>1, <2>4, <2>5, <2>6, <2>7, Zenon
<1> QED  BY <1>2, <1>3, <1>4, Zenon

\* how far the configuration of the process has got
Progress ==
  /\ CanWrite(file, args)
  /\ stage \in {"start", "loaded", "flagged", "ready", "running", "failed"}
  /\ stage = "start" => conf = Defaults
  /\ stage = "loaded" => conf = Over(file, Defaults)
  /\ stage = "flagged" => conf = Flagged
  /\ stage = "ready" => IsSettled(conf)

\* the second process has the file that the first one wrote, and no flags
Reloading ==
  first # <<>> /\ stage \in {"start", "loaded", "flagged", "ready"} =>
    IsSettled(first) /\ file = ToToml(first) /\ args = <<>>

\* the inductive invariant of Config
CInv == Progress /\ Reloading /\ Precedence /\ SecretsResolve /\ PrintedConfigLoads

\* A configuration is not empty.
LEMMA NotEmpty ==
  ASSUME NEW c, IsConf(c)
  PROVE  c # <<>>
<1>1. DOMAIN c # {}
  BY NamedSettings, Zenon DEF Named, IsConf
<1> QED  BY <1>1

\* What a process prints can be written in a file.
LEMMA PrintedCanBeWritten ==
  ASSUME NEW c, IsSettled(c)
  PROVE  CanWrite(ToToml(c), <<>>)
<1> USE NamedSettings DEF Named
<1> DEFINE f == ToToml(c)
<1>1. /\ DOMAIN f \subseteq {s \in Settings : Writes(c, s)} \cup {"broadcast_key"}
      /\ "enats_enabled" \in DOMAIN f => f["enats_enabled"] = c["enats_enabled"]
  BY Zenon DEF ToToml
<1>2. ASSUME NEW s \in SecretBases PROVE ~Writes(c, s)
  <2>1. NewConfig[s].printed = "never"
    BY Rows DEF RowOK, ZN, SecretBases
  <2> QED  BY <2>1, Zenon DEF Writes
<1> HIDE DEF f
<1>3. DOMAIN f \subseteq Settings \ SecretBases
  BY <1>1, <1>2, Zenon DEF SecretBases
<1>4. "enats_enabled" \in DOMAIN f => f["enats_enabled"] \in {"zero", "mine"}
  BY <1>1, Zenon DEF IsSettled
<1>5. DOMAIN <<>> = {}
  OBVIOUS
<1> QED  BY <1>3, <1>4, <1>5, Zenon DEF CanWrite, SecretBases, f

\* NewConfigFromCLI, after app.Run, keeps the precedence and finds the secrets;
\* from a printed file it gets what was printed.
LEMMA SettleStep ==
  ASSUME CInv, Settle
  PROVE  CInv'
<1>1. /\ CanWrite(file, args) /\ conf = Flagged /\ stage = "flagged"
      /\ UNCHANGED <<file, args, env, first>> /\ stage' = "ready" /\ conf' = Settled(Flagged)
  BY Zenon DEF CInv, Progress, Settle, Settled
<1>2. Progress' /\ Reloading'
  <2>1. IsSettled(conf')
    BY <1>1, SettledIsSettled, Zenon
  <2> QED  BY <1>1, <2>1 DEF CInv, Progress, Reloading, CanWrite, IsSettled, IsConf
<1>3. IsConf(conf') /\ SameBut(FromVariables(Flagged), conf', Replaceable)
  BY <1>1, SettledKeeps, Zenon
<1>4. ASSUME NEW s PROVE Provided(s)' = Provided(s) /\ (Given(s)' <=> Given(s))
  BY <1>1, Zenon DEF Provided, Given
<1>5. SourcesInOrder'
  <2>1. ASSUME NEW s \in Settings \ Replaceable
        PROVE  conf'[s] = Provided(s) \/ (s \in LostFromFile /\ ~Given(s))
    BY <1>1, <1>3, VariablesIs, Zenon DEF SameBut
  <2> QED  BY <1>4, <2>1, Zenon DEF SourcesInOrder
<1>6. PresetsKeepExplicit'
  BY <1>1, Zenon DEF PresetsKeepExplicit
<1>7. SecretsResolve'
  <2> SUFFICES ASSUME Provided("secret") # "none", ~Given("jwt_id_key"),
                      NEW key, key = IF Provided("http_broadcast_secret") # "zero"
                                     THEN Provided("http_broadcast_secret")
                                     ELSE Provided("broadcast_key")
               PROVE  /\ conf'.jwt_secret = Effective(Provided("jwt_secret"))
                      /\ conf'.streams_secret = Effective(Provided("streams_secret"))
                      /\ IsSecured(conf') <=> /\ Effective(key) # "zero"
                                              /\ conf'.public = "zero"
    BY <1>4, Zenon DEF SecretsResolve, Effective, IsSecured
  <2> QED  BY <1>1, SettledSecrets, Zenon
<1>8. PrintedConfigLoads'
  <2> SUFFICES ASSUME first # <<>>, NEW s \in Settings \ NotPrinted
               PROVE  \/ conf'[s] = first[s]
                      \/ s \in DerivedSecrets /\ first[s] \in {"zero", "none"}
                      \/ s = "http_broadcast_port" /\ first["server_port"] = "zero"
    BY <1>1, Zenon DEF PrintedConfigLoads
  <2>1. IsSettled(first) /\ file = ToToml(first) /\ args = <<>>
    BY <1>1, Zenon DEF CInv, Reloading
  <2> QED  BY <1>1, <2>1, Reloads, Zenon
<1> QED  BY <1>2, <1>5, <1>6, <1>7, <1>8, Zenon DEF CInv, Precedence

\* The presets leave alone what the user wrote.
LEMMA PresetsStep ==
  ASSUME CInv, LoadPresets
  PROVE  CInv'
<1>1. first = <<>> /\ first' = conf /\ stage = "ready" /\ UNCHANGED <<file, args, env>>
      /\ stage' \in {"failed", "running"}
  BY Zenon DEF LoadPresets
<1>2. IsSettled(conf) /\ IsConf(conf)
  BY <1>1, Zenon DEF CInv, Progress, IsSettled
<1>3. first' # <<>>
  BY <1>1, <1>2, NotEmpty, Zenon
<1>4. conf.enats_enabled \in {"zero", "mine"}
  BY <1>2, Zenon DEF IsSettled
<1>5. ASSUME stage' = "running", NEW s \in Settings, ~Untouched(conf, s)
      PROVE  Spared(conf, conf', s)
  <2> DEFINE p == Presets(conf)
  <2>1. conf' = CASE p = "fly" -> loadFlyPreset(conf)
                  [] p = "heroku" -> loadHerokuPreset(conf)
                  [] p = "broker" -> loadBrokerPreset(conf)
                  [] OTHER -> conf
    BY <1>5, Zenon DEF LoadPresets
  <2>2. CASE p = "fly"
    <3>1. conf' = loadFlyPreset(conf)
      BY <2>1, <2>2, Zenon
    <3> QED  BY <1>2, <1>4, <1>5, <2>2, <3>1, PresetsSpare, Zenon
  <2>3. CASE p # "fly"
    <3>1. conf' \in {loadHerokuPreset(conf), loadBrokerPreset(conf), conf}
      BY <2>1, <2>3, Zenon
    <3> QED  BY <1>2, <1>4, <1>5, <3>1, PresetsSpare DEF Spared
  <2> QED  BY <2>2, <2>3, Zenon
<1>6. PresetsKeepExplicit'
  <2> SUFFICES ASSUME stage' = "running", NEW s \in Settings, ~Untouched(first, s)'
               PROVE  \/ conf'[s] = first'[s]
                      \/ /\ s \in {"broadcast_adapters", "nats_servers"}
                         /\ Presets(first)' = "fly" /\ conf'.pubsub_adapter = "nats"
    BY Zenon DEF PresetsKeepExplicit
  <2>1. ~Untouched(conf, s) /\ Presets(first)' = Presets(conf)
    BY <1>1, Zenon DEF Untouched, Presets
  <2> QED  BY <1>1, <1>5, <2>1, Zenon DEF Spared
<1>7. Progress' /\ Reloading' /\ PrintedConfigLoads'
  BY <1>1, Zenon DEF CInv, Progress, Reloading, PrintedConfigLoads, CanWrite
<1> QED
  BY <1>1, <1>3, <1>6, <1>7, Zenon DEF CInv, Precedence, SourcesInOrder, SecretsResolve, Started

\* Printing the configuration starts a process with the printed file.
LEMMA PrintStep ==
  ASSUME CInv, PrintConfig
  PROVE  CInv'
<1>1. IsSettled(conf)
  BY Zenon DEF CInv, Progress, PrintConfig
<1>2. first' # <<>> /\ first' = conf /\ stage' = "start" /\ conf' = Defaults
      /\ file' = ToToml(conf) /\ args' = <<>>
  BY <1>1, NotEmpty, Zenon DEF PrintConfig, IsSettled
<1>3. Progress'
  <2>1. CanWrite(file', args')
    BY <1>1, <1>2, PrintedCanBeWritten, Zenon
  <2> QED  BY <1>2, <2>1, Zenon DEF Progress, CanWrite
<1>4. Reloading'
  BY <1>1, <1>2, Zenon DEF Reloading, IsSettled, IsConf
<1> QED
  BY <1>2, <1>3, <1>4, Zenon DEF CInv, Precedence, SourcesInOrder, PresetsKeepExplicit,
     SecretsResolve, PrintedConfigLoads, Started

\* Whatever the file and the flags are, the configuration goes from one stage
\* to the next as described.
LEMMA CInvariant == CSpec => []CInv
<1>1. CInit => CInv
  BY ConfigAssumption, Zenon
  DEF CInit, CInv, Progress, Reloading, Precedence, SourcesInOrder, PresetsKeepExplicit,
      SecretsResolve, PrintedConfigLoads, Started
<1>2. ASSUME CInv, [CNext]_cvars PROVE CInv'
  <2>1. CASE LoadFromFile
    BY <1>2, <2>1, Zenon DEF LoadFromFile, CInv, Progress, Reloading, CanWrite, Precedence,
       SourcesInOrder, PresetsKeepExplicit, SecretsResolve, PrintedConfigLoads, Started
  <2>2. CASE FlagActions
    BY <1>2, <2>2, Zenon
    DEF FlagActions, Flagged, CInv, Progress, Reloading, CanWrite, Precedence,
       SourcesInOrder, PresetsKeepExplicit, SecretsResolve, PrintedConfigLoads, Started
  <2>3. CASE Settle
    BY <1>2, <2>3, SettleStep, Zenon
  <2>4. CASE LoadPresets
    BY <1>2, <2>4, PresetsStep, Zenon
  <2>5. CASE PrintConfig
    BY <1>2, <2>5, PrintStep, Zenon
  <2>6. CASE UNCHANGED cvars
    <3>1. Progress'
      BY <1>2, <2>6 DEF cvars, CInv, Progress, CanWrite, Flagged, Over, Picked, IsSettled, IsConf
    <3>2. Reloading'
      BY <1>2, <2>6, Zenon DEF cvars, CInv, Reloading, IsSettled, IsConf
    <3>3. (Precedence /\ SecretsResolve /\ PrintedConfigLoads)'
      BY <1>2, <2>6, Zenon DEF cvars, CInv, Precedence, SourcesInOrder, PresetsKeepExplicit,
         SecretsResolve, PrintedConfigLoads, Started, Provided, Given, Effective, IsSecured,
         Untouched, Presets, Explicit
    <3> QED  BY <3>1, <3>2, <3>3, Zenon DEF CInv
  <2> QED  BY <1>2, <2>1, <2>2, <2>3, <2>4, <2>5, <2>6, Zenon DEF CNext
<1> QED  BY <1>1, <1>2, PTL DEF CSpec

\* For every file and all flags: a flag wins over the file and the file over the
\* default, for each setting that no other one replaces (but for the two lists of
\* the file that are overwritten), and a preset leaves alone what the user wrote.
THEOREM SourcesRank == CSpec => []Precedence
BY CInvariant, PTL DEF CInv

\* For every file and all flags, the JWT, the signed streams and the HTTP
\* broadcasts are secured by their own secret, or else by the application's.
THEOREM SecretsAreResolved == CSpec => []SecretsResolve
BY CInvariant, PTL DEF CInv

\* For every file and all flags: a process started from what --print-config wrote
\* has the configuration that was printed, with the exceptions the property names.
THEOREM PrintedConfigReloads == CSpec => []PrintedConfigLoads
BY CInvariant, PTL DEF CInv
=============================================================================
