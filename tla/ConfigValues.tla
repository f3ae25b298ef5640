---------------------------- MODULE ConfigValues ----------------------------
(***************************************************************************)
(* The configuration of a process (config/config.go, config.go) and the    *)
(* run-time settings that follow it: the default RPC timeout               *)
(* (rpc/rpcserver_timeout.go), the log level (log/logger.go) and the token *)
(* of the admin server, through which an operator reloads (rpc/admin.go).  *)
(*                                                                         *)
(* Four keys stand for the fields by kind: Timeout an integer, Push a      *)
(* boolean, Level and AdminToken strings.  Raw values are strings of a few *)
(* kinds; Unset is a variable that does not exist, or a key that the file  *)
(* has not.                                                                *)
(***************************************************************************)
EXTENDS Integers, Sequences, SequencesExt

CONSTANT Int32Max   \* what StrToAny[int] can still read

ASSUME ConfigAssumption == Int32Max \in Nat

Timeout == "RPCDefaultTimeoutMs"
Push == "GatePush"
Level == "LogLevel"
AdminToken == "AdminToken"
Key == {Timeout, Push, Level, AdminToken}
Unset == "unset"

Default ==
    [RPCDefaultTimeoutMs |-> "5000", GatePush |-> "true", LogLevel |-> "debug", AdminToken |-> ""]

\* strconv.ParseInt of the raw values that are decimal, and FormatInt.
Decimal ==
    [s \in {"5000", "200", "0", "3000000000"} |->
        CASE s = "5000" -> 5000 [] s = "200" -> 200 [] s = "0" -> 0 [] OTHER -> 2 * Int32Max]
FormatInt(n) == CHOOSE s \in DOMAIN Decimal : Decimal[s] = n

TrueWords == {"1", "true", "yes", "y", "on"}
FalseWords == {"0", "false", "no", "n", "off", ""}

\* assignField accepts raw for the key; Parsed is what it assigns.
Parses(k, raw) ==
    CASE k = Timeout -> raw \in DOMAIN Decimal
      [] k = Push -> raw \in TrueWords \union FalseWords
      [] OTHER -> TRUE

Parsed(k, raw) ==
    CASE k = Timeout -> Decimal[raw]
      [] k = Push -> raw \in TrueWords
      [] OTHER -> raw

\* canonicalString: what the old string API shows of a field.
CanonicalString(k, v) ==
    CASE k = Timeout -> FormatInt(v)
      [] k = Push -> IF v THEN "1" ELSE "0"
      [] OTHER -> v

\* A variable that does not exist or is empty takes the default.
Raw(env, k) == IF env[k] \in {Unset, ""} THEN Default[k] ELSE env[k]

\* fillStructInto in its two modes.
LoadFromEnv(env) == [k \in Key |-> Parsed(k, Raw(env, k))]
Lenient(env) ==
    [k \in Key |-> Parsed(k, IF Parses(k, Raw(env, k)) THEN Raw(env, k) ELSE Default[k])]
EnvParses(env) == \A k \in Key : Parses(k, Raw(env, k))

ExportEnvMap(cfg) == [k \in Key |-> CanonicalString(k, cfg[k])]

-----------------------------------------------------------------------------
(* A process p is [env, file, current, snapshot, timeout, level, failed,   *)
(* status]: its variables, its .env file, the two views of the             *)
(* configuration, the settings, whether the last reload reported an error, *)
(* and what the admin server answered last.                                *)

ParseLogLevel(raw) == IF raw \in {"debug", "info", "warn", "error"} THEN raw ELSE "debug"

\* The subscribers of OnReload, which also run once at the start.
ApplyHooks(p, cfg) ==
    [p EXCEPT !.timeout = IF cfg[Timeout] <= 0 THEN 5000 ELSE cfg[Timeout],
              !.level = ParseLogLevel(cfg[Level])]

\* godotenv.Load leaves a variable that exists alone, Overload does not.
GodotenvLoad(env, file) == [k \in Key |-> IF env[k] = Unset THEN file[k] ELSE env[k]]
GodotenvOverload(env, file) == [k \in Key |-> IF file[k] = Unset THEN env[k] ELSE file[k]]

\* doInitConfig: a value that does not parse falls back to its default.
InitConfig(env, file) ==
    LET e == GodotenvLoad(env, file)
        cfg == Lenient(e)
    IN  ApplyHooks([env |-> e, file |-> file, current |-> cfg,
                    snapshot |-> ExportEnvMap(cfg), timeout |-> 0,
                    level |-> "", failed |-> FALSE, status |-> 0], cfg)

\* Mutant of Reload: it stores what it has parsed before it meets the error.
ReloadLenient(p) ==
    LET e == GodotenvOverload(p.env, p.file)
        cfg == Lenient(e)
    IN  [ApplyHooks([p EXCEPT !.env = e, !.current = cfg, !.snapshot = ExportEnvMap(cfg)],
                    cfg) EXCEPT !.failed = ~EnvParses(e)]

\* Reload puts the file's values into the variables, also when one of them
\* does not parse: then both views and the settings stay as they were.
Reload(p) ==
    LET e == GodotenvOverload(p.env, p.file)
        cfg == LoadFromEnv(e)
    IN  IF ~EnvParses(e) THEN [p EXCEPT !.env = e, !.failed = TRUE]
        ELSE [ApplyHooks([p EXCEPT !.env = e, !.current = cfg,
                                   !.snapshot = ExportEnvMap(cfg)], cfg)
              EXCEPT !.failed = FALSE]

\* SetDefaultRPCTimeout: the configuration wins again at the next reload.
SetDefaultRPCTimeout(p, ms) == IF ms <= 0 THEN p ELSE [p EXCEPT !.timeout = ms]

\* GetStrConfig of the old API reads the snapshot and converts it again; an
\* integer that needs more than 32 bits is an error there and reads as 0.
GetStrConfigInt(p, k) ==
    LET s == p.snapshot[k] IN
    IF s \notin DOMAIN Decimal \union {"1"} THEN 0
    ELSE IF s = "1" THEN 1
    ELSE IF Decimal[s] > Int32Max THEN 0 ELSE Decimal[s]

\* resolveRPCTimeout without an override of the method.
ResolveRPCTimeout(p) == IF p.timeout <= 0 THEN 5000 ELSE p.timeout

-----------------------------------------------------------------------------
(* POST /config/reload: a request is [method, authorization, x], the two   *)
(* headers that may carry the token ("" for none).                         *)

\* A token in Authorization, bare or after Bearer, hides X-Admin-Token.
ExtractRequestToken(q) == IF q.authorization # "" THEN q.authorization ELSE q.x

HandleConfigReload(p, q) ==
    IF q.method # "POST" THEN [p EXCEPT !.status = 405]
    ELSE [Reload(p) EXCEPT !.status = IF Reload(p).failed THEN 500 ELSE 200]

\* AuthMiddleware reads the token that is in force now; a preflight passes.
AuthMiddleware(p, q) ==
    IF q.method = "OPTIONS" THEN HandleConfigReload(p, q)
    ELSE IF p.current[AdminToken] = "" THEN [p EXCEPT !.status = 503]
    ELSE IF ExtractRequestToken(q) = p.current[AdminToken] THEN HandleConfigReload(p, q)
    ELSE [p EXCEPT !.status = 401]
=============================================================================
