---------------------------- MODULE StatusCommand ----------------------------
(***************************************************************************)
(* One limitora status command from its arguments to its exit: parse and   *)
(* main of cli/__init__.py, composition.py, the provider's detect and      *)
(* fetch, the client's judgement and output.py's envelope.                 *)
(*                                                                         *)
(* Arguments come one by one.  A string is one of few that differ in what  *)
(* the code asks of them.  An exchange and an HTTP fetch are their results *)
(* (modules CodexSession and OpenCodeGo).                                  *)
(***************************************************************************)
EXTENDS CodexMapping, FiniteSets

CONSTANTS
  Payloads,       \* what a Codex exchange may return
  OpenCodeUsages, \* the valid windows an OpenCode Go response may have
  Environments,   \* values of LIMITORA_OPENCODE_API_KEY, None if it is not set
  RunnerValues,   \* values of --runner
  Instants,       \* when the client judges a snapshot of instant 0
  MaximumAge,     \* five minutes
  MaxRunner       \* bound: number of --runner flags

VARIABLES
  phase,      \* where the command is
  invoker,    \* who runs main: a shell, the live driver, an embedding program
  platform,   \* os.name
  environ,    \* the environment variable
  args,       \* the locals of parse
  config,     \* what is handed to activate_provider, and the policy
  consulted,  \* history: the provider whose source was asked
  result,     \* what read_status gave, or the error it raised
  printed,    \* what was written, and to which stream
  exit        \* the exit status

commandVars == <<phase, invoker, platform, environ, args, config, consulted, result,
                 printed, exit>>

Flags == {"help", "json", "codexAllow", "opencodeAllow"}
Providers == {"codex", "opencode-go"}
ASSUME ProvidersAssumption == None \notin Providers
NoArgs == [help |-> FALSE, json |-> FALSE, codexAllow |-> FALSE, opencodeAllow |-> FALSE,
           provider |-> None, runner |-> <<>>, apiKey |-> None, timeout |-> None]

NoAnswer == [kind |-> "none"]

(* A command of the live driver begins when that has passed its preflight. *)
CommandInit ==
  /\ invoker \in {"shell", "driver", "program"}
  /\ phase = IF invoker = "driver" THEN "preflight" ELSE "parse"
  /\ platform \in {"posix", "nt"}
  /\ environ \in Environments
  /\ args = NoArgs
  /\ config = None
  /\ consulted = None
  /\ result = NoAnswer
  /\ printed = None
  /\ exit = None

-----------------------------------------------------------------------------
(* How a command ends.                                                     *)

UnchangedCall == UNCHANGED <<invoker, platform, environ, consulted>>

(* main returns; what it wrote goes to one stream. *)
Output(code, stream, form, doc) ==
  /\ phase' = "exited"
  /\ exit' = code
  /\ printed' = [stream |-> stream, form |-> form, doc |-> doc]
  /\ UNCHANGED <<args, config, result>>
  /\ UnchangedCall

Exit(code, stream, form) == Output(code, stream, form, None)

(* An exception nothing catches: a traceback, and status 1. *)
Escape == Exit(1, "err", "traceback")

UsageError == Exit(2, "err", "usage")

-----------------------------------------------------------------------------
(* parse                                                                   *)

Parsing == phase = "parse" /\ invoker # "driver"

Set(field, value) ==
  /\ args' = [args EXCEPT ![field] = value]
  /\ UNCHANGED <<phase, config, result, printed, exit>>
  /\ UnchangedCall

(* No command, another command, an unknown flag or a stray argument.       *)
WrongToken == Parsing /\ UsageError

BooleanFlag(flag) ==
  /\ Parsing
  /\ \/ args[flag] /\ UsageError
     \/ ~args[flag] /\ Set(flag, TRUE)

(* _consume_value: no next token, or one that looks like a flag, is no     *)
(* value; a runner argument may be any flag that is not limitora's.        *)
Dashed == {"--json", "--stdio", "-c"}
KnownFlags == {"--json"}
IsValue(token, forRunner) ==
  /\ token # None
  /\ token \in Dashed => forRunner /\ token \notin KnownFlags

ProviderFlag(token) ==
  /\ Parsing
  /\ \/ (~IsValue(token, FALSE) \/ args.provider # None \/ token \notin Providers) /\ UsageError
     \/ IsValue(token, FALSE) /\ args.provider = None /\ token \in Providers
        /\ Set("provider", token)

RunnerFlag(token) ==
  /\ Parsing
  /\ Len(args.runner) < MaxRunner
  /\ \/ ~IsValue(token, TRUE) /\ UsageError
     \/ IsValue(token, TRUE) /\ Set("runner", Append(args.runner, token))

ApiKeyFlag(token) ==
  /\ Parsing
  /\ \/ (~IsValue(token, FALSE) \/ args.apiKey # None) /\ UsageError
     \/ IsValue(token, FALSE) /\ args.apiKey = None /\ Set("apiKey", token)

(* isdigit() holds of the last two, and int() makes seconds of them, or    *)
(* raises: a superscript is a digit to the one and not to the other.       *)
TimeoutTokens == {None, "--json", "ten", "digits", "superscript"}

TimeoutFlag(token, seconds) ==
  /\ Parsing
  /\ \/ /\ \/ ~IsValue(token, FALSE) \/ args.timeout # None \/ token = "ten"
           \/ token = "digits" /\ seconds \notin 1 .. 10
        /\ UsageError
     \/ args.timeout = None /\ token = "superscript" /\ Escape
     \/ args.timeout = None /\ token = "digits" /\ seconds \in 1 .. 10
        /\ Set("timeout", seconds)

ParseToken ==
  \/ WrongToken
  \/ \E flag \in Flags : BooleanFlag(flag)
  \/ \E token \in Providers \union {None, "--json", "other"} : ProviderFlag(token)
  \/ \E token \in RunnerValues \union {None} : RunnerFlag(token)
  \/ \E token \in {"key", " key", "", None, "-c"} : ApiKeyFlag(token)
  \/ \E token \in TimeoutTokens, seconds \in {0, 1, 10, 11} : TimeoutFlag(token, seconds)

CodexFlags == args.runner # <<>> \/ args.codexAllow
OpenCodeFlags == args.apiKey # None \/ args.timeout # None \/ args.opencodeAllow

(* Without a provider all the flags are let through. *)
ForeignFlags ==
  \/ CodexFlags /\ args.provider = "opencode-go"
  \/ OpenCodeFlags /\ args.provider = "codex"

Blank == {"", " "}

(* Mutant of KeyRefused: the flag wins over the environment. *)
KeyRefusedUnlessGiven == args.apiKey = None /\ (environ = None \/ environ \in Blank)

(* _resolve_opencode_source, and the check that it found one. *)
KeyRefused ==
  \/ args.apiKey # None /\ environ # None
  \/ args.apiKey = None /\ environ = None
  \/ environ \in Blank

(* The end of the arguments. *)
RefuseArguments ==
  /\ phase = "parse"
  /\ ~args.help
  /\ \/ ForeignFlags
     \/ args.provider = "codex" /\ args.runner = <<>>
     \/ args.provider = "opencode-go" /\ KeyRefused
  /\ UsageError

ParseEnds ==
  /\ phase = "parse"
  /\ \/ args.help
     \/ /\ ~ForeignFlags
        /\ args.provider = "codex" => args.runner # <<>>
        /\ args.provider = "opencode-go" => ~KeyRefused
  /\ phase' = IF args.help THEN "help" ELSE IF args.provider = None THEN "factory" ELSE "compose"
  /\ UNCHANGED <<args, config, result, printed, exit>>
  /\ UnchangedCall

ShowHelp ==
  /\ phase = "help"
  /\ Exit(0, IF args.json THEN "err" ELSE "out", "help")

-----------------------------------------------------------------------------
(* Composition.                                                            *)

(* _is_native_absolute_runner_path; two slashes begin a POSIX path and a   *)
(* complete UNC path both.                                                 *)
NativeAbsolute(path) ==
  path \in IF platform = "posix" THEN {"/codex", "//host/share"} ELSE {"C:/codex", "//host/share"}

Padded == {"", " ", " key", " codex"}

(* Mutant of ValidCodex: only a single value is looked at. *)
ValidCodexShort(runner) == Len(runner) = 1 => NativeAbsolute(runner[1])

ValidCodex(runner) ==
  /\ runner # <<>>
  /\ \A i \in DOMAIN runner : runner[i] \notin Padded
  /\ NativeAbsolute(runner[1])

ValidOpenCode(apiKey, timeout) == apiKey \notin Padded /\ timeout \in 1 .. 10

ValidConfig(c) ==
  \/ c.provider = "codex" /\ ValidCodex(c.runner)
  \/ c.provider = "opencode-go" /\ ValidOpenCode(c.apiKey, c.timeout)

(* build_status_client: the kind of CompositionError it raises, or "built".*)
Composition(enabled, c, dependencies) ==
  IF ~enabled THEN "DISABLED"
  ELSE IF c = None \/ dependencies = None THEN "MISSING"
  ELSE IF ~ValidConfig(c) THEN "INVALID"
  ELSE IF dependencies.provider # c.provider THEN "DEPENDENCY_MISMATCH"
  ELSE IF dependencies.usable THEN "built" ELSE "INVALID"

Dependencies == [provider : Providers, usable : BOOLEAN]

(* The single runner value the command completes. *)
Shorthand(runner) ==
  IF Len(runner) = 1 /\ NativeAbsolute(runner[1]) THEN runner \o <<"app-server", "--stdio">>
  ELSE runner

Policy ==
  IF \/ args.provider = "codex" /\ args.codexAllow
     \/ args.provider = "opencode-go" /\ args.opencodeAllow
  THEN "ALLOW" ELSE "DENY"

(* intent_to_config *)
Config ==
  [provider |-> args.provider, policy |-> Policy, runner |-> Shorthand(args.runner),
   apiKey |-> IF environ = None THEN args.apiKey ELSE environ,
   timeout |-> IF args.timeout = None THEN 10 ELSE args.timeout]

(* activate_provider, which makes the dependencies that match. *)
Activate ==
  /\ phase = "compose"
  /\ \/ /\ Composition(TRUE, Config, [provider |-> Config.provider, usable |-> TRUE]) = "built"
        /\ phase' = "read"
        /\ config' = Config
        /\ UNCHANGED <<args, result, printed, exit>>
        /\ UnchangedCall
     \/ /\ Composition(TRUE, Config, [provider |-> Config.provider, usable |-> TRUE]) # "built"
        /\ Exit(2, "err", "composition")

(* Without a provider only an embedding program has a client to offer.     *)
Unconfigured ==
  /\ phase = "factory"
  /\ invoker # "program"
  /\ Exit(4, "err", "unconfigured")

(* Its factory has a reader of its own ...                                 *)
OfferReader ==
  /\ phase = "factory"
  /\ invoker = "program"
  /\ phase' = "read"
  /\ config' = [provider |-> "custom", policy |-> "DENY"]
  /\ UNCHANGED <<args, result, printed, exit>>
  /\ UnchangedCall

(* ... or composes one: a CompositionError is not caught there.            *)
ComposeReader ==
  /\ phase = "factory"
  /\ invoker = "program"
  /\ \E enabled \in BOOLEAN, dependencies \in Dependencies \union {None},
        c \in {[provider |-> "codex", policy |-> "DENY", runner |-> <<"/codex">>],
               [provider |-> "opencode-go", policy |-> "DENY", apiKey |-> "key", timeout |-> 10],
               None} :
       \/ /\ Composition(enabled, c, dependencies) = "built"
          /\ phase' = "read"
          /\ config' = c
          /\ UNCHANGED <<args, result, printed, exit>>
          /\ UnchangedCall
       \/ Composition(enabled, c, dependencies) # "built" /\ Escape

-----------------------------------------------------------------------------
(* The read.                                                               *)

(* The client has its answer. *)
Answer(r) ==
  /\ phase' = "render"
  /\ result' = r
  /\ UNCHANGED <<invoker, platform, environ, args, config, printed, exit>>

ErrorOf(provider, failed, message) ==
  [kind |-> "error", provider |-> provider, error |-> failed.error,
   retryable |-> failed.retryable, message |-> message]

(* read_status judges a snapshot by the clock when it has it. *)
Judged(snapshot, now) ==
  [kind |-> "snapshot", snapshot |-> snapshot,
   freshness |-> IF Stale(snapshot, now, MaximumAge) THEN "stale" ELSE "fresh"]

(* CodexProvider.detect *)
RunnerDetected ==
  /\ config.runner # <<>>
  /\ NativeAbsolute(config.runner[1])
  /\ \A i \in DOMAIN config.runner : config.runner[i] \notin Padded

Denied == config.policy = "DENY"

(* What does not get as far as the source. *)
ReadRefused ==
  /\ phase = "read"
  /\ \/ config.provider = "codex" /\ ~RunnerDetected /\ Answer([kind |-> "undetected"])
     \/ /\ config.provider # "custom"
        /\ config.provider = "codex" => RunnerDetected
        /\ Denied
        /\ Answer(ErrorOf(config.provider, Failed("UNAUTHORIZED", FALSE), "denied"))
  /\ UNCHANGED consulted

Consult(provider) ==
  /\ phase = "read"
  /\ config.provider = provider
  /\ provider = "codex" => RunnerDetected
  /\ ~Denied
  /\ consulted' = provider

FailureKinds == {"NOT_CONFIGURED", "UNAUTHORIZED", "RATE_LIMITED", "UNAVAILABLE", "TIMEOUT",
                 "PROTOCOL", "PROCESS"}

AnswerMapped(mapping) ==
  \/ mapping.kind = "error" /\ Answer(ErrorOf("codex", mapping, "quota source"))
  \/ mapping.kind = "snapshot" /\ \E now \in Instants : Answer(Judged(mapping.snapshot, now))

ReadCodex ==
  /\ Consult("codex")
  /\ \/ \E failure \in FailureKinds : AnswerMapped(TransportFailure(failure))
     \/ \E payload \in Payloads : AnswerMapped(MapPayload(payload, 0))

(* OpenCodeGoProvider._window *)
OpenCodeWindow(period, usage) ==
  [kind |-> "COMMERCIAL_QUOTA", scope |-> "account", period |-> period, plan |-> None,
   source |-> PlanlessSource,
   availability |-> IF usage.limited THEN "RATE_LIMITED" ELSE "KNOWN",
   limit |-> IF usage.limited THEN None ELSE Points(100),
   used |-> IF usage.limited THEN None ELSE Points(usage.percent),
   remaining |-> IF usage.limited THEN None ELSE Points(100 - usage.percent),
   reset |-> IF usage.limited THEN None ELSE usage.reset]

OpenCodeSnapshot(usages, now) ==
  [provider |-> "opencode-go", state |-> IF Len(usages) = 3 THEN "AVAILABLE" ELSE "PARTIAL",
   observedAt |-> now, fetchedAt |-> now, dataAt |-> now, usage |-> None, credits |-> None,
   windows |-> [i \in DOMAIN usages |-> OpenCodeWindow(usages[i].period, usages[i])]]

ParseMessages == {"no valid quota window", "not UTF-8 JSON", "root not an object"}

(* The errors of OpenCodeGoProvider.fetch. *)
OpenCodeErrors ==
  {ErrorOf("opencode-go", Failed("PARSE_FAILED", FALSE), message) : message \in ParseMessages}
  \union {ErrorOf("opencode-go", failed, "source") :
            failed \in {Failed("UNAUTHORIZED", FALSE), Failed("RATE_LIMITED", TRUE),
                        Failed("SOURCE_UNAVAILABLE", TRUE), Failed("UNSUPPORTED", FALSE),
                        Failed("TRANSPORT", TRUE), Failed("TRANSPORT", FALSE)}}

ReadOpenCode ==
  /\ Consult("opencode-go")
  /\ \/ \E error \in OpenCodeErrors : Answer(error)
     \/ \E usages \in OpenCodeUsages, now \in Instants :
          /\ SnapshotAccepted(OpenCodeSnapshot(usages, 0))
          /\ Answer(Judged(OpenCodeSnapshot(usages, 0), now))

(* The mapping raises what is no ProviderError (see CodexMapping and       *)
(* OpenCodeGo): main does not catch it.                                    *)
SourceRaises ==
  /\ \/ Consult("codex") /\ \E payload \in Payloads : MapPayload(payload, 0) = Raised
     \/ Consult("opencode-go")
  /\ phase' = "exited"
  /\ exit' = 1
  /\ printed' = [stream |-> "err", form |-> "traceback", doc |-> None]
  /\ UNCHANGED <<invoker, platform, environ, args, config, result>>

CustomAnswers ==
  {[kind |-> "undetected"], [kind |-> "unsupported"],
   ErrorOf("custom", Failed("FILE_MISSING", FALSE), "file")}
CustomSnapshots ==
  {[kind |-> "snapshot", snapshot |-> OpenCodeSnapshot(usages, 0), freshness |-> age] :
     usages \in OpenCodeUsages, age \in {"fresh", "stale"}}

(* A reader of the program's own answers or raises what it likes.          *)
ReadCustom ==
  /\ phase = "read"
  /\ config.provider = "custom"
  /\ Escape \/ (UNCHANGED consulted /\ \E r \in CustomAnswers \union CustomSnapshots : Answer(r))

-----------------------------------------------------------------------------
(* Output.                                                                 *)

(* window_to_dict: an amount that is not there is null. *)
WindowDoc(w) ==
  [kind |-> w.kind, scope |-> w.scope, period |-> w.period,
   remaining |-> IF w.remaining = None THEN None ELSE w.remaining.value]

(* snapshot_to_dict, undetected_to_dict and error_to_dict *)
Envelope(r) ==
  CASE r.kind = "snapshot" ->
         [version |-> 1, body |-> "snapshot", provider |-> r.snapshot.provider,
          freshness |-> r.freshness,
          windows |-> [i \in DOMAIN r.snapshot.windows |-> WindowDoc(r.snapshot.windows[i])]]
    [] r.kind = "error" ->
         [version |-> 1, body |-> "error", provider |-> r.provider, error |-> r.error,
          message |-> r.message, retryable |-> r.retryable, exact |-> TRUE, typed |-> TRUE]
    [] OTHER -> [version |-> 1, body |-> "undetected"]

ExitCode(r) ==
  CASE r.kind = "error" -> 5
    [] r.kind = "snapshot" /\ r.freshness = "stale" -> 3
    [] OTHER -> 0

(* Mutant of Stream: errors go to stderr in either form. *)
StreamOfErrors(r) == IF r.kind = "error" THEN "err" ELSE "out"

Stream(r) == IF r.kind = "error" /\ ~args.json THEN "err" ELSE "out"

(* _render_result *)
Render ==
  /\ phase = "render"
  /\ \/ result.kind = "unsupported" /\ Escape
     \/ /\ result.kind # "unsupported"
        /\ \/ args.json /\ Output(ExitCode(result), Stream(result), "json", Envelope(result))
           \/ ~args.json /\ Output(ExitCode(result), Stream(result), "human", None)

CommandStep ==
  \/ ParseToken \/ RefuseArguments \/ ParseEnds \/ ShowHelp
  \/ Activate \/ Unconfigured \/ OfferReader \/ ComposeReader
  \/ ReadRefused \/ ReadCodex \/ ReadOpenCode \/ SourceRaises \/ ReadCustom
  \/ Render

-----------------------------------------------------------------------------

(* A source is asked only when the command names its provider and gives    *)
(* that provider's own consent, with a key that came from the flag or from *)
(* the environment and never from both; an embedding program's factory     *)
(* gives no consent.                                                       *)
ConsultedAsAsked ==
  consulted # None =>
    /\ args.provider = consulted /\ exit \notin {2, 4}
    /\ consulted = "codex" => args.codexAllow /\ ~OpenCodeFlags
    /\ consulted = "opencode-go" =>
         /\ args.opencodeAllow /\ ~CodexFlags
         /\ args.apiKey = None \/ environ = None
         /\ config.apiKey \in {args.apiKey, environ} \ {None}

(* A client that was composed detects its source: what composition accepts *)
(* the provider's own check accepts, after the shorthand and on either     *)
(* platform.  Only a reader of the program's own goes undetected.          *)
ComposedIsDetected ==
  result.kind = "undetected" => config.provider = "custom"

(* The exit status tells how the command ended: 3 for a stale snapshot     *)
(* alone, 5 for a provider's error alone, 0 for any other answer and for   *)
(* help; 2 only before there is a reader, 4 only of a shell's command that *)
(* names no provider; 1 for an exception that gets out, of a source that   *)
(* was asked, of an embedding program's own factory or reader, or of the   *)
(* timeout.  With --json exactly the answers and the provider's errors are *)
(* on stdout, where a script looks for them.                               *)
StreamTellsOutcome ==
  LET answered == result.kind \notin {"none", "unsupported"}
      stale == answered /\ result.kind = "snapshot" /\ result.freshness = "stale"
      failed == answered /\ result.kind = "error"
  IN phase = "exited" =>
       /\ (exit = 3) = stale
       /\ (exit = 5) = failed
       /\ (exit = 0) = (printed.form = "help" \/ (answered /\ ~stale /\ ~failed))
       /\ exit = 4 => invoker # "program" /\ args.provider = None /\ ~args.help
       /\ exit \in {2, 4} => config = None
       /\ exit = 1 /\ consulted = None =>
            (invoker = "program" /\ args.provider = None) \/ args.timeout = None
       /\ exit \in {1, 2, 4} => printed.stream = "err" /\ ~answered
       /\ args.json => (printed.stream = "out") = answered
       /\ printed.form = "json" => printed.doc = Envelope(result)
=============================================================================
