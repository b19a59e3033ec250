------------------------- MODULE LiveOperatorProofs -------------------------
(***************************************************************************)
(* Proofs about LiveOperator: whose source a command asks, how it exits    *)
(* and what the live driver makes of that.  The inductive invariant says   *)
(* what each phase knows of the arguments and of the configuration, and    *)
(* that the driver's own command can only end up at OpenCode Go.           *)
(***************************************************************************)
EXTENDS LiveOperator, TLAPS

Early == {"preflight", "parse", "help", "factory", "compose", "read"}

(* Up to the read nobody was asked and nothing was written. *)
NothingYet ==
  phase \in Early \union {"foreign"} =>
    /\ consulted = None /\ result = NoAnswer
    /\ phase # "foreign" => printed = None /\ exit = None
    /\ phase # "read" => config = None

(* What parse lets through, when there is a provider. *)
ArgumentsTaken == ~ForeignFlags /\ (args.provider = "opencode-go" => ~KeyRefused)

(* An embedding program's command that leaves the reader to it. *)
Embedded == invoker = "program" /\ args.provider = None

(* What the read starts from. *)
Composed ==
  \/ config.provider = "custom" /\ Embedded
  \/ ValidConfig(config) /\ config.policy = "DENY"
  \/ ValidConfig(config) /\ config = Config /\ ArgumentsTaken

Configured ==
  /\ phase = "compose" => ArgumentsTaken
  /\ phase = "factory" => args.provider = None /\ ~args.help
  /\ phase = "read" => Composed

(* There is an answer to render, and no exit status yet. *)
Rendering ==
  phase = "render" =>
    /\ result.kind \in {"undetected", "unsupported", "error", "snapshot"} /\ exit = None
    /\ result.kind = "unsupported" => Embedded

(* A document goes with JSON alone. *)
Documents ==
  /\ phase = "exited" => printed.form = "json" \/ (printed.form # "foreign" /\ printed.doc = None)
  /\ phase = "exited" /\ printed.form = "json" => result.kind # "none"
  /\ phase = "foreign" => printed.form = "foreign"

(* The driver's command names OpenCode Go and allows it. *)
DriverAnswer ==
  \/ result \in OpenCodeErrors
  \/ /\ result.kind = "snapshot" /\ result.snapshot.provider = "opencode-go"
     /\ result.freshness \in {"fresh", "stale"}

DriversCommand ==
  invoker = "driver" =>
    /\ phase \notin {"help", "factory"}
    /\ phase \in {"parse", "compose", "read"} =>
         ~args.help /\ args.provider = "opencode-go" /\ args.opencodeAllow
    /\ phase = "read" => config = Config
    /\ result.kind # "none" => consulted = "opencode-go" /\ DriverAnswer

OperatorInv ==
  /\ NothingYet /\ Configured /\ Rendering /\ Documents /\ DriversCommand
  /\ ConsultedAsAsked /\ ComposedIsDetected /\ StreamTellsOutcome /\ VerdictTellsOutcome

-----------------------------------------------------------------------------

(* The exit statuses are integers, and None is none of them. *)
LEMMA NoneIsNoStatus == None \notin {0, 1, 2, 3, 4, 5, 10}
BY NoneAssumption

(* The invariant holds before the command starts. *)
LEMMA OperatorInitInv == OperatorInit => OperatorInv
BY NoneIsNoStatus
DEF OperatorInit, CommandInit, OperatorInv, NothingYet, Configured, Rendering, Documents,
    DriversCommand, ConsultedAsAsked, ComposedIsDetected, StreamTellsOutcome,
    VerdictTellsOutcome, NoAnswer, NoArgs, Early

(* A step that ends before the read keeps it. *)
LEMMA UsageInv ==
  ASSUME OperatorInv, NEW code \in {1, 2, 4}, NEW form \in {"usage", "traceback", "composition",
                                                            "unconfigured"},
         phase \in {"parse", "compose", "factory"}, Exit(code, "err", form), UNCHANGED verdict,
         code = 4 => invoker # "program" /\ args.provider = None /\ ~args.help,
         code = 1 => Embedded \/ args.timeout = None
  PROVE  OperatorInv'
<1> USE NoneIsNoStatus DEF Exit, Output, UnchangedCall
<1>1. NothingYet' /\ Configured' /\ Rendering' /\ Documents'
  BY DEF NothingYet, Configured, Rendering, Documents, Early
<1>2. consulted = None /\ result = NoAnswer /\ config = None
  BY DEF OperatorInv, NothingYet, Early
<1>3. DriversCommand'
  BY <1>2 DEF DriversCommand, NoAnswer
<1>4. ConsultedAsAsked' /\ ComposedIsDetected'
  BY <1>2 DEF ConsultedAsAsked, ComposedIsDetected, NoAnswer
<1>5. StreamTellsOutcome' /\ VerdictTellsOutcome'
  BY <1>2 DEF StreamTellsOutcome, VerdictTellsOutcome, NoAnswer, Embedded
<1> QED
  BY <1>1, <1>3, <1>4, <1>5 DEF OperatorInv

(* So does reading one argument. *)
LEMMA TokenInv == ASSUME OperatorInv, ParseToken, UNCHANGED verdict PROVE OperatorInv'
<1>1. ASSUME Parsing, NEW field, NEW value, Set(field, value) PROVE OperatorInv'
  <2> USE <1>1 DEF Parsing, Set, UnchangedCall
  <2>1. NothingYet' /\ Configured' /\ Rendering' /\ Documents' /\ DriversCommand'
    BY DEF OperatorInv, NothingYet, Configured, Rendering, Documents, DriversCommand, Early,
           NoAnswer
  <2>2. consulted = None /\ result = NoAnswer
    BY DEF OperatorInv, NothingYet, Early
  <2> QED
    BY <2>1, <2>2 DEF OperatorInv, ConsultedAsAsked, ComposedIsDetected, StreamTellsOutcome,
                      VerdictTellsOutcome, NoAnswer
<1>2. ASSUME Parsing, UsageError \/ (Escape /\ args.timeout = None) PROVE OperatorInv'
  BY <1>2, UsageInv DEF UsageError, Escape, Parsing
<1>3. CASE WrongToken
  BY <1>2, <1>3 DEF WrongToken
<1>4. CASE \E flag \in Flags : BooleanFlag(flag)
  BY <1>1, <1>2, <1>4 DEF BooleanFlag
<1>5. CASE \E token \in Providers \union {None, "--json", "other"} : ProviderFlag(token)
  BY <1>1, <1>2, <1>5 DEF ProviderFlag
<1>6. CASE \E token \in RunnerValues \union {None} : RunnerFlag(token)
  BY <1>1, <1>2, <1>6 DEF RunnerFlag
<1>7. CASE \E token \in {"key", " key", "", None, "-c"} : ApiKeyFlag(token)
  BY <1>1, <1>2, <1>7 DEF ApiKeyFlag
<1>8. CASE \E token \in TimeoutTokens, seconds \in {0, 1, 10, 11} : TimeoutFlag(token, seconds)
  BY <1>1, <1>2, <1>8 DEF TimeoutFlag
<1> QED
  BY <1>3, <1>4, <1>5, <1>6, <1>7, <1>8 DEF ParseToken

(* The end of the arguments and the help text. *)
LEMMA ParseEndInv ==
  ASSUME OperatorInv, RefuseArguments \/ ParseEnds \/ ShowHelp, UNCHANGED verdict
  PROVE  OperatorInv'
<1>1. CASE RefuseArguments
  BY <1>1, UsageInv DEF RefuseArguments, UsageError
<1>2. CASE ParseEnds
  <2> USE <1>2 DEF ParseEnds, UnchangedCall
  <2>1. consulted = None /\ result = NoAnswer
    BY DEF OperatorInv, NothingYet, Early
  <2>2. NothingYet' /\ Configured' /\ Rendering' /\ Documents'
    BY DEF OperatorInv, NothingYet, Configured, Rendering, Documents, Early, ArgumentsTaken,
           ForeignFlags, CodexFlags, OpenCodeFlags, KeyRefused
  <2>3. DriversCommand'
    <3>1. None # "opencode-go"
      BY ProvidersAssumption DEF Providers
    <3>2. invoker = "driver" => ~args.help /\ args.provider = "opencode-go" /\ args.opencodeAllow
      BY DEF OperatorInv, DriversCommand
    <3>3. invoker = "driver" => phase' = "compose"
      BY <3>1, <3>2
    <3> QED
      BY <2>1, <3>2, <3>3 DEF DriversCommand, NoAnswer
  <2> QED
    BY <2>1, <2>2, <2>3 DEF OperatorInv, ConsultedAsAsked, ComposedIsDetected,
                            StreamTellsOutcome, VerdictTellsOutcome, NoAnswer
<1>3. CASE ShowHelp
  <2> USE <1>3, NoneIsNoStatus DEF ShowHelp, Exit, Output, UnchangedCall
  <2>1. consulted = None /\ result = NoAnswer
    BY DEF OperatorInv, NothingYet, Early
  <2>2. NothingYet' /\ Configured' /\ Rendering' /\ Documents' /\ DriversCommand'
    BY <2>1 DEF OperatorInv, NothingYet, Configured, Rendering, Documents, DriversCommand,
                Early, NoAnswer
  <2> QED
    BY <2>1, <2>2 DEF OperatorInv, ConsultedAsAsked, ComposedIsDetected, StreamTellsOutcome,
                      VerdictTellsOutcome, NoAnswer
<1> QED
  BY <1>1, <1>2, <1>3

(* What is composed has a configuration its provider takes. *)
LEMMA BuiltIsValid ==
  ASSUME NEW enabled, NEW c, NEW dependencies, Composition(enabled, c, dependencies) = "built"
  PROVE  ValidConfig(c)
BY DEF Composition

(* Composition, with the command's configuration or the program's. *)
LEMMA ComposeInv ==
  ASSUME OperatorInv, Activate \/ Unconfigured \/ OfferReader \/ ComposeReader, UNCHANGED verdict
  PROVE  OperatorInv'
<1>1. ASSUME phase \in {"compose", "factory"}, phase' = "read", Composed',
             invoker = "driver" => phase = "compose" /\ config' = Config,
             UNCHANGED <<args, result, printed, exit>>, UnchangedCall
      PROVE  OperatorInv'
  <2> USE <1>1 DEF UnchangedCall
  <2>1. consulted = None /\ result = NoAnswer
    BY DEF OperatorInv, NothingYet, Early
  <2>2. NothingYet' /\ Configured' /\ Rendering' /\ Documents'
    BY DEF OperatorInv, NothingYet, Configured, Rendering, Documents, Early
  <2>3. DriversCommand'
    BY <2>1 DEF OperatorInv, DriversCommand, NoAnswer, Config, Policy, Shorthand, NativeAbsolute
  <2> QED
    BY <2>1, <2>2, <2>3 DEF OperatorInv, ConsultedAsAsked, ComposedIsDetected,
                            StreamTellsOutcome, VerdictTellsOutcome, NoAnswer
<1>2. CASE Activate
  <2> DEFINE built == Composition(TRUE, Config, [provider |-> Config.provider, usable |-> TRUE])
                        = "built"
  <2>1. CASE built /\ phase' = "read"
    <3>1. phase = "compose" /\ config' = Config /\ UNCHANGED <<args, result, printed, exit>>
          /\ UnchangedCall
      BY <1>2, <2>1 DEF Activate, Exit, Output
    <3>2. ValidConfig(Config) /\ ArgumentsTaken
      BY <2>1, <3>1, BuiltIsValid DEF OperatorInv, Configured
    <3>3. Config' = Config /\ ArgumentsTaken' /\ ValidConfig(config)'
      BY <3>1, <3>2 DEF Config, Policy, Shorthand, NativeAbsolute, ArgumentsTaken, ForeignFlags,
            CodexFlags, OpenCodeFlags, KeyRefused, UnchangedCall, ValidConfig, ValidCodex,
            ValidOpenCode
    <3>4. Composed'
      BY <3>1, <3>3 DEF Composed
    <3> QED
      BY <1>1, <2>1, <3>1, <3>4
  <2>2. CASE ~(built /\ phase' = "read")
    <3>1. phase = "compose" /\ Exit(2, "err", "composition")
      BY <1>2, <2>2 DEF Activate, Exit, Output
    <3> QED
      BY <3>1, UsageInv
  <2> QED
    BY <2>1, <2>2
<1>3. CASE Unconfigured
  BY <1>3, UsageInv DEF Unconfigured, OperatorInv, Configured
<1>4. CASE OfferReader
  <2>1. Embedded'
    BY <1>4 DEF OfferReader, OperatorInv, Configured, Embedded, UnchangedCall
  <2> QED
    BY <1>1, <1>4, <2>1 DEF OfferReader, Composed
<1>5. CASE ComposeReader
  <2>1. PICK enabled \in BOOLEAN, dependencies \in Dependencies \union {None},
             c \in {[provider |-> "codex", policy |-> "DENY", runner |-> <<"/codex">>],
                   [provider |-> "opencode-go", policy |-> "DENY", apiKey |-> "key", timeout |-> 10],
                   None} :
           \/ /\ Composition(enabled, c, dependencies) = "built"
              /\ phase' = "read"
              /\ config' = c
              /\ UNCHANGED <<args, result, printed, exit>>
              /\ UnchangedCall
           \/ Composition(enabled, c, dependencies) # "built" /\ Escape
    BY <1>5 DEF ComposeReader
  <2>2. CASE Escape
    <3>1. phase = "factory" /\ Embedded
      BY <1>5 DEF ComposeReader, OperatorInv, Configured, Embedded
    <3> QED
      BY <2>2, <3>1, UsageInv DEF Escape
  <2>3. CASE ~Escape
    <3>1. c # None
      BY <2>1, <2>3 DEF Composition
    <3>2. c.policy = "DENY" /\ ValidConfig(c)
      BY <2>1, <2>3, <3>1, BuiltIsValid
    <3>3. ValidConfig(config)'
      BY <2>1, <2>3, <3>2 DEF ValidConfig, ValidCodex, ValidOpenCode, NativeAbsolute,
                              UnchangedCall
    <3> QED
      BY <1>1, <1>5, <2>1, <2>3, <3>2, <3>3 DEF ComposeReader, Composed
  <2> QED
    BY <2>2, <2>3
<1> QED
  BY <1>2, <1>3, <1>4, <1>5

(* A read that answers, the way each reader may. *)
LEMMA AnswerInv ==
  ASSUME OperatorInv, UNCHANGED verdict, NEW r, phase = "read", Answer(r),
         r.kind \in {"undetected", "unsupported", "error", "snapshot"},
         r.kind = "undetected" => config.provider = "custom",
         r.kind = "unsupported" => Embedded,
         ConsultedAsAsked',
         invoker = "driver" => consulted' = "opencode-go" /\ DriverAnswer'
  PROVE  OperatorInv'
<1> USE DEF Answer
<1>1. NothingYet' /\ Configured' /\ Rendering' /\ Documents' /\ DriversCommand'
  BY DEF OperatorInv, NothingYet, Configured, Rendering, Documents, DriversCommand, Early,
         Embedded
<1>2. ComposedIsDetected' /\ StreamTellsOutcome' /\ VerdictTellsOutcome'
  BY DEF OperatorInv, ComposedIsDetected, StreamTellsOutcome, VerdictTellsOutcome
<1> QED
  BY <1>1, <1>2 DEF OperatorInv

(* Who has a reader's configuration and no denial gave the consent himself. *)
LEMMA ConsentGiven ==
  ASSUME OperatorInv, NEW provider \in Providers, Consult(provider),
         UNCHANGED <<args, environ, config>>, exit' \in {None, 1}
  PROVE  ConsultedAsAsked' /\ ValidConfig(config)
<1>1. /\ config.provider = provider /\ config.policy # "DENY" /\ consulted' = provider
  BY DEF Consult, Denied
<1>2. ValidConfig(config) /\ config = Config /\ ArgumentsTaken
  BY <1>1 DEF Consult, OperatorInv, Configured, Composed, Providers
<1>3. args.provider = provider /\ Policy = "ALLOW"
  BY <1>1, <1>2 DEF Config, Policy
<1>4. exit' \notin {2, 4}
  BY NoneIsNoStatus
<1>5. CASE provider = "codex"
  BY <1>1, <1>2, <1>3, <1>4, <1>5 DEF ConsultedAsAsked, Policy, ArgumentsTaken, ForeignFlags,
                                      OpenCodeFlags
<1>6. CASE provider = "opencode-go"
  <2>1. args.opencodeAllow /\ ~CodexFlags /\ ~KeyRefused
    BY <1>2, <1>3, <1>6 DEF Policy, ArgumentsTaken, ForeignFlags
  <2>2. args.apiKey = None \/ environ = None
    BY <2>1 DEF KeyRefused
  <2>3. config.apiKey \in {args.apiKey, environ} \ {None}
    BY <1>2, <2>1 DEF KeyRefused, Config
  <2>4. /\ args'.provider = consulted' /\ args'.opencodeAllow /\ ~CodexFlags'
        /\ args'.apiKey = None \/ environ' = None
        /\ config'.apiKey \in {args'.apiKey, environ'} \ {None}
    BY <1>1, <1>3, <2>1, <2>2, <2>3 DEF CodexFlags
  <2> QED
    BY <1>1, <1>2, <1>4, <1>6, <2>4 DEF ConsultedAsAsked
<1> QED
  BY <1>2, <1>5, <1>6 DEF Providers

(* The driver's command reads as OpenCode Go, with consent. *)
LEMMA DriverReadsOpenCode ==
  ASSUME OperatorInv, phase = "read", invoker = "driver"
  PROVE  config.provider = "opencode-go" /\ ~Denied
BY DEF OperatorInv, DriversCommand, Config, Policy, Denied

(* The errors of OpenCode Go are among those the driver has a code for. *)
LEMMA ErrorsOfOpenCode ==
  \A error \in OpenCodeErrors :
    /\ error.kind = "error" /\ error.provider = "opencode-go"
    /\ error.error \in DOMAIN ErrorCode
<1>1. \A message, retryable : \A kind \in DOMAIN ErrorCode :
        LET error == ErrorOf("opencode-go", Failed(kind, retryable), message) IN
        /\ error.kind = "error" /\ error.provider = "opencode-go"
        /\ error.error \in DOMAIN ErrorCode
  BY DEF ErrorOf, Failed
<1>2. {"PARSE_FAILED", "UNAUTHORIZED", "RATE_LIMITED", "SOURCE_UNAVAILABLE", "UNSUPPORTED",
       "TRANSPORT"} \subseteq DOMAIN ErrorCode
  BY DEF ErrorCode
<1>3. ASSUME NEW error \in OpenCodeErrors
      PROVE  \E message, retryable : \E kind \in DOMAIN ErrorCode :
               error = ErrorOf("opencode-go", Failed(kind, retryable), message)
  <2>1. CASE error \in {ErrorOf("opencode-go", Failed("PARSE_FAILED", FALSE), message) :
                          message \in ParseMessages}
    BY <1>2, <2>1
  <2>2. CASE error \in {ErrorOf("opencode-go", failed, "source") :
                          failed \in {Failed("UNAUTHORIZED", FALSE), Failed("RATE_LIMITED", TRUE),
                                     Failed("SOURCE_UNAVAILABLE", TRUE),
                                     Failed("UNSUPPORTED", FALSE), Failed("TRANSPORT", TRUE),
                                     Failed("TRANSPORT", FALSE)}}
    <3>1. PICK failed \in {Failed("UNAUTHORIZED", FALSE), Failed("RATE_LIMITED", TRUE),
                          Failed("SOURCE_UNAVAILABLE", TRUE), Failed("UNSUPPORTED", FALSE),
                          Failed("TRANSPORT", TRUE), Failed("TRANSPORT", FALSE)} :
            error = ErrorOf("opencode-go", failed, "source")
      BY <2>2
    <3>2. \E retryable : \E kind \in DOMAIN ErrorCode : failed = Failed(kind, retryable)
      BY <1>2
    <3> QED
      BY <3>1, <3>2
  <2> QED
    BY <2>1, <2>2 DEF OpenCodeErrors
<1> QED
  BY <1>1, <1>3

(* The read. *)
LEMMA ReadInv ==
  ASSUME OperatorInv, UNCHANGED verdict,
         ReadRefused \/ ReadCodex \/ ReadOpenCode \/ SourceRaises \/ ReadCustom
  PROVE  OperatorInv'
<1>1. phase = "read" => consulted = None /\ result = NoAnswer /\ exit = None
  BY DEF OperatorInv, NothingYet, Early
<1>2. CASE ReadRefused
  <2>1. phase = "read" /\ invoker # "driver" /\ UNCHANGED consulted
    BY <1>2, DriverReadsOpenCode DEF ReadRefused
  <2>2. invoker' = invoker
    BY <1>2 DEF ReadRefused, Answer
  <2>3. ~(config.provider = "codex" /\ ~RunnerDetected)
    BY <2>1 DEF OperatorInv, Configured, Composed, ValidConfig, ValidCodex, RunnerDetected
  <2>4. PICK r : /\ Answer(r)
                 /\ r = ErrorOf(config.provider, Failed("UNAUTHORIZED", FALSE), "denied")
    BY <1>2, <2>3 DEF ReadRefused
  <2>5. ConsultedAsAsked'
    BY <1>1, <2>1 DEF ConsultedAsAsked
  <2> QED
    BY <2>1, <2>4, <2>5, AnswerInv DEF ErrorOf
<1>3. CASE ReadCodex
  <2>1. Consult("codex") /\ phase = "read" /\ config.provider = "codex"
    BY <1>3 DEF ReadCodex, Consult
  <2>2. PICK r : Answer(r) /\ r.kind \in {"error", "snapshot"}
    <3>1. PICK m : AnswerMapped(m)
      BY <1>3 DEF ReadCodex
    <3>2. ErrorOf("codex", m, "quota source").kind = "error"
      BY DEF ErrorOf
    <3>3. \A now \in Instants : Judged(m.snapshot, now).kind = "snapshot"
      BY DEF Judged
    <3> QED
      BY <3>1, <3>2, <3>3 DEF AnswerMapped
  <2>3. UNCHANGED <<args, environ, config, exit>>
    BY <2>2 DEF Answer
  <2>4. ConsultedAsAsked'
    BY <1>1, <2>1, <2>3, ConsentGiven DEF Providers
  <2>5. invoker # "driver"
    BY <2>1, DriverReadsOpenCode
  <2> QED
    BY <2>1, <2>2, <2>4, <2>5, AnswerInv
<1>4. CASE ReadOpenCode
  <2>1. Consult("opencode-go") /\ phase = "read" /\ consulted' = "opencode-go"
    BY <1>4 DEF ReadOpenCode, Consult
  <2>2. PICK r : /\ Answer(r) /\ r.kind \in {"error", "snapshot"}
                 /\ \/ r \in OpenCodeErrors
                    \/ /\ r.kind = "snapshot" /\ r.snapshot.provider = "opencode-go"
                       /\ r.freshness \in {"fresh", "stale"}
    <3>1. CASE \E error \in OpenCodeErrors : Answer(error)
      BY <3>1, ErrorsOfOpenCode
    <3>2. CASE \E usages \in OpenCodeUsages, now \in Instants :
                 Answer(Judged(OpenCodeSnapshot(usages, 0), now))
      BY <3>2 DEF Judged, OpenCodeSnapshot
    <3> QED
      BY <1>4, <3>1, <3>2 DEF ReadOpenCode
  <2>3. UNCHANGED <<args, environ, config, exit>> /\ result' = r
    BY <2>2 DEF Answer
  <2>4. ConsultedAsAsked'
    BY <1>1, <2>1, <2>3, ConsentGiven DEF Providers
  <2>5. DriverAnswer'
    BY <2>2, <2>3 DEF DriverAnswer, OpenCodeErrors
  <2> QED
    BY <2>1, <2>2, <2>4, <2>5, AnswerInv
<1>5. CASE SourceRaises
  <2>1. PICK provider \in Providers : Consult(provider)
    BY <1>5 DEF SourceRaises, Providers
  <2>2. /\ phase = "read" /\ config.provider = provider /\ consulted' = provider
        /\ result = NoAnswer /\ exit = None
    BY <1>1, <2>1 DEF Consult
  <2> USE <1>5, <2>2 DEF SourceRaises
  <2>3. ConsultedAsAsked'
    BY <2>1, ConsentGiven
  <2>4. NothingYet' /\ Configured' /\ Rendering' /\ Documents' /\ DriversCommand'
    BY DEF OperatorInv, NothingYet, Configured, Rendering, Documents, DriversCommand, Early,
           NoAnswer
  <2>5. consulted' # None
    BY ProvidersAssumption
  <2> QED
    BY <2>3, <2>4, <2>5, NoneIsNoStatus
    DEF OperatorInv, ComposedIsDetected, StreamTellsOutcome, VerdictTellsOutcome, NoAnswer
<1>6. CASE ReadCustom
  <2>1. phase = "read" /\ config.provider = "custom" /\ consulted' = None
    BY <1>1, <1>6 DEF ReadCustom, Escape, Exit, Output, UnchangedCall
  <2>2. Embedded
    BY <2>1 DEF OperatorInv, Configured, Composed, ValidConfig
  <2>3. ConsultedAsAsked' /\ invoker # "driver"
    BY <2>1, DriverReadsOpenCode DEF ConsultedAsAsked
  <2>4. CASE Escape
    <3> USE <2>4, NoneIsNoStatus DEF Escape, Exit, Output, UnchangedCall
    <3>1. NothingYet' /\ Configured' /\ Rendering' /\ Documents' /\ DriversCommand'
      BY <2>1, <2>3 DEF OperatorInv, NothingYet, Configured, Rendering, Documents,
                        DriversCommand, Early
    <3>2. ComposedIsDetected' /\ StreamTellsOutcome' /\ VerdictTellsOutcome'
      BY <1>1, <2>1, <2>2 DEF ComposedIsDetected, StreamTellsOutcome, VerdictTellsOutcome,
                              NoAnswer, Embedded
    <3> QED
      BY <2>3, <3>1, <3>2 DEF OperatorInv
  <2>5. CASE \E r \in CustomAnswers \union CustomSnapshots : Answer(r)
    <3>1. PICK r \in CustomAnswers \union CustomSnapshots : Answer(r)
      BY <2>5
    <3>2. r.kind \in {"undetected", "unsupported", "error", "snapshot"}
      <4>1. CASE r \in CustomAnswers
        <5>1. CASE r = [kind |-> "undetected"]
          BY <5>1
        <5>2. CASE r = [kind |-> "unsupported"]
          BY <5>2
        <5>3. CASE r = ErrorOf("custom", Failed("FILE_MISSING", FALSE), "file")
          BY <5>3 DEF ErrorOf
        <5> QED
          BY <4>1, <5>1, <5>2, <5>3, Zenon DEF CustomAnswers
      <4>2. CASE r \in CustomSnapshots
        BY <4>2 DEF CustomSnapshots
      <4> QED
        BY <3>1, <4>1, <4>2
    <3> QED
      BY <2>1, <2>2, <2>3, <3>1, <3>2, AnswerInv
  <2> QED
    BY <1>6, <2>4, <2>5 DEF ReadCustom
<1> QED
  BY <1>2, <1>3, <1>4, <1>5, <1>6

(* What is rendered: the exit status and the stream follow the answer. *)
LEMMA RenderInv == ASSUME OperatorInv, Render, UNCHANGED verdict PROVE OperatorInv'
<1> USE NoneIsNoStatus
<1>1. /\ phase = "render" /\ phase' = "exited" /\ result' = result /\ consulted' = consulted
      /\ UNCHANGED <<invoker, args, config, environ>>
      /\ result.kind \in {"undetected", "unsupported", "error", "snapshot"}
  BY DEF Render, Exit, Escape, Output, UnchangedCall, OperatorInv, Rendering
<1>2. CASE result.kind = "unsupported"
  <2>1. exit' = 1 /\ printed' = [stream |-> "err", form |-> "traceback", doc |-> None]
    BY <1>2 DEF Render, Escape, Exit, Output
  <2>2. StreamTellsOutcome' /\ Documents'
    BY <1>1, <1>2, <2>1 DEF OperatorInv, Rendering, Embedded, StreamTellsOutcome, Documents
  <2>3. ConsultedAsAsked' /\ ComposedIsDetected'
    BY <1>1, <1>2, <2>1 DEF OperatorInv, ConsultedAsAsked, ComposedIsDetected, OpenCodeFlags,
                            CodexFlags
  <2>4. NothingYet' /\ Configured' /\ Rendering' /\ DriversCommand' /\ VerdictTellsOutcome'
    BY <1>1, <1>2 DEF OperatorInv, NothingYet, Configured, Rendering, DriversCommand, Early,
                      DriverAnswer, OpenCodeErrors, VerdictTellsOutcome
  <2> QED
    BY <2>2, <2>3, <2>4 DEF OperatorInv
<1>3. CASE result.kind # "unsupported"
  <2>1. /\ exit' = ExitCode(result)
        /\ \/ args.json /\ printed' = [stream |-> Stream(result), form |-> "json",
                                       doc |-> Envelope(result)]
           \/ ~args.json /\ printed' = [stream |-> Stream(result), form |-> "human",
                                        doc |-> None]
    BY <1>3 DEF Render, Output
  <2>2. /\ exit' = IF result.kind = "error" THEN 5
                   ELSE IF result.kind = "snapshot" /\ result.freshness = "stale" THEN 3 ELSE 0
        /\ printed'.stream = IF result.kind = "error" /\ ~args.json THEN "err" ELSE "out"
        /\ printed'.form \in {"json", "human"}
        /\ printed'.form = "json" => printed'.doc = Envelope(result)
        /\ printed'.form = "human" => printed'.doc = None
    BY <2>1 DEF ExitCode, Stream
  <2>3. Envelope(result)' = Envelope(result)
    BY <1>1 DEF Envelope, WindowDoc
  <2>4. StreamTellsOutcome' /\ Documents'
    BY <1>1, <1>3, <2>2, <2>3 DEF StreamTellsOutcome, Documents
  <2>5. ConsultedAsAsked' /\ ComposedIsDetected'
    BY <1>1, <2>2 DEF OperatorInv, ConsultedAsAsked, ComposedIsDetected, OpenCodeFlags,
                      CodexFlags
  <2>6. NothingYet' /\ Configured' /\ Rendering' /\ DriversCommand' /\ VerdictTellsOutcome'
    BY <1>1 DEF OperatorInv, NothingYet, Configured, Rendering, DriversCommand, Early,
                DriverAnswer, OpenCodeErrors, VerdictTellsOutcome
  <2> QED
    BY <2>4, <2>5, <2>6 DEF OperatorInv
<1> QED
  BY <1>2, <1>3

(* No exit status of the driver but its own success is 0, and none but its *)
(* preflight's is 10.                                                      *)
LEMMA ClassifyRange ==
  ASSUME NEW code, NEW doc
  PROVE  /\ Classify(code, doc) # 10
         /\ Classify(code, doc) = 0 =>
              /\ doc.body = "snapshot" /\ doc.freshness = "fresh"
              /\ doc.provider = "opencode-go" /\ doc.windows # <<>>
         /\ doc = None => Classify(code, doc) = 21
<1>1. \A kind \in DOMAIN ErrorCode : ErrorCode[kind] \in 20 .. 31
  BY DEF ErrorCode
<1>2. ParseFailureCode(doc.message) \in 20 .. 31
  BY DEF ParseFailureCode
<1>3. ClassifyError(code, doc) \in 20 .. 31
  BY <1>1, <1>2 DEF ClassifyError
<1>4. ClassifySnapshot(code, doc) \in {0, 21, 25}
  BY DEF ClassifySnapshot
<1>5. ClassifySnapshot(code, doc) = 0 =>
        doc.freshness = "fresh" /\ doc.provider = "opencode-go" /\ doc.windows # <<>>
  <2>1. code # 0 \/ doc.provider # "opencode-go" \/ doc.freshness # "fresh" =>
          ClassifySnapshot(code, doc) = 25
    BY DEF ClassifySnapshot
  <2>2. doc.windows = <<>> => ClassifySnapshot(code, doc) \in {21, 25}
    BY DEF ClassifySnapshot
  <2> QED
    BY <2>1, <2>2
<1>6. CASE doc = None
  BY <1>6 DEF Classify
<1>7. CASE doc # None
  <2>1. \/ Classify(code, doc) = 21
        \/ Classify(code, doc) = ClassifyError(code, doc)
        \/ doc.body = "snapshot" /\ Classify(code, doc) = ClassifySnapshot(code, doc)
    BY <1>7 DEF Classify
  <2> QED
    BY <1>3, <1>4, <1>5, <1>7, <2>1
<1> QED
  BY <1>6, <1>7

(* The driver's part. *)
LEMMA PreflightInv ==
  ASSUME OperatorInv, Preflight \/ ForeignProgram PROVE OperatorInv'
<1>1. /\ phase \in {"preflight", "parse"} /\ consulted = None /\ result = NoAnswer
      /\ exit = None /\ config = None
  BY DEF OperatorInv, NothingYet, Early, Preflight, ForeignProgram
<1>2. CASE ForeignProgram
  <2> USE <1>1, <1>2 DEF ForeignProgram, UnchangedCall
  <2>1. exit' \in {0, 5} /\ printed'.form = "foreign"
    OBVIOUS
  <2>2. NothingYet' /\ Configured' /\ Rendering' /\ Documents' /\ DriversCommand'
    BY <2>1 DEF NothingYet, Configured, Rendering, Documents, DriversCommand, Early, NoAnswer
  <2> QED
    BY <2>1, <2>2 DEF OperatorInv, ConsultedAsAsked, ComposedIsDetected, StreamTellsOutcome,
                      VerdictTellsOutcome, NoAnswer
<1>3. ASSUME Preflight, NEW code \in {10, 24}, DriverEnds(code) PROVE OperatorInv'
  <2> USE <1>1, <1>3, NoneIsNoStatus DEF DriverEnds, Preflight
  <2>1. NothingYet' /\ Configured' /\ Rendering' /\ Documents' /\ DriversCommand'
    BY DEF NothingYet, Configured, Rendering, Documents, DriversCommand, Early, NoAnswer
  <2> QED
    BY <2>1 DEF OperatorInv, ConsultedAsAsked, ComposedIsDetected, StreamTellsOutcome,
                VerdictTellsOutcome, NoAnswer
<1>4. CASE /\ Preflight
           /\ phase' = "parse"
           /\ args' = [NoArgs EXCEPT !.json = TRUE, !.provider = "opencode-go",
                                     !.opencodeAllow = TRUE]
           /\ UNCHANGED <<config, result, printed, exit, verdict>>
           /\ UnchangedCall
  <2>1. phase = "preflight"
    BY <1>4 DEF Preflight
  <2>2. ~args'.help /\ args'.provider = "opencode-go" /\ args'.opencodeAllow
    BY <1>4 DEF NoArgs
  <2>3. NothingYet' /\ Configured' /\ Rendering' /\ Documents' /\ DriversCommand'
    BY <1>1, <1>4, <2>1, <2>2 DEF OperatorInv, NothingYet, Configured, Rendering, Documents,
                                  DriversCommand, Early, NoAnswer, UnchangedCall
  <2> QED
    BY <1>1, <1>4, <2>1, <2>3 DEF OperatorInv, ConsultedAsAsked, ComposedIsDetected,
                                  StreamTellsOutcome, VerdictTellsOutcome, NoAnswer,
                                  UnchangedCall
<1>5. Preflight => \/ \E code \in {10, 24} : DriverEnds(code)
                   \/ /\ phase' = "parse"
                      /\ args' = [NoArgs EXCEPT !.json = TRUE, !.provider = "opencode-go",
                                                !.opencodeAllow = TRUE]
                      /\ UNCHANGED <<config, result, printed, exit, verdict>>
                      /\ UnchangedCall
  BY DEF Preflight
<1> QED
  BY <1>2, <1>3, <1>4, <1>5

(* The driver's verdict on a document of limitora's own. *)
LEMMA OwnVerdict ==
  ASSUME OperatorInv, phase = "exited", invoker = "driver", NEW doc,
         doc = IF printed.stream = "out" THEN printed.doc ELSE None
  PROVE  LET v == Classify(exit, doc) IN
         /\ v \in {20, 22, 23, 26, 27, 29, 30, 31} =>
              /\ result.kind = "error" /\ consulted = "opencode-go"
              /\ v = ClassifyError(5, Envelope(result))
         /\ v = 25 => result.kind = "snapshot" /\ result.freshness = "stale"
         /\ result.kind = "none" => v = 21
<1> DEFINE v == Classify(exit, doc)
<1>1. CASE doc = None
  <2>1. v = 21
    BY <1>1, ClassifyRange
  <2> QED
    BY <2>1
<1>2. CASE doc # None
  <2>1. printed.form = "json" /\ doc = Envelope(result) /\ printed.stream = "out"
    BY <1>2 DEF OperatorInv, Documents, StreamTellsOutcome
  <2>2. result.kind # "none" /\ consulted = "opencode-go" /\ DriverAnswer
    BY <2>1 DEF OperatorInv, Documents, DriversCommand
  <2>3. CASE result.kind = "error"
    <3>1. result \in OpenCodeErrors
      BY <2>2, <2>3 DEF DriverAnswer
    <3>2. exit = 5
      BY <2>3 DEF OperatorInv, StreamTellsOutcome
    <3>3. /\ doc.version = 1 /\ doc.body = "error" /\ doc.exact /\ doc.typed
          /\ doc.provider = result.provider /\ doc.error = result.error
      BY <2>1, <2>3 DEF Envelope
    <3>4. v = ClassifyError(5, doc)
      BY <1>2, <3>2, <3>3 DEF Classify
    <3>5. result.error \in DOMAIN ErrorCode /\ result.provider = "opencode-go"
      BY <3>1, ErrorsOfOpenCode
    <3>6. ClassifyError(5, doc) # 25
      <4>1. \A kind \in DOMAIN ErrorCode : ErrorCode[kind] # 25
        BY DEF ErrorCode
      <4>2. ParseFailureCode(doc.message) # 25
        BY DEF ParseFailureCode
      <4> QED
        BY <3>3, <3>5, <4>1, <4>2 DEF ClassifyError
    <3> QED
      BY <2>1, <2>2, <2>3, <3>4, <3>6
  <2>4. CASE result.kind = "snapshot"
    <3>1. /\ doc.version = 1 /\ doc.body = "snapshot" /\ doc.freshness = result.freshness
          /\ doc.provider = result.snapshot.provider
      BY <2>1, <2>4 DEF Envelope
    <3>2. v = ClassifySnapshot(exit, doc)
      BY <1>2, <3>1 DEF Classify
    <3>3. v \in {0, 21, 25}
      BY <3>2 DEF ClassifySnapshot
    <3>4. result.snapshot.provider = "opencode-go" /\ result.freshness \in {"fresh", "stale"}
      BY <2>2, <2>4, ErrorsOfOpenCode DEF DriverAnswer
    <3>5. result.freshness # "stale" => exit = 0
      BY <2>4 DEF OperatorInv, StreamTellsOutcome
    <3>6. exit = 0 /\ doc.provider = "opencode-go" /\ doc.freshness = "fresh" =>
            ClassifySnapshot(exit, doc) \in {0, 21}
      BY DEF ClassifySnapshot
    <3>7. v = 25 => result.freshness = "stale"
      BY <3>1, <3>2, <3>4, <3>5, <3>6
    <3> QED
      BY <2>4, <3>3, <3>7
  <2>5. CASE result.kind \notin {"error", "snapshot"}
    <3>1. doc.version = 1 /\ doc.body = "undetected"
      BY <2>1, <2>5 DEF Envelope
    <3>2. v = 21
      BY <1>2, <3>1 DEF Classify
    <3> QED
      BY <2>2, <3>2
  <2> QED
    BY <2>3, <2>4, <2>5
<1> QED
  BY <1>1, <1>2

(* The driver judges. *)
LEMMA JudgeInv == ASSUME OperatorInv, Judge PROVE OperatorInv'
<1> DEFINE doc == IF printed.stream = "out" THEN printed.doc ELSE None
<1>1. PICK v : /\ DriverEnds(v) /\ v \in {24, Classify(exit, None), Classify(exit, doc)}
  BY DEF Judge
<1>2. /\ phase \in {"exited", "foreign"} /\ invoker = "driver" /\ verdict' = v
      /\ phase' = "judged"
      /\ UNCHANGED <<invoker, args, config, environ, consulted, result, printed, exit>>
  BY <1>1 DEF Judge, DriverEnds
<1>3. v # 10
  BY <1>1, ClassifyRange
<1>4. v = 0 => /\ printed.doc.body = "snapshot" /\ printed.doc.freshness = "fresh"
               /\ printed.doc.provider = "opencode-go" /\ printed.doc.windows # <<>>
  BY <1>1, ClassifyRange
<1>5. ASSUME printed.form # "foreign"
      PROVE  /\ v \in {20, 22, 23, 26, 27, 29, 30, 31} =>
                  /\ result.kind = "error" /\ consulted = "opencode-go"
                  /\ v = ClassifyError(5, Envelope(result))
             /\ v = 25 => result.kind = "snapshot" /\ result.freshness = "stale"
             /\ result.kind = "none" => v \in {21, 24}
  <2>1. phase = "exited"
    BY <1>2, <1>5 DEF OperatorInv, Documents
  <2>2. CASE v = Classify(exit, doc)
    BY <1>2, <2>1, <2>2, OwnVerdict
  <2>3. CASE v \in {21, 24}
    BY <2>3
  <2> QED
    BY <1>1, <2>2, <2>3, ClassifyRange
<1>6. Envelope(result)' = Envelope(result) /\ \A d : ClassifyError(5, d)' = ClassifyError(5, d)
  BY <1>2 DEF Envelope, WindowDoc, ClassifyError, ErrorCode, ParseFailureCode
<1>7. VerdictTellsOutcome'
  BY <1>2, <1>3, <1>4, <1>5, <1>6 DEF VerdictTellsOutcome
<1>8. NothingYet' /\ Configured' /\ Rendering' /\ Documents' /\ StreamTellsOutcome'
  BY <1>2 DEF NothingYet, Configured, Rendering, Documents, StreamTellsOutcome, Early
<1>9. DriversCommand' /\ ComposedIsDetected' /\ ConsultedAsAsked'
  BY <1>2 DEF OperatorInv, DriversCommand, DriverAnswer, OpenCodeErrors, ComposedIsDetected,
              ConsultedAsAsked, OpenCodeFlags, CodexFlags
<1> QED
  BY <1>7, <1>8, <1>9 DEF OperatorInv

(* Nothing changes in a step that changes nothing. *)
LEMMA StutterInv == ASSUME OperatorInv, UNCHANGED operatorVars PROVE OperatorInv'
<1> USE DEF operatorVars, commandVars
<1>1. /\ Envelope(result)' = Envelope(result)
      /\ \A d : ClassifyError(5, d)' = ClassifyError(5, d)
  BY DEF Envelope, WindowDoc, ClassifyError, ErrorCode, ParseFailureCode
<1>2. Config' = Config /\ ArgumentsTaken' = ArgumentsTaken
      /\ OpenCodeFlags' = OpenCodeFlags /\ CodexFlags' = CodexFlags
      /\ ValidConfig(config)' = ValidConfig(config)
  BY DEF Config, Policy, Shorthand, NativeAbsolute, ArgumentsTaken, ForeignFlags, CodexFlags,
         OpenCodeFlags, KeyRefused, ValidConfig, ValidCodex, ValidOpenCode
<1>3. NothingYet' /\ Configured' /\ Rendering' /\ Documents'
  BY <1>2 DEF OperatorInv, NothingYet, Configured, Composed, Rendering, Documents, Embedded
<1>4. DriversCommand' /\ ComposedIsDetected' /\ ConsultedAsAsked'
  BY <1>2 DEF OperatorInv, DriversCommand, DriverAnswer, OpenCodeErrors, ComposedIsDetected,
              ConsultedAsAsked
<1>5. StreamTellsOutcome' /\ VerdictTellsOutcome'
  BY <1>1 DEF OperatorInv, StreamTellsOutcome, VerdictTellsOutcome
<1> QED
  BY <1>3, <1>4, <1>5 DEF OperatorInv

(* The invariant, and the four properties it holds. *)
THEOREM OperatorInvariant == OperatorSpec => []OperatorInv
<1>1. OperatorInv /\ [OperatorNext]_operatorVars => OperatorInv'
  BY TokenInv, ParseEndInv, ComposeInv, ReadInv, RenderInv, PreflightInv, JudgeInv, StutterInv
  DEF OperatorNext, CommandStep
<1> QED
  BY <1>1, OperatorInitInv, PTL DEF OperatorSpec

(* A source is asked only as the command says, with that provider's own    *)
(* consent and one key.                                                    *)
THEOREM SourceNeedsConsent == OperatorSpec => []ConsultedAsAsked
BY OperatorInvariant, PTL DEF OperatorInv

(* What composition accepts the provider detects, whatever the arguments.  *)
THEOREM CompositionDetects == OperatorSpec => []ComposedIsDetected
BY OperatorInvariant, PTL DEF OperatorInv

(* Exit status and stream follow the answer. *)
THEOREM OutcomeIsTold == OperatorSpec => []StreamTellsOutcome
BY OperatorInvariant, PTL DEF OperatorInv

(* The driver's verdict says what became of the provider, whatever else    *)
(* may have run in limitora's place.                                       *)
THEOREM VerdictIsRight == OperatorSpec => []VerdictTellsOutcome
BY OperatorInvariant, PTL DEF OperatorInv
=============================================================================
