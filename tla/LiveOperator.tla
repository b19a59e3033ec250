---------------------------- MODULE LiveOperator ----------------------------
(***************************************************************************)
(* The live driver (scripts/opencode_live_driver.py) around the status     *)
(* command it runs: what it checks before, and how it classifies the exit  *)
(* status and the output of its child.  LiveDriver has the child's         *)
(* processes and threads; here the command itself is the child.            *)
(***************************************************************************)
EXTENDS StatusCommand

CONSTANT ForeignOutputs  \* what a program other than limitora may print

VARIABLE verdict         \* the driver's exit status

operatorVars == <<commandVars, verdict>>

OperatorInit == CommandInit /\ verdict = None

-----------------------------------------------------------------------------

(* _arguments: --confirm RUN and --cli with its value, each once. *)
DriverArguments(argv) ==
  /\ argv.names \subseteq {"--confirm", "--cli"}
  /\ ~argv.repeated /\ ~argv.cut
  /\ argv.names = {"--confirm", "--cli"}
  /\ argv.confirm = "RUN"

(* _regular_executable *)
RegularExecutable(file) == file.absolute /\ ~file.link /\ file.regular /\ file.executable

(* _value: what may be a key, which need not be trimmed. *)
KeyUsable(key) == key # None /\ key \notin Blank /\ key # "two lines"

(* The driver knows the status and the output only. *)
DriverEnds(code) ==
  /\ phase' = "judged"
  /\ verdict' = code
  /\ UNCHANGED <<invoker, platform, environ, args, config, consulted, result, printed, exit>>

(* run, up to the child: COMMAND_SUFFIX is what the child parses.          *)
Preflight ==
  /\ phase = "preflight"
  /\ \E argv \in [names : SUBSET {"--confirm", "--cli", "--json"}, repeated : BOOLEAN,
                  cut : BOOLEAN, confirm : {"RUN", "run"}],
        file \in [absolute : BOOLEAN, link : BOOLEAN, regular : BOOLEAN, executable : BOOLEAN] :
       LET ready == DriverArguments(argv) /\ RegularExecutable(file) /\ KeyUsable(environ) IN
       \/ ~ready /\ DriverEnds(10)
       \/ ready /\ platform = "nt" /\ DriverEnds(24)
       \/ /\ ready /\ platform = "posix"
          /\ phase' = "parse"
          /\ args' = [NoArgs EXCEPT !.json = TRUE, !.provider = "opencode-go",
                                    !.opencodeAllow = TRUE]
          /\ UNCHANGED <<config, result, printed, exit, verdict>>
          /\ UnchangedCall

(* The program is another one. *)
ForeignProgram ==
  /\ phase = "parse"
  /\ invoker = "driver"
  /\ \E doc \in ForeignOutputs, code \in {0, 5} :
       /\ phase' = "foreign"
       /\ exit' = code
       /\ printed' = [stream |-> "out", form |-> "foreign", doc |-> doc]
  /\ UNCHANGED <<args, config, result, verdict>>
  /\ UnchangedCall

ErrorCode ==
  [UNAUTHORIZED |-> 20, PARSE_FAILED |-> 26, UNSUPPORTED |-> 27, RATE_LIMITED |-> 22,
   SOURCE_UNAVAILABLE |-> 23, TRANSPORT |-> 24]
ParseFailureCode(message) ==
  CASE message = "no valid quota window" -> 29
    [] message = "not UTF-8 JSON" -> 30
    [] message = "root not an object" -> 31
    [] OTHER -> 26

ClassifyError(code, doc) ==
  IF ~doc.exact THEN 21
  ELSE IF doc.error \notin DOMAIN ErrorCode THEN 25
  ELSE IF ~doc.typed THEN 21
  ELSE IF doc.provider # "opencode-go" \/ code # 5 THEN 25
  ELSE IF doc.error = "PARSE_FAILED" THEN ParseFailureCode(doc.message)
  ELSE ErrorCode[doc.error]

(* Mutant of ClassifySnapshot: an old snapshot is as good as a new one. *)
ClassifySnapshotAnyAge(code, doc) ==
  IF doc.provider # "opencode-go" THEN 25
  ELSE IF doc.windows = <<>> THEN 21 ELSE 0

ClassifySnapshot(code, doc) ==
  IF code # 0 \/ doc.provider # "opencode-go" \/ doc.freshness # "fresh" THEN 25
  ELSE IF \/ doc.windows = <<>>
          \/ \E i \in DOMAIN doc.windows :
               \/ doc.windows[i].kind # "COMMERCIAL_QUOTA"
               \/ "" \in {doc.windows[i].scope, doc.windows[i].period}
       THEN 21
  ELSE 0

(* _classify, of no JSON at all when doc is None. *)
Classify(code, doc) ==
  IF doc = None THEN 21
  ELSE IF doc.version # 1 THEN 21
  ELSE IF doc.body = "error" THEN ClassifyError(code, doc)
  ELSE IF doc.body = "snapshot" THEN ClassifySnapshot(code, doc)
  ELSE 21

(* Only stdout is read; _child may also refuse, or read nothing of it (see *)
(* LiveDriver).                                                            *)
Judge ==
  /\ phase \in {"exited", "foreign"}
  /\ invoker = "driver"
  /\ \/ DriverEnds(24)
     \/ DriverEnds(Classify(exit, None))
     \/ DriverEnds(Classify(exit, IF printed.stream = "out" THEN printed.doc ELSE None))

OperatorNext ==
  \/ CommandStep /\ UNCHANGED verdict
  \/ Preflight \/ ForeignProgram \/ Judge
  \/ (phase = "judged" \/ (phase = "exited" /\ invoker # "driver")) /\ UNCHANGED operatorVars

OperatorSpec == OperatorInit /\ [][OperatorNext]_operatorVars

-----------------------------------------------------------------------------

(* The driver reports what became of the provider: success for a fresh     *)
(* snapshot with windows alone, whatever program ran; of limitora itself   *)
(* an error under that error's own code and 25 for a stale snapshot alone; *)
(* drift when the command had no answer to print, or it did not get here.  *)
VerdictTellsOutcome ==
  phase = "judged" =>
    /\ verdict = 10 => exit = None
    /\ verdict = 0 => printed.doc.body = "snapshot" /\ printed.doc.freshness = "fresh"
                      /\ printed.doc.provider = "opencode-go" /\ printed.doc.windows # <<>>
    /\ exit # None /\ printed.form # "foreign" =>
         /\ verdict \in {20, 22, 23, 26, 27, 29, 30, 31} =>
              /\ result.kind = "error" /\ consulted = "opencode-go"
              /\ verdict = ClassifyError(5, Envelope(result))
         /\ verdict = 25 => result.kind = "snapshot" /\ result.freshness = "stale"
         /\ result.kind = "none" => verdict \in {21, 24}
=============================================================================
