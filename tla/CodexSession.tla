---------------------------- MODULE CodexSession ----------------------------
(***************************************************************************)
(* One _CodexJsonlSession.exchange: start the app-server child, run the    *)
(* handshake over its pipes under a deadline and an output cap, and tear   *)
(* the child down whatever happened (providers/_codex_jsonl.py and         *)
(* _codex_jsonl_transport.py), composed with the reader thread of          *)
(* PipeReader and with a child that may do anything a process can.         *)
(*                                                                         *)
(* A frame is a member of Frames.  On the wire it has two bytes, its body  *)
(* and its newline, so a read may return part of a frame or of several.    *)
(* Time is one flag: the deadline that exchange has to keep has passed,    *)
(* first the session's, then that of the cleanup's own allowance.          *)
(***************************************************************************)
EXTENDS PipeReader

CONSTANTS
  Frames,       \* what the child may send
  MaxOutput     \* _CodexSessionSpec.max_output_bytes

(* What parse_frame tells apart, and the failure a coded error maps to.    *)
Response(n) == [form |-> "response", ident |-> n, failure |-> "none"]
ErrorResponse(n, kind) == [form |-> "error", ident |-> n, failure |-> kind]
Notification == [form |-> "notification", ident |-> 0, failure |-> "none"]
Malformed(kind) == [form |-> "malformed", ident |-> 0, failure |-> kind]

(* _ERROR_CODE_KIND.get(code, PROTOCOL) *)
ErrorCodeKinds == {"UNAUTHORIZED", "RATE_LIMITED", "UNAVAILABLE", "PROTOCOL"}

(* parse_frame raises PROTOCOL; or json.loads raises something that is not *)
(* a JSONDecodeError (a recursion limit, an integer too long to convert),  *)
(* which exchange turns into PROCESS.                                      *)
ParseFailures == {"PROTOCOL", "PROCESS"}

ASSUME FramesAssumption ==
  \A f \in Frames :
    \/ f.form = "response" /\ f = Response(f.ident) /\ f.ident \in Int
    \/ f.form = "error" /\ f = ErrorResponse(f.ident, f.failure)
       /\ f.ident \in Int /\ f.failure \in ErrorCodeKinds
    \/ f = Notification
    \/ f.form = "malformed" /\ f = Malformed(f.failure)
       /\ f.failure \in ParseFailures

ASSUME WireAssumption == Bytes = [frame : Frames, last : BOOLEAN]

(* _CodexSessionSpec.__post_init__ *)
ASSUME MaxOutputAssumption == MaxOutput \in Nat \ {0}

VARIABLES
  phase,        \* where exchange is
  ident,        \* the ident _read_correlated waits for
  sent,         \* what exchange has written to the child
  remainder,    \* _PopenProcess._remainder
  buffer,       \* _BoundedLineReader._buffer
  output,       \* _BoundedLineReader._output_bytes
  taken,        \* history: the bytes of the lines taken out of buffer
  failure,      \* exchange's local failure, or "none"
  cleanupFailed,\* _cleanup's local failed
  discarded,    \* _PopenProcess.__init__ runs _cleanup and drops its result
  outcome,      \* how exchange ended
  child,        \* the child as its parent sees it
  stdinOpen,    \* the parent's end is open
  unflushed,    \* a write failed and its bytes are still buffered
  late          \* the deadline in force has passed

lineVars == <<remainder, buffer, output, taken>>
childVars == <<child, stdinOpen, unflushed>>
resultVars == <<failure, cleanupFailed, discarded, outcome>>
sessionVars == <<phase, ident, sent, lineVars, resultVars, childVars, late>>
allVars == <<readerVars, sessionVars>>

FailureKinds == {"NOT_CONFIGURED", "TIMEOUT", "OUTPUT_LIMIT", "PROTOCOL",
                 "UNAUTHORIZED", "RATE_LIMITED", "UNAVAILABLE", "PROCESS"}
Messages == {"initialize", "initialized", "account/rateLimits/read"}
WritePhases == {"initialize", "initialized", "request"}
CleanupPhases == {"closeStdin", "terminate", "wait", "kill", "waitKilled",
                  "close", "join"}
SessionPhases == {"start", "initialize", "line", "read", "initialized",
                  "request", "probe", "poll", "ended"} \union CleanupPhases

SessionTypeOK ==
  /\ phase \in SessionPhases
  /\ ident \in {1, 2}
  /\ sent \in Seq(Messages)
  /\ remainder \in Seq(AllBytes) /\ Len(remainder) < ReadChunk
  /\ buffer \in Seq(AllBytes)
  /\ output \in 0 .. MaxOutput + 1
  /\ taken \in Seq(AllBytes)
  /\ failure \in FailureKinds \union {"none"}
  /\ cleanupFailed \in BOOLEAN
  /\ discarded \in BOOLEAN
  /\ outcome \in FailureKinds \union {"none", "payload"}
  /\ child \in {"none", "running", "zombie", "reaped"}
  /\ stdinOpen \in BOOLEAN
  /\ unflushed \in BOOLEAN
  /\ late \in BOOLEAN

SessionInit ==
  /\ ReaderInit
  /\ phase = "start"
  /\ ident = 1
  /\ sent = <<>>
  /\ remainder = <<>>
  /\ buffer = <<>>
  /\ output = 0
  /\ taken = <<>>
  /\ failure = "none"
  /\ cleanupFailed = FALSE
  /\ discarded = FALSE
  /\ outcome = "none"
  /\ child = "none"
  /\ stdinOpen = TRUE
  /\ unflushed = FALSE
  /\ late = FALSE

-----------------------------------------------------------------------------
(* The child, whatever inherited its pipes, and time.  Each of them        *)
(* changes only where it is looked at, because a change that comes earlier *)
(* has the effect it has there: the pipe where the thread is in os.read,   *)
(* the child's end and the deadline where exchange depends on them.        *)

HasLine == \E i \in 1 .. Len(buffer) : buffer[i].last

InFrame == wrote # <<>> /\ ~wrote[Len(wrote)].last

(* The output is a sequence of frames, written byte by byte. *)
ChildSends ==
  /\ worker = "reading"
  /\ \E b \in Bytes :
       /\ IF InFrame THEN b = [frame |-> wrote[Len(wrote)].frame, last |-> TRUE]
                     ELSE ~b.last
       /\ ChildWrites(b)
  /\ UNCHANGED sessionVars

ChildClosesStdout ==
  /\ worker = "reading"
  /\ pipe = <<>>
  /\ WriteEndCloses
  /\ UNCHANGED sessionVars

(* It exits on its own, on SIGTERM (which it may also ignore), or killed.  *)
(* Its pipe ends close with it unless a descendant has them too: that is   *)
(* for ChildClosesStdout and for the writes that fail.                     *)
ChildExits ==
  /\ phase \in {"poll", "terminate", "wait", "kill", "waitKilled"}
  /\ child = "running"
  /\ child' = "zombie"
  /\ UNCHANGED <<readerVars, phase, ident, sent, lineVars, resultVars,
                 stdinOpen, unflushed, late>>

DeadlinePasses ==
  /\ \/ phase \in WritePhases \union {"read", "wait", "waitKilled", "join"}
     \/ phase = "line" /\ ~HasLine
  /\ ~late
  /\ late' = TRUE
  /\ UNCHANGED <<readerVars, phase, ident, sent, lineVars, resultVars, childVars>>

Environment ==
  ChildSends \/ ChildClosesStdout \/ ChildExits \/ DeadlinePasses

-----------------------------------------------------------------------------
(* The handshake.                                                          *)

Goto(p) ==
  /\ phase' = p
  /\ UNCHANGED <<resultVars, late>>

(* The finally clause: _cleanup tears the child down, and has its own time. *)
CleanUp ==
  /\ phase' = "closeStdin"
  /\ late' = FALSE
  /\ UNCHANGED <<cleanupFailed, discarded, outcome>>

(* An exception. *)
Raise(kind) == CleanUp /\ failure' = kind

(* No runner; Popen raises OSError, or some other exception. *)
StartFails ==
  /\ phase = "start"
  /\ phase' = "ended"
  /\ outcome' \in {"NOT_CONFIGURED", "UNAVAILABLE", "PROCESS"}
  /\ UNCHANGED <<readerVars, ident, sent, lineVars, failure, cleanupFailed,
                 discarded, childVars, late>>

StartProcess ==
  /\ phase = "start"
  /\ child' = "running"
  /\ Start
  /\ Goto("initialize")
  /\ UNCHANGED <<ident, sent, lineVars, stdinOpen, unflushed>>

(* The thread cannot be started: __init__ cleans up and raises OSError.    *)
StartProcessWithoutReader ==
  /\ phase = "start"
  /\ child' = "running"
  /\ phase' = "closeStdin"
  /\ failure' = "UNAVAILABLE"
  /\ discarded' = TRUE
  /\ UNCHANGED <<readerVars, ident, sent, lineVars, cleanupFailed, outcome,
                 stdinOpen, unflushed, late>>

(* _check_deadline, then write and flush.  When nobody can read any more,  *)
(* which the child may bring about at any time, the flush raises           *)
(* BrokenPipeError, an OSError, and keeps the bytes.                       *)
CheckAndWrite(p, message, next) ==
  /\ phase = p
  /\ \/ late /\ Raise("TIMEOUT") /\ UNCHANGED <<sent, unflushed>>
     \/ ~late /\ Raise("UNAVAILABLE") /\ unflushed' = TRUE /\ UNCHANGED sent
     \/ ~late /\ Goto(next) /\ sent' = Append(sent, message)
        /\ UNCHANGED unflushed
  /\ UNCHANGED <<readerVars, lineVars, child, stdinOpen>>

SendInitialize ==
  CheckAndWrite("initialize", "initialize", "line") /\ UNCHANGED ident
SendInitialized ==
  CheckAndWrite("initialized", "initialized", "request") /\ UNCHANGED ident
SendRequest ==
  CheckAndWrite("request", "account/rateLimits/read", "line") /\ ident' = 2

-----------------------------------------------------------------------------
(* read_line, parse_frame and _read_correlated.                            *)

(* What _read_correlated does with a parsed frame. *)
Frame(f) ==
  \/ f.form = "notification" /\ Goto("line")
  \/ f.form = "malformed" /\ Raise(f.failure)
  \/ f.form \in {"response", "error"} /\ f.ident # ident /\ Raise("PROTOCOL")
  \/ f.form = "error" /\ f.ident = ident /\ Raise(f.failure)
  \/ f.form = "response" /\ f.ident = ident
     /\ Goto(IF ident = 1 THEN "initialized" ELSE "probe")

(* A whole line is in the buffer: no deadline or cap is looked at. *)
TakeLine ==
  /\ phase = "line"
  /\ \E n \in 1 .. Len(buffer) :
       /\ buffer[n].last
       /\ \A i \in 1 .. n - 1 : ~buffer[i].last
       /\ buffer' = SubSeq(buffer, n + 1, Len(buffer))
       /\ taken' = taken \o SubSeq(buffer, 1, n)
       /\ Frame(buffer[n].frame)
  /\ UNCHANGED <<readerVars, ident, sent, remainder, output, childVars>>

Budget == MaxOutput - output

(* No line yet: the deadline, then the cap, then the pipe. *)
NeedMore ==
  /\ phase = "line"
  /\ ~HasLine
  /\ \/ late /\ Raise("TIMEOUT")
     \/ ~late /\ Budget <= 0 /\ Raise("OUTPUT_LIMIT")
     \/ ~late /\ Budget > 0 /\ Goto("read")
  /\ UNCHANGED <<readerVars, ident, sent, lineVars, childVars>>

Maximum ==
  IF phase = "probe" THEN 1 ELSE IF Budget < ReadChunk THEN Budget ELSE ReadChunk

UpTo(n, bytes) == SubSeq(bytes, 1, IF n < Len(bytes) THEN n ELSE Len(bytes))
Beyond(n, bytes) == SubSeq(bytes, n + 1, Len(bytes))

(* The bytes read are counted, then appended to the buffer. *)
Accept(bytes) ==
  /\ output' = output + Len(bytes)
  /\ \/ output' > MaxOutput /\ Raise("OUTPUT_LIMIT") /\ UNCHANGED buffer
     \/ output' <= MaxOutput /\ buffer' = buffer \o bytes
        /\ IF phase = "probe" THEN Raise("PROTOCOL") ELSE Goto("line")

(* Mutant of Split: what does not fit is not kept for the next read. *)
SplitDropping(bytes) ==
  /\ Accept(UpTo(Maximum, bytes))
  /\ remainder' = <<>>
  /\ UNCHANGED taken

(* Mutant of Split: what is returned stays in the remainder too. *)
SplitKeeping(bytes) ==
  /\ Accept(UpTo(Maximum, bytes))
  /\ remainder' = bytes
  /\ UNCHANGED taken

(* _PopenProcess.read: what is beyond the maximum waits in the remainder. *)
Split(bytes) ==
  /\ Accept(UpTo(Maximum, bytes))
  /\ remainder' = Beyond(Maximum, bytes)
  /\ UNCHANGED taken

MayRead == phase = "read" \/ (phase = "probe" /\ buffer = <<>>)

ReadRemainder ==
  /\ MayRead
  /\ remainder # <<>>
  /\ Split(remainder)
  /\ UNCHANGED <<readerVars, ident, sent, childVars>>

ReadSignal ==
  /\ MayRead
  /\ remainder = <<>>
  /\ signals # <<>>
  /\ LET signal == Head(signals) IN
     /\ Get(signal.data)
     /\ \/ signal.kind = "DATA" /\ Split(signal.data)
        \/ signal.kind = "EOF" /\ UNCHANGED lineVars
           /\ IF phase = "probe" THEN Goto("poll") ELSE Raise("PROTOCOL")
        \/ signal.kind = "ERROR" /\ UNCHANGED lineVars /\ Raise("UNAVAILABLE")
  /\ UNCHANGED <<ident, sent, childVars>>

(* Queue.get finds nothing before its timeout: the rest of the deadline    *)
(* for a line, at most a millisecond for the probe.                        *)
ReadTimesOut ==
  /\ MayRead
  /\ remainder = <<>>
  /\ signals = <<>>
  /\ \/ phase = "read" /\ late /\ Raise("TIMEOUT")
     \/ phase = "probe" /\ Goto("poll")
  /\ UNCHANGED <<readerVars, ident, sent, lineVars, childVars>>

(* Mutant of ProbePending: lines already in the buffer do not count. *)
ProbePendingIgnored ==
  /\ phase = "probe"
  /\ buffer # <<>>
  /\ Goto("poll")
  /\ UNCHANGED <<readerVars, ident, sent, lineVars, childVars>>

(* _probe_trailing: something after the response is in the buffer already. *)
ProbePending ==
  /\ phase = "probe"
  /\ buffer # <<>>
  /\ Raise("PROTOCOL")
  /\ UNCHANGED <<readerVars, ident, sent, lineVars, childVars>>

(* Popen.poll and wait collect a child that has ended. *)
Reaped == IF child = "zombie" THEN "reaped" ELSE child

(* The status of a child that has ended may be zero or not. *)
Poll ==
  /\ phase = "poll"
  /\ child' = Reaped
  /\ \/ child' = "reaped" /\ Raise("PROCESS")
     \/ CleanUp /\ UNCHANGED failure
  /\ UNCHANGED <<readerVars, ident, sent, lineVars, stdinOpen, unflushed>>

-----------------------------------------------------------------------------
(* _cleanup: every step is attempted, whichever failed before.             *)

(* Mutant of Attempted: a step that succeeds makes up for one that failed. *)
AttemptedForgets(ok, next) ==
  /\ phase' = next
  /\ cleanupFailed' = ~ok
  /\ UNCHANGED <<ident, sent, lineVars, failure, discarded, outcome, late>>

Attempted(ok, next) ==
  /\ phase' = next
  /\ cleanupFailed' = (cleanupFailed \/ ~ok)
  /\ UNCHANGED <<ident, sent, lineVars, failure, discarded, outcome, late>>

(* Mutant of CloseStdin: that bytes could not be flushed does not count. *)
CloseStdinUnnoticed ==
  /\ phase = "closeStdin"
  /\ stdinOpen' = FALSE
  /\ Attempted(TRUE, "terminate")
  /\ UNCHANGED <<readerVars, child, unflushed>>

(* Closing flushes again what a failed write left behind. *)
CloseStdin ==
  /\ phase = "closeStdin"
  /\ stdinOpen' = FALSE
  /\ Attempted(~unflushed, "terminate")
  /\ UNCHANGED <<readerVars, child, unflushed>>

(* SIGTERM, which leaves the child free to go on. *)
Terminate ==
  /\ phase = "terminate"
  /\ child' = Reaped
  /\ Attempted(TRUE, "wait")
  /\ UNCHANGED <<readerVars, stdinOpen, unflushed>>

Wait ==
  /\ phase = "wait"
  /\ child' = Reaped
  /\ \/ child' = "reaped" /\ Attempted(TRUE, "close")
     \/ child' = "running" /\ late /\ Attempted(TRUE, "kill")
  /\ UNCHANGED <<readerVars, stdinOpen, unflushed>>

Kill ==
  /\ phase = "kill"
  /\ child' = Reaped
  /\ Attempted(TRUE, "waitKilled")
  /\ UNCHANGED <<readerVars, stdinOpen, unflushed>>

(* Mutant of WaitKilled: the second wait is unbounded. *)
WaitKilledForever ==
  /\ phase = "waitKilled"
  /\ child' = Reaped
  /\ child' = "reaped"
  /\ Attempted(TRUE, "close")
  /\ UNCHANGED <<readerVars, stdinOpen, unflushed>>

(* Mutant of WaitKilled: that the child is not gone yet is not a failure. *)
WaitKilledIgnored ==
  /\ phase = "waitKilled"
  /\ child' = Reaped
  /\ child' = "reaped" \/ late
  /\ Attempted(TRUE, "close")
  /\ UNCHANGED <<readerVars, stdinOpen, unflushed>>

(* The rest of the allowance: nothing, if the first wait has used it up.   *)
WaitKilled ==
  /\ phase = "waitKilled"
  /\ child' = Reaped
  /\ \/ child' = "reaped" /\ Attempted(TRUE, "close")
     \/ child' = "running" /\ late /\ Attempted(FALSE, "close")
  /\ UNCHANGED <<readerVars, stdinOpen, unflushed>>

Close ==
  /\ phase = "close"
  /\ CloseDescriptor
  /\ Attempted(TRUE, "join")
  /\ UNCHANGED childVars

(* Each of these steps may raise, which _attempt and the handlers note     *)
(* before the next one is tried.  Both ends are given up even so: Python   *)
(* forgets a descriptor before it asks the system to close it.             *)
CloseStdinRaises ==
  /\ phase = "closeStdin"
  /\ stdinOpen' = FALSE
  /\ Attempted(FALSE, "terminate")
  /\ UNCHANGED <<readerVars, child, unflushed>>

(* Only a child that the poll before it finds running is sent a signal.    *)
TerminateRaises ==
  /\ phase = "terminate"
  /\ child = "running"
  /\ Attempted(FALSE, "wait")
  /\ UNCHANGED <<readerVars, childVars>>

(* What is not a timeout is a failure, and must_kill even so. *)
WaitRaises ==
  /\ phase = "wait"
  /\ Attempted(FALSE, "kill")
  /\ UNCHANGED <<readerVars, childVars>>

KillRaises ==
  /\ phase = "kill"
  /\ child = "running"
  /\ Attempted(FALSE, "waitKilled")
  /\ UNCHANGED <<readerVars, childVars>>

WaitKilledRaises ==
  /\ phase = "waitKilled"
  /\ Attempted(FALSE, "close")
  /\ UNCHANGED <<readerVars, childVars>>

CloseRaises ==
  /\ phase = "close"
  /\ CloseDescriptor
  /\ Attempted(FALSE, "join")
  /\ UNCHANGED childVars

CleanupRaises ==
  \/ CloseStdinRaises \/ TerminateRaises \/ WaitRaises
  \/ KillRaises \/ WaitKilledRaises \/ CloseRaises

(* Mutant of StopReader: the stop event is not set. *)
StopReaderUntold ==
  /\ phase = "join"
  /\ owner = "reading"
  /\ owner' = "drained"
  /\ signals' = <<>>
  /\ UNCHANGED <<pipeVars, readOpen, threadVars, stop, delivered, sessionVars>>

(* stop_and_join: the stop event, then one signal taken out of the queue.  *)
StopReader ==
  /\ phase = "join"
  /\ SetStop \/ Drain
  /\ UNCHANGED sessionVars

(* A failed cleanup overrides the failure of the exchange, and a payload.  *)
Result(ok) ==
  IF (cleanupFailed \/ ~ok) /\ ~discarded THEN "PROCESS"
  ELSE IF failure # "none" THEN failure
  ELSE "payload"

(* join(timeout); for a thread that was never started it raises at once.   *)
JoinReader ==
  /\ phase = "join"
  /\ \/ Joined /\ outcome' = Result(TRUE) /\ UNCHANGED cleanupFailed
     \/ /\ late \/ worker = "unstarted"
        /\ JoinTimesOut
        /\ outcome' = Result(FALSE)
        /\ cleanupFailed' = TRUE
  /\ phase' = "ended"
  /\ UNCHANGED <<ident, sent, lineVars, failure, discarded, childVars, late>>

SessionStep ==
  \/ StartFails \/ StartProcess \/ StartProcessWithoutReader
  \/ SendInitialize \/ SendInitialized \/ SendRequest
  \/ TakeLine \/ NeedMore \/ ReadRemainder \/ ReadSignal \/ ReadTimesOut
  \/ ProbePending \/ Poll
  \/ CloseStdin \/ Terminate \/ Wait \/ Kill \/ WaitKilled \/ Close
  \/ StopReader \/ JoinReader

ThreadStep == WorkerStep /\ UNCHANGED sessionVars

SessionNext ==
  \/ Environment
  \/ SessionStep \/ CleanupRaises
  \/ ThreadStep
  \/ phase = "ended" /\ UNCHANGED allVars

SessionSpec == SessionInit /\ [][SessionNext]_allVars

(* The calling thread runs and time passes.  Nothing is asked of the child *)
(* nor of the reader thread, and no step of the cleanup has to raise.      *)
SessionFairSpec ==
  /\ SessionSpec
  /\ WF_allVars(SessionStep)
  /\ WF_allVars(DeadlinePasses)

-----------------------------------------------------------------------------

(* Lines, buffer and remainder are together exactly what came out of the   *)
(* queue, in order, however the chunks were cut, until the cap refuses a   *)
(* byte: partial reads neither lose nor repeat nor reorder a byte.         *)
LinesAreFaithful ==
  output <= MaxOutput => taken \o buffer \o remainder = delivered

Ends(bytes) == {i \in 1 .. Len(bytes) : bytes[i].last}
Relevant(bytes) ==
  {i \in Ends(bytes) : bytes[i].frame # Notification}

(* A payload is returned only when the three messages were sent in order   *)
(* and what was read is the response to 1, then the response to 2, and     *)
(* besides those nothing but notifications and no trailing line.           *)
SuccessMeansHandshake ==
  outcome = "payload" =>
    /\ sent = <<"initialize", "initialized", "account/rateLimits/read">>
    /\ buffer = <<>> /\ remainder = <<>>
    /\ taken = delivered
    /\ \E i, j \in Ends(taken) :
         /\ i < j /\ j = Len(taken)
         /\ taken[i].frame = Response(1)
         /\ taken[j].frame = Response(2)
         /\ Relevant(taken) = {i, j}

(* Unless it reports PROCESS, an exchange that got its process leaves      *)
(* nothing behind, whichever steps of the cleanup raised: the child is     *)
(* collected, both pipe ends are closed, nothing written is left unsent    *)
(* and the reader thread has ended.                                        *)
NoLeakUnlessReported ==
  phase = "ended" /\ child # "none" /\ outcome # "PROCESS" /\ ~discarded =>
    child = "reaped" /\ ~stdinOpen /\ ~unflushed /\ ~readOpen /\ owner = "joined"

(* Every exchange ends, whatever the child does with its pipes and its     *)
(* signals and wherever the reader thread is blocked.                      *)
ExchangeEnds == <>(phase = "ended")

(* That a step of the cleanup failed is not forgotten, whatever the steps  *)
(* after it come to, and ends the exchange in PROCESS though it had a      *)
(* payload or another failure: only _PopenProcess.__init__ drops it, when  *)
(* no thread could be started.                                             *)
FailedStepIsTold ==
  [][cleanupFailed /\ phase # "ended" =>
       /\ cleanupFailed'
       /\ phase' = "ended" /\ ~discarded => outcome' = "PROCESS"]_allVars

(* The composition uses the reader as PipeReader describes it. *)
ReadsThroughPipeReader == ReaderSpec

-----------------------------------------------------------------------------
(* What the documents say and the code does not do.                        *)

(* docs/providers/codex-protocol.md: a failure of the cleanup "becomes a   *)
(* redacted PROCESS".                                                      *)
CleanupFailureIsProcess ==
  phase = "ended" /\ cleanupFailed => outcome = "PROCESS"
=============================================================================
