----------------------------- MODULE OpenCodeGo -----------------------------
(***************************************************************************)
(* One OpenCodeGoProvider.fetch (providers/_opencode_go.py) and the HTTPX  *)
(* transport under it (providers/_opencode_go_httpx.py): authorization,    *)
(* one streamed GET under a total budget and a body limit, and the mapping *)
(* of the response to a snapshot, a ProviderError or, where nothing        *)
(* catches it, the exception itself.                                       *)
(*                                                                         *)
(* HTTPX blocks in two operations, sending the request and getting the     *)
(* next chunk.  Its timeout is the budget that remained before the first,  *)
(* and limits how long a socket may be idle: an operation that times out   *)
(* ends after the deadline, and one for which bytes keep trickling in does *)
(* not time out at all.  The body is its size; late says that the deadline *)
(* has passed.                                                             *)
(***************************************************************************)
EXTENDS Integers

CONSTANTS
  Statuses,    \* HTTP status codes the server may answer with
  Lengths,     \* Content-Length it may declare, NoLength and OddLength too
  Contents,    \* what a complete 2xx body may say
  ChunkSizes,  \* sizes of the chunks iter_bytes may yield
  BodyLimit,   \* BODY_LIMIT
  MaxBody      \* bound: the size of a body

NoLength == -1   \* no such header, or not a number
OddLength == -2  \* isdigit() holds of it and int() refuses it

Periods == {"rolling", "weekly", "monthly"}
Policies == {"ALLOW", "DENY"}

(* How a window's value fares in _window: None for one that is absent or   *)
(* has an invalid field, a quota or a rate-limited window, or an integer   *)
(* percent too large for math.isfinite, which raises OverflowError.        *)
RawWindows == {"invalid", "ok", "rate-limited", "overflow"}
ValidWindows == {"ok", "rate-limited"}

(* What json.loads makes of the body: an exception it is guarded against,  *)
(* another one, no object, no usage object, or the three windows.          *)
Usages == [Periods -> RawWindows]
Texts == {"invalid", "unreadable", "not an object", "no usage"}

NoWindows == [p \in Periods |-> "invalid"]
Unseen == [text |-> "unseen", windows |-> NoWindows]

ASSUME StatusAssumption == Statuses \subseteq Nat
ASSUME LengthAssumption == Lengths \subseteq Nat \union {NoLength, OddLength}
ASSUME ContentAssumption ==
  \A content \in Contents :
    \/ content.text = "usage" /\ content.windows \in Usages
    \/ content.text \in Texts /\ content.windows = NoWindows
ASSUME ChunkAssumption == ChunkSizes \subseteq Nat \ {0}
ASSUME LimitAssumption == BodyLimit \in Nat \ {0} /\ MaxBody \in Nat

VARIABLES
  phase,      \* where fetch is
  request,    \* the ProviderRequest
  late,       \* the deadline has passed
  idle,       \* the operation's socket has been idle since its last byte
  status,     \* status_code of the response, 0 before there is one
  declared,   \* its Content-Length
  chunk,      \* size of the chunk being looked at
  size,       \* size of the chunks kept
  port,       \* the transport's result
  content,    \* what the complete body said, once it is looked at
  outcome,    \* how fetch ended
  sent,       \* history: body bytes HTTPX handed over
  complete,   \* history: HTTPX reported the end of the body
  broken,     \* history: the network or the HTTP library failed
  operations, \* history: HTTPX operations begun
  lateEnds    \* history: those that ended after the deadline

answer == <<status, declared>>
http == <<idle, sent, complete, broken, operations, lateEnds>>
goVars == <<phase, request, late, answer, chunk, size, port, content, outcome, http>>

PortKinds == {"TIMEOUT", "UNAVAILABLE", "INVALID", "FAILED"}
ErrorKinds == {"UNAUTHORIZED", "UNSUPPORTED", "TRANSPORT", "RATE_LIMITED",
               "SOURCE_UNAVAILABLE", "PARSE_FAILED"}
Errors == [kind : {"error"}, error : ErrorKinds, retryable : BOOLEAN]
WindowMaps == UNION {[ps -> ValidWindows] : ps \in SUBSET Periods}
Snapshots == [kind : {"snapshot"}, windows : WindowMaps,
              state : {"AVAILABLE", "PARTIAL"}]
Operations == {"send", "read"}
Phases == {"authorize", "configure", "budget", "client", "opened", "send",
           "headers", "read", "chunk", "end", "close", "map", "ended"}

GoTypeOK ==
  /\ phase \in Phases
  /\ request \in [policy : Policies, quota : BOOLEAN]
  /\ late \in BOOLEAN
  /\ idle \in BOOLEAN
  /\ status \in Statuses \union {0}
  /\ declared \in Lengths \union {NoLength}
  /\ chunk \in ChunkSizes \union {0}
  /\ size \in 0 .. BodyLimit - 1
  /\ port \in PortKinds \union {"none", "response"}
  /\ content \in Contents \union {Unseen}
  /\ outcome \in Errors \union Snapshots \union {[kind |-> "none"], [kind |-> "raised"]}
  /\ sent \in 0 .. MaxBody
  /\ complete \in BOOLEAN
  /\ broken \in BOOLEAN
  /\ operations \in Nat
  /\ lateEnds \in Nat

GoInit ==
  /\ phase = "authorize"
  /\ request \in [policy : Policies, quota : BOOLEAN]
  /\ late = FALSE
  /\ idle = FALSE
  /\ status = 0
  /\ declared = NoLength
  /\ chunk = 0
  /\ size = 0
  /\ port = "none"
  /\ content = Unseen
  /\ outcome = [kind |-> "none"]
  /\ sent = 0
  /\ complete = FALSE
  /\ broken = FALSE
  /\ operations = 0
  /\ lateEnds = 0

-----------------------------------------------------------------------------
(* The transport.                                                          *)

(* A return inside the with statements leaves through both of them. *)
Return(result) ==
  /\ phase' = "close"
  /\ port' = result
  /\ UNCHANGED <<request, late, answer, chunk, size, content, outcome>>

Goto(p) ==
  /\ phase' = p
  /\ UNCHANGED <<request, late, answer, chunk, size, port, content, outcome>>

(* Each step but an operation begins by looking at the remaining budget. *)
OnTime == ~late

(* The time at which the deadline passes matters where it is looked at,    *)
(* and while HTTPX is at work.                                             *)
DeadlinePasses ==
  /\ phase \in {"budget", "opened", "send", "headers", "read", "chunk", "end"}
  /\ ~late
  /\ late' = TRUE
  /\ UNCHANGED <<phase, request, answer, chunk, size, port, content, outcome,
                 http>>

InvalidConfig ==
  /\ phase = "configure"
  /\ phase' = "map"
  /\ port' = "INVALID"
  /\ UNCHANGED <<request, late, answer, chunk, size, content, outcome, http>>

Configure ==
  /\ phase = "configure"
  /\ Goto("budget")
  /\ UNCHANGED http

(* Nothing is open yet. *)
CheckBudget ==
  /\ phase = "budget"
  /\ \/ OnTime /\ Goto("client")
     \/ ~OnTime /\ phase' = "map" /\ port' = "TIMEOUT"
        /\ UNCHANGED <<request, late, answer, chunk, size, content, outcome>>
  /\ UNCHANGED http

(* httpx cannot be imported, or the client cannot be made.                 *)
ClientFails ==
  /\ phase = "client"
  /\ phase' = "map"
  /\ port' \in {"UNAVAILABLE", "FAILED"}
  /\ broken' = TRUE
  /\ UNCHANGED <<request, late, answer, chunk, size, content, outcome, sent,
                 complete, operations, lateEnds, idle>>

OpenClient ==
  /\ phase = "client"
  /\ Goto("opened")
  /\ UNCHANGED http

CheckOpened ==
  /\ phase = "opened"
  /\ \/ OnTime /\ Goto("send") /\ operations' = operations + 1
     \/ ~OnTime /\ Return("TIMEOUT") /\ UNCHANGED operations
  /\ UNCHANGED <<sent, complete, broken, lateEnds, idle>>

(* No byte has come or gone for a while: what the timeout is about.        *)
SocketIdles ==
  /\ phase \in Operations
  /\ late
  /\ ~idle
  /\ idle' = TRUE
  /\ UNCHANGED <<phase, request, late, answer, chunk, size, port, content, outcome, sent,
                 complete, broken, operations, lateEnds>>

(* Bytes come or go that do not complete the operation, and the wait for   *)
(* the next ones begins anew.                                              *)
Trickle ==
  /\ phase \in Operations
  /\ idle
  /\ idle' = FALSE
  /\ UNCHANGED <<phase, request, late, answer, chunk, size, port, content, outcome, sent,
                 complete, broken, operations, lateEnds>>

(* An operation of HTTPX comes to its end. *)
Ends ==
  /\ lateEnds' = IF late THEN lateEnds + 1 ELSE lateEnds
  /\ idle' = FALSE

Respond ==
  /\ phase = "send"
  /\ phase' = "headers"
  /\ status' \in Statuses
  /\ declared' \in Lengths
  /\ Ends
  /\ UNCHANGED <<request, late, chunk, size, port, content, outcome, sent,
                 complete, broken, operations>>

(* Mutant of OperationTimesOut: sending has no timeout. *)
ReadTimesOutOnly ==
  /\ phase = "read"
  /\ idle
  /\ Return("TIMEOUT")
  /\ Ends
  /\ UNCHANGED <<sent, complete, broken, operations>>

(* TimeoutException; connect, read, write and pool have the same timeout.  *)
OperationTimesOut ==
  /\ phase \in Operations
  /\ idle
  /\ Return("TIMEOUT")
  /\ Ends
  /\ UNCHANGED <<sent, complete, broken, operations>>

(* Another HTTPError, or any other exception. *)
OperationBreaks ==
  /\ phase \in Operations
  /\ Return("UNAVAILABLE") \/ Return("FAILED")
  /\ broken' = TRUE
  /\ Ends
  /\ UNCHANGED <<sent, complete, operations>>

(* Mutant of TooLarge: the limit itself is allowed. *)
TooLargeInclusive(n) == n > BodyLimit

(* _body_failure *)
TooLarge(n) == n >= BodyLimit

(* The next chunk is asked for. *)
Read ==
  /\ Goto("read")
  /\ operations' = operations + 1

CheckHeaders ==
  /\ phase = "headers"
  /\ \/ ~OnTime /\ Return("TIMEOUT") /\ UNCHANGED operations
     \/ OnTime /\ declared = OddLength /\ Return("FAILED") /\ UNCHANGED operations
     \/ OnTime /\ declared >= 0 /\ TooLarge(declared) /\ Return("INVALID")
        /\ UNCHANGED operations
     \/ /\ OnTime
        /\ declared = NoLength \/ (declared >= 0 /\ ~TooLarge(declared))
        /\ Read
  /\ UNCHANGED <<sent, complete, broken, lateEnds, idle>>

ReceiveChunk ==
  /\ phase = "read"
  /\ \E n \in ChunkSizes :
       /\ sent + n <= MaxBody
       /\ chunk' = n
       /\ sent' = sent + n
  /\ phase' = "chunk"
  /\ Ends
  /\ UNCHANGED <<request, late, answer, size, port, content, outcome, complete,
                 broken, operations>>

ReceiveEnd ==
  /\ phase = "read"
  /\ Goto("end")
  /\ complete' = TRUE
  /\ Ends
  /\ UNCHANGED <<sent, broken, operations>>

(* Mutant of KeepChunk: what is beyond the limit is cut off. *)
KeepChunkTruncating ==
  /\ phase = "chunk"
  /\ \/ ~OnTime /\ Return("TIMEOUT") /\ UNCHANGED operations
     \/ OnTime /\ TooLarge(size + chunk) /\ Goto("end") /\ UNCHANGED operations
     \/ /\ OnTime
        /\ ~TooLarge(size + chunk)
        /\ size' = size + chunk
        /\ phase' = "read"
        /\ operations' = operations + 1
        /\ UNCHANGED <<request, late, answer, chunk, port, content, outcome>>
  /\ UNCHANGED <<sent, complete, broken, lateEnds, idle>>

(* Mutant of KeepChunk: a late chunk is kept as long as it fits. *)
KeepChunkLate ==
  /\ phase = "chunk"
  /\ \/ TooLarge(size + chunk) /\ Return("INVALID") /\ UNCHANGED operations
     \/ /\ ~TooLarge(size + chunk)
        /\ size' = size + chunk
        /\ phase' = "read"
        /\ operations' = operations + 1
        /\ UNCHANGED <<request, late, answer, chunk, port, content, outcome>>
  /\ UNCHANGED <<sent, complete, broken, lateEnds, idle>>

KeepChunk ==
  /\ phase = "chunk"
  /\ \/ ~OnTime /\ Return("TIMEOUT") /\ UNCHANGED operations
     \/ OnTime /\ TooLarge(size + chunk) /\ Return("INVALID")
        /\ UNCHANGED operations
     \/ /\ OnTime
        /\ ~TooLarge(size + chunk)
        /\ size' = size + chunk
        /\ phase' = "read"
        /\ operations' = operations + 1
        /\ UNCHANGED <<request, late, answer, chunk, port, content, outcome>>
  /\ UNCHANGED <<sent, complete, broken, lateEnds, idle>>

ReturnResponse ==
  /\ phase = "end"
  /\ \/ ~OnTime /\ Return("TIMEOUT")
     \/ OnTime /\ Return("response")
  /\ UNCHANGED http

(* Leaving the with statements closes response and client; should that     *)
(* raise, the exception takes the place of the result.                     *)
CloseClient ==
  /\ phase = "close"
  /\ phase' = "map"
  /\ \/ UNCHANGED <<port, broken>>
     \/ port' \in {"UNAVAILABLE", "FAILED"} /\ broken' = TRUE
  /\ UNCHANGED <<request, late, answer, chunk, size, content, outcome, sent,
                 complete, operations, lateEnds, idle>>

-----------------------------------------------------------------------------
(* The provider.                                                           *)

Finish(result) ==
  /\ phase' = "ended"
  /\ outcome' = result
  /\ UNCHANGED <<request, late, answer, chunk, size, port, http>>

Fail(error, retryable) ==
  Finish([kind |-> "error", error |-> error, retryable |-> retryable])

Authorize ==
  /\ phase = "authorize"
  /\ \/ request.policy = "DENY" /\ Fail("UNAUTHORIZED", FALSE)
        /\ UNCHANGED content
     \/ request.policy = "ALLOW" /\ ~request.quota /\ Fail("UNSUPPORTED", FALSE)
        /\ UNCHANGED content
     \/ request.policy = "ALLOW" /\ request.quota /\ Goto("configure")
        /\ UNCHANGED http

(* Mutant of MapPortFailure: every failure of the transport may be retried. *)
MapPortFailureRetryable ==
  /\ phase = "map"
  /\ port # "response"
  /\ Fail("TRANSPORT", TRUE)
  /\ UNCHANGED content

(* map_port_failure *)
MapPortFailure ==
  /\ phase = "map"
  /\ port # "response"
  /\ Fail("TRANSPORT", port \in {"TIMEOUT", "UNAVAILABLE"})
  /\ UNCHANGED content

Success(code) == code \in 200 .. 299

MapStatus ==
  /\ phase = "map"
  /\ port = "response"
  /\ \/ status \in {401, 403} /\ Fail("UNAUTHORIZED", FALSE)
     \/ status = 429 /\ Fail("RATE_LIMITED", TRUE)
     \/ status \in 500 .. 599 /\ Fail("SOURCE_UNAVAILABLE", TRUE)
     \/ status \notin {401, 403, 429} \union 200 .. 299 \union 500 .. 599
        /\ Fail("UNSUPPORTED", FALSE)
  /\ UNCHANGED content

Valid(windows) == {p \in Periods : windows[p] \in ValidWindows}

(* Windows are mapped one by one; an exception of one of them ends it all. *)
MapUsage(windows) ==
  IF \E p \in Periods : windows[p] = "overflow" THEN Finish([kind |-> "raised"])
  ELSE IF Valid(windows) = {} THEN Fail("PARSE_FAILED", FALSE)
  ELSE Finish([kind |-> "snapshot",
               windows |-> [p \in Valid(windows) |-> windows[p]],
               state |-> IF Valid(windows) = Periods THEN "AVAILABLE" ELSE "PARTIAL"])

MapBody ==
  /\ phase = "map"
  /\ port = "response"
  /\ Success(status)
  /\ content' \in Contents
  /\ size = 0 => content'.text = "invalid"
  /\ \/ content'.text = "unreadable" /\ Finish([kind |-> "raised"])
     \/ content'.text \in {"invalid", "not an object", "no usage"}
        /\ Fail("PARSE_FAILED", FALSE)
     \/ content'.text = "usage" /\ MapUsage(content'.windows)

(* The code runs, and HTTPX ends an operation whose socket stays idle.     *)
CodeStep ==
  \/ Authorize \/ InvalidConfig \/ Configure \/ CheckBudget \/ ClientFails
  \/ OpenClient \/ CheckOpened \/ OperationTimesOut \/ CheckHeaders
  \/ KeepChunk \/ ReturnResponse \/ CloseClient
  \/ MapPortFailure \/ MapStatus \/ MapBody

Network == Respond \/ OperationBreaks \/ ReceiveChunk \/ ReceiveEnd

GoNext ==
  \/ CodeStep
  \/ Network
  \/ DeadlinePasses \/ SocketIdles \/ Trickle
  \/ phase = "ended" /\ UNCHANGED goVars

GoSpec == GoInit /\ [][GoNext]_goVars

(* The calling thread runs and time passes.  Nothing is asked of the       *)
(* server, which may answer, stop, or trickle for as long as it likes.     *)
GoFairSpec ==
  /\ GoSpec
  /\ WF_goVars(CodeStep)
  /\ WF_goVars(DeadlinePasses)
  /\ WF_goVars(SocketIdles)

-----------------------------------------------------------------------------

(* The budget cannot interrupt HTTPX, but it stops what follows: of all    *)
(* the operations of a fetch at most one ends after the deadline.          *)
AtMostOneLateOperation == lateEnds <= 1

(* A snapshot speaks for a complete body that arrived in time from an      *)
(* authorized request answered with success: nothing was cut off or lost   *)
(* on the way, and it shows every window of that body that is valid and no *)
(* other.                                                                  *)
SnapshotHasEvidence ==
  outcome.kind = "snapshot" =>
    /\ request = [policy |-> "ALLOW", quota |-> TRUE]
    /\ Success(status) /\ complete /\ size = sent /\ ~broken /\ lateEnds = 0
    /\ DOMAIN outcome.windows = Valid(content.windows)
    /\ DOMAIN outcome.windows # {}
    /\ \A p \in DOMAIN outcome.windows : outcome.windows[p] = content.windows[p]

(* A caller is told to retry only when time ran out, the network or HTTPX  *)
(* was unavailable, or a complete answer said that the server is: never    *)
(* after a refusal, a body too large or one understood to be wrong.        *)
RetryableMeansTransient ==
  outcome.kind = "error" /\ outcome.retryable =>
    late \/ broken \/ (complete /\ (status = 429 \/ status \in 500 .. 599))

(* Every fetch ends, though the server may stop answering at any point.    *)
(* One thing alone can hold it, within one HTTPX operation: a server that  *)
(* trickles bytes for ever, which no check of the budget interrupts.       *)
FetchEnds == <>(phase = "ended") \/ []<><<Trickle>>_goVars

-----------------------------------------------------------------------------
(* What the documents say and the code does not do.                        *)

(* docs/providers/opencode-go-protocol.md:54: an invalid field gives a     *)
(* typed parse failure, or its window is left out of a partial snapshot.   *)
FailuresAreTyped == outcome.kind # "raised"
=============================================================================
