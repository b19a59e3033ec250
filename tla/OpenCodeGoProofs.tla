-------------------------- MODULE OpenCodeGoProofs --------------------------
(***************************************************************************)
(* Proofs about OpenCodeGo for any statuses, declared lengths, contents,   *)
(* chunk sizes and body limit: what a phase knows, which bodies raise, and *)
(* that every step leaves less to do.                                      *)
(***************************************************************************)
EXTENDS OpenCodeGo, TLAPS

Allowed == [policy |-> "ALLOW", quota |-> TRUE]

(* After authorization the request is an allowed one until the end.        *)
Course == phase \notin {"authorize", "ended"} => request = Allowed

(* An operation begins in time, so the first to end late is the last.      *)
Timing ==
  /\ lateEnds \in {0, 1}
  /\ lateEnds = 1 => late
  /\ phase \in {"send", "read"} => lateEnds = 0

(* A socket has been idle long enough only after the deadline, and during  *)
(* an operation.                                                           *)
Idling == idle \in BOOLEAN /\ (idle => late /\ phase \in Operations)

(* The bytes kept, and the chunk in hand, are all that arrived.            *)
Body ==
  /\ phase = "chunk" => size + chunk = sent
  /\ phase \notin {"chunk", "close", "map", "ended"} => size = sent
  /\ phase = "end" => complete
  /\ broken => phase \in {"close", "map", "ended"}

(* What the transport returns is what it found.                            *)
PortSound ==
  /\ phase \notin {"close", "map", "ended"} => port = "none"
  /\ port = "response" => complete /\ size = sent /\ ~broken /\ lateEnds = 0
  /\ port = "TIMEOUT" => late
  /\ port = "UNAVAILABLE" => broken

(* A body json.loads fails on in a way nobody guards against, or one with  *)
(* a percent that math.isfinite cannot take.                               *)
Raising(body) == body.text = "unreadable" \/ \E p \in Periods : body.windows[p] = "overflow"

(* Nothing but such a body gets an exception past the provider.            *)
OnlyBodiesRaise ==
  outcome.kind = "raised" => port = "response" /\ Success(status) /\ Raising(content)

(* What the caller is told is what the provider knew.                      *)
OutcomeSound ==
  /\ phase # "ended" => outcome.kind = "none"
  /\ outcome.kind = "snapshot" =>
       /\ port = "response" /\ Success(status) /\ request = Allowed
       /\ DOMAIN outcome.windows = Valid(content.windows)
       /\ DOMAIN outcome.windows # {}
       /\ \A p \in DOMAIN outcome.windows : outcome.windows[p] = content.windows[p]
  /\ RetryableMeansTransient
  /\ OnlyBodiesRaise

GoInv ==
  /\ GoTypeOK
  /\ Course
  /\ Timing
  /\ Idling
  /\ Body
  /\ PortSound
  /\ OutcomeSound

-----------------------------------------------------------------------------

(* The mapping of a usage object gives an outcome of the right type, and a *)
(* snapshot only of valid windows.                                         *)
LEMMA UsageMapping ==
  ASSUME NEW windows \in Usages, MapUsage(windows)
  PROVE  /\ phase' = "ended"
         /\ UNCHANGED <<request, late, answer, chunk, size, port, http>>
         /\ \/ outcome' = [kind |-> "raised"] /\ \E p \in Periods : windows[p] = "overflow"
            \/ outcome' \in Errors /\ ~outcome'.retryable
            \/ /\ outcome' \in Snapshots
               /\ DOMAIN outcome'.windows = Valid(windows)
               /\ Valid(windows) # {}
               /\ \A p \in Valid(windows) : outcome'.windows[p] = windows[p]
<1>1. CASE \E p \in Periods : windows[p] = "overflow"
  BY <1>1 DEF MapUsage, Finish
<1>2. CASE (~\E p \in Periods : windows[p] = "overflow") /\ Valid(windows) = {}
  <2>1. Fail("PARSE_FAILED", FALSE)
    BY <1>2 DEF MapUsage
  <2>2. outcome' = [kind |-> "error", error |-> "PARSE_FAILED", retryable |-> FALSE]
    BY <2>1 DEF Fail, Finish
  <2>3. outcome' \in Errors /\ ~outcome'.retryable
    BY <2>2 DEF Errors, ErrorKinds
  <2> QED
    BY <2>1, <2>3 DEF Fail, Finish
<1>3. CASE (~\E p \in Periods : windows[p] = "overflow") /\ Valid(windows) # {}
  <2> DEFINE shown == [p \in Valid(windows) |-> windows[p]]
             state == IF Valid(windows) = Periods THEN "AVAILABLE" ELSE "PARTIAL"
  <2>1. Valid(windows) \in SUBSET Periods
    BY DEF Valid
  <2>2. shown \in [Valid(windows) -> ValidWindows]
    BY DEF Valid
  <2>3. shown \in WindowMaps
    BY <2>1, <2>2 DEF WindowMaps
  <2>4. Finish([kind |-> "snapshot", windows |-> shown, state |-> state])
    BY <1>3 DEF MapUsage
  <2>5. outcome' = [kind |-> "snapshot", windows |-> shown, state |-> state]
    BY <2>4 DEF Finish
  <2>6. state \in {"AVAILABLE", "PARTIAL"}
    OBVIOUS
  <2>7. outcome' \in Snapshots
    BY <2>3, <2>5, <2>6 DEF Snapshots
  <2>8. outcome'.windows = shown
    BY <2>5
  <2> QED
    BY <1>3, <2>4, <2>7, <2>8 DEF Finish
<1> QED
  BY <1>1, <1>2, <1>3

(* No outcome of one kind is of another. *)
LEMMA OutcomeKinds ==
  /\ \A e \in Errors : e.kind = "error" /\ e.retryable \in BOOLEAN
  /\ \A s \in Snapshots : s.kind = "snapshot"
BY DEF Errors, Snapshots

(* The initial state satisfies the invariant. *)
LEMMA InitGoInv == GoInit => GoInv
<1> SUFFICES ASSUME GoInit PROVE GoInv
  OBVIOUS
<1>1. 0 \in 0 .. BodyLimit - 1 /\ 0 \in 0 .. MaxBody
  BY LimitAssumption
<1>2. GoTypeOK
  BY <1>1 DEF GoInit, GoTypeOK, Phases, PortKinds
<1>3. Course /\ Timing
  BY DEF GoInit, Course, Timing
<1>4. Body /\ PortSound
  BY DEF GoInit, Body, PortSound
<1>5. OutcomeSound
  BY DEF GoInit, OutcomeSound, RetryableMeansTransient, OnlyBodiesRaise
<1>6. Idling
  BY DEF GoInit, Idling
<1> QED
  BY <1>2, <1>3, <1>4, <1>5, <1>6 DEF GoInv

(* The steps of the transport leave the outcome alone. *)
TransportAction ==
  \/ InvalidConfig \/ Configure \/ CheckBudget \/ ClientFails \/ OpenClient
  \/ CheckOpened \/ OperationTimesOut \/ CheckHeaders \/ KeepChunk
  \/ ReturnResponse \/ CloseClient \/ Network
  \/ DeadlinePasses \/ SocketIdles \/ Trickle

(* A step of the transport neither begins nor ends the fetch, and what the *)
(* provider asked and told stays.                                          *)
LEMMA TransportFrame ==
  ASSUME TransportAction
  PROVE  /\ phase \notin {"authorize", "ended"} /\ phase' \notin {"authorize", "ended"}
         /\ UNCHANGED <<request, content, outcome>>
<1> USE DEF Return, Goto, Read
<1>1. CASE InvalidConfig
  BY <1>1 DEF InvalidConfig
<1>2. CASE Configure
  BY <1>2 DEF Configure
<1>3. CASE CheckBudget
  BY <1>3 DEF CheckBudget
<1>4. CASE ClientFails
  BY <1>4 DEF ClientFails
<1>5. CASE OpenClient
  BY <1>5 DEF OpenClient
<1>6. CASE CheckOpened
  BY <1>6 DEF CheckOpened
<1>7. CASE OperationTimesOut
  BY <1>7 DEF OperationTimesOut, Operations
<1>8. CASE CheckHeaders
  BY <1>8 DEF CheckHeaders
<1>9. CASE KeepChunk
  BY <1>9 DEF KeepChunk
<1>10. CASE ReturnResponse
  BY <1>10 DEF ReturnResponse
<1>11. CASE CloseClient
  BY <1>11 DEF CloseClient
<1>12. CASE Respond
  BY <1>12 DEF Respond
<1>13. CASE OperationBreaks
  BY <1>13 DEF OperationBreaks, Operations
<1>14. CASE ReceiveChunk
  BY <1>14 DEF ReceiveChunk
<1>15. CASE ReceiveEnd
  BY <1>15 DEF ReceiveEnd
<1>16. CASE DeadlinePasses \/ SocketIdles \/ Trickle
  BY <1>16 DEF DeadlinePasses, SocketIdles, Trickle, Operations
<1> QED
  BY <1>1, <1>2, <1>3, <1>4, <1>5, <1>6, <1>7, <1>8, <1>9, <1>10, <1>11,
     <1>12, <1>13, <1>14, <1>15, <1>16 DEF TransportAction, Network

LEMMA IdlingStep ==
  ASSUME GoInv, TransportAction
  PROVE  Idling'
<1> USE DEF Idling, http
<1>1. idle \in BOOLEAN /\ (idle => late /\ phase \in {"send", "read"})
  BY DEF GoInv, Operations
<1>2. CASE Network \/ OperationTimesOut
  <2>1. idle' = FALSE
    BY <1>2 DEF Network, Respond, OperationBreaks, ReceiveChunk, ReceiveEnd, OperationTimesOut, Ends
  <2> QED
    BY <2>1
<1>3. CASE DeadlinePasses \/ SocketIdles \/ Trickle
  <2>1. CASE DeadlinePasses
    BY <1>1, <2>1 DEF DeadlinePasses, Operations
  <2>2. CASE SocketIdles
    BY <2>2 DEF SocketIdles
  <2>3. CASE Trickle
    BY <2>3 DEF Trickle
  <2> QED
    BY <1>3, <2>1, <2>2, <2>3
<1>4. CASE ~(Network \/ OperationTimesOut \/ DeadlinePasses \/ SocketIdles \/ Trickle)
  <2>1. idle' = idle /\ phase \notin {"send", "read"}
    BY <1>4 DEF TransportAction, InvalidConfig, Configure, CheckBudget, ClientFails, OpenClient,
                CheckOpened, CheckHeaders, KeepChunk, ReturnResponse, CloseClient
  <2> QED
    BY <1>1, <2>1
<1> QED
  BY <1>2, <1>3, <1>4

LEMMA TransportStep ==
  ASSUME GoInv, TransportAction
  PROVE  GoInv'
<1> DEFINE OwnOK == /\ phase \in Phases
                    /\ port \in PortKinds \union {"none", "response"}
                    /\ late \in BOOLEAN /\ complete \in BOOLEAN /\ broken \in BOOLEAN
                    /\ status \in Statuses \union {0}
                    /\ declared \in Lengths \union {NoLength}
                    /\ chunk \in ChunkSizes \union {0}
                    /\ size \in 0 .. BodyLimit - 1 /\ sent \in 0 .. MaxBody
                    /\ operations \in Nat /\ lateEnds \in Nat
           TransportInv == OwnOK /\ Timing /\ Body /\ PortSound
<1>1. TransportInv
  BY DEF GoInv, GoTypeOK
<1>2. OperationTimesOut => late
  BY DEF OperationTimesOut, GoInv, Idling
<1>3. TransportInv'
  <2> USE <1>1, LimitAssumption, ChunkAssumption
  <2> USE DEF Phases, PortKinds, answer, http, Timing, Body, PortSound
  <2>1. CASE InvalidConfig
    BY <2>1 DEF InvalidConfig
  <2>2. CASE Configure
    BY <2>2 DEF Configure, Goto
  <2>3. CASE CheckBudget
    BY <2>3 DEF CheckBudget, OnTime, Goto
  <2>4. CASE ClientFails
    BY <2>4 DEF ClientFails
  <2>5. CASE OpenClient
    BY <2>5 DEF OpenClient, Goto
  <2>6. CASE CheckOpened
    BY <2>6 DEF CheckOpened, OnTime, Goto, Return
  <2>7. CASE OperationTimesOut
    BY <1>2, <2>7 DEF OperationTimesOut, Operations, Return, Ends
  <2>8. CASE CheckHeaders
    BY <2>8 DEF CheckHeaders, OnTime, Return, Read, Goto
  <2>9. CASE KeepChunk
    BY <2>9 DEF KeepChunk, OnTime, Return, TooLarge
  <2>10. CASE ReturnResponse
    BY <2>10 DEF ReturnResponse, OnTime, Return
  <2>11. CASE CloseClient
    <3>1. UNCHANGED <<late, idle, status, declared, chunk, size, sent, complete, operations, lateEnds>>
      BY <2>11 DEF CloseClient
    <3>2. CASE UNCHANGED <<port, broken>>
      BY <2>11, <3>1, <3>2 DEF CloseClient
    <3>3. CASE port' \in {"UNAVAILABLE", "FAILED"} /\ broken' = TRUE
      BY <2>11, <3>1, <3>3 DEF CloseClient
    <3> QED
      BY <2>11, <3>2, <3>3 DEF CloseClient
  <2>12. CASE Respond
    BY <2>12 DEF Respond, Ends
  <2>13. CASE OperationBreaks
    BY <2>13 DEF OperationBreaks, Operations, Return, Ends
  <2>14. CASE ReceiveChunk
    BY <2>14 DEF ReceiveChunk, Ends
  <2>15. CASE ReceiveEnd
    BY <2>15 DEF ReceiveEnd, Goto, Ends
  <2>16. CASE DeadlinePasses
    BY <2>16 DEF DeadlinePasses
  <2>17. CASE SocketIdles \/ Trickle
    BY <2>17 DEF SocketIdles, Trickle
  <2> QED
    BY <2>1, <2>2, <2>3, <2>4, <2>5, <2>6, <2>7, <2>8, <2>9, <2>10, <2>11,
       <2>12, <2>13, <2>14, <2>15, <2>16, <2>17 DEF TransportAction, Network
<1>4. GoTypeOK'
  BY <1>3, IdlingStep, TransportFrame DEF GoInv, GoTypeOK, Idling
<1>5. Course'
  BY TransportFrame DEF GoInv, Course, Allowed
<1>6. OutcomeSound'
  <2>1. outcome'.kind = "none"
    BY TransportFrame DEF GoInv, OutcomeSound
  <2> QED
    BY <2>1 DEF OutcomeSound, RetryableMeansTransient, OnlyBodiesRaise
<1> QED
  BY <1>3, <1>4, <1>5, <1>6, IdlingStep DEF GoInv

(* The steps of the provider end the fetch, but for the authorization of   *)
(* an allowed request.                                                     *)
LEMMA AuthorizeStep ==
  ASSUME GoInv, Authorize
  PROVE  GoInv'
<1> USE DEF Authorize, answer, http
<1>1. CASE Goto("configure")
  <2>1. /\ UNCHANGED <<request, late, status, declared, chunk, size, port, content, outcome>>
        /\ phase' = "configure" /\ UNCHANGED http /\ phase = "authorize"
    BY <1>1 DEF Goto, Fail, Finish
  <2>2. request = Allowed
    BY <1>1 DEF GoInv, GoTypeOK, Policies, Goto, Fail, Finish, Allowed
  <2>3. GoTypeOK'
    BY <2>1 DEF GoInv, GoTypeOK, Phases
  <2>4. Course'
    BY <2>1, <2>2 DEF GoInv, Course
  <2>5. Timing' /\ Idling' /\ Body' /\ PortSound'
    BY <2>1 DEF GoInv, Timing, Idling, Operations, Body, PortSound
  <2>6. OutcomeSound'
    BY <2>1 DEF GoInv, OutcomeSound, RetryableMeansTransient, OnlyBodiesRaise
  <2> QED
    BY <2>3, <2>4, <2>5, <2>6 DEF GoInv
<1>2. ASSUME NEW error \in {"UNAUTHORIZED", "UNSUPPORTED"}, Fail(error, FALSE),
             UNCHANGED content, phase = "authorize"
      PROVE  GoInv'
  <2>1. /\ UNCHANGED <<request, late, status, declared, chunk, size, port, content>>
        /\ phase' = "ended" /\ UNCHANGED <<idle, sent, complete, broken, operations, lateEnds>>
        /\ outcome' = [kind |-> "error", error |-> error, retryable |-> FALSE]
    BY <1>2 DEF Fail, Finish
  <2>2. outcome' \in Errors /\ outcome'.kind = "error" /\ ~outcome'.retryable
    BY <2>1 DEF Errors, ErrorKinds
  <2>3. GoTypeOK'
    BY <2>1, <2>2 DEF GoInv, GoTypeOK, Phases
  <2>4. Course'
    BY <1>2, <2>1 DEF GoInv, Course
  <2>5. Timing' /\ Idling' /\ Body' /\ PortSound'
    BY <1>2, <2>1 DEF GoInv, Timing, Idling, Operations, Body, PortSound
  <2>6. OutcomeSound'
    BY <2>1, <2>2 DEF OutcomeSound, RetryableMeansTransient, OnlyBodiesRaise
  <2> QED
    BY <2>3, <2>4, <2>5, <2>6 DEF GoInv
<1> QED
  BY <1>1, <1>2

(* An outcome that is right for the response, or for the failure, ends the *)
(* fetch well.                                                             *)
LEMMA FinishStep ==
  ASSUME GoInv, phase = "map", Finish(outcome'),
         content' \in Contents \union {Unseen},
         outcome' \in Errors \union Snapshots \union {[kind |-> "raised"]},
         outcome'.kind = "snapshot" =>
           /\ port = "response" /\ Success(status)
           /\ DOMAIN outcome'.windows = Valid(content'.windows)
           /\ DOMAIN outcome'.windows # {}
           /\ \A p \in DOMAIN outcome'.windows : outcome'.windows[p] = content'.windows[p],
         outcome'.kind = "error" /\ outcome'.retryable =>
           late \/ broken \/ (complete /\ (status = 429 \/ status \in 500 .. 599)),
         outcome'.kind = "raised" =>
           port = "response" /\ Success(status) /\ Raising(content')
  PROVE  GoInv'
<1>1. /\ UNCHANGED <<request, late, status, declared, chunk, size, port>>
      /\ phase' = "ended" /\ UNCHANGED <<idle, sent, complete, broken, operations, lateEnds>>
  BY DEF Finish, answer, http
<1>2. request = Allowed
  BY DEF GoInv, Course
<1>3. GoTypeOK'
  BY <1>1 DEF GoInv, GoTypeOK, Phases
<1>4. Course'
  BY <1>1, <1>2 DEF GoInv, Course, Allowed
<1>5. Timing' /\ Idling' /\ Body' /\ PortSound'
  BY <1>1 DEF GoInv, Timing, Idling, Operations, Body, PortSound
<1>6. OutcomeSound'
  BY <1>1, <1>2 DEF OutcomeSound, RetryableMeansTransient, OnlyBodiesRaise, Raising, Success, Valid
<1> QED
  BY <1>3, <1>4, <1>5, <1>6 DEF GoInv

LEMMA FailStep ==
  ASSUME GoInv, phase = "map", NEW error \in ErrorKinds, NEW retryable \in BOOLEAN,
         Fail(error, retryable), content' \in Contents \union {Unseen},
         retryable => late \/ broken \/ (complete /\ (status = 429 \/ status \in 500 .. 599))
  PROVE  GoInv'
<1>1. outcome' = [kind |-> "error", error |-> error, retryable |-> retryable]
  BY DEF Fail, Finish
<1>2. Finish(outcome')
  BY <1>1 DEF Fail
<1>3. outcome' \in Errors /\ outcome'.kind = "error" /\ outcome'.retryable = retryable
  BY <1>1 DEF Errors
<1> QED
  BY <1>2, <1>3, FinishStep

LEMMA ProviderStep ==
  ASSUME GoInv, MapPortFailure \/ MapStatus \/ MapBody
  PROVE  GoInv'
<1>1. CASE MapPortFailure
  <2> DEFINE transient == port \in {"TIMEOUT", "UNAVAILABLE"}
  <2>1. Fail("TRANSPORT", transient) /\ phase = "map" /\ content' = content
    BY <1>1 DEF MapPortFailure
  <2>2. (transient => late \/ broken) /\ transient \in BOOLEAN
    BY DEF GoInv, PortSound
  <2>3. content' \in Contents \union {Unseen} /\ "TRANSPORT" \in ErrorKinds
    BY <2>1 DEF GoInv, GoTypeOK, ErrorKinds
  <2> HIDE DEF transient
  <2> QED
    BY <2>1, <2>2, <2>3, FailStep
<1>2. CASE MapStatus
  <2>1. phase = "map" /\ complete /\ content' \in Contents \union {Unseen}
    <3>1. phase = "map" /\ port = "response" /\ content' = content
      BY <1>2 DEF MapStatus
    <3> QED
      BY <3>1 DEF GoInv, GoTypeOK, PortSound
  <2>2. PICK error \in ErrorKinds, retryable \in BOOLEAN :
          Fail(error, retryable) /\ (retryable => status = 429 \/ status \in 500 .. 599)
    <3>1. \/ Fail("UNAUTHORIZED", FALSE) \/ Fail("UNSUPPORTED", FALSE)
          \/ status = 429 /\ Fail("RATE_LIMITED", TRUE)
          \/ status \in 500 .. 599 /\ Fail("SOURCE_UNAVAILABLE", TRUE)
      <4> DEFINE Other == status \notin {401, 403, 429} \union 200 .. 299 \union 500 .. 599
      <4>1. \/ status \in {401, 403} /\ Fail("UNAUTHORIZED", FALSE)
            \/ status = 429 /\ Fail("RATE_LIMITED", TRUE)
            \/ status \in 500 .. 599 /\ Fail("SOURCE_UNAVAILABLE", TRUE)
            \/ Other /\ Fail("UNSUPPORTED", FALSE)
        BY <1>2, Zenon DEF MapStatus
      <4> HIDE DEF Other
      <4> QED
        BY <4>1, Zenon
    <3>2. {"UNAUTHORIZED", "RATE_LIMITED", "SOURCE_UNAVAILABLE", "UNSUPPORTED"}
            \subseteq ErrorKinds
      BY DEF ErrorKinds
    <3>3. CASE Fail("UNAUTHORIZED", FALSE) \/ Fail("UNSUPPORTED", FALSE)
      BY <3>2, <3>3
    <3>4. CASE status = 429 /\ Fail("RATE_LIMITED", TRUE)
      BY <3>2, <3>4
    <3>5. CASE status \in 500 .. 599 /\ Fail("SOURCE_UNAVAILABLE", TRUE)
      BY <3>2, <3>5
    <3> QED
      BY <3>1, <3>3, <3>4, <3>5, Zenon
  <2> QED
    BY <2>1, <2>2, FailStep
<1>3. CASE MapBody
  <2>1. phase = "map" /\ port = "response" /\ Success(status) /\ content' \in Contents
    BY <1>3 DEF MapBody
  <2>2. CASE content'.text = "unreadable" /\ Finish([kind |-> "raised"])
    <3>1. outcome' = [kind |-> "raised"]
      BY <2>2 DEF Finish
    <3>2. Finish(outcome')
      BY <2>2, <3>1
    <3> QED
      BY <2>1, <2>2, <3>1, <3>2, FinishStep DEF Raising
  <2>3. CASE Fail("PARSE_FAILED", FALSE)
    BY <2>1, <2>3, FailStep DEF ErrorKinds
  <2>4. CASE content'.text = "usage" /\ MapUsage(content'.windows)
    <3>1. content'.windows \in Usages
      BY <2>1, <2>4, ContentAssumption DEF Texts
    <3>2. Finish(outcome')
      BY <2>4, <3>1, UsageMapping DEF Finish
    <3>3. CASE /\ outcome' = [kind |-> "raised"]
               /\ \E p \in Periods : content'.windows[p] = "overflow"
      BY <2>1, <3>2, <3>3, FinishStep DEF Raising
    <3>4. CASE outcome' \in Errors /\ ~outcome'.retryable
      BY <2>1, <3>2, <3>4, OutcomeKinds, FinishStep
    <3>5. CASE /\ outcome' \in Snapshots
               /\ DOMAIN outcome'.windows = Valid(content'.windows)
               /\ Valid(content'.windows) # {}
               /\ \A p \in Valid(content'.windows) : outcome'.windows[p] = content'.windows[p]
      <4>1. outcome'.kind = "snapshot"
        BY <3>5, OutcomeKinds
      <4>2. \A p \in DOMAIN outcome'.windows : outcome'.windows[p] = content'.windows[p]
        BY <3>5
      <4> QED
        BY <2>1, <3>2, <3>5, <4>1, <4>2, FinishStep
    <3> QED
      BY <2>4, <3>1, <3>3, <3>4, <3>5, UsageMapping
  <2> QED
    BY <1>3, <2>2, <2>3, <2>4 DEF MapBody
<1> QED
  BY <1>1, <1>2, <1>3

(* Every step keeps the invariant. *)
LEMMA GoInvStep == GoInv /\ [GoNext]_goVars => GoInv'
<1> SUFFICES ASSUME GoInv, [GoNext]_goVars PROVE GoInv'
  OBVIOUS
<1>1. CASE TransportAction
  BY <1>1, TransportStep
<1>2. CASE Authorize
  BY <1>2, AuthorizeStep
<1>3. CASE MapPortFailure \/ MapStatus \/ MapBody
  BY <1>3, ProviderStep
<1>4. CASE UNCHANGED goVars
  <2> USE <1>4 DEF goVars, answer, http
  <2>1. GoTypeOK'
    BY DEF GoInv, GoTypeOK
  <2>2. Course' /\ Timing' /\ Idling' /\ Body' /\ PortSound'
    BY DEF GoInv, Course, Timing, Idling, Body, PortSound
  <2>3. OutcomeSound'
    BY DEF GoInv, OutcomeSound, RetryableMeansTransient, OnlyBodiesRaise
  <2> QED
    BY <2>1, <2>2, <2>3 DEF GoInv
<1> QED
  BY <1>1, <1>2, <1>3, <1>4 DEF GoNext, CodeStep, TransportAction

-----------------------------------------------------------------------------

(* The inductive invariant: where the fetch is, what its operations found, *)
(* and what it tells are kept in step by every action of it.               *)
THEOREM GoInvariant == GoSpec => []GoInv
<1>1. GoInit => GoInv
  BY InitGoInv
<1>2. GoInv /\ [GoNext]_goVars => GoInv'
  BY GoInvStep
<1> QED
  BY <1>1, <1>2, PTL DEF GoSpec

(* Every variable keeps its type; the size kept stays below BODY_LIMIT. *)
THEOREM GoTypeCorrect == GoSpec => []GoTypeOK
<1>1. GoInv => GoTypeOK
  BY DEF GoInv
<1> QED
  BY <1>1, GoInvariant, PTL

(* At most one HTTPX operation ends after the deadline, in a body of any   *)
(* number of chunks.                                                       *)
THEOREM OneLateOperation == GoSpec => []AtMostOneLateOperation
<1>1. GoInv => AtMostOneLateOperation
  BY DEF GoInv, Timing, AtMostOneLateOperation
<1> QED
  BY <1>1, GoInvariant, PTL

(* A snapshot speaks for a complete, timely body and shows its valid       *)
(* windows, all of them and no other.                                      *)
THEOREM SnapshotsHaveEvidence == GoSpec => []SnapshotHasEvidence
<1>1. GoInv => SnapshotHasEvidence
  BY DEF GoInv, OutcomeSound, PortSound, SnapshotHasEvidence, Allowed
<1> QED
  BY <1>1, GoInvariant, PTL

(* A retry is advised only after something transient. *)
THEOREM RetriesAreTransient == GoSpec => []RetryableMeansTransient
<1>1. GoInv => RetryableMeansTransient
  BY DEF GoInv, OutcomeSound
<1> QED
  BY <1>1, GoInvariant, PTL

(* The exceptions that fetch lets through are those of two kinds of body.  *)
THEOREM RaisesForBodiesOnly == GoSpec => []OnlyBodiesRaise
<1>1. GoInv => OnlyBodiesRaise
  BY DEF GoInv, OutcomeSound
<1> QED
  BY <1>1, GoInvariant, PTL

(* What docs/providers/opencode-go-protocol.md:54 says is therefore true   *)
(* of every other body.                                                    *)
THEOREM OtherFailuresAreTyped ==
  ASSUME \A body \in Contents : ~Raising(body)
  PROVE  GoSpec => []FailuresAreTyped
<1>1. GoInv => FailuresAreTyped
  <2> SUFFICES ASSUME GoInv, outcome.kind = "raised" PROVE FALSE
    BY DEF FailuresAreTyped
  <2>1. Raising(content)
    BY DEF GoInv, OutcomeSound, OnlyBodiesRaise
  <2>2. content \in Contents \union {Unseen}
    BY DEF GoInv, GoTypeOK
  <2>3. ~Raising(Unseen)
    BY DEF Unseen, Raising, NoWindows
  <2> QED
    BY <2>1, <2>2, <2>3
<1> QED
  BY <1>1, GoInvariant, PTL
-----------------------------------------------------------------------------
(***************************************************************************)
(* How much a fetch may still do.  Every phase has a place in the order in *)
(* which fetch comes to them; asking for the next chunk goes one back, but *)
(* the chunk that was kept leaves less of the limit.                       *)
(***************************************************************************)
Stage ==
  CASE phase = "authorize" -> 12
    [] phase = "configure" -> 11
    [] phase = "budget"    -> 10
    [] phase = "client"    -> 9
    [] phase = "opened"    -> 8
    [] phase = "send"      -> 7
    [] phase = "headers"   -> 6
    [] phase = "read"      -> 5
    [] phase = "chunk"     -> 4
    [] phase = "end"       -> 3
    [] phase = "close"     -> 2
    [] phase = "map"       -> 1
    [] OTHER               -> 0

Work == 2 * (BodyLimit - size) + Stage

(* Each step of the code and each answer of the network leaves less to do, *)
(* however small the chunks are; time and trickling leave as much.         *)
WorkShrinks == [][Work' <= Work /\ (CodeStep \/ Network => Work' < Work)]_goVars

(* A chunk is a byte or more.  One operation sends the request; each of    *)
(* the others but the last gave a chunk, and the limit is never reached.   *)
OperationsCounted ==
  /\ phase = "chunk" => chunk > 0
  /\ phase \in {"authorize", "configure", "budget", "client", "opened"} => operations = 0
  /\ phase \in {"send", "headers"} => operations = 1
  /\ operations <= size + 2

(* A fetch takes at most 2 * BodyLimit + 12 steps, and begins no more      *)
(* HTTPX operations than BodyLimit + 1.                                    *)
WorkBounded == Work \in 0 .. 2 * BodyLimit + 12 /\ operations <= BodyLimit + 1

(* A step of the code or the network keeps what fits, or comes to a later  *)
(* phase; a chunk that is kept was counted.                                *)
LEMMA FetchStep ==
  ASSUME GoInv, OperationsCounted, CodeStep \/ Network
  PROVE  /\ \/ size' = size /\ Stage' < Stage
            \/ size' > size /\ Stage' = Stage + 1
         /\ OperationsCounted'
<1> USE DEF Stage, OperationsCounted, Return, Goto, Read, http, answer, Fail, Finish
<1>1. CASE Authorize
  BY <1>1 DEF Authorize
<1>2. CASE InvalidConfig \/ Configure
  BY <1>2 DEF InvalidConfig, Configure
<1>3. CASE CheckBudget \/ ClientFails
  BY <1>3 DEF CheckBudget, ClientFails
<1>4. CASE OpenClient
  BY <1>4 DEF OpenClient
<1>5. CASE CheckOpened
  BY <1>5 DEF CheckOpened, GoInv, GoTypeOK
<1>6. CASE OperationTimesOut \/ OperationBreaks
  BY <1>6 DEF OperationTimesOut, OperationBreaks, Operations
<1>7. CASE Respond
  BY <1>7 DEF Respond
<1>8. CASE CheckHeaders
  BY <1>8 DEF CheckHeaders, GoInv, GoTypeOK
<1>9. CASE ReceiveChunk
  BY <1>9, ChunkAssumption DEF ReceiveChunk
<1>10. CASE ReceiveEnd
  BY <1>10 DEF ReceiveEnd
<1>11. CASE KeepChunk
  <2>1. chunk \in Nat /\ size \in Nat /\ operations \in Nat
    BY ChunkAssumption, LimitAssumption DEF GoInv, GoTypeOK
  <2> QED
    BY <1>11, <2>1 DEF KeepChunk
<1>12. CASE ReturnResponse \/ CloseClient
  BY <1>12 DEF ReturnResponse, CloseClient
<1>13. CASE MapPortFailure \/ MapStatus
  BY <1>13 DEF MapPortFailure, MapStatus
<1>14. CASE MapBody
  <2>1. phase = "map" /\ content' \in Contents
    BY <1>14 DEF MapBody
  <2>2. phase' = "ended" /\ UNCHANGED <<size, chunk, operations>>
    <3>1. CASE content'.text = "usage" /\ MapUsage(content'.windows)
      <4>1. content'.windows \in Usages
        BY <2>1, <3>1, ContentAssumption DEF Texts
      <4> QED
        BY <3>1, <4>1, UsageMapping
    <3>2. CASE Finish([kind |-> "raised"]) \/ Fail("PARSE_FAILED", FALSE)
      BY <3>2
    <3> QED
      BY <1>14, <3>1, <3>2 DEF MapBody
  <2> QED
    BY <2>1, <2>2
<1> QED
  BY <1>1, <1>2, <1>3, <1>4, <1>5, <1>6, <1>7, <1>8, <1>9, <1>10, <1>11, <1>12, <1>13, <1>14
  DEF CodeStep, Network

LEMMA WorkTyped ==
  ASSUME GoTypeOK
  PROVE  /\ Work \in Nat /\ Stage \in 0 .. 12 /\ size \in 0 .. BodyLimit - 1
         /\ operations \in Nat
<1>1. Stage \in 0 .. 12
  BY DEF Stage
<1> HIDE DEF Stage
<1> QED
  BY <1>1, LimitAssumption DEF GoTypeOK, Work

LEMMA NextWorkTyped ==
  ASSUME GoTypeOK'
  PROVE  Stage' \in 0 .. 12 /\ size' \in 0 .. BodyLimit - 1
<1>1. Stage' \in 0 .. 12
  BY DEF Stage
<1>2. size' \in 0 .. BodyLimit - 1
  BY DEF GoTypeOK
<1> QED
  BY <1>1, <1>2

(* A byte weighs more than the one phase that reading it goes back.        *)
LEMMA TwoForOne ==
  ASSUME NEW limit \in Int, NEW s \in Int, NEW t \in Int, NEW m \in Int, NEW n \in Int,
         \/ t = s /\ n < m
         \/ t > s /\ n = m + 1
  PROVE  /\ 2 * (limit - t) + n < 2 * (limit - s) + m
         /\ 2 * (limit - t) + n \in Int /\ 2 * (limit - s) + m \in Int
OBVIOUS

(* A fetch comes closer to its end with every step of the code and every   *)
(* answer of the network, for any chunk sizes; what is not a step of       *)
(* either is time, which ends an operation that waits in silence, or a     *)
(* trickle, which alone can go on for ever.                                *)
THEOREM FetchComesToEnd == GoSpec => WorkShrinks /\ []WorkBounded
<1>1. ASSUME GoInv, GoInv', OperationsCounted, [GoNext]_goVars
      PROVE  Work' <= Work /\ (CodeStep \/ Network => Work' < Work) /\ OperationsCounted'
  <2>1. CASE CodeStep \/ Network
    <3>1. /\ \/ size' = size /\ Stage' < Stage
             \/ size' > size /\ Stage' = Stage + 1
          /\ OperationsCounted'
      BY <1>1, <2>1, FetchStep
    <3>2. /\ Stage \in 0 .. 12 /\ Stage' \in 0 .. 12
          /\ size \in 0 .. BodyLimit - 1 /\ size' \in 0 .. BodyLimit - 1
      BY <1>1, WorkTyped, NextWorkTyped DEF GoInv
    <3>3. /\ size \in Int /\ size' \in Int /\ Stage \in Int /\ Stage' \in Int
          /\ BodyLimit \in Int
      BY <3>2, LimitAssumption
    <3>4. Work = 2 * (BodyLimit - size) + Stage /\ Work' = 2 * (BodyLimit - size') + Stage'
      BY DEF Work
    <3>5. Work' < Work /\ Work' \in Int /\ Work \in Int
      BY <3>1, <3>3, <3>4, TwoForOne
    <3> QED
      BY <3>1, <3>5
  <2>2. CASE ~(CodeStep \/ Network)
    <3>1. UNCHANGED <<phase, size, chunk, operations>>
      BY <1>1, <2>2 DEF GoNext, DeadlinePasses, SocketIdles, Trickle, goVars, http
    <3>2. Work \in Nat
      BY <1>1, WorkTyped DEF GoInv
    <3>3. Work' = Work
      BY <3>1 DEF Work, Stage
    <3>4. OperationsCounted'
      BY <1>1, <3>1 DEF OperationsCounted
    <3> QED
      BY <2>2, <3>2, <3>3, <3>4
  <2> QED
    BY <2>1, <2>2
<1>2. GoInit => OperationsCounted
  BY LimitAssumption DEF GoInit, OperationsCounted
<1>3. GoSpec => []OperationsCounted
  BY <1>1, <1>2, GoInvariant, PTL DEF GoSpec
<1>4. GoSpec => WorkShrinks
  BY <1>1, <1>3, GoInvariant, PTL DEF GoSpec, WorkShrinks
<1>5. GoInv /\ OperationsCounted => WorkBounded
  <2> SUFFICES ASSUME GoInv, OperationsCounted PROVE WorkBounded
    OBVIOUS
  <2>1. Stage \in 0 .. 12 /\ size \in 0 .. BodyLimit - 1 /\ operations \in Nat
    BY WorkTyped DEF GoInv
  <2> QED
    BY <2>1, LimitAssumption DEF Work, WorkBounded, OperationsCounted
<1> QED
  BY <1>3, <1>4, <1>5, GoInvariant, PTL
=============================================================================
