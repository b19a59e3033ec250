-------------------------- MODULE StatusClientProofs --------------------------
(***************************************************************************)
(* Proofs about StatusClient for any callers, requests and instants.  A    *)
(* read uses the cache as ProviderCache describes it (ClientUsesCache), so *)
(* what is proved of the cache holds inside every read; what a read adds   *)
(* is ReadsRemember, and that every step of its own brings its end nearer. *)
(***************************************************************************)
EXTENDS StatusClient, ProviderCacheProofs

(* What a read knows where it is: which request it was asked, that its     *)
(* source was detected, and, when the cached reader is done, its answer.   *)
ReadRemembers(c) ==
  /\ stage[c] # "ready" => asked[c] \in StatusRequests
  /\ stage[c] \in {"fetch", "fetching"} => detected[c]
  /\ stage[c] # "fetching" => pc[c] = "idle"
  /\ stage[c] = "fetching" /\ pc[c] = "idle" =>
       /\ answer[c] \in Answers
       /\ answer[c].kind # "raised" => answer[c].snapshot \in Snapshots

ReadsRemember == \A c \in Callers : ReadRemembers(c)

ClientInv == ClientTypeOK /\ ReadsRemember /\ SnapshotNeedsDetection

-----------------------------------------------------------------------------

(* What a read does to the cache is a step of the cache. *)
LEMMA ClientStepIsCacheStep ==
  ASSUME ReadsRemember, [ClientNext]_allVars
  PROVE  [Next]_vars
<1>1. ASSUME NEW c \in Callers, Fetch(c)
      PROVE  Next
  BY <1>1 DEF Fetch, ReadsRemember, ReadRemembers, StatusRequests, Next
<1>2. ASSUME NEW c \in Callers, FetchStep(c)
      PROVE  Next
  BY <1>2 DEF FetchStep, CallerStep, Next
<1>3. CASE World
  BY <1>3 DEF World, Next
<1>4. ASSUME NEW c \in Callers,
             \/ \E q \in StatusRequests : ReadStatus(c, q)
             \/ DetectAbsent(c) \/ DetectPresent(c) \/ DetectRaises(c)
             \/ Propagate(c) \/ Judge(c)
      PROVE  UNCHANGED vars
  BY <1>4 DEF ReadStatus, DetectAbsent, DetectPresent, DetectRaises, Propagate, Judge, Conclude
<1>5. CASE UNCHANGED allVars
  BY <1>5 DEF allVars
<1> QED
  BY <1>1, <1>2, <1>3, <1>4, <1>5 DEF ClientNext, ReadStep

(* The initial states satisfy the invariant. *)
LEMMA InitClientInv == ClientInit => ClientInv
BY InitCacheInv
DEF ClientInit, ClientInv, ClientTypeOK, ReadsRemember, ReadRemembers, SnapshotNeedsDetection,
    CacheInv, Init, Stages, Verdicts

(* A step of the cache leaves the read of every other caller alone.        *)
LEMMA CacheStepFrame ==
  ASSUME TypeOK, NEW c \in Callers, NEW d \in Callers \ {c},
         \/ \E r \in Requests : Begin(c, r)
         \/ CallerStep(c)
  PROVE  pc'[d] = pc[d] /\ answer'[d] = answer[d]
<1> USE DEF TypeOK
<1>1. ASSUME NEW kind, NEW s, Finish(c, kind, s)
      PROVE  pc'[d] = pc[d] /\ answer'[d] = answer[d]
  BY <1>1 DEF Finish
<1>2. CASE \E r \in Requests : Begin(c, r)
  BY <1>2 DEF Begin
<1>3. CASE Hit(c) \/ OtherException(c) \/ Fallback(c) \/ Reraise(c) \/ Store(c)
  BY <1>3, <1>1 DEF Hit, OtherException, Fallback, Reraise, Store
<1>4. CASE Miss(c) \/ Observe(c) \/ ProviderFails(c) \/ ReadClockAgain(c)
  BY <1>4 DEF Miss, Observe, ProviderFails, ReadClockAgain
<1> QED
  BY <1>2, <1>3, <1>4 DEF CallerStep

(* A call that ends has raised, or answers with a snapshot. *)
LEMMA CallEndsWithAnswer ==
  ASSUME CacheInv, TypeOK', NEW c \in Callers, CallerStep(c), pc'[c] = "idle"
  PROVE  /\ answer'[c] \in Answers
         /\ answer'[c].kind # "raised" => answer'[c].snapshot \in Snapshots
<1> USE DEF TypeOK, Phases
<1>0. TypeOK /\ CallsRemember
  BY DEF CacheInv
<1>1. ASSUME NEW kind \in Outcomes, NEW s \in Snapshots \union {None}, Finish(c, kind, s)
      PROVE  /\ answer'[c] = [kind |-> kind, snapshot |-> s]
             /\ answer'[c] \in Answers
  BY <1>0, <1>1 DEF Finish, Answers
<1>2. CASE Hit(c)
  <2>1. entries[KeyOf(c)] \in Snapshots
    BY <1>0, <1>2, KeyOfTyping DEF Hit, Reusable, CallsRemember, CallRemembers
  <2> QED
    BY <1>1, <1>2, <2>1 DEF Hit, Outcomes
<1>3. CASE OtherException(c) \/ Reraise(c)
  BY <1>1, <1>3 DEF OtherException, Reraise, Outcomes
<1>4. CASE Fallback(c)
  <2>1. prior[c] \in Snapshots
    BY <1>0, <1>4 DEF Fallback, Tolerable
  <2> QED
    BY <1>1, <1>4, <2>1 DEF Fallback, Outcomes
<1>5. CASE Store(c)
  <2>1. result[c] \in Snapshots
    BY <1>0, <1>5 DEF Store, CallsRemember, CallRemembers
  <2> QED
    BY <1>1, <1>5, <2>1 DEF Store, Outcomes
<1>6. CASE Miss(c) \/ Observe(c) \/ ProviderFails(c) \/ ReadClockAgain(c)
  BY <1>0, <1>6 DEF Miss, Observe, ProviderFails, ReadClockAgain
<1> QED
  BY <1>2, <1>3, <1>4, <1>5, <1>6 DEF CallerStep

-----------------------------------------------------------------------------

(* Every step of a read or of the world keeps the invariant. *)
LEMMA ClientInvStep ==
  ASSUME CacheInv, CacheInv', ClientInv, [ClientNext]_allVars
  PROVE  ClientInv'
<1> USE DEF ClientInv, ClientTypeOK, ReadsRemember, ReadRemembers, SnapshotNeedsDetection,
            Stages, Verdicts
<1>0. TypeOK /\ TypeOK'
  BY DEF CacheInv
<1>1. ASSUME NEW c \in Callers, NEW v \in {"undetected", "error", "fresh", "stale"},
             Conclude(c, v), pc[c] = "idle", v \in {"fresh", "stale"} => detected[c]
      PROVE  ClientInv'
  BY <1>0, <1>1 DEF Conclude, vars
<1>2. ASSUME NEW c \in Callers, NEW q \in StatusRequests, ReadStatus(c, q)
      PROVE  ClientInv'
  BY <1>0, <1>2 DEF ReadStatus, vars
<1>3. ASSUME NEW c \in Callers, DetectAbsent(c) \/ DetectRaises(c)
      PROVE  ClientInv'
  BY <1>1, <1>3 DEF DetectAbsent, DetectRaises
<1>4. ASSUME NEW c \in Callers, DetectPresent(c)
      PROVE  ClientInv'
  BY <1>0, <1>4 DEF DetectPresent, vars
<1>5. ASSUME NEW c \in Callers, Fetch(c)
      PROVE  ClientInv'
  <2>1. asked[c].request \in Requests /\ Begin(c, asked[c].request)
    BY <1>5 DEF Fetch, StatusRequests
  <2>2. \A d \in Callers \ {c} : pc'[d] = pc[d] /\ answer'[d] = answer[d]
    BY <1>0, <2>1, CacheStepFrame
  <2>3. pc'[c] = "lookup"
    BY <1>0, <2>1 DEF Begin, TypeOK
  <2> QED
    BY <1>0, <1>5, <2>2, <2>3 DEF Fetch
<1>6. ASSUME NEW c \in Callers, FetchStep(c)
      PROVE  ClientInv'
  <2>1. CallerStep(c) /\ UNCHANGED <<present, stage, asked, verdict, detected>>
    BY <1>6 DEF FetchStep, CallerStep, clientVars
  <2>2. pc[c] # "idle"
    BY <2>1 DEF CallerStep, Hit, Miss, Observe, ProviderFails, OtherException,
                ReadClockAgain, Fallback, Reraise, Store
  <2>3. \A d \in Callers \ {c} : pc'[d] = pc[d] /\ answer'[d] = answer[d]
    BY <1>0, <2>1, CacheStepFrame
  <2>4. pc'[c] = "idle" => /\ answer'[c] \in Answers
                           /\ answer'[c].kind # "raised" => answer'[c].snapshot \in Snapshots
    BY <1>0, <2>1, CallEndsWithAnswer
  <2> QED
    BY <1>0, <2>1, <2>2, <2>3, <2>4
<1>7. ASSUME NEW c \in Callers, Propagate(c)
      PROVE  ClientInv'
  BY <1>1, <1>7 DEF Propagate
<1>8. ASSUME NEW c \in Callers, Judge(c)
      PROVE  ClientInv'
  BY <1>1, <1>8 DEF Judge
<1>9. CASE World
  <2>1. UNCHANGED <<pc, answer, stage, asked, verdict, detected>> /\ present' \in BOOLEAN
    BY <1>9 DEF World, InvalidateAll, InvalidateKey, ClockMoves, clientVars, vars
  <2> QED
    BY <1>0, <2>1
<1>10. CASE UNCHANGED allVars
  BY <1>0, <1>10 DEF allVars, vars
<1> QED
  BY <1>2, <1>3, <1>4, <1>5, <1>6, <1>7, <1>8, <1>9, <1>10 DEF ClientNext, ReadStep

(* Throughout every behaviour of the client the cache and the reads are as *)
(* CacheInv and ClientInv say.                                             *)
THEOREM ClientInvariant == ClientSpec => [](CacheInv /\ ClientInv)
<1>1. ClientInit => CacheInv /\ ClientInv
  BY InitClientInv, InitCacheInv DEF ClientInit
<1>2. CacheInv /\ ClientInv /\ [ClientNext]_allVars => (CacheInv /\ ClientInv)'
  BY ClientInvStep, CacheInvStep, ClientStepIsCacheStep DEF ClientInv
<1> QED
  BY <1>1, <1>2, PTL DEF ClientSpec

(* A read uses the cached reader as ProviderCache describes it: whatever   *)
(* holds of every behaviour of the cache holds of it inside the client.    *)
THEOREM ClientUsesCache == ClientSpec => Spec
<1>1. ClientInit => Init
  BY DEF ClientInit
<1>2. ClientInv /\ [ClientNext]_allVars => [Next]_vars
  BY ClientStepIsCacheStep DEF ClientInv
<1> QED
  BY <1>1, <1>2, ClientInvariant, PTL DEF ClientSpec, Spec

(* Every variable of the client and of its cache keeps its type. *)
THEOREM ClientTypeCorrect == ClientSpec => []ClientTypeOK
BY ClientInvariant, PTL DEF ClientInv

(* No read gives out a snapshot without a detection of its own. *)
THEOREM SnapshotsNeedDetection == ClientSpec => []SnapshotNeedsDetection
BY ClientInvariant, PTL DEF ClientInv

-----------------------------------------------------------------------------

(* The steps a caller has left in read_status, at most: eight from the     *)
(* detection, the longest way being a miss, a ProviderError, the second    *)
(* reading of the clock and the decision about the prior entry.            *)
ReadSteps(c) ==
  CASE stage[c] = "ready" -> 0
    [] stage[c] = "detect" -> 8
    [] stage[c] = "fetch" -> 7
    [] stage[c] = "fetching" /\ pc[c] = "lookup" -> 6
    [] stage[c] = "fetching" /\ pc[c] = "upstream" -> 5
    [] stage[c] = "fetching" /\ pc[c] = "failed" -> 4
    [] stage[c] = "fetching" /\ pc[c] = "fallback" -> 3
    [] stage[c] = "fetching" /\ pc[c] = "store" -> 2
    [] OTHER -> 1

(* While a read is under way its own steps bring it nearer to its end, and *)
(* nothing anybody else does (another read, an invalidation, the clock,    *)
(* the source going away) sets it back: no path of the cache leads round.  *)
ReadsShrink ==
  [][\A c \in Callers : stage[c] # "ready" =>
       /\ ReadStep(c) => ReadSteps(c)' < ReadSteps(c)
       /\ ReadSteps(c)' <= ReadSteps(c)]_allVars

(* No read is ever further than eight steps of its own from its end. *)
ReadsBounded == \A c \in Callers : ReadSteps(c) \in 0 .. 8

(* The cached reader at work only moves on. *)
LEMMA CallerMovesOn ==
  ASSUME TypeOK, NEW c \in Callers, CallerStep(c)
  PROVE  \/ pc[c] = "lookup" /\ pc'[c] \in {"idle", "upstream"}
         \/ pc[c] = "upstream" /\ pc'[c] \in {"idle", "store", "failed"}
         \/ pc[c] = "failed" /\ pc'[c] = "fallback"
         \/ pc[c] \in {"fallback", "store"} /\ pc'[c] = "idle"
BY DEF TypeOK, CallerStep, Hit, Miss, Observe, ProviderFails, OtherException,
       ReadClockAgain, Fallback, Reraise, Store, Finish

(* A step of a read is progress for it ... *)
LEMMA OwnStepShrinks ==
  ASSUME CacheInv, ClientInv, NEW c \in Callers, ReadStep(c)
  PROVE  ReadSteps(c)' < ReadSteps(c)
<1>0. TypeOK /\ ClientTypeOK /\ ReadRemembers(c)
  BY DEF CacheInv, ClientInv, ReadsRemember
<1> USE <1>0 DEF ClientTypeOK
<1>1. ASSUME NEW v, Conclude(c, v), stage[c] \in {"detect", "fetching"}
      PROVE  ReadSteps(c)' < ReadSteps(c)
  <2>1. stage'[c] = "ready"
    BY <1>1 DEF Conclude
  <2> QED
    BY <1>1, <2>1 DEF ReadSteps
<1>2. CASE DetectAbsent(c) \/ DetectRaises(c) \/ Propagate(c) \/ Judge(c)
  BY <1>1, <1>2 DEF DetectAbsent, DetectRaises, Propagate, Judge
<1>3. CASE DetectPresent(c)
  <2>1. stage[c] = "detect" /\ stage'[c] = "fetch"
    BY <1>3 DEF DetectPresent
  <2> QED
    BY <2>1 DEF ReadSteps
<1>4. CASE Fetch(c)
  <2>1. stage[c] = "fetch" /\ stage'[c] = "fetching" /\ pc'[c] = "lookup"
    BY <1>4 DEF Fetch, Begin, TypeOK
  <2> QED
    BY <2>1 DEF ReadSteps
<1>5. CASE FetchStep(c)
  <2>1. CallerStep(c) /\ stage' = stage
    BY <1>5 DEF FetchStep, CallerStep, clientVars
  <2>2. pc[c] # "idle" /\ stage[c] = "fetching"
    BY <2>1, CallerMovesOn DEF ReadRemembers
  <2> QED
    BY <2>1, <2>2, CallerMovesOn DEF ReadSteps
<1> QED
  BY <1>2, <1>3, <1>4, <1>5 DEF ReadStep

(* ... and what others do is not its concern. *)
LEMMA OtherStepsLeaveRead ==
  ASSUME CacheInv, ClientInv, NEW c \in Callers, stage[c] # "ready",
         [ClientNext]_allVars, ~ReadStep(c)
  PROVE  ReadSteps(c)' = ReadSteps(c)
<1>0. TypeOK /\ ClientTypeOK /\ ReadsRemember
  BY DEF CacheInv, ClientInv
<1> SUFFICES stage'[c] = stage[c] /\ pc'[c] = pc[c]
  BY DEF ReadSteps
<1> USE <1>0 DEF ClientTypeOK
<1>1. ASSUME NEW d \in Callers, NEW q \in StatusRequests, ReadStatus(d, q)
      PROVE  stage'[c] = stage[c] /\ pc'[c] = pc[c]
  BY <1>1 DEF ReadStatus, vars
<1>2. ASSUME NEW d \in Callers \ {c},
             \/ DetectAbsent(d) \/ DetectPresent(d) \/ DetectRaises(d)
             \/ Propagate(d) \/ Judge(d)
      PROVE  stage'[c] = stage[c] /\ pc'[c] = pc[c]
  BY <1>2 DEF DetectAbsent, DetectPresent, DetectRaises, Propagate, Judge, Conclude, vars
<1>3. ASSUME NEW d \in Callers \ {c}, Fetch(d)
      PROVE  stage'[c] = stage[c] /\ pc'[c] = pc[c]
  <2>1. asked[d].request \in Requests /\ Begin(d, asked[d].request) /\ stage'[c] = stage[c]
    BY <1>3 DEF Fetch, StatusRequests, ReadsRemember, ReadRemembers
  <2> QED
    BY <2>1, CacheStepFrame
<1>4. ASSUME NEW d \in Callers \ {c}, FetchStep(d)
      PROVE  stage'[c] = stage[c] /\ pc'[c] = pc[c]
  <2>1. CallerStep(d) /\ stage' = stage
    BY <1>4 DEF FetchStep, CallerStep, clientVars
  <2> QED
    BY <2>1, CacheStepFrame
<1>5. CASE World \/ UNCHANGED allVars
  BY <1>5 DEF World, InvalidateAll, InvalidateKey, ClockMoves, clientVars, allVars, vars
<1> QED
  BY <1>1, <1>2, <1>3, <1>4, <1>5 DEF ClientNext, ReadStep

(* No read goes on without end as long as its thread runs: it has at most  *)
(* eight steps to take, whatever the other threads, the clock and the      *)
(* source do meanwhile, for any number of callers and invalidations.       *)
THEOREM ReadComesToEnd == ClientSpec => ReadsShrink /\ []ReadsBounded
<1> DEFINE A == \A c \in Callers : stage[c] # "ready" =>
                  /\ ReadStep(c) => ReadSteps(c)' < ReadSteps(c)
                  /\ ReadSteps(c)' <= ReadSteps(c)
<1>1. ASSUME NEW c \in Callers
      PROVE  ReadSteps(c) \in 0 .. 8
  BY DEF ReadSteps
<1>2. ASSUME CacheInv, ClientInv, ClientNext, NEW c \in Callers, stage[c] # "ready"
      PROVE  /\ ReadStep(c) => ReadSteps(c)' < ReadSteps(c)
             /\ ReadSteps(c)' <= ReadSteps(c)
  <2>1. ReadSteps(c) \in 0 .. 8 /\ ReadSteps(c)' \in 0 .. 8
    BY DEF ReadSteps
  <2>2. CASE ReadStep(c)
    BY <1>2, <2>1, <2>2, OwnStepShrinks
  <2>3. CASE ~ReadStep(c)
    BY <1>2, <2>1, <2>3, OtherStepsLeaveRead
  <2> QED
    BY <2>2, <2>3
<1>3. CacheInv /\ ClientInv /\ [ClientNext]_allVars => [A]_allVars
  BY <1>2
<1>4. ReadsBounded
  BY <1>1 DEF ReadsBounded
<1> HIDE DEF A
<1>5. ClientSpec => [][A]_allVars
  BY <1>3, ClientInvariant, PTL DEF ClientSpec
<1>6. ClientSpec => []ReadsBounded
  BY <1>4, PTL
<1> QED
  BY <1>5, <1>6 DEF A, ReadsShrink
=============================================================================
