---------------------------- MODULE StatusClient ----------------------------
(***************************************************************************)
(* StatusClient.read_status (api.py) over StatusService (core) over the    *)
(* cached reader: detect the source, fetch only if it is there, then judge *)
(* the age of the snapshot against the request's own FreshnessPolicy.      *)
(*                                                                         *)
(* Composition: the fetch of a read is a call of ProviderCache, whose      *)
(* actions run unchanged between Fetch and Judge.  The source may come and *)
(* go at any time, also between detection and fetch.                       *)
(***************************************************************************)
EXTENDS ProviderCache

CONSTANT MaximumAges   \* FreshnessPolicy.maximum_age values in use

ASSUME MaximumAgesAssumption == MaximumAges \subseteq Nat

VARIABLES
  present,   \* whether the provider's source can be detected
  stage,     \* where each caller is in read_status
  asked,     \* its StatusRequest: provider request and maximum age
  verdict,   \* how its latest read ended
  detected   \* history: detection succeeded in its latest read

clientVars == <<stage, asked, verdict, detected>>
allVars == <<vars, present, stage, asked, verdict, detected>>

Stages == {"ready", "detect", "fetch", "fetching"}
Verdicts == {"none", "undetected", "error", "fresh", "stale"}
StatusRequests == [request : Requests, maximumAge : MaximumAges]

ClientTypeOK ==
  /\ TypeOK
  /\ present \in BOOLEAN
  /\ stage \in [Callers -> Stages]
  /\ asked \in [Callers -> StatusRequests \union {None}]
  /\ verdict \in [Callers -> Verdicts]
  /\ detected \in [Callers -> BOOLEAN]

ClientInit ==
  /\ Init
  /\ present \in BOOLEAN
  /\ stage = [c \in Callers |-> "ready"]
  /\ asked = [c \in Callers |-> None]
  /\ verdict = [c \in Callers |-> "none"]
  /\ detected = [c \in Callers |-> FALSE]

-----------------------------------------------------------------------------

(* ProviderSnapshot.is_stale: the difference is not clamped here, so a     *)
(* snapshot dated after this reading is never stale.                       *)
IsStale(t, s, maximumAge) == t - s.fetchedAt > maximumAge

Conclude(c, v) ==
  /\ stage' = [stage EXCEPT ![c] = "ready"]
  /\ verdict' = [verdict EXCEPT ![c] = v]
  /\ asked' = [asked EXCEPT ![c] = None]
  /\ UNCHANGED <<vars, present, detected>>

ReadStatus(c, q) ==
  /\ stage[c] = "ready"
  /\ stage' = [stage EXCEPT ![c] = "detect"]
  /\ asked' = [asked EXCEPT ![c] = q]
  /\ verdict' = [verdict EXCEPT ![c] = "none"]
  /\ detected' = [detected EXCEPT ![c] = FALSE]
  /\ UNCHANGED <<vars, present>>

(* Mutant of DetectAbsent: an absent source is fetched from all the same. *)
DetectAbsentIgnored(c) ==
  /\ stage[c] = "detect"
  /\ ~present
  /\ stage' = [stage EXCEPT ![c] = "fetch"]
  /\ UNCHANGED <<vars, present, asked, verdict, detected>>

(* StatusService.read_status: an undetected source ends the read, whatever *)
(* the cache holds ...                                                     *)
DetectAbsent(c) ==
  /\ stage[c] = "detect"
  /\ ~present
  /\ Conclude(c, "undetected")

(* ... a detected one is fetched from, in a second call to the provider. *)
DetectPresent(c) ==
  /\ stage[c] = "detect"
  /\ present
  /\ stage' = [stage EXCEPT ![c] = "fetch"]
  /\ detected' = [detected EXCEPT ![c] = TRUE]
  /\ UNCHANGED <<vars, present, asked, verdict>>

(* detect() may raise, which nothing in read_status catches. *)
DetectRaises(c) ==
  /\ stage[c] = "detect"
  /\ Conclude(c, "error")

Fetch(c) ==
  /\ stage[c] = "fetch"
  /\ Begin(c, asked[c].request)
  /\ stage' = [stage EXCEPT ![c] = "fetching"]
  /\ UNCHANGED <<present, asked, verdict, detected>>

(* The cached reader at work; its provider only observes a present source. *)
FetchStep(c) ==
  /\ \/ Hit(c) \/ Miss(c)
     \/ present /\ Observe(c)
     \/ ProviderFails(c) \/ OtherException(c)
     \/ ReadClockAgain(c) \/ Fallback(c) \/ Reraise(c) \/ Store(c)
  /\ UNCHANGED <<present, clientVars>>

(* Mutant of Propagate: the exception is returned as if it were a result. *)
PropagateAsResult(c) ==
  /\ stage[c] = "fetching"
  /\ pc[c] = "idle"
  /\ answer[c].kind = "raised"
  /\ Conclude(c, "raised")

(* Mutant of Propagate: after an error the read waits for its source. *)
PropagateWhenPresent(c) ==
  /\ stage[c] = "fetching"
  /\ pc[c] = "idle"
  /\ answer[c].kind = "raised"
  /\ present
  /\ Conclude(c, "error")

(* A ProviderError, or any other exception, leaves read_status unchanged.  *)
Propagate(c) ==
  /\ stage[c] = "fetching"
  /\ pc[c] = "idle"
  /\ answer[c].kind = "raised"
  /\ Conclude(c, "error")

(* The clock is read after the fetch, and the snapshot judged by it. *)
Judge(c) ==
  /\ stage[c] = "fetching"
  /\ pc[c] = "idle"
  /\ answer[c].kind # "raised"
  /\ Conclude(c, IF IsStale(clock, answer[c].snapshot, asked[c].maximumAge)
                 THEN "stale" ELSE "fresh")

(* The environment: invalidations and the clock as before, and the source. *)
World ==
  \/ /\ \/ InvalidateAll
        \/ \E r \in Requests : InvalidateKey(r)
        \/ ClockMoves
     /\ UNCHANGED <<present, clientVars>>
  \/ /\ present' = ~present
     /\ UNCHANGED <<vars, clientVars>>

ReadStep(c) ==
  \/ DetectAbsent(c) \/ DetectPresent(c) \/ DetectRaises(c)
  \/ Fetch(c) \/ FetchStep(c)
  \/ Propagate(c) \/ Judge(c)

ClientNext ==
  \/ \E c \in Callers :
       \/ \E q \in StatusRequests : ReadStatus(c, q)
       \/ ReadStep(c)
  \/ World

ClientSpec == ClientInit /\ [][ClientNext]_allVars

(* A thread inside read_status keeps running and its provider's detect and *)
(* fetch end: see ExchangeEnds, and FetchEnds for the server that could    *)
(* keep a fetch from it.                                                   *)
ClientFairSpec == ClientSpec /\ \A c \in Callers : WF_allVars(ReadStep(c))

-----------------------------------------------------------------------------

(* A read gives out a snapshot only if detection succeeded in that same    *)
(* read: a warm cache does not answer in the place of a detection.  The    *)
(* source may be gone again by then.                                       *)
SnapshotNeedsDetection ==
  \A c \in Callers : verdict[c] \in {"fresh", "stale"} => detected[c]

(* Every read_status returns or raises, though the source comes and goes.  *)
EveryReadEnds ==
  \A c \in Callers : stage[c] # "ready" ~> stage[c] = "ready"

(* The cache's acceptance criterion: expired data is never presented as    *)
(* fresh, a fallback shows in the typed freshness state.                   *)
FallbackIsExplicit ==
  \A c \in Callers : verdict[c] = "fresh" => answer[c].kind # "fallback"
=============================================================================
