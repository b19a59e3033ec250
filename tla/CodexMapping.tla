---------------------------- MODULE CodexMapping ----------------------------
(***************************************************************************)
(* What CodexProvider (providers/codex.py) makes of an exchange: the two   *)
(* windows of the codex bucket and the reset credits become a snapshot, a  *)
(* ProviderError, or, where nothing catches it, the exception itself.      *)
(*                                                                         *)
(* A payload is records with the fields the code looks at.  A field that   *)
(* is absent is None; one of another type than asked for is NotObject      *)
(* where an object is expected and NotInteger where an integer is.         *)
(***************************************************************************)
EXTENDS QuotaDomain

CONSTANTS
  NotObject,      \* neither null nor a JSON object (nor an array, for credits)
  Representable,  \* integers datetime.fromtimestamp accepts
  MaxCount        \* 2**63 - 1

NotInteger == -1   \* of another type, and hashable
Unhashable == -2   \* an array or an object

RawWindows == [duration : Int, used : Int, reset : Optional(Int)]
RawCredits ==
  [id : Optional(STRING), resetType : STRING, status : STRING, texts : BOOLEAN,
   grantedAt : Int, expiresAt : Optional(Int)]
RawSummaries == [count : Int, credits : Seq(RawCredits \union {NotObject}) \union {None, NotObject}]
RawPayloads ==
  [bucket : STRING, plan : STRING, primary : RawWindows \union {None, NotObject},
   secondary : RawWindows \union {None, NotObject},
   credits : RawSummaries \union {None, NotObject}]

ASSUME NotObjectAssumption ==
  /\ NotObject # None /\ {None, NotObject} \intersect RawWindows = {}
ASSUME RepresentableAssumption == Representable \subseteq Nat
ASSUME MaxCountAssumption == MaxCount \in Nat

Period == [d \in {300, 10080} |-> IF d = 300 THEN "five_hour" ELSE "weekly"]
SupportedPlans == {"free", "plus", "pro", "team", "business", "enterprise", "edu"}

(* The identifiers the code itself supplies are trimmed. *)
OwnIdentifiers == {"account", "five_hour", "weekly", "percentage_points"} \union SupportedPlans
ASSUME OwnIdentifiersAssumption ==
  None \notin OwnIdentifiers /\ OwnIdentifiers \intersect Untrimmed = {}

Failed(kind, retryable) == [kind |-> "error", error |-> kind, retryable |-> retryable]
Raised == [kind |-> "raised"]

-----------------------------------------------------------------------------
(* _transport_failure *)
TransportFailure(failure) ==
  CASE failure = "NOT_CONFIGURED" -> Failed("NOT_CONFIGURED", FALSE)
    [] failure = "UNAUTHORIZED"   -> Failed("UNAUTHORIZED", FALSE)
    [] failure = "RATE_LIMITED"   -> Failed("RATE_LIMITED", TRUE)
    [] failure = "UNAVAILABLE"    -> Failed("SOURCE_UNAVAILABLE", TRUE)
    [] failure = "TIMEOUT"        -> Failed("TRANSPORT", TRUE)
    [] failure = "PROTOCOL"       -> Failed("PARSE_FAILED", FALSE)
    [] OTHER                      -> Failed("COMMAND_FAILED", TRUE)

-----------------------------------------------------------------------------
(* One window.                                                             *)

(* _timestamp: nothing, where that is allowed, or an instant.              *)
InstantAccepted(raw, nullable) == (raw = None /\ nullable) \/ raw \in Representable

KnownDuration(raw) == raw.duration \in DOMAIN Period
FieldsAccepted(raw) == raw.used \in 0 .. 100 /\ InstantAccepted(raw.reset, TRUE)

(* The error _window raises of it. *)
WindowError(raw) ==
  IF raw = NotObject \/ ~KnownDuration(raw) THEN "UNSUPPORTED"
  ELSE IF FieldsAccepted(raw) THEN "none" ELSE "PARSE_FAILED"

Points(n) == [value |-> n, metric |-> "COMMERCIAL_QUOTA", unit |-> "percentage_points"]
ASSUME PointsAssumption == \A n \in 0 .. 100 : Points(n) # None

MapWindow(raw, plan) ==
  [kind |-> "COMMERCIAL_QUOTA", scope |-> "account", period |-> Period[raw.duration],
   plan |-> plan, availability |-> "KNOWN", source |-> "codex-app-server-v2",
   limit |-> Points(100), used |-> Points(raw.used), remaining |-> Points(100 - raw.used),
   reset |-> raw.reset]

-----------------------------------------------------------------------------
(* Reset credits.                                                          *)

CreditMapped(raw) ==
  /\ raw # NotObject
  /\ raw.id # None /\ raw.resetType \in {"codexRateLimits", "unknown"}
  /\ raw.status \in CreditStatuses
  /\ raw.texts
  /\ InstantAccepted(raw.grantedAt, FALSE)
  /\ InstantAccepted(raw.expiresAt, TRUE)

(* _reset_credits raises PARSE_FAILED of anything else.                    *)
CreditsMapped(raw) ==
  raw # None =>
    /\ raw # NotObject
    /\ raw.count \in 0 .. MaxCount
    /\ raw.credits # None =>
         raw.credits # NotObject /\ \A i \in DOMAIN raw.credits : CreditMapped(raw.credits[i])

MapCredit(raw) ==
  [status |-> raw.status, grantedAt |-> raw.grantedAt, expiresAt |-> raw.expiresAt]

MapCredits(raw) ==
  IF raw = None THEN None
  ELSE [count |-> raw.count,
        credits |-> IF raw.credits = None THEN None
                    ELSE [i \in DOMAIN raw.credits |-> MapCredit(raw.credits[i])]]

-----------------------------------------------------------------------------
(* _snapshot                                                               *)

IsWindow(raw) == raw \notin {None, NotObject}
BothWindows(payload) == IsWindow(payload.primary) /\ IsWindow(payload.secondary)

(* set(durations) hashes every one of them before any is looked at.        *)
HashRaises(payload) ==
  \E raw \in {payload.primary, payload.secondary} :
    IsWindow(raw) /\ raw.duration = Unhashable

DurationsAccepted(payload) ==
  /\ BothWindows(payload) => payload.primary.duration # payload.secondary.duration
  /\ \A raw \in {payload.primary, payload.secondary} : IsWindow(raw) => KnownDuration(raw)

BucketAccepted(payload) ==
  payload.bucket = "codex" /\ payload.plan \in SupportedPlans

Mapped(raw, plan) ==
  IF raw = None \/ WindowError(raw) # "none" THEN <<>> ELSE <<MapWindow(raw, plan)>>

(* Mutant of MappedWindows: a bad first window ends the loop. *)
MappedWindowsUntilError(payload) ==
  IF payload.primary # None /\ WindowError(payload.primary) # "none" THEN <<>>
  ELSE Mapped(payload.primary, payload.plan) \o Mapped(payload.secondary, payload.plan)

(* A window that cannot be mapped leaves its sibling alone ...             *)
MappedWindows(payload) ==
  Mapped(payload.primary, payload.plan) \o Mapped(payload.secondary, payload.plan)

(* ... and only where none is left the first one's error counts.           *)
NoWindowError(payload) ==
  IF payload.primary # None THEN WindowError(payload.primary)
  ELSE IF payload.secondary # None THEN WindowError(payload.secondary)
  ELSE "UNSUPPORTED"

CodexSnapshot(payload, now) ==
  [provider |-> "codex",
   state |-> IF Len(MappedWindows(payload)) = 2 THEN "AVAILABLE" ELSE "PARTIAL",
   observedAt |-> now, fetchedAt |-> now, dataAt |-> now,
   windows |-> MappedWindows(payload), usage |-> None,
   credits |-> MapCredits(payload.credits)]

MapPayload(payload, now) ==
  IF ~BucketAccepted(payload) THEN Failed("UNSUPPORTED", FALSE)
  ELSE IF HashRaises(payload) THEN Raised
  ELSE IF ~DurationsAccepted(payload) THEN Failed("UNSUPPORTED", FALSE)
  ELSE IF MappedWindows(payload) = <<>> THEN Failed(NoWindowError(payload), FALSE)
  ELSE IF ~CreditsMapped(payload.credits) THEN Failed("PARSE_FAILED", FALSE)
  ELSE IF SnapshotAccepted(CodexSnapshot(payload, now))
       THEN [kind |-> "snapshot", snapshot |-> CodexSnapshot(payload, now)]
       ELSE Raised
=============================================================================
