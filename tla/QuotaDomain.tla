----------------------------- MODULE QuotaDomain -----------------------------
(***************************************************************************)
(* The value types of models/domain.py: which arguments their constructors *)
(* accept, and what is computed from an accepted value.  A constructor     *)
(* that refuses raises; here the predicate XAccepted is false of the       *)
(* arguments.                                                              *)
(*                                                                         *)
(* Identifiers are model values or short strings; the ones the trimming    *)
(* check refuses are listed.  Instants and amounts are integers,           *)
(* percentages ratios.                                                     *)
(***************************************************************************)
EXTENDS Integers, Sequences

CONSTANTS
  None,       \* Python's None
  Naive,      \* an instant without a time zone
  Untrimmed   \* identifiers that are empty or padded

States == {"AVAILABLE", "PARTIAL", "UNAVAILABLE", "UNAUTHORIZED", "RATE_LIMITED",
           "TRANSIENT_ERROR", "INVALID_DATA"}
Availabilities ==
  {"KNOWN", "RATE_LIMITED", "UNLIMITED", "DISABLED", "UNAVAILABLE", "UNKNOWN",
   "NOT_AUTHORIZED", "NOT_APPLICABLE", "INVALID", "ERROR"}
WindowKinds == {"COMMERCIAL_QUOTA", "TECHNICAL_RATE_LIMIT", "OTHER"}
Metrics == {"COMMERCIAL_QUOTA", "TECHNICAL_RATE_LIMIT", "TOKENS", "BALANCE"}
CreditStatuses == {"available", "redeeming", "redeemed", "unknown"}
PlanlessSource == "opencode-go-api"

Optional(S) == S \union {None}
Moments == Int \union {Naive}

(* The fields of the dataclasses. *)
Quantities == [value : Int, metric : Metrics, unit : STRING]
QuotaWindows ==
  [kind : WindowKinds, scope : STRING, period : STRING, plan : Optional(STRING),
   availability : Availabilities, source : STRING, limit : Optional(Quantities),
   used : Optional(Quantities), remaining : Optional(Quantities), reset : Optional(Moments)]
UsageSnapshots ==
  [provider : STRING, observedAt : Moments, availability : Availabilities,
   tokenLimit : Optional(Quantities), tokenUsed : Optional(Quantities),
   balance : Optional(Quantities)]
ResetCredits == [status : CreditStatuses, grantedAt : Moments, expiresAt : Optional(Moments)]
CreditSummaries == [count : Int, credits : Optional(Seq(ResetCredits))]
ProviderSnapshots ==
  [provider : STRING, state : States, observedAt : Moments, fetchedAt : Moments,
   dataAt : Moments, windows : Seq(QuotaWindows), usage : Optional(UsageSnapshots),
   credits : Optional(CreditSummaries)]

ASSUME NoneAssumption ==
  /\ None \notin Int \union STRING /\ None \notin Quantities /\ None \notin UsageSnapshots
  /\ None \notin CreditSummaries /\ None # Naive
ASSUME NaiveAssumption == Naive \notin Int

Identity(name) == name \notin Untrimmed
Aware(instant) == instant # Naive

-----------------------------------------------------------------------------
(* Quantities and percentages.                                             *)

QuantityAccepted(q) == q.value >= 0 /\ Identity(q.unit)

(* Percentage.from_ratio: what it accepts, and the percentage.             *)
RatioAccepted(numerator, denominator) ==
  /\ numerator >= 0
  /\ denominator > 0
  /\ numerator <= denominator

Ratio(numerator, denominator) == [num |-> numerator, den |-> denominator]
RatioLess(p, q) == p.num * q.den < q.num * p.den
RatioEqual(p, q) == p.num * q.den = q.num * p.den

-----------------------------------------------------------------------------
(* QuotaWindow                                                             *)

WindowQuantities(w) == {w.limit, w.used, w.remaining} \ {None}

KnownWindowAccepted(w) ==
  LET given == WindowQuantities(w) IN
  /\ given # {}
  /\ w.kind = "COMMERCIAL_QUOTA" => w.plan # None \/ w.source = PlanlessSource
  /\ w.kind # "OTHER" => \A q \in given : q.metric = w.kind
  /\ \A p, q \in given : p.metric = q.metric /\ p.unit = q.unit
  /\ w.limit # None =>
       /\ w.used # None => w.used.value <= w.limit.value
       /\ w.remaining # None => w.remaining.value <= w.limit.value
       /\ w.used # None /\ w.remaining # None =>
            w.used.value + w.remaining.value = w.limit.value

WindowAccepted(w) ==
  /\ Identity(w.scope) /\ Identity(w.period)
  /\ w.plan # None => Identity(w.plan)
  /\ w.reset # None => Aware(w.reset)
  /\ \A q \in WindowQuantities(w) : QuantityAccepted(q)
  /\ IF w.availability = "KNOWN" THEN KnownWindowAccepted(w)
     ELSE WindowQuantities(w) = {} /\ w.reset = None

(* remaining_percentage and used_percentage: None, or a ratio that raises  *)
(* when the limit is zero.                                                 *)
HasShare(w, part) == w.availability = "KNOWN" /\ w.limit # None /\ part # None
ShareRaises(w, part) == HasShare(w, part) /\ ~RatioAccepted(part.value, w.limit.value)
RemainingShare(w) == Ratio(w.remaining.value, w.limit.value)

(* unit: that of any quantity given, they all have the same. *)
UnitOf(w) == IF WindowQuantities(w) = {} THEN None
             ELSE (CHOOSE q \in WindowQuantities(w) : TRUE).unit

-----------------------------------------------------------------------------
(* UsageSnapshot and the reset credits.                                    *)

UsageAccepted(u) ==
  LET given == {u.tokenLimit, u.tokenUsed, u.balance} \ {None} IN
  /\ Aware(u.observedAt)
  /\ IF u.availability # "KNOWN" THEN given = {}
     ELSE /\ given # {}
          /\ \A q \in {u.tokenLimit, u.tokenUsed} \ {None} : q.metric = "TOKENS"
          /\ u.balance # None => u.balance.metric = "BALANCE"
          /\ u.tokenLimit # None /\ u.tokenUsed # None =>
               /\ u.tokenLimit.unit = u.tokenUsed.unit
               /\ u.tokenUsed.value <= u.tokenLimit.value

CreditAccepted(c) ==
  /\ Aware(c.grantedAt)
  /\ c.expiresAt # None => Aware(c.expiresAt)

CreditsAccepted(summary) ==
  /\ summary.count >= 0
  /\ summary.credits # None =>
       \A i \in DOMAIN summary.credits : CreditAccepted(summary.credits[i])

-----------------------------------------------------------------------------
(* ProviderSnapshot                                                        *)

(* Mutant of Unambiguous: two windows may share kind and scope. *)
UnambiguousWindows(windows) == \A i, j \in DOMAIN windows : windows[i] = windows[j] => i = j

Dimension(w) == <<w.kind, w.scope, w.period>>

(* No two windows measure the same thing. *)
Unambiguous(windows) ==
  \A i, j \in DOMAIN windows : Dimension(windows[i]) = Dimension(windows[j]) => i = j

NoNumbers == {"UNAVAILABLE", "UNAUTHORIZED", "TRANSIENT_ERROR", "INVALID_DATA"}

SnapshotAccepted(s) ==
  /\ Aware(s.fetchedAt) /\ Aware(s.dataAt) /\ Aware(s.observedAt)
  /\ s.observedAt <= s.fetchedAt /\ s.dataAt <= s.fetchedAt
  /\ \A i \in DOMAIN s.windows : WindowAccepted(s.windows[i])
  /\ Unambiguous(s.windows)
  /\ s.usage # None => UsageAccepted(s.usage) /\ s.usage.provider = s.provider
  /\ s.credits # None => CreditsAccepted(s.credits)
  /\ s.state = "RATE_LIMITED" =>
       \A i \in DOMAIN s.windows : s.windows[i].kind = "TECHNICAL_RATE_LIMIT"
  /\ s.state \in NoNumbers =>
       /\ \A i \in DOMAIN s.windows : s.windows[i].availability # "KNOWN"
       /\ s.usage # None => s.usage.availability # "KNOWN"

(* is_stale *)
Stale(s, now, maximumAge) == now - s.fetchedAt > maximumAge
=============================================================================
