--------------------------- MODULE StatusAggregate ---------------------------
(***************************************************************************)
(* An application asks several providers and hands their snapshots to      *)
(* aggregate_remaining_percentages (models/domain.py), which looks at them *)
(* one by one.  A snapshot is what the Codex mapping makes of a payload,   *)
(* or any other that its constructor accepts.                              *)
(***************************************************************************)
EXTENDS CodexMapping, FiniteSetsExt

CONSTANTS
  Payloads,      \* what a Codex exchange may return
  Supplied,      \* arguments other snapshots may be made from
  Queries,       \* what an application may ask for
  Rank,          \* the order of the provider identifiers
  Now,           \* when it asks
  MaxSnapshots   \* bound: snapshots per call

StatusQueries ==
  [kind : WindowKinds, scope : STRING, period : STRING, plan : Optional(STRING), unit : STRING,
   maximumAge : Int]

ASSUME InputsAssumption ==
  /\ Payloads \subseteq RawPayloads
  /\ Supplied \subseteq ProviderSnapshots
  /\ Queries \subseteq StatusQueries
  /\ Now \in Nat
  /\ MaxSnapshots \in Nat

(* Any two identifiers can be compared. *)
ASSUME RankAssumption ==
  /\ \A p \in DOMAIN Rank : Rank[p] \in Int
  /\ {"codex"} \union {s.provider : s \in Supplied} \subseteq DOMAIN Rank

VARIABLES
  query,       \* the keyword arguments
  taken,       \* the snapshots looked at so far
  payload,     \* what the latest exchange returned
  mapped,      \* what became of it
  included,    \* the local included
  exclusions,  \* the local exclusions
  outcome      \* how the call ended

lists == <<included, exclusions>>
aggregateVars == <<query, taken, payload, mapped, lists, outcome>>

Pending == [kind |-> "pending"]

AggregateInit ==
  /\ query \in Queries
  /\ taken = <<>>
  /\ payload = None
  /\ mapped = Pending
  /\ included = <<>>
  /\ exclusions = <<>>
  /\ outcome = Pending

-----------------------------------------------------------------------------
(* One snapshot.                                                           *)

QueryAccepted(q) ==
  /\ q.kind # "OTHER"
  /\ Identity(q.scope) /\ Identity(q.period) /\ Identity(q.unit)
  /\ q.plan # None => Identity(q.plan)
  /\ q.maximumAge >= 0

EligibleStates == {"AVAILABLE", "PARTIAL", "RATE_LIMITED"}

Compatible(s) ==
  {i \in DOMAIN s.windows : Dimension(s.windows[i]) = <<query.kind, query.scope, query.period>>}

(* Mutant of OtherComparability: any plan will do. *)
OtherComparabilityAnyPlan(w) == UnitOf(w) # query.unit

OtherComparability(w) ==
  \/ w.plan # query.plan
  \/ UnitOf(w) # query.unit
  \/ query.kind = "COMMERCIAL_QUOTA" /\ query.plan = None /\ w.source # PlanlessSource

(* What is asked of the one window of the asked dimension; there can be    *)
(* more only where the snapshot was excluded as ambiguous.                 *)
NotKnown(s) == \E i \in Compatible(s) : s.windows[i].availability # "KNOWN"
NotComparable(s) == \E i \in Compatible(s) : OtherComparability(s.windows[i])
NoShare(s) == \E i \in Compatible(s) : ~HasShare(s.windows[i], s.windows[i].remaining)

(* The reasons to leave a snapshot out, in the order of the loop's checks. *)
Checks(s) ==
  << <<"STATUS",       s.state \notin EligibleStates>>,
     <<"STALE",        Stale(s, Now, query.maximumAge)>>,
     <<"AMBIGUOUS",    Cardinality(Compatible(s)) > 1>>,
     <<"INCOMPATIBLE", Compatible(s) = {} /\ s.windows # <<>> >>,
     <<"ABSENT",       Compatible(s) = {} \/ NotKnown(s)>>,
     <<"INCOMPATIBLE_COMPARABILITY", NotComparable(s)>>,
     <<"NO_PERCENTAGE", NoShare(s)>> >>

Failing(s) == {i \in DOMAIN Checks(s) : Checks(s)[i][2]}

Exclude(s) ==
  /\ Failing(s) # {}
  /\ exclusions' = Append(exclusions, [provider |-> s.provider,
                                       reason |-> Checks(s)[Min(Failing(s))][1]])
  /\ UNCHANGED <<included, outcome>>

Include(s) ==
  /\ Failing(s) = {}
  /\ \E i \in Compatible(s) :
       /\ ~ShareRaises(s.windows[i], s.windows[i].remaining)
       /\ included' = Append(included, [provider |-> s.provider,
                                        share |-> RemainingShare(s.windows[i])])
  /\ UNCHANGED <<exclusions, outcome>>

(* Of a known limit of zero no percentage can be made: nothing catches it. *)
RaiseShare(s) ==
  /\ Failing(s) = {}
  /\ \E i \in Compatible(s) : ShareRaises(s.windows[i], s.windows[i].remaining)
  /\ outcome' = Raised
  /\ UNCHANGED lists

-----------------------------------------------------------------------------
(* The call.                                                               *)

Running == outcome = Pending /\ QueryAccepted(query) /\ Len(taken) < MaxSnapshots

Consider(s) ==
  /\ taken' = Append(taken, s)
  /\ Exclude(s) \/ Include(s) \/ RaiseShare(s)
  /\ UNCHANGED query

RefuseQuery ==
  /\ outcome = Pending
  /\ ~QueryAccepted(query)
  /\ outcome' = Raised
  /\ UNCHANGED <<query, taken, payload, mapped, lists>>

(* The application asks Codex ...                                          *)
ReadCodex ==
  /\ Running
  /\ mapped = Pending
  /\ \E p \in Payloads : \E observed \in {0, Now} :
       payload' = p /\ mapped' = MapPayload(p, observed)
  /\ UNCHANGED <<query, taken, lists, outcome>>

(* ... and the snapshot it got is looked at.                               *)
TakeMapped ==
  /\ Running
  /\ mapped.kind = "snapshot"
  /\ Consider(mapped.snapshot)
  /\ payload' = None
  /\ mapped' = Pending

TakeSupplied ==
  /\ Running
  /\ mapped = Pending
  /\ \E s \in Supplied : SnapshotAccepted(s) /\ Consider(s)
  /\ UNCHANGED <<payload, mapped>>

Before(a, b) == Rank[a.provider] < Rank[b.provider]

(* list.sort(key=...): by identifier, and what is equal stays in order.    *)
Precedes(list, i, j) ==
  Before(list[i], list[j]) \/ (~Before(list[j], list[i]) /\ i < j)
Place(list, i) == 1 + Cardinality({j \in DOMAIN list : Precedes(list, j, i)})
Sorted(list) ==
  [n \in DOMAIN list |-> list[CHOOSE i \in DOMAIN list : Place(list, i) = n]]

(* min(..., key=value, default=None) *)
Lowest(entries) ==
  IF entries = <<>> THEN None
  ELSE entries[CHOOSE i \in DOMAIN entries :
                 \A j \in DOMAIN entries : ~RatioLess(entries[j].share, entries[i].share)].share

Conclude ==
  /\ outcome = Pending
  /\ mapped = Pending
  /\ QueryAccepted(query)
  /\ outcome' = [kind |-> "aggregate", lowest |-> Lowest(included),
                 included |-> Sorted(included),
                 exclusions |-> Sorted(exclusions)]
  /\ UNCHANGED <<query, taken, payload, mapped, lists>>

AggregateNext ==
  \/ RefuseQuery \/ ReadCodex \/ TakeMapped \/ TakeSupplied \/ Conclude
  \/ (outcome # Pending \/ mapped.kind \in {"error", "raised"}) /\ UNCHANGED aggregateVars

AggregateSpec == AggregateInit /\ [][AggregateNext]_aggregateVars

-----------------------------------------------------------------------------

(* The window a snapshot may be compared by, stated without an order.      *)
Asked(w) == Dimension(w) = <<query.kind, query.scope, query.period>>
Alike(w) ==
  /\ w.plan = query.plan /\ UnitOf(w) = query.unit
  /\ query.plan # None \/ w.source = PlanlessSource \/ query.kind # "COMMERCIAL_QUOTA"
Comparable(s, w) ==
  /\ s.state \in EligibleStates
  /\ Now - s.fetchedAt <= query.maximumAge
  /\ Asked(w) /\ w.availability = "KNOWN" /\ Alike(w)
  /\ w.limit # None /\ w.remaining # None

ComparableWindows ==
  UNION {{w \in Range(s.windows) : Comparable(s, w)} : s \in Range(taken)}

(* The aggregate is the least remaining share of the comparable windows,   *)
(* none if there are none, whatever order checks and snapshots come in.    *)
(* Nought is a known remaining amount of nought, never a missing value.    *)
(* This is of calls that return: one that meets a comparable window with a *)
(* limit of nought ends in RaiseShare.                                     *)
LowestIsComparable ==
  outcome.kind = "aggregate" =>
    IF ComparableWindows = {} THEN outcome.lowest = None
    ELSE /\ \E w \in ComparableWindows : RatioEqual(outcome.lowest, RemainingShare(w))
         /\ \A w \in ComparableWindows : ~RatioLess(RemainingShare(w), outcome.lowest)
         /\ outcome.lowest.num = 0 => \E w \in ComparableWindows :
              w.remaining.value = 0 /\ w.limit.value > 0

(* What is true of a snapshot excluded for a reason, which is what the     *)
(* reason says and of no other: windows, but not of the asked dimension;   *)
(* no window, or its amount not known; another plan, unit or source; a     *)
(* limit or the remaining amount missing.                                  *)
Explains(reason, s) ==
  LET asked == {w \in Range(s.windows) : Asked(w)}
      known == {w \in asked : w.availability = "KNOWN"}
      alike == {w \in known : Alike(w)}
  IN CASE reason = "STATUS" -> s.state \notin EligibleStates
       [] reason = "STALE" -> Stale(s, Now, query.maximumAge)
       [] reason = "INCOMPATIBLE" -> s.windows # <<>> /\ asked = {}
       [] reason = "ABSENT" -> known = {} /\ (asked # {} \/ s.windows = <<>>)
       [] reason = "INCOMPATIBLE_COMPARABILITY" -> known # {} /\ alike = {}
       [] reason = "NO_PERCENTAGE" ->
            alike # {} /\ \A w \in alike : w.limit = None \/ w.remaining = None
       [] OTHER -> FALSE

(* Every snapshot is counted once, among the included or the exclusions,   *)
(* both in the order of the identifiers, and left out for the reason that  *)
(* holds of it.  Ambiguity is never one: constructors have ruled it out.   *)
EverySnapshotExplained ==
  outcome.kind = "aggregate" =>
    /\ Len(outcome.included) + Len(outcome.exclusions) = Len(taken)
    /\ \A list \in {outcome.included, outcome.exclusions} :
         \A i, j \in DOMAIN list : i < j => ~Before(list[j], list[i])
    /\ \A p \in DOMAIN Rank :
         Cardinality({i \in DOMAIN taken : taken[i].provider = p}) =
           Cardinality({i \in DOMAIN outcome.included : outcome.included[i].provider = p})
           + Cardinality({i \in DOMAIN outcome.exclusions : outcome.exclusions[i].provider = p})
    /\ \A i \in DOMAIN outcome.exclusions : \E k \in DOMAIN taken :
         /\ taken[k].provider = outcome.exclusions[i].provider
         /\ Explains(outcome.exclusions[i].reason, taken[k])

Usable(raw) == IsWindow(raw) /\ KnownDuration(raw) /\ FieldsAccepted(raw)

(* A Codex payload whose durations can be hashed becomes a snapshot of     *)
(* exactly its usable windows, in their order and with what is left of     *)
(* them, which the domain's constructors accept, AVAILABLE where both are  *)
(* there, or else a typed failure; a failure costs a usable window only    *)
(* where bucket, durations or credits as a whole are not understood.  Of   *)
(* the other payloads nothing is said: _snapshot raises a TypeError.       *)
UsableWindowsSurvive ==
  payload # None /\ ~HashRaises(payload) =>
    LET usable == {raw \in {payload.primary, payload.secondary} : Usable(raw)} IN
    /\ mapped.kind \in {"snapshot", "error"}
    /\ mapped.kind = "snapshot" =>
         LET s == mapped.snapshot IN
         /\ SnapshotAccepted(s)
         /\ s.state = IF Usable(payload.primary) /\ Usable(payload.secondary)
                      THEN "AVAILABLE" ELSE "PARTIAL"
         /\ Len(s.windows) = Cardinality(usable)
         /\ {<<w.period, w.remaining.value, w.reset>> : w \in Range(s.windows)} =
              {<<Period[raw.duration], 100 - raw.used, raw.reset>> : raw \in usable}
    /\ mapped.kind = "error" =>
         \/ usable = {} \/ ~BucketAccepted(payload)
         \/ ~DurationsAccepted(payload) \/ ~CreditsMapped(payload.credits)
=============================================================================
