------------------------ MODULE StatusAggregateProofs ------------------------
(***************************************************************************)
(* Proofs about StatusAggregate, for any payloads, snapshots and queries.  *)
(* First what MapPayload makes of a payload: it never builds what the      *)
(* domain's constructors refuse, and drops no usable window.  Then the     *)
(* aggregate: the entries included so far are the shares of the comparable *)
(* windows so far, one of them is least, and the rest are excluded for a   *)
(* reason; the steps of the loop are the induction.  Between the two, that *)
(* sorting keeps what it sorts.                                            *)
(***************************************************************************)
EXTENDS StatusAggregate, FiniteSetTheorems, FunctionTheorems, SequenceTheorems,
        WellFoundedInduction, TLAPS

(* The mapping of one window: it is there when the raw one is usable. *)
LEMMA MappedOne ==
  ASSUME NEW raw \in RawWindows \union {None, NotObject}, NEW plan
  PROVE  Mapped(raw, plan) = IF Usable(raw) THEN <<MapWindow(raw, plan)>> ELSE <<>>
<1>1. CASE raw = None
  BY <1>1 DEF Mapped, Usable, IsWindow
<1>2. CASE raw = NotObject
  BY <1>2 DEF Mapped, Usable, IsWindow, WindowError
<1>3. CASE raw \notin {None, NotObject}
  <2>1. Usable(raw) <=> KnownDuration(raw) /\ FieldsAccepted(raw)
    BY <1>3 DEF Usable, IsWindow
  <2>2. WindowError(raw) = "none" <=> KnownDuration(raw) /\ FieldsAccepted(raw)
    BY <1>3 DEF WindowError
  <2> QED
    BY <1>3, <2>1, <2>2 DEF Mapped
<1> QED
  BY <1>1, <1>2, <1>3

(* The windows of a payload, by which of the two are usable. *)
LEMMA MappedBoth ==
  ASSUME NEW p \in RawPayloads
  PROVE  LET one == MapWindow(p.primary, p.plan)
             other == MapWindow(p.secondary, p.plan)
         IN  MappedWindows(p) =
               IF Usable(p.primary)
               THEN IF Usable(p.secondary) THEN <<one, other>> ELSE <<one>>
               ELSE IF Usable(p.secondary) THEN <<other>> ELSE <<>>
<1> DEFINE one == MapWindow(p.primary, p.plan)
           other == MapWindow(p.secondary, p.plan)
<1>1. /\ p.primary \in RawWindows \union {None, NotObject}
      /\ p.secondary \in RawWindows \union {None, NotObject}
  BY DEF RawPayloads
<1>2. /\ Mapped(p.primary, p.plan) = IF Usable(p.primary) THEN <<one>> ELSE <<>>
      /\ Mapped(p.secondary, p.plan) = IF Usable(p.secondary) THEN <<other>> ELSE <<>>
  BY <1>1, MappedOne
<1>3. MappedWindows(p) = Mapped(p.primary, p.plan) \o Mapped(p.secondary, p.plan)
  BY DEF MappedWindows
<1> HIDE DEF one, other
<1>4. <<one>> \o <<other>> = <<one, other>> /\ <<>> \o <<other>> = <<other>>
      /\ <<one>> \o <<>> = <<one>> /\ <<>> \o <<>> = <<>>
  <2> DEFINE W == {one, other}
  <2>1. <<one>> \in Seq(W) /\ <<other>> \in Seq(W) /\ <<>> \in Seq(W)
    OBVIOUS
  <2> HIDE DEF W
  <2>2. <<one>> \o <<other>> = <<one, other>>
    <3> DEFINE s == <<one>> \o <<other>>
           t == <<one, other>>
    <3>1. s \in Seq(W) /\ Len(s) = 2 /\ s[1] = one /\ s[2] = other
      BY <2>1
    <3>2. t \in Seq(W) /\ Len(t) = 2 /\ t[1] = one /\ t[2] = other
      BY DEF W
    <3> HIDE DEF s, t
    <3>3. \A i \in 1 .. Len(s) : s[i] = t[i]
      BY <3>1, <3>2
    <3> QED
      BY <3>1, <3>2, <3>3, SeqEqual DEF s, t
  <2>3. /\ <<>> \o <<other>> = <<other>> /\ <<one>> \o <<>> = <<one>>
        /\ <<>> \o <<>> = <<>>
    BY <2>1, ConcatEmptySeq
  <2> QED
    BY <2>2, <2>3
<1> QED
  BY <1>2, <1>3, <1>4 DEF one, other

(* A usable window becomes one the constructor accepts. *)
LEMMA MapWindowAccepted ==
  ASSUME NEW raw \in RawWindows, Usable(raw), NEW plan \in SupportedPlans
  PROVE  LET w == MapWindow(raw, plan) IN
         /\ WindowAccepted(w) /\ Dimension(w) = <<"COMMERCIAL_QUOTA", "account", Period[raw.duration]>>
         /\ w.kind = "COMMERCIAL_QUOTA" /\ w.availability = "KNOWN"
         /\ w.limit = Points(100) /\ w.remaining = Points(100 - raw.used)
         /\ w.period = Period[raw.duration] /\ w.reset = raw.reset
<1> DEFINE w == MapWindow(raw, plan)
<1>1. /\ raw.used \in 0 .. 100 /\ raw.duration \in {300, 10080}
      /\ raw.reset = None \/ raw.reset \in Nat
  <2>1. raw.used \in 0 .. 100 /\ raw.duration \in DOMAIN Period
    BY DEF Usable, FieldsAccepted, KnownDuration
  <2>2. \A d \in DOMAIN Period : d \in {300, 10080}
    BY DEF Period
  <2>3. raw.reset = None \/ raw.reset \in Representable
    BY DEF Usable, FieldsAccepted, InstantAccepted
  <2>4. raw.duration \in {300, 10080}
    BY <2>1, <2>2
  <2>5. raw.reset = None \/ raw.reset \in Nat
    BY <2>3, RepresentableAssumption
  <2> QED
    BY <2>1, <2>4, <2>5
<1>2. Period[raw.duration] \in {"five_hour", "weekly"}
  BY <1>1 DEF Period
<1>3. /\ w.kind = "COMMERCIAL_QUOTA" /\ w.scope = "account" /\ w.period = Period[raw.duration]
      /\ w.plan = plan /\ w.availability = "KNOWN" /\ w.reset = raw.reset
      /\ w.limit = Points(100) /\ w.used = Points(raw.used) /\ w.remaining = Points(100 - raw.used)
  BY DEF MapWindow
<1>4. WindowQuantities(w) = {Points(100), Points(raw.used), Points(100 - raw.used)}
  <2>1. Points(100) # None /\ Points(raw.used) # None /\ Points(100 - raw.used) # None
    BY <1>1, PointsAssumption
  <2> QED
    BY <1>3, <2>1 DEF WindowQuantities
<1>5. \A q \in WindowQuantities(w) :
        q.value >= 0 /\ q.metric = "COMMERCIAL_QUOTA" /\ q.unit = "percentage_points"
  BY <1>1, <1>4 DEF Points
<1>6. /\ Identity("account") /\ Identity(Period[raw.duration]) /\ Identity(plan)
      /\ Identity("percentage_points") /\ plan # None
  BY <1>2, OwnIdentifiersAssumption DEF Identity, OwnIdentifiers
<1>7. w.reset # None => Aware(w.reset)
  BY <1>1, <1>3, NaiveAssumption DEF Aware
<1>8. KnownWindowAccepted(w)
  <2>1. /\ w.limit.value = 100 /\ w.used.value = raw.used /\ w.remaining.value = 100 - raw.used
    BY <1>3 DEF Points
  <2>2. /\ w.used.value <= w.limit.value /\ w.remaining.value <= w.limit.value
        /\ w.used.value + w.remaining.value = w.limit.value
    BY <1>1, <2>1
  <2>3. WindowQuantities(w) # {}
    BY <1>4
  <2> HIDE DEF w
  <2> QED
    BY <1>3, <1>5, <1>6, <2>2, <2>3 DEF KnownWindowAccepted
<1>9. WindowAccepted(w)
  <2>1. \A q \in WindowQuantities(w) : QuantityAccepted(q)
    BY <1>5, <1>6 DEF QuantityAccepted
  <2> HIDE DEF w
  <2> QED
    BY <1>3, <1>6, <1>7, <1>8, <2>1 DEF WindowAccepted
<1> QED
  BY <1>3, <1>9 DEF Dimension

-----------------------------------------------------------------------------
(* The snapshot of a payload.                                              *)

(* A snapshot the mapping builds is one the constructor accepts. *)
LEMMA CodexAccepted ==
  ASSUME NEW p \in RawPayloads, NEW now \in Nat,
         BucketAccepted(p), DurationsAccepted(p), CreditsMapped(p.credits)
  PROVE  SnapshotAccepted(CodexSnapshot(p, now))
<1> DEFINE s == CodexSnapshot(p, now)
<1>1. /\ s.observedAt = now /\ s.fetchedAt = now /\ s.dataAt = now
      /\ s.windows = MappedWindows(p) /\ s.usage = None /\ s.credits = MapCredits(p.credits)
      /\ s.state \in {"AVAILABLE", "PARTIAL"}
  BY DEF CodexSnapshot
<1>2. p.plan \in SupportedPlans
  BY DEF BucketAccepted
<1>3. /\ Usable(p.primary) => p.primary \in RawWindows
      /\ Usable(p.secondary) => p.secondary \in RawWindows
      /\ Usable(p.primary) /\ Usable(p.secondary) => p.primary.duration # p.secondary.duration
      /\ Usable(p.primary) => p.primary.duration \in {300, 10080}
      /\ Usable(p.secondary) => p.secondary.duration \in {300, 10080}
  <2>1. \A d \in DOMAIN Period : d \in {300, 10080}
    BY DEF Period
  <2> QED
    BY <2>1 DEF RawPayloads, Usable, IsWindow, KnownDuration, DurationsAccepted, BothWindows
<1>4. \A d, e \in {300, 10080} : Period[d] = Period[e] => d = e
  BY DEF Period
<1>5. (\A i \in DOMAIN s.windows : WindowAccepted(s.windows[i])) /\ Unambiguous(s.windows)
  <2> DEFINE one == MapWindow(p.primary, p.plan)
             other == MapWindow(p.secondary, p.plan)
  <2>1. /\ Usable(p.primary) =>
             WindowAccepted(one)
             /\ Dimension(one) = <<"COMMERCIAL_QUOTA", "account", Period[p.primary.duration]>>
        /\ Usable(p.secondary) =>
             WindowAccepted(other)
             /\ Dimension(other) = <<"COMMERCIAL_QUOTA", "account", Period[p.secondary.duration]>>
    BY <1>2, <1>3, MapWindowAccepted
  <2>2. Usable(p.primary) /\ Usable(p.secondary) => Dimension(one) # Dimension(other)
    BY <1>3, <1>4, <2>1
  <2>3. s.windows = IF Usable(p.primary)
                    THEN IF Usable(p.secondary) THEN <<one, other>> ELSE <<one>>
                    ELSE IF Usable(p.secondary) THEN <<other>> ELSE <<>>
    BY <1>1, MappedBoth
  <2> HIDE DEF s, one, other
  <2>4. CASE Usable(p.primary) /\ Usable(p.secondary)
    <3>1. DOMAIN s.windows = {1, 2} /\ s.windows[1] = one /\ s.windows[2] = other
      BY <2>3, <2>4
    <3> QED
      BY <2>1, <2>2, <2>4, <3>1 DEF Unambiguous
  <2>5. CASE Usable(p.primary) /\ ~Usable(p.secondary)
    <3>1. DOMAIN s.windows = {1} /\ s.windows[1] = one
      BY <2>3, <2>5
    <3> QED
      BY <2>1, <2>5, <3>1 DEF Unambiguous
  <2>6. CASE ~Usable(p.primary) /\ Usable(p.secondary)
    <3>1. DOMAIN s.windows = {1} /\ s.windows[1] = other
      BY <2>3, <2>6
    <3> QED
      BY <2>1, <2>6, <3>1 DEF Unambiguous
  <2>7. CASE ~Usable(p.primary) /\ ~Usable(p.secondary)
    <3>1. DOMAIN s.windows = {}
      BY <2>3, <2>7
    <3> QED
      BY <3>1 DEF Unambiguous
  <2> QED
    BY <2>4, <2>5, <2>6, <2>7
<1>6. s.credits # None => CreditsAccepted(s.credits)
  <2> SUFFICES ASSUME p.credits # None PROVE CreditsAccepted(MapCredits(p.credits))
    BY <1>1 DEF MapCredits
  <2>1. /\ p.credits.count \in 0 .. MaxCount
        /\ p.credits.credits # None =>
             \A i \in DOMAIN p.credits.credits : CreditMapped(p.credits.credits[i])
    BY DEF CreditsMapped
  <2>2. ASSUME NEW raw, CreditMapped(raw) PROVE CreditAccepted(MapCredit(raw))
    <3>1. raw.grantedAt \in Representable
      BY <2>2 DEF CreditMapped, InstantAccepted
    <3>2. raw.expiresAt = None \/ raw.expiresAt \in Representable
      BY <2>2 DEF CreditMapped, InstantAccepted
    <3>3. Naive \notin Representable
      <4>1. \A n \in Representable : n \in Int
        BY RepresentableAssumption
      <4> QED
        BY <4>1, NaiveAssumption
    <3> QED
      <4>1. MapCredit(raw).grantedAt = raw.grantedAt /\ MapCredit(raw).expiresAt = raw.expiresAt
        BY DEF MapCredit
      <4>2. raw.grantedAt # Naive /\ (raw.expiresAt # None => raw.expiresAt # Naive)
        BY <3>1, <3>2, <3>3
      <4> QED
        BY <4>1, <4>2 DEF CreditAccepted, Aware
  <2>3. MapCredits(p.credits).count = p.credits.count
    BY DEF MapCredits
  <2>4. CASE p.credits.credits = None
    BY <2>1, <2>3, <2>4 DEF MapCredits, CreditsAccepted
  <2>5. CASE p.credits.credits # None
    <3>1. MapCredits(p.credits).credits =
            [i \in DOMAIN p.credits.credits |-> MapCredit(p.credits.credits[i])]
      BY <2>5 DEF MapCredits
    <3> QED
      BY <2>1, <2>2, <2>3, <2>5, <3>1 DEF CreditsAccepted
  <2> QED
    BY <2>4, <2>5
<1>7. now \in Int /\ Aware(now)
  BY NaiveAssumption DEF Aware
<1> HIDE DEF s
<1>8. s.state # "RATE_LIMITED" /\ s.state \notin NoNumbers
  BY <1>1 DEF NoNumbers
<1>9. s.observedAt <= s.fetchedAt /\ s.dataAt <= s.fetchedAt
      /\ Aware(s.fetchedAt) /\ Aware(s.dataAt) /\ Aware(s.observedAt)
  BY <1>1, <1>7
<1> QED
  BY <1>1, <1>5, <1>6, <1>8, <1>9 DEF SnapshotAccepted, s

(* What is said of a payload p that can be hashed and was mapped to m. *)
Survive(p, m) ==
  LET usable == {raw \in {p.primary, p.secondary} : Usable(raw)} IN
  /\ m.kind \in {"snapshot", "error"}
  /\ m.kind = "snapshot" =>
       LET s == m.snapshot IN
       /\ SnapshotAccepted(s)
       /\ s.state = IF Usable(p.primary) /\ Usable(p.secondary) THEN "AVAILABLE" ELSE "PARTIAL"
       /\ Len(s.windows) = Cardinality(usable)
       /\ {<<w.period, w.remaining.value, w.reset>> : w \in Range(s.windows)} =
            {<<Period[raw.duration], 100 - raw.used, raw.reset>> : raw \in usable}
  /\ m.kind = "error" =>
       usable = {} \/ ~BucketAccepted(p) \/ ~DurationsAccepted(p) \/ ~CreditsMapped(p.credits)

(* The windows of an accepted payload are exactly the usable ones. *)
LEMMA WindowsOfPayload ==
  ASSUME NEW p \in RawPayloads, BucketAccepted(p), DurationsAccepted(p)
  PROVE  LET usable == {raw \in {p.primary, p.secondary} : Usable(raw)}
             windows == MappedWindows(p)
         IN  /\ Len(windows) = Cardinality(usable)
             /\ Len(windows) = 2 <=> Usable(p.primary) /\ Usable(p.secondary)
             /\ windows = <<>> <=> usable = {}
             /\ {<<w.period, w.remaining.value, w.reset>> : w \in Range(windows)} =
                  {<<Period[raw.duration], 100 - raw.used, raw.reset>> : raw \in usable}
<1> DEFINE usable == {raw \in {p.primary, p.secondary} : Usable(raw)}
           windows == MappedWindows(p)
           one == MapWindow(p.primary, p.plan)
           other == MapWindow(p.secondary, p.plan)
           Out(w) == <<w.period, w.remaining.value, w.reset>>
           In(raw) == <<Period[raw.duration], 100 - raw.used, raw.reset>>
<1>1. /\ Usable(p.primary) => Out(one) = In(p.primary)
      /\ Usable(p.secondary) => Out(other) = In(p.secondary)
  <2>1. \A raw : Out(MapWindow(raw, p.plan)) = In(raw)
    BY DEF MapWindow, Points
  <2> QED
    BY <2>1
<1>2. Usable(p.primary) /\ Usable(p.secondary) => p.primary # p.secondary
  BY DEF DurationsAccepted, BothWindows, Usable
<1>3. windows = IF Usable(p.primary)
                THEN IF Usable(p.secondary) THEN <<one, other>> ELSE <<one>>
                ELSE IF Usable(p.secondary) THEN <<other>> ELSE <<>>
  BY MappedBoth
<1>4. usable = (IF Usable(p.primary) THEN {p.primary} ELSE {})
               \union (IF Usable(p.secondary) THEN {p.secondary} ELSE {})
  OBVIOUS
<1> HIDE DEF usable, windows, one, other, Out, In
<1>5. ASSUME NEW a, NEW b, a # b PROVE Cardinality({a, b}) = 2
  <2>1. IsFiniteSet({a}) /\ Cardinality({a}) = 1 /\ b \notin {a}
    BY <1>5, FS_Singleton
  <2>2. Cardinality({a} \union {b}) = 2
    BY <2>1, FS_AddElement
  <2>3. {a} \union {b} = {a, b}
    OBVIOUS
  <2> QED
    BY <2>2, <2>3
<1>6. Cardinality({}) = 0 /\ \A a : Cardinality({a}) = 1
  BY FS_EmptySet, FS_Singleton
<1>7. Range(windows) = {windows[i] : i \in DOMAIN windows}
  BY DEF Range
<1>8. CASE Usable(p.primary) /\ Usable(p.secondary)
  <2>1. windows = <<one, other>> /\ usable = {p.primary, p.secondary}
    BY <1>3, <1>4, <1>8
  <2>2. Len(windows) = 2 /\ windows # <<>> /\ Range(windows) = {one, other}
    BY <1>7, <2>1
  <2>3. Cardinality(usable) = 2 /\ usable # {}
    BY <1>2, <1>5, <1>8, <2>1
  <2>4. {Out(w) : w \in Range(windows)} = {In(raw) : raw \in usable}
    BY <1>1, <1>8, <2>1, <2>2
  <2> QED
    BY <1>8, <2>2, <2>3, <2>4 DEF usable, windows, Out, In
<1>9. CASE Usable(p.primary) /\ ~Usable(p.secondary)
  <2>1. windows = <<one>> /\ usable = {p.primary}
    BY <1>3, <1>4, <1>9
  <2>2. Len(windows) = 1 /\ windows # <<>> /\ Range(windows) = {one}
    BY <1>7, <2>1
  <2>3. Cardinality(usable) = 1 /\ usable # {}
    BY <1>6, <2>1
  <2>4. {Out(w) : w \in Range(windows)} = {In(raw) : raw \in usable}
    BY <1>1, <1>9, <2>1, <2>2
  <2> QED
    BY <1>9, <2>2, <2>3, <2>4 DEF usable, windows, Out, In
<1>10. CASE ~Usable(p.primary) /\ Usable(p.secondary)
  <2>1. windows = <<other>> /\ usable = {p.secondary}
    BY <1>3, <1>4, <1>10
  <2>2. Len(windows) = 1 /\ windows # <<>> /\ Range(windows) = {other}
    BY <1>7, <2>1
  <2>3. Cardinality(usable) = 1 /\ usable # {}
    BY <1>6, <2>1
  <2>4. {Out(w) : w \in Range(windows)} = {In(raw) : raw \in usable}
    BY <1>1, <1>10, <2>1, <2>2
  <2> QED
    BY <1>10, <2>2, <2>3, <2>4 DEF usable, windows, Out, In
<1>11. CASE ~Usable(p.primary) /\ ~Usable(p.secondary)
  <2>1. windows = <<>> /\ usable = {}
    BY <1>3, <1>4, <1>11
  <2>2. Len(windows) = 0 /\ Range(windows) = {}
    BY <1>7, <2>1
  <2>3. Cardinality(usable) = 0
    BY <1>6, <2>1
  <2>4. {Out(w) : w \in Range(windows)} = {In(raw) : raw \in usable}
    BY <2>1, <2>2
  <2> QED
    BY <1>11, <2>1, <2>2, <2>3, <2>4 DEF usable, windows, Out, In
<1> QED
  BY <1>8, <1>9, <1>10, <1>11

(* Every payload that can be hashed survives its mapping. *)
LEMMA PayloadSurvives ==
  ASSUME NEW p \in RawPayloads, NEW now \in Nat
  PROVE  /\ ~HashRaises(p) => Survive(p, MapPayload(p, now))
         /\ MapPayload(p, now).kind = "snapshot" =>
              /\ MapPayload(p, now).snapshot = CodexSnapshot(p, now)
              /\ SnapshotAccepted(CodexSnapshot(p, now))
<1> DEFINE m == MapPayload(p, now)
           s == CodexSnapshot(p, now)
           usable == {raw \in {p.primary, p.secondary} : Usable(raw)}
<1>1. CASE /\ BucketAccepted(p) /\ ~HashRaises(p) /\ DurationsAccepted(p)
           /\ MappedWindows(p) # <<>> /\ CreditsMapped(p.credits)
  <2>1. SnapshotAccepted(s)
    BY <1>1, CodexAccepted
  <2>2. m = [kind |-> "snapshot", snapshot |-> s]
    BY <1>1, <2>1 DEF MapPayload
  <2>3. m.kind = "snapshot" /\ m.snapshot = s
    BY <2>2
  <2>4. s.windows = MappedWindows(p)
        /\ s.state = IF Len(MappedWindows(p)) = 2 THEN "AVAILABLE" ELSE "PARTIAL"
    BY DEF CodexSnapshot
  <2> HIDE DEF m, s
  <2> QED
    BY <1>1, <2>1, <2>3, <2>4, WindowsOfPayload DEF Survive, m, s
<1>2. CASE ~(/\ BucketAccepted(p) /\ ~HashRaises(p) /\ DurationsAccepted(p)
             /\ MappedWindows(p) # <<>> /\ CreditsMapped(p.credits))
  <2>1. \/ m = Failed("UNSUPPORTED", FALSE) /\ (~BucketAccepted(p) \/ ~DurationsAccepted(p))
        \/ m = Raised /\ HashRaises(p)
        \/ /\ m = Failed(NoWindowError(p), FALSE)
           /\ BucketAccepted(p) /\ DurationsAccepted(p) /\ MappedWindows(p) = <<>>
        \/ m = Failed("PARSE_FAILED", FALSE) /\ ~CreditsMapped(p.credits)
    BY <1>2 DEF MapPayload
  <2>2. Raised.kind = "raised" /\ \A kind, again : Failed(kind, again).kind = "error"
    BY DEF Raised, Failed
  <2>3. BucketAccepted(p) /\ DurationsAccepted(p) /\ MappedWindows(p) = <<>> => usable = {}
    BY WindowsOfPayload
  <2> HIDE DEF m, usable
  <2>4. m.kind # "snapshot" /\ (~HashRaises(p) => m.kind = "error")
    BY <2>1, <2>2
  <2>5. m.kind = "error" => \/ usable = {} \/ ~BucketAccepted(p)
                            \/ ~DurationsAccepted(p) \/ ~CreditsMapped(p.credits)
    BY <2>1, <2>2, <2>3
  <2> QED
    BY <2>4, <2>5 DEF Survive, m, usable
<1> QED
  BY <1>1, <1>2

-----------------------------------------------------------------------------
(* One snapshot, as the aggregate sees it.                                 *)

(* The snapshots there can be. *)
Snapshots == Supplied \union {CodexSnapshot(p, now) : p \in Payloads, now \in {0, Now}}

(* The numbers of a snapshot are numbers. *)
Measured(s) ==
  /\ s.fetchedAt \in Int
  /\ \A i \in DOMAIN s.windows :
       /\ s.windows[i].limit # None => s.windows[i].limit.value \in Int
       /\ s.windows[i].remaining # None => s.windows[i].remaining.value \in Int

(* Those of an accepted snapshot are. *)
LEMMA SnapshotsMeasured ==
  ASSUME NEW s \in Snapshots, SnapshotAccepted(s) PROVE Measured(s)
<1>1. CASE s \in Supplied
  <2>1. s \in ProviderSnapshots
    BY <1>1, InputsAssumption
  <2>2. s.fetchedAt \in Moments /\ s.windows \in Seq(QuotaWindows)
    BY <2>1 DEF ProviderSnapshots
  <2>3. s.fetchedAt \in Int
    BY <2>2 DEF SnapshotAccepted, Aware, Moments
  <2>4. \A i \in DOMAIN s.windows : s.windows[i] \in QuotaWindows
    BY <2>2
  <2>5. ASSUME NEW w \in QuotaWindows
        PROVE  /\ w.limit # None => w.limit.value \in Int
               /\ w.remaining # None => w.remaining.value \in Int
    <3>1. w.limit \in Quantities \union {None} /\ w.remaining \in Quantities \union {None}
      BY DEF QuotaWindows, Optional
    <3>2. \A q \in Quantities : q.value \in Int
      BY DEF Quantities
    <3> QED
      BY <3>1, <3>2
  <2> QED
    BY <2>3, <2>4, <2>5 DEF Measured
<1>2. CASE s \in {CodexSnapshot(p, now) : p \in Payloads, now \in {0, Now}}
  <2>1. PICK p \in Payloads, now \in {0, Now} : s = CodexSnapshot(p, now)
    BY <1>2
  <2>2. p \in RawPayloads /\ now \in Nat
    BY InputsAssumption
  <2>3. s.fetchedAt = now /\ s.windows = MappedWindows(p)
    BY <2>1 DEF CodexSnapshot
  <2>4. \A raw : Usable(raw) => LET w == MapWindow(raw, p.plan) IN
                  w.limit.value \in Int /\ w.remaining.value \in Int
    BY DEF Usable, FieldsAccepted, MapWindow, Points
  <2>5. \A i \in DOMAIN s.windows : \E raw : Usable(raw) /\ s.windows[i] = MapWindow(raw, p.plan)
    BY <2>2, <2>3, MappedBoth
  <2> QED
    BY <2>2, <2>3, <2>4, <2>5 DEF Measured
<1> QED
  BY <1>1, <1>2 DEF Snapshots

(* Some check excludes a snapshot iff the condition of one of them holds. *)
LEMMA ChecksOf ==
  ASSUME NEW s
  PROVE  Failing(s) # {} <=>
           \/ s.state \notin EligibleStates \/ Stale(s, Now, query.maximumAge)
           \/ Cardinality(Compatible(s)) > 1 \/ (Compatible(s) = {} /\ s.windows # <<>>)
           \/ Compatible(s) = {} \/ NotKnown(s) \/ NotComparable(s) \/ NoShare(s)
<1> DEFINE c == Checks(s)
<1>1. /\ DOMAIN c = 1 .. 7
      /\ c[1][2] = (s.state \notin EligibleStates)
      /\ c[2][2] = Stale(s, Now, query.maximumAge)
      /\ c[3][2] = (Cardinality(Compatible(s)) > 1)
      /\ c[4][2] = (Compatible(s) = {} /\ s.windows # <<>>)
      /\ c[5][2] = (Compatible(s) = {} \/ NotKnown(s))
      /\ c[6][2] = NotComparable(s)
      /\ c[7][2] = NoShare(s)
  BY DEF Checks
<1>2. Failing(s) = {i \in DOMAIN c : c[i][2]}
  BY DEF Failing
<1> HIDE DEF c
<1>3. Failing(s) # {} <=> c[1][2] \/ c[2][2] \/ c[3][2] \/ c[4][2] \/ c[5][2] \/ c[6][2] \/ c[7][2]
  <2>1. 1 .. 7 = {1, 2, 3, 4, 5, 6, 7}
    OBVIOUS
  <2>2. DOMAIN c = {1, 2, 3, 4, 5, 6, 7}
    BY <1>1, <2>1
  <2> QED
    BY <1>2, <2>2, Zenon
<1> QED
  BY <1>1, <1>3, Zenon

(* Of an accepted snapshot at most one window has the asked dimension. *)
LEMMA OneCompatible ==
  ASSUME NEW s, SnapshotAccepted(s)
  PROVE  /\ Compatible(s) = {} \/ \E i \in DOMAIN s.windows : Compatible(s) = {i}
         /\ ~(Cardinality(Compatible(s)) > 1)
<1>1. \A i, j \in Compatible(s) : i = j
  BY DEF SnapshotAccepted, Unambiguous, Compatible
<1>2. Compatible(s) = {} \/ \E i \in DOMAIN s.windows : Compatible(s) = {i}
  <2>1. Compatible(s) \subseteq DOMAIN s.windows
    BY DEF Compatible
  <2> QED
    BY <1>1, <2>1
<1>3. ~(Cardinality(Compatible(s)) > 1)
  <2>1. CASE Compatible(s) = {}
    BY <2>1, FS_EmptySet
  <2>2. CASE \E i \in DOMAIN s.windows : Compatible(s) = {i}
    <3>1. PICK i \in DOMAIN s.windows : Compatible(s) = {i}
      BY <2>2
    <3>2. Cardinality({i}) = 1
      BY FS_Singleton
    <3> QED
      BY <3>1, <3>2
  <2> QED
    BY <1>2, <2>1, <2>2
<1> QED
  BY <1>2, <1>3

ComparableOf(s) == {w \in Range(s.windows) : Comparable(s, w)}

(* The checks leave a snapshot in iff its one window of the asked          *)
(* dimension is comparable; otherwise it has no comparable window.         *)
LEMMA ChecksAreComparability ==
  ASSUME NEW s, SnapshotAccepted(s), Measured(s), query \in StatusQueries
  PROVE  /\ Failing(s) # {} => ComparableOf(s) = {}
         /\ Failing(s) = {} => \E i \in DOMAIN s.windows :
              /\ Compatible(s) = {i} /\ ComparableOf(s) = {s.windows[i]}
              /\ Comparable(s, s.windows[i])
<1> DEFINE asked == <<query.kind, query.scope, query.period>>
<1>1. Range(s.windows) = {s.windows[i] : i \in DOMAIN s.windows}
  BY DEF Range
<1>2. \A i \in DOMAIN s.windows : i \in Compatible(s) <=> Dimension(s.windows[i]) = asked
  BY DEF Compatible
<1>3. \A w : Comparable(s, w) => Dimension(w) = asked /\ s.state \in EligibleStates
  BY DEF Comparable, Asked
<1>4. Stale(s, Now, query.maximumAge) <=> ~(Now - s.fetchedAt <= query.maximumAge)
  BY InputsAssumption DEF Stale, Measured, StatusQueries
<1>5. ASSUME NEW i \in DOMAIN s.windows, Compatible(s) = {i}
      PROVE  Failing(s) = {} <=> Comparable(s, s.windows[i])
  <2> DEFINE w == s.windows[i]
  <2>1. /\ NotKnown(s) <=> w.availability # "KNOWN"
        /\ NotComparable(s) <=> OtherComparability(w)
        /\ NoShare(s) <=> ~HasShare(w, w.remaining)
    BY <1>5 DEF NotKnown, NotComparable, NoShare
  <2>2. Failing(s) = {} <=>
          /\ s.state \in EligibleStates /\ ~Stale(s, Now, query.maximumAge)
          /\ w.availability = "KNOWN" /\ ~OtherComparability(w) /\ HasShare(w, w.remaining)
    BY <1>5, <2>1, ChecksOf, OneCompatible
  <2>3. Dimension(w) = asked
    BY <1>2, <1>5
  <2> HIDE DEF w
  <2> QED
    BY <1>4, <2>2, <2>3 DEF Comparable, Asked, Alike, OtherComparability, HasShare, w
<1>6. CASE Compatible(s) = {}
  <2>1. ComparableOf(s) = {}
    BY <1>1, <1>2, <1>3, <1>6 DEF ComparableOf
  <2>2. Failing(s) # {}
    BY <1>6, ChecksOf
  <2> QED
    BY <2>1, <2>2
<1>7. CASE \E i \in DOMAIN s.windows : Compatible(s) = {i}
  <2>1. PICK i \in DOMAIN s.windows : Compatible(s) = {i}
    BY <1>7
  <2>2. \A j \in DOMAIN s.windows : Comparable(s, s.windows[j]) => j = i
    BY <1>2, <1>3, <2>1
  <2>3. ComparableOf(s) = IF Comparable(s, s.windows[i]) THEN {s.windows[i]} ELSE {}
    BY <1>1, <2>2 DEF ComparableOf
  <2>4. Failing(s) = {} <=> Comparable(s, s.windows[i])
    BY <1>5, <2>1
  <2> QED
    BY <2>1, <2>3, <2>4
<1> QED
  BY <1>6, <1>7, OneCompatible

(* What is computed of a comparable window: a share, but for a limit of 0. *)
LEMMA ShareOfComparable ==
  ASSUME NEW s, SnapshotAccepted(s), Measured(s), NEW i \in DOMAIN s.windows,
         Comparable(s, s.windows[i])
  PROVE  LET w == s.windows[i] IN
         /\ ShareRaises(w, w.remaining) <=> w.limit.value = 0
         /\ ~ShareRaises(w, w.remaining) =>
              RemainingShare(w) \in [num : Nat, den : Nat \ {0}] /\ w.limit.value > 0
         /\ RemainingShare(w).num = w.remaining.value
<1> DEFINE w == s.windows[i]
<1>1. w.availability = "KNOWN" /\ w.limit # None /\ w.remaining # None
  BY DEF Comparable
<1>2. w.limit.value \in Int /\ w.remaining.value \in Int
  BY <1>1 DEF Measured
<1>3. WindowAccepted(w)
  BY DEF SnapshotAccepted
<1> HIDE DEF w
<1>4. {w.limit, w.remaining} \subseteq WindowQuantities(w)
  BY <1>1 DEF WindowQuantities
<1>5. w.limit.value >= 0 /\ w.remaining.value >= 0 /\ w.remaining.value <= w.limit.value
  BY <1>1, <1>3, <1>4 DEF WindowAccepted, QuantityAccepted, KnownWindowAccepted
<1>6. RemainingShare(w) = [num |-> w.remaining.value, den |-> w.limit.value]
  BY DEF RemainingShare, Ratio
<1> QED
  BY <1>1, <1>2, <1>5, <1>6 DEF ShareRaises, HasShare, RatioAccepted, w

(* A set of naturals that is not empty has a least member. *)
LEMMA LeastNatural ==
  ASSUME NEW F \in SUBSET Nat, F # {}
  PROVE  \E x \in F : \A y \in F : x <= y
<1>1. PICK x \in F : \A y \in F : <<y, x>> \notin OpToRel(<, Nat)
  BY NatLessThanWellFounded, WFMin, Zenon
<1>2. x \in Nat /\ \A y \in F : y \in Nat
  OBVIOUS
<1>3. \A y \in F : ~(y < x)
  BY <1>1, <1>2, Zenon DEF OpToRel
<1>4. \A y \in F : x <= y
  BY <1>2, <1>3
<1> QED
  BY <1>4

Reasons ==
  {"STATUS", "STALE", "AMBIGUOUS", "INCOMPATIBLE", "ABSENT", "INCOMPATIBLE_COMPARABILITY",
   "NO_PERCENTAGE"}

(* The first check that fails gives a reason that is true. *)
LEMMA FailingExplains ==
  ASSUME NEW s, SnapshotAccepted(s), Failing(s) # {}
  PROVE  LET reason == Checks(s)[Min(Failing(s))][1] IN
         reason \in Reasons /\ Explains(reason, s)
<1> DEFINE m == Min(Failing(s))
           c == Checks(s)
           asked == {w \in Range(s.windows) : Asked(w)}
           known == {w \in asked : w.availability = "KNOWN"}
           alike == {w \in known : Alike(w)}
<1>1. /\ DOMAIN c = 1 .. 7
      /\ c[1][1] = "STATUS" /\ c[2][1] = "STALE" /\ c[3][1] = "AMBIGUOUS"
      /\ c[4][1] = "INCOMPATIBLE" /\ c[5][1] = "ABSENT"
      /\ c[6][1] = "INCOMPATIBLE_COMPARABILITY" /\ c[7][1] = "NO_PERCENTAGE"
  BY DEF Checks
<1>2. /\ c[1][2] = (s.state \notin EligibleStates)
      /\ c[2][2] = Stale(s, Now, query.maximumAge)
      /\ c[3][2] = (Cardinality(Compatible(s)) > 1)
      /\ c[4][2] = (Compatible(s) = {} /\ s.windows # <<>>)
      /\ c[5][2] = (Compatible(s) = {} \/ NotKnown(s))
      /\ c[6][2] = NotComparable(s)
      /\ c[7][2] = NoShare(s)
  BY DEF Checks
<1>3. Failing(s) = {i \in DOMAIN c : c[i][2]}
  BY DEF Failing
<1>4. m \in Failing(s) /\ \A y \in Failing(s) : m <= y
  <2>1. Failing(s) \subseteq 1 .. 7
    BY <1>1, <1>3
  <2>2. Failing(s) \in SUBSET Nat
    BY <2>1
  <2>3. \E x \in Failing(s) : \A y \in Failing(s) : x <= y
    BY <2>2, LeastNatural
  <2> QED
    BY <2>3 DEF Min
<1>5. CASE Compatible(s) = {}
  <2>1. asked = {}
    BY <1>5 DEF Compatible, Asked, Range
  <2> HIDE DEF asked, m, c
  <2>2. m \in 1 .. 7 /\ c[m][2]
    BY <1>1, <1>3, <1>4
  <2>3. \A y \in 1 .. 7 : y < m => ~c[y][2]
    BY <1>1, <1>3, <1>4, <2>2
  <2>4. m \in {1, 2, 4, 5}
    <3>1. ~c[3][2]
      BY <1>2, OneCompatible, Zenon
    <3>2. c[5][2]
      BY <1>2, <1>5, Zenon
    <3> QED
      BY <2>2, <2>3, <3>1, <3>2
  <2>5. m = 5 => s.windows = <<>>
    <3>1. m = 5 => ~c[4][2]
      BY <2>3
    <3> QED
      BY <1>2, <1>5, <3>1, Zenon
  <2>6. known = {}
    BY <2>1
  <2> HIDE DEF known
  <2> QED
    BY <1>1, <1>2, <2>1, <2>2, <2>4, <2>5, <2>6 DEF Explains, Reasons, m, c, asked, known
<1>6. CASE \E i \in DOMAIN s.windows : Compatible(s) = {i}
  <2>1. PICK i \in DOMAIN s.windows : Compatible(s) = {i}
    BY <1>6
  <2> DEFINE w == s.windows[i]
  <2>2. asked = {w}
    BY <2>1 DEF Compatible, Asked, Range
  <2>3. /\ NotKnown(s) <=> w.availability # "KNOWN"
        /\ NotComparable(s) <=> ~Alike(w)
        /\ NoShare(s) <=> ~HasShare(w, w.remaining)
    BY <2>1 DEF NotKnown, NotComparable, NoShare, OtherComparability, Alike
  <2> HIDE DEF m, c
  <2>4. m \in 1 .. 7 /\ c[m][2]
    BY <1>1, <1>3, <1>4
  <2>5. \A y \in 1 .. 7 : y < m => ~c[y][2]
    BY <1>1, <1>3, <1>4, <2>4
  <2>6. m \in {1, 2, 5, 6, 7}
    <3>1. Compatible(s) # {}
      BY <2>1
    <3>2. ~c[3][2] /\ ~c[4][2]
      BY <1>2, <3>1, OneCompatible, Zenon
    <3> QED
      BY <2>4, <3>2
  <2>7. /\ m = 5 => w.availability # "KNOWN"
        /\ m = 6 => w.availability = "KNOWN" /\ ~Alike(w)
        /\ m = 7 => w.availability = "KNOWN" /\ Alike(w) /\ ~HasShare(w, w.remaining)
    <3>1. /\ m = 5 => c[5][2]
          /\ m = 6 => c[6][2] /\ ~c[5][2]
          /\ m = 7 => c[7][2] /\ ~c[5][2] /\ ~c[6][2]
      BY <2>4, <2>5
    <3>2. Compatible(s) # {}
      BY <2>1
    <3> QED
      BY <1>2, <2>3, <3>1, <3>2, Zenon
  <2> HIDE DEF w, asked
  <2>8. /\ w.availability # "KNOWN" => known = {}
        /\ w.availability = "KNOWN" => known = {w}
    BY <2>2
  <2> HIDE DEF known
  <2>9. /\ known = {w} /\ ~Alike(w) => alike = {}
        /\ known = {w} /\ Alike(w) => alike = {w}
    OBVIOUS
  <2> HIDE DEF alike
  <2>10. Explains(c[m][1], s) <=>
           CASE c[m][1] = "STATUS" -> s.state \notin EligibleStates
             [] c[m][1] = "STALE" -> Stale(s, Now, query.maximumAge)
             [] c[m][1] = "INCOMPATIBLE" -> s.windows # <<>> /\ asked = {}
             [] c[m][1] = "ABSENT" -> known = {} /\ (asked # {} \/ s.windows = <<>>)
             [] c[m][1] = "INCOMPATIBLE_COMPARABILITY" -> known # {} /\ alike = {}
             [] c[m][1] = "NO_PERCENTAGE" ->
                  alike # {} /\ \A v \in alike : v.limit = None \/ v.remaining = None
             [] OTHER -> FALSE
    BY DEF Explains, asked, known, alike
  <2>11. CASE m \in {1, 2}
    BY <1>1, <1>2, <2>4, <2>10, <2>11 DEF Reasons, m, c
  <2>12. CASE m = 5
    BY <1>1, <2>2, <2>7, <2>8, <2>10, <2>12 DEF Reasons, m, c
  <2>13. CASE m = 6
    BY <1>1, <2>7, <2>8, <2>9, <2>10, <2>13 DEF Reasons, m, c
  <2>14. CASE m = 7
    BY <1>1, <2>7, <2>8, <2>9, <2>10, <2>14 DEF Reasons, m, c, HasShare
  <2> QED
    BY <2>6, <2>11, <2>12, <2>13, <2>14
<1> QED
  BY <1>5, <1>6, OneCompatible

-----------------------------------------------------------------------------
(* Sorting by identifier.                                                  *)

Ranked(list) == \A i \in DOMAIN list : Rank[list[i].provider] \in Int

(* Sorting permutes: there is a bijection of the places that puts the list *)
(* in order.                                                               *)
LEMMA SortedPermutes ==
  ASSUME NEW list, NEW n \in Nat, DOMAIN list = 1 .. n, Ranked(list)
  PROVE  \E p \in Bijection(1 .. n, 1 .. n) :
           /\ Sorted(list) = [k \in 1 .. n |-> list[p[k]]]
           /\ \A i, j \in 1 .. n : i < j => ~Before(list[p[j]], list[p[i]])
<1> DEFINE Key(i) == Rank[list[i].provider]
           Ahead(i) == {j \in 1 .. n : Precedes(list, j, i)}
           place == [i \in 1 .. n |-> Place(list, i)]
<1>1. \A i \in 1 .. n : Key(i) \in Int
  BY DEF Ranked
<1>2. \A i, j \in 1 .. n : Precedes(list, i, j) <=> Key(i) < Key(j) \/ (Key(i) = Key(j) /\ i < j)
  BY <1>1 DEF Precedes, Before
<1>3. \A i, j \in 1 .. n : i # j => Precedes(list, i, j) \/ Precedes(list, j, i)
  <2> HIDE DEF Key
  <2> QED
    BY <1>1, <1>2
<1>4. \A i \in 1 .. n : IsFiniteSet(Ahead(i)) /\ Cardinality(Ahead(i)) \in Nat
  <2>1. IsFiniteSet(1 .. n)
    BY FS_Interval
  <2> QED
    BY <2>1, FS_Subset, FS_CardinalityType
<1>5. \A i \in 1 .. n : Place(list, i) = 1 + Cardinality(Ahead(i))
  BY DEF Place
<1>6. ASSUME NEW i \in 1 .. n, NEW j \in 1 .. n, Precedes(list, i, j)
      PROVE  Cardinality(Ahead(i)) < Cardinality(Ahead(j))
  <2>1. i \notin Ahead(i) /\ Ahead(i) \union {i} \subseteq Ahead(j)
    <3> HIDE DEF Key
    <3> QED
      BY <1>1, <1>2, <1>6
  <2>2. Cardinality(Ahead(i) \union {i}) = Cardinality(Ahead(i)) + 1
    BY <1>4, <2>1, FS_AddElement
  <2>3. Cardinality(Ahead(i) \union {i}) <= Cardinality(Ahead(j))
    BY <1>4, <2>1, FS_Subset
  <2> HIDE DEF Ahead
  <2> QED
    BY <1>4, <2>2, <2>3
<1>7. ASSUME NEW i \in 1 .. n PROVE Place(list, i) \in 1 .. n
  <2>1. i \notin Ahead(i) /\ Ahead(i) \union {i} \subseteq 1 .. n
    BY <1>1, <1>2
  <2>2. Cardinality(Ahead(i) \union {i}) = Cardinality(Ahead(i)) + 1
    BY <1>4, <2>1, FS_AddElement
  <2>3. IsFiniteSet(1 .. n) /\ Cardinality(1 .. n) = n
    BY FS_Interval
  <2>4. Cardinality(Ahead(i) \union {i}) <= n
    BY <2>1, <2>3, FS_Subset
  <2> HIDE DEF Ahead
  <2> QED
    BY <1>4, <1>5, <2>2, <2>4
<1> HIDE DEF Ahead, Key
<1>8. place \in Bijection(1 .. n, 1 .. n)
  <2>1. place \in Injection(1 .. n, 1 .. n)
    <3>1. \A i, j \in 1 .. n : Place(list, i) = Place(list, j) => i = j
      BY <1>3, <1>4, <1>5, <1>6
    <3> QED
      BY <1>7, <3>1, Fun_IsInj
  <2>2. IsFiniteSet(1 .. n)
    BY FS_Interval
  <2>3. place \in Surjection(1 .. n, 1 .. n)
    BY <2>1, <2>2, FS_Injection
  <2> QED
    BY <2>1, <2>3 DEF Bijection
<1> DEFINE p == [k \in 1 .. n |-> CHOOSE i \in 1 .. n : Place(list, i) = k]
<1>9. \A k \in 1 .. n : p[k] \in 1 .. n /\ Place(list, p[k]) = k
  <2>1. \A k \in 1 .. n : \E i \in 1 .. n : Place(list, i) = k
    BY <1>8 DEF Bijection, Surjection
  <2> QED
    BY <2>1
<1>10. p \in Bijection(1 .. n, 1 .. n)
  <2>1. p \in [1 .. n -> 1 .. n]
    BY <1>9
  <2>2. \A i, j \in 1 .. n : p[i] = p[j] => i = j
    BY <1>9
  <2> HIDE DEF p
  <2>3. p \in Injection(1 .. n, 1 .. n)
    BY <2>1, <2>2, Fun_IsInj
  <2>4. IsFiniteSet(1 .. n)
    BY FS_Interval
  <2>5. p \in Surjection(1 .. n, 1 .. n)
    BY <2>3, <2>4, FS_Injection
  <2> QED
    BY <2>3, <2>5 DEF Bijection
<1>11. Sorted(list) = [k \in 1 .. n |-> list[p[k]]]
  BY DEF Sorted
<1>12. ASSUME NEW i \in 1 .. n, NEW j \in 1 .. n, i < j PROVE ~Before(list[p[j]], list[p[i]])
  <2>1. ~Precedes(list, p[j], p[i])
    <3> HIDE DEF p
    <3>1. p[i] \in 1 .. n /\ p[j] \in 1 .. n /\ Place(list, p[i]) = i /\ Place(list, p[j]) = j
      BY <1>9
    <3>2. Place(list, p[i]) < Place(list, p[j])
      BY <1>12, <3>1
    <3> SUFFICES ASSUME Precedes(list, p[j], p[i]) PROVE FALSE
      OBVIOUS
    <3>3. Cardinality(Ahead(p[j])) < Cardinality(Ahead(p[i]))
      BY <1>6, <3>1
    <3>4. /\ Place(list, p[i]) = 1 + Cardinality(Ahead(p[i]))
          /\ Place(list, p[j]) = 1 + Cardinality(Ahead(p[j]))
      BY <1>5, <3>1
    <3>5. Cardinality(Ahead(p[i])) \in Nat /\ Cardinality(Ahead(p[j])) \in Nat
      BY <1>4, <3>1
    <3> QED
      BY <3>2, <3>3, <3>4, <3>5
  <2> QED
    BY <2>1 DEF Precedes
<1> QED
  BY <1>10, <1>11, <1>12

-----------------------------------------------------------------------------
(* Counting by provider.                                                   *)

Of(list, q) == {i \in DOMAIN list : list[i].provider = q}
Count(list, q) == Cardinality(Of(list, q))

(* A sorted list has the entries of the list, each as often. *)
LEMMA SortedKeeps ==
  ASSUME NEW list, NEW n \in Nat, DOMAIN list = 1 .. n, Ranked(list)
  PROVE  /\ DOMAIN Sorted(list) = 1 .. n
         /\ \A i, j \in 1 .. n : i < j => ~Before(Sorted(list)[j], Sorted(list)[i])
         /\ \A i \in 1 .. n : \E j \in 1 .. n : Sorted(list)[i] = list[j]
         /\ \A q : Count(Sorted(list), q) = Count(list, q)
<1>1. PICK p \in Bijection(1 .. n, 1 .. n) :
        /\ Sorted(list) = [k \in 1 .. n |-> list[p[k]]]
        /\ \A i, j \in 1 .. n : i < j => ~Before(list[p[j]], list[p[i]])
  BY SortedPermutes
<1>2. DOMAIN Sorted(list) = 1 .. n /\ \A k \in 1 .. n : Sorted(list)[k] = list[p[k]]
  BY <1>1
<1>3. /\ p \in [1 .. n -> 1 .. n]
      /\ \A i, j \in 1 .. n : p[i] = p[j] => i = j
      /\ \A j \in 1 .. n : \E i \in 1 .. n : p[i] = j
  BY DEF Bijection, Injection, Surjection, IsInjective
<1>4. ASSUME NEW q PROVE Count(Sorted(list), q) = Count(list, q)
  <2> DEFINE f == [k \in Of(Sorted(list), q) |-> p[k]]
  <2>1. /\ Of(list, q) = {i \in 1 .. n : list[i].provider = q}
        /\ Of(Sorted(list), q) = {i \in 1 .. n : list[p[i]].provider = q}
    BY <1>2 DEF Of
  <2>2. f \in [Of(Sorted(list), q) -> Of(list, q)]
    BY <1>3, <2>1
  <2>3. \A i, j \in Of(Sorted(list), q) : f[i] = f[j] => i = j
    BY <1>3, <2>1
  <2>4. \A j \in Of(list, q) : \E i \in Of(Sorted(list), q) : f[i] = j
    BY <1>3, <2>1
  <2> HIDE DEF f
  <2>5. f \in Bijection(Of(Sorted(list), q), Of(list, q))
    BY <2>2, <2>3, <2>4, Fun_IsBij
  <2>6. IsFiniteSet(Of(Sorted(list), q))
    <3>1. IsFiniteSet(1 .. n)
      BY FS_Interval
    <3> QED
      BY <2>1, <3>1, FS_Subset
  <2> QED
    BY <2>5, <2>6, FS_Bijection DEF ExistsBijection, Count
<1>5. \A i, j \in 1 .. n : i < j => ~Before(Sorted(list)[j], Sorted(list)[i])
  BY <1>1, <1>2 DEF Before
<1>6. \A i \in 1 .. n : \E j \in 1 .. n : Sorted(list)[i] = list[j]
  BY <1>2, <1>3
<1> QED
  BY <1>2, <1>4, <1>5, <1>6

(* Sorting keeps the length. *)
LEMMA SortedLength ==
  ASSUME NEW list, NEW n \in Nat, DOMAIN Sorted(list) = 1 .. n
  PROVE  Len(Sorted(list)) = n
<1>1. Sorted(list) = [i \in 1 .. n |-> Sorted(list)[i]]
  BY DEF Sorted
<1> HIDE DEF Sorted
<1> QED
  BY <1>1

(* Identifiers of snapshots have a place in the order. *)
LEMMA SnapshotsRanked == \A s \in Snapshots : Rank[s.provider] \in Int
<1>1. \A p, now : CodexSnapshot(p, now).provider = "codex"
  BY DEF CodexSnapshot
<1> QED
  BY <1>1, RankAssumption DEF Snapshots

(* A list has finitely many entries of a provider. *)
LEMMA CountOfList ==
  ASSUME NEW S, NEW list \in Seq(S), NEW q
  PROVE  Count(list, q) \in Nat
<1>1. DOMAIN list = 1 .. Len(list) /\ Len(list) \in Nat
  BY LenProperties
<1>2. IsFiniteSet(1 .. Len(list)) /\ Of(list, q) \subseteq 1 .. Len(list)
  BY <1>1, FS_Interval DEF Of
<1>3. IsFiniteSet(Of(list, q))
  BY <1>2, FS_Subset
<1> QED
  BY <1>3, FS_CardinalityType DEF Count

(* Appending adds the one entry. *)
LEMMA AppendedEntries ==
  ASSUME NEW S, NEW list \in Seq(S), NEW e \in S
  PROVE  LET longer == Append(list, e) IN
         /\ longer \in Seq(S) /\ Len(longer) = Len(list) + 1
         /\ \A i \in DOMAIN longer :
              longer[i] = e \/ \E j \in DOMAIN list : longer[i] = list[j]
<1> DEFINE longer == Append(list, e)
<1>1. /\ longer \in Seq(S) /\ Len(longer) = Len(list) + 1
      /\ \A k \in 1 .. Len(list) : longer[k] = list[k]
      /\ longer[Len(list) + 1] = e
  BY AppendProperties
<1>2. DOMAIN list = 1 .. Len(list) /\ Len(list) \in Nat /\ DOMAIN longer = 1 .. Len(list) + 1
  BY <1>1, LenProperties
<1>3. \A i \in 1 .. Len(list) + 1 : i \in 1 .. Len(list) \/ i = Len(list) + 1
  BY <1>2
<1> HIDE DEF longer
<1>4. \A i \in DOMAIN longer : longer[i] = e \/ \E j \in DOMAIN list : longer[i] = list[j]
  BY <1>1, <1>2, <1>3
<1> QED
  BY <1>1, <1>4 DEF longer

(* A list is one over any larger set. *)
LEMMA SeqGrows ==
  ASSUME NEW S, NEW list \in Seq(S), NEW e
  PROVE  list \in Seq(S \union {e})
<1>1. /\ Len(list) \in Nat /\ DOMAIN list = 1 .. Len(list) /\ list \in [1 .. Len(list) -> S]
  BY LenProperties
<1>2. list \in [1 .. Len(list) -> S \union {e}]
  BY <1>1
<1> QED
  BY <1>1, <1>2, SeqDef

(* An entry more counts for its own provider. *)
LEMMA CountGrows ==
  ASSUME NEW S, NEW list \in Seq(S), NEW e \in S, NEW q
  PROVE  /\ Count(list, q) \in Nat
         /\ Count(Append(list, e), q) = Count(list, q) + (IF e.provider = q THEN 1 ELSE 0)
<1> DEFINE n == Len(list)  longer == Append(list, e)
<1>1. /\ n \in Nat /\ DOMAIN list = 1 .. n /\ DOMAIN longer = 1 .. n + 1
      /\ \A k \in 1 .. n : longer[k] = list[k]
      /\ longer[n + 1] = e
  BY AppendProperties, LenProperties
<1> HIDE DEF n, longer
<1>2. Of(longer, q) = IF e.provider = q THEN Of(list, q) \union {n + 1} ELSE Of(list, q)
  <2>1. \A k : k \in 1 .. n + 1 <=> k \in 1 .. n \/ k = n + 1
    BY <1>1
  <2> QED
    BY <1>1, <2>1 DEF Of
<1>3. Of(list, q) \subseteq 1 .. n /\ n + 1 \notin Of(list, q)
  BY <1>1 DEF Of
<1>4. IsFiniteSet(Of(list, q)) /\ Count(list, q) \in Nat
  <2>1. IsFiniteSet(1 .. n)
    BY <1>1, FS_Interval
  <2>2. IsFiniteSet(Of(list, q))
    BY <1>3, <2>1, FS_Subset
  <2> QED
    BY <2>2, FS_CardinalityType DEF Count
<1>5. Count(longer, q) = Count(list, q) + (IF e.provider = q THEN 1 ELSE 0)
  <2>1. Cardinality(Of(list, q) \union {n + 1}) = Cardinality(Of(list, q)) + 1
    BY <1>3, <1>4, FS_AddElement
  <2> QED
    BY <1>2, <1>4, <2>1 DEF Count
<1> QED
  BY <1>4, <1>5 DEF longer

-----------------------------------------------------------------------------
(* The aggregate.                                                          *)

Shares == [num : Nat, den : Nat \ {0}]

(* What is below the least share is least. *)
LEMMA LessIsLeast ==
  ASSUME NEW old \in Shares, NEW least \in Shares, NEW new \in Shares,
         ~RatioLess(old, least), RatioLess(new, least)
  PROVE  ~RatioLess(old, new)
<1>1. PICK a \in Nat, b \in Nat \ {0} : old = [num |-> a, den |-> b]
  BY DEF Shares
<1>2. PICK c \in Nat, d \in Nat \ {0} : least = [num |-> c, den |-> d]
  BY DEF Shares
<1>3. PICK e \in Nat, f \in Nat \ {0} : new = [num |-> e, den |-> f]
  BY DEF Shares
<1>4. c * b <= a * d /\ e * d < c * f
  BY <1>1, <1>2, <1>3 DEF RatioLess
<1>5. SUFFICES ASSUME a * f < e * b PROVE FALSE
  BY <1>1, <1>3 DEF RatioLess
<1>6. \A x, y \in Int, z \in Nat \ {0} : x < y => x * z < y * z
  OBVIOUS
<1>7. \A x, y \in Int, z \in Nat \ {0} : x <= y => x * z <= y * z
  OBVIOUS
<1>8. (a * f) * d < (e * b) * d
  BY <1>5, <1>6
<1>9. (e * d) * b < (c * f) * b
  BY <1>4, <1>6
<1>10. (c * b) * f <= (a * d) * f
  BY <1>4, <1>7
<1>11. /\ (e * b) * d = (e * d) * b /\ (c * f) * b = (c * b) * f /\ (a * d) * f = (a * f) * d
  OBVIOUS
<1>12. /\ (a * f) * d \in Int /\ (e * b) * d \in Int /\ (c * f) * b \in Int
       /\ (c * b) * f \in Int
  OBVIOUS
<1> QED
  BY <1>8, <1>9, <1>10, <1>11, <1>12

Entries == [provider : {s.provider : s \in Snapshots}, share : Shares]

Lists ==
  /\ query \in StatusQueries
  /\ taken \in Seq(Snapshots) /\ \A k \in DOMAIN taken : SnapshotAccepted(taken[k])
  /\ included \in Seq(Entries)

(* What was included is comparable, ... *)
IncludedComparable ==
  \A k \in DOMAIN included : \E w \in ComparableWindows :
    /\ included[k].share = RemainingShare(w)
    /\ RemainingShare(w).num = w.remaining.value /\ w.limit.value > 0

(* ... what is comparable was included, ... *)
ComparableIncluded ==
  \A w \in ComparableWindows : \E k \in DOMAIN included : included[k].share = RemainingShare(w)

(* ... and one entry is the least. *)
LeastOf(i) == \A j \in DOMAIN included : ~RatioLess(included[j].share, included[i].share)
LeastIncluded == included # <<>> => \E i \in DOMAIN included : LeastOf(i)

(* Every snapshot looked at is in one of the lists, ... *)
Exclusions == [provider : {s.provider : s \in Snapshots}, reason : Reasons]
EverySnapshotListed ==
  /\ exclusions \in Seq(Exclusions)
  /\ outcome # Raised =>
       /\ Len(taken) = Len(included) + Len(exclusions)
       /\ \A q : Count(taken, q) = Count(included, q) + Count(exclusions, q)

(* ... and what was left out was so for a reason that is true of it. *)
Justified(e) ==
  \E k \in DOMAIN taken : taken[k].provider = e.provider /\ Explains(e.reason, taken[k])
ExclusionsJustified == \A i \in DOMAIN exclusions : Justified(exclusions[i])

Ended ==
  /\ outcome.kind = "aggregate" =>
       /\ outcome.lowest = Lowest(included)
       /\ outcome.included = Sorted(included) /\ outcome.exclusions = Sorted(exclusions)
  /\ outcome = Raised /\ QueryAccepted(query) => \E w \in ComparableWindows : w.limit.value = 0

LoopInv ==
  /\ Lists /\ IncludedComparable /\ (outcome # Raised => ComparableIncluded)
  /\ LeastIncluded /\ EverySnapshotListed /\ ExclusionsJustified /\ Ended

MappingInv ==
  \/ payload = None /\ mapped = Pending
  \/ payload \in Payloads /\ \E observed \in {0, Now} : mapped = MapPayload(payload, observed)

(* What is comparable grows by what is comparable of the snapshot taken. *)
LEMMA ComparableGrows ==
  ASSUME taken \in Seq(Snapshots), NEW s \in Snapshots, taken' = Append(taken, s),
         UNCHANGED query
  PROVE  ComparableWindows' = ComparableWindows \union ComparableOf(s)
<1>1. Range(taken') = Range(taken) \union {s}
  <2>1. /\ taken' \in Seq(Snapshots) /\ Len(taken') = Len(taken) + 1
        /\ \A k \in 1 .. Len(taken) : taken'[k] = taken[k]
        /\ taken'[Len(taken) + 1] = s
    BY AppendProperties
  <2>2. DOMAIN taken = 1 .. Len(taken) /\ DOMAIN taken' = 1 .. Len(taken) + 1
        /\ Len(taken) \in Nat
    BY <2>1, LenProperties
  <2> QED
    BY <2>1, <2>2 DEF Range
<1>2. \A t : ComparableOf(t)' = ComparableOf(t)
  BY DEF ComparableOf, Comparable, Asked, Alike
<1>3. ComparableWindows = UNION {ComparableOf(t) : t \in Range(taken)}
  BY DEF ComparableWindows, ComparableOf
<1>4. ComparableWindows' = UNION {ComparableOf(t)' : t \in Range(taken')}
  BY DEF ComparableWindows, ComparableOf
<1> QED
  BY <1>1, <1>2, <1>3, <1>4

(* A step that looks at a snapshot lists it once, and explains it. *)
LEMMA ConsiderLists ==
  ASSUME LoopInv, outcome = Pending, NEW s \in Snapshots, SnapshotAccepted(s), Consider(s)
  PROVE  EverySnapshotListed' /\ ExclusionsJustified'
<1>1. /\ taken' = Append(taken, s) /\ query' = query /\ outcome # Raised
      /\ query \in StatusQueries /\ taken \in Seq(Snapshots)
      /\ included \in Seq(Entries) /\ exclusions \in Seq(Exclusions)
  BY DEF Consider, LoopInv, Lists, EverySnapshotListed, Pending, Raised
<1>2. /\ Len(taken) = Len(included) + Len(exclusions)
      /\ \A q : Count(taken, q) = Count(included, q) + Count(exclusions, q)
      /\ ExclusionsJustified
  BY <1>1 DEF LoopInv, EverySnapshotListed
<1>3. /\ Len(taken') = Len(taken) + 1
      /\ \A k \in DOMAIN taken : k \in DOMAIN taken' /\ taken'[k] = taken[k]
      /\ Len(taken) + 1 \in DOMAIN taken' /\ taken'[Len(taken) + 1] = s
  <2>1. DOMAIN taken = 1 .. Len(taken) /\ Len(taken) \in Nat
    BY <1>1, LenProperties
  <2>2. /\ taken' \in Seq(Snapshots) /\ Len(taken') = Len(taken) + 1
        /\ \A k \in 1 .. Len(taken) : taken'[k] = taken[k]
        /\ taken'[Len(taken) + 1] = s
    BY <1>1, AppendProperties
  <2>3. DOMAIN taken' = 1 .. Len(taken) + 1
    BY <2>2, LenProperties
  <2> QED
    BY <2>1, <2>2, <2>3
<1>4. \A q : /\ Count(taken', q) = Count(taken, q) + (IF s.provider = q THEN 1 ELSE 0)
            /\ Count(included, q) \in Nat /\ Count(exclusions, q) \in Nat
  <2> TAKE q
  <2>1. Count(taken', q) = Count(taken, q) + (IF s.provider = q THEN 1 ELSE 0)
    BY <1>1, CountGrows
  <2>2. Count(included, q) \in Nat /\ Count(exclusions, q) \in Nat
    BY <1>1, CountOfList
  <2> QED
    BY <2>1, <2>2
<1>5. Len(included) \in Nat /\ Len(exclusions) \in Nat
  BY <1>1, LenProperties
<1>6. \A reason, t : Explains(reason, t)' = Explains(reason, t)
  BY <1>1 DEF Explains, Asked, Alike
<1>7. \A e : Justified(e) => Justified(e)'
  BY <1>3, <1>6 DEF Justified
<1>8. CASE Failing(s) # {}
  <2>1. LET reason == Checks(s)[Min(Failing(s))][1] IN
        reason \in Reasons /\ Explains(reason, s)
    BY <1>1, <1>8, SnapshotsMeasured, FailingExplains
  <2>2. /\ exclusions' = Append(exclusions, [provider |-> s.provider,
                                           reason |-> Checks(s)[Min(Failing(s))][1]])
        /\ included' = included /\ outcome' = outcome
    BY <1>8 DEF Consider, Exclude, Include, RaiseShare
  <2>3. PICK entry \in Exclusions :
          /\ exclusions' = Append(exclusions, entry)
          /\ entry.provider = s.provider /\ Explains(entry.reason, s)
    BY <2>1, <2>2 DEF Exclusions
  <2>4. Justified(entry)'
    BY <1>3, <1>6, <2>3 DEF Justified
  <2>5. /\ exclusions' \in Seq(Exclusions) /\ Len(exclusions') = Len(exclusions) + 1
        /\ \A i \in DOMAIN exclusions' :
             exclusions'[i] = entry \/ \E j \in DOMAIN exclusions : exclusions'[i] = exclusions[j]
    BY <1>1, <2>3, AppendedEntries
  <2>6. ExclusionsJustified'
    BY <1>2, <1>7, <2>4, <2>5 DEF ExclusionsJustified
  <2>7. \A q : Count(exclusions', q) = Count(exclusions, q) + (IF s.provider = q THEN 1 ELSE 0)
    BY <1>1, <2>3, CountGrows
  <2>8. \A q : Count(taken', q) = Count(included', q) + Count(exclusions', q)
    <3> TAKE q
    <3>1. /\ Count(taken', q) = Count(taken, q) + (IF s.provider = q THEN 1 ELSE 0)
          /\ Count(exclusions', q) = Count(exclusions, q) + (IF s.provider = q THEN 1 ELSE 0)
          /\ Count(taken, q) = Count(included, q) + Count(exclusions, q)
          /\ Count(included, q) \in Nat /\ Count(exclusions, q) \in Nat
      BY <1>2, <1>4, <2>7
    <3> QED
      BY <2>2, <3>1
  <2>9. Len(taken') = Len(included') + Len(exclusions')
    BY <1>2, <1>3, <1>5, <2>2, <2>5
  <2> QED
    BY <2>5, <2>6, <2>8, <2>9 DEF EverySnapshotListed
<1>9. CASE Failing(s) = {}
  <2>1. exclusions' = exclusions
    BY <1>9 DEF Consider, Exclude, Include, RaiseShare, lists
  <2>2. ExclusionsJustified'
    BY <1>2, <1>7, <2>1 DEF ExclusionsJustified
  <2>3. CASE outcome' = Raised
    BY <1>1, <2>1, <2>2, <2>3 DEF EverySnapshotListed
  <2>4. CASE outcome' # Raised
    <3>1. PICK i \in Compatible(s) :
            included' = Append(included, [provider |-> s.provider,
                                          share |-> RemainingShare(s.windows[i])])
      BY <1>9, <2>4 DEF Consider, Exclude, Include, RaiseShare
    <3> DEFINE entry == [provider |-> s.provider, share |-> RemainingShare(s.windows[i])]
               S == Entries \union {entry}
    <3>2. /\ included \in Seq(S) /\ entry \in S /\ included' = Append(included, entry)
          /\ entry.provider = s.provider
      BY <1>1, <3>1, SeqGrows
    <3> HIDE DEF entry, S
    <3>3. Len(included') = Len(included) + 1
      BY <3>2, AppendedEntries
    <3>4. \A q : Count(included', q) = Count(included, q) + (IF s.provider = q THEN 1 ELSE 0)
      BY <3>2, CountGrows
    <3>5. \A q : Count(taken', q) = Count(included', q) + Count(exclusions', q)
      <4> TAKE q
      <4>1. /\ Count(taken', q) = Count(taken, q) + (IF s.provider = q THEN 1 ELSE 0)
            /\ Count(included', q) = Count(included, q) + (IF s.provider = q THEN 1 ELSE 0)
            /\ Count(taken, q) = Count(included, q) + Count(exclusions, q)
            /\ Count(included, q) \in Nat /\ Count(exclusions, q) \in Nat
        BY <1>2, <1>4, <3>4
      <4> QED
        BY <2>1, <4>1
    <3>6. Len(taken') = Len(included') + Len(exclusions')
      BY <1>2, <1>3, <1>5, <2>1, <3>3
    <3> QED
      BY <1>1, <2>1, <2>2, <3>5, <3>6 DEF EverySnapshotListed
  <2> QED
    BY <2>3, <2>4
<1> QED
  BY <1>8, <1>9

(* A step that looks at a snapshot keeps the invariant of the loop. *)
LEMMA ConsiderInv ==
  ASSUME LoopInv, outcome = Pending, NEW s \in Snapshots, SnapshotAccepted(s), Consider(s)
  PROVE  LoopInv'
<1>1. Measured(s)
  BY SnapshotsMeasured
<1>2. taken' = Append(taken, s) /\ query' = query /\ Lists
  BY DEF Consider, LoopInv
<1>3. taken' \in Seq(Snapshots) /\ \A k \in DOMAIN taken' : SnapshotAccepted(taken'[k])
  <2>1. /\ taken' \in Seq(Snapshots) /\ Len(taken') = Len(taken) + 1
        /\ \A k \in 1 .. Len(taken) : taken'[k] = taken[k]
        /\ taken'[Len(taken) + 1] = s
    BY <1>2, AppendProperties DEF Lists
  <2>2. DOMAIN taken = 1 .. Len(taken) /\ DOMAIN taken' = 1 .. Len(taken) + 1
        /\ Len(taken) \in Nat
    BY <1>2, <2>1, LenProperties DEF Lists
  <2> QED
    BY <1>2, <2>1, <2>2 DEF Lists
<1>4. ComparableWindows' = ComparableWindows \union ComparableOf(s)
  BY <1>2, ComparableGrows DEF Lists
<1>5. outcome # Raised /\ outcome.kind # "aggregate" /\ ComparableIncluded
  BY DEF Pending, Raised, LoopInv
<1>a. EverySnapshotListed' /\ ExclusionsJustified'
  BY ConsiderLists
<1>6. CASE Failing(s) # {}
  <2>1. included' = included /\ outcome' = outcome
    BY <1>6 DEF Consider, Exclude, Include, RaiseShare
  <2>2. ComparableWindows' = ComparableWindows
    BY <1>1, <1>2, <1>4, <1>6, ChecksAreComparability DEF Lists
  <2>3. Lists' /\ IncludedComparable' /\ ComparableIncluded' /\ LeastIncluded' /\ Ended'
    BY <1>2, <1>3, <1>5, <2>1, <2>2
    DEF LoopInv, Lists, IncludedComparable, ComparableIncluded, LeastIncluded, LeastOf, Ended
  <2> QED
    BY <1>a, <2>3 DEF LoopInv
<1>7. CASE Failing(s) = {}
  <2>1. PICK i \in DOMAIN s.windows :
          /\ Compatible(s) = {i} /\ ComparableOf(s) = {s.windows[i]}
          /\ Comparable(s, s.windows[i])
    BY <1>1, <1>2, <1>7, ChecksAreComparability DEF Lists
  <2> DEFINE w == s.windows[i]
             entry == [provider |-> s.provider, share |-> RemainingShare(w)]
  <2>2. ComparableWindows' = ComparableWindows \union {w}
    BY <1>4, <2>1
  <2>3. CASE ShareRaises(w, w.remaining)
    <3>1. outcome' = Raised /\ included' = included
      BY <1>7, <2>1, <2>3 DEF Consider, Exclude, Include, RaiseShare, lists
    <3>2. w.limit.value = 0
      BY <1>1, <2>1, <2>3, ShareOfComparable
    <3>3. outcome'.kind # "aggregate"
      BY <3>1 DEF Raised
    <3>4. Lists' /\ IncludedComparable' /\ LeastIncluded' /\ Ended'
      <4> HIDE DEF w
      <4> QED
        BY <1>2, <1>3, <2>2, <3>1, <3>2, <3>3
        DEF LoopInv, Lists, IncludedComparable, LeastIncluded, LeastOf, Ended
    <3> QED
      BY <1>a, <3>1, <3>4 DEF LoopInv
  <2>4. CASE ~ShareRaises(w, w.remaining)
    <3>1. included' = Append(included, entry) /\ outcome' = outcome
      BY <1>7, <2>1, <2>4 DEF Consider, Exclude, Include, RaiseShare
    <3>2. /\ RemainingShare(w) \in Shares /\ w.limit.value > 0
          /\ RemainingShare(w).num = w.remaining.value
      BY <1>1, <2>1, <2>4, ShareOfComparable DEF Shares
    <3>3. entry \in Entries /\ entry.share = RemainingShare(w)
      BY <3>2 DEF Entries
    <3> HIDE DEF w, entry
    <3> DEFINE n == Len(included)
    <3>4. /\ included' \in Seq(Entries) /\ n \in Nat
          /\ DOMAIN included = 1 .. n /\ DOMAIN included' = 1 .. n + 1
          /\ \A k \in 1 .. n : included'[k] = included[k]
          /\ included'[n + 1] = entry
      BY <1>2, <3>1, <3>3, AppendProperties, LenProperties DEF Lists
    <3>5. \A k \in DOMAIN included' : k \in 1 .. n \/ k = n + 1
      BY <3>4
    <3>6. n + 1 \in DOMAIN included' /\ \A k \in 1 .. n : k \in DOMAIN included'
      BY <3>4
    <3>7. \A k \in DOMAIN included' : included'[k].share \in Shares
      <4>1. \A e \in Entries : e.share \in Shares
        BY DEF Entries
      <4>2. \A k \in DOMAIN included' : included'[k] \in Entries
        BY <3>4
      <4> QED
        BY <4>1, <4>2
    <3> HIDE DEF n
    <3>8. Lists'
      BY <1>2, <1>3, <3>4 DEF Lists
    <3>9. IncludedComparable'
      BY <2>2, <3>2, <3>3, <3>4, <3>5 DEF LoopInv, IncludedComparable
    <3>10. ComparableIncluded'
      BY <1>5, <2>2, <3>3, <3>4, <3>6 DEF ComparableIncluded
    <3>11. LeastIncluded'
      <4>1. entry.share \in Shares /\ ~RatioLess(entry.share, entry.share)
        BY <3>2, <3>3 DEF RatioLess, Shares
      <4>2. CASE included = <<>>
        <5>1. n = 0
          BY <4>2 DEF n
        <5>2. \A k \in DOMAIN included' : k = n + 1
          BY <3>4, <5>1
        <5> QED
          BY <3>4, <3>6, <4>1, <5>2 DEF LeastIncluded, LeastOf
      <4>3. CASE included # <<>>
        <5>1. PICK m \in DOMAIN included : LeastOf(m)
          BY <4>3 DEF LoopInv, LeastIncluded
        <5>2. included[m].share \in Shares /\ \A k \in 1 .. n : included[k].share \in Shares
          BY <3>4, <3>6, <3>7, <5>1
        <5>3. CASE RatioLess(entry.share, included[m].share)
          <6>1. \A k \in 1 .. n : ~RatioLess(included[k].share, entry.share)
            BY <3>4, <4>1, <5>1, <5>2, <5>3, LessIsLeast DEF LeastOf
          <6> QED
            BY <3>4, <3>5, <3>6, <4>1, <6>1 DEF LeastIncluded, LeastOf
        <5>4. CASE ~RatioLess(entry.share, included[m].share)
          <6>1. m \in DOMAIN included' /\ included'[m] = included[m]
            BY <3>4, <3>6, <5>1
          <6> QED
            BY <3>4, <3>5, <5>1, <5>4, <6>1 DEF LeastIncluded, LeastOf
        <5> QED
          BY <5>3, <5>4
      <4> QED
        BY <4>2, <4>3
    <3>12. Ended'
      BY <1>5, <3>1 DEF Ended
    <3> QED
      BY <1>a, <3>8, <3>9, <3>10, <3>11, <3>12 DEF LoopInv
  <2> QED
    BY <2>3, <2>4
<1> QED
  BY <1>6, <1>7

AggregateInv == LoopInv /\ MappingInv

LEMMA AggregateInitInv == AggregateInit => AggregateInv
<1> SUFFICES ASSUME AggregateInit PROVE AggregateInv
  OBVIOUS
<1>1. /\ query \in StatusQueries /\ taken = <<>> /\ included = <<>>
      /\ payload = None /\ mapped = Pending /\ outcome = Pending
  BY InputsAssumption DEF AggregateInit
<1>2. ComparableWindows = {}
  <2>1. Range(taken) = {}
    BY <1>1 DEF Range
  <2> QED
    BY <2>1 DEF ComparableWindows
<1>3. outcome.kind = "pending" /\ outcome # Raised
  BY <1>1 DEF Pending, Raised
<1>4. EverySnapshotListed /\ ExclusionsJustified
  <2>1. exclusions = <<>> /\ taken = <<>> /\ included = <<>>
    BY <1>1 DEF AggregateInit
  <2>2. Len(<<>>) = 0 /\ <<>> \in Seq(Exclusions) /\ DOMAIN <<>> = {}
    OBVIOUS
  <2>3. \A q : Count(<<>>, q) = 0
    BY <2>2, FS_EmptySet DEF Count, Of
  <2> QED
    BY <2>1, <2>2, <2>3 DEF EverySnapshotListed, ExclusionsJustified
<1> QED
  BY <1>1, <1>2, <1>3, <1>4
  DEF AggregateInv, LoopInv, MappingInv, Lists, IncludedComparable, ComparableIncluded,
      LeastIncluded, Ended

(* What does not touch the loop leaves its invariant. *)
LEMMA LoopUntouched ==
  ASSUME LoopInv, UNCHANGED <<query, taken, lists>>, Ended'
  PROVE  outcome' = outcome \/ outcome # Raised => LoopInv'
<1>1. UNCHANGED <<query, taken, included, exclusions>>
  BY DEF lists
<1>2. ComparableWindows' = ComparableWindows
  BY <1>1 DEF ComparableWindows, Comparable, Asked, Alike
<1>3. ExclusionsJustified'
  BY <1>1 DEF LoopInv, ExclusionsJustified, Justified, Explains, Asked, Alike
<1>4. outcome' = outcome \/ outcome # Raised => EverySnapshotListed'
  BY <1>1 DEF LoopInv, EverySnapshotListed, Count, Of
<1> QED
  BY <1>1, <1>2, <1>3, <1>4
  DEF LoopInv, Lists, IncludedComparable, ComparableIncluded, LeastIncluded, LeastOf

LEMMA AggregateStepInv == AggregateInv /\ [AggregateNext]_aggregateVars => AggregateInv'
<1> SUFFICES ASSUME AggregateInv, [AggregateNext]_aggregateVars PROVE AggregateInv'
  OBVIOUS
<1>1. LoopInv /\ MappingInv /\ Ended
  BY DEF AggregateInv, LoopInv
<1>2. outcome = Pending => outcome # Raised /\ outcome.kind # "aggregate"
  BY DEF Pending, Raised
<1>3. CASE RefuseQuery
  <2> USE <1>3 DEF RefuseQuery
  <2>1. outcome' = Raised /\ ~QueryAccepted(query)' /\ outcome'.kind # "aggregate"
    BY DEF QueryAccepted, Raised
  <2> QED
    BY <1>1, <1>2, <2>1, LoopUntouched DEF AggregateInv, MappingInv, Ended
<1>4. CASE ReadCodex
  <2> USE <1>4 DEF ReadCodex, Running
  <2>1. Ended' /\ MappingInv'
    BY <1>2 DEF Ended, MappingInv
  <2> QED
    BY <1>1, <2>1, LoopUntouched DEF AggregateInv
<1>5. CASE TakeMapped
  <2>1. /\ outcome = Pending /\ mapped.kind = "snapshot" /\ Consider(mapped.snapshot)
        /\ payload' = None /\ mapped' = Pending
    BY <1>5 DEF TakeMapped, Running
  <2>2. mapped # Pending
    BY <2>1 DEF Pending
  <2>3. PICK observed \in {0, Now} : payload \in Payloads /\ mapped = MapPayload(payload, observed)
    BY <1>1, <2>2 DEF MappingInv
  <2>4. payload \in RawPayloads /\ observed \in Nat
    BY <2>3, InputsAssumption
  <2>5. /\ mapped.snapshot = CodexSnapshot(payload, observed)
        /\ SnapshotAccepted(mapped.snapshot)
    BY <2>1, <2>3, <2>4, PayloadSurvives
  <2>6. mapped.snapshot \in Snapshots
    BY <2>3, <2>5 DEF Snapshots
  <2>7. LoopInv'
    BY <1>1, <2>1, <2>5, <2>6, ConsiderInv
  <2> QED
    BY <2>1, <2>7 DEF AggregateInv, MappingInv
<1>6. CASE TakeSupplied
  <2>1. PICK s \in Supplied : SnapshotAccepted(s) /\ Consider(s)
    BY <1>6 DEF TakeSupplied
  <2>2. outcome = Pending /\ UNCHANGED <<payload, mapped>> /\ s \in Snapshots
    BY <1>6, <2>1 DEF TakeSupplied, Running, Snapshots
  <2>3. LoopInv'
    BY <1>1, <2>1, <2>2, ConsiderInv
  <2> QED
    BY <1>1, <2>2, <2>3 DEF AggregateInv, MappingInv
<1>7. CASE Conclude
  <2> USE <1>7 DEF Conclude
  <2>1. /\ outcome'.kind = "aggregate" /\ outcome'.lowest = Lowest(included)
        /\ outcome'.included = Sorted(included) /\ outcome'.exclusions = Sorted(exclusions)
    OBVIOUS
  <2>2. outcome' # Raised /\ included' = included /\ exclusions' = exclusions
    BY <2>1 DEF Raised, lists
  <2>3. Ended'
    <3>1. /\ Lowest(included)' = Lowest(included)
          /\ Sorted(included)' = Sorted(included) /\ Sorted(exclusions)' = Sorted(exclusions)
      BY <2>2 DEF Lowest, Sorted, Place, Precedes
    <3> QED
      BY <2>1, <2>2, <3>1 DEF Ended
  <2> QED
    BY <1>1, <1>2, <2>3, LoopUntouched DEF AggregateInv, MappingInv
<1>8. CASE UNCHANGED aggregateVars
  <2>1. UNCHANGED <<query, taken, payload, mapped, included, exclusions, outcome>>
    BY <1>8 DEF aggregateVars, lists
  <2>2. ComparableWindows' = ComparableWindows /\ QueryAccepted(query)' = QueryAccepted(query)
        /\ Lowest(included)' = Lowest(included)
        /\ Sorted(included)' = Sorted(included) /\ Sorted(exclusions)' = Sorted(exclusions)
    BY <2>1 DEF ComparableWindows, Comparable, Asked, Alike, QueryAccepted, Lowest, Sorted, Place,
                Precedes
  <2>3. Ended' /\ MappingInv'
    BY <1>1, <2>1, <2>2 DEF Ended, MappingInv
  <2> QED
    BY <1>1, <2>1, <2>3, LoopUntouched DEF AggregateInv, lists
<1> QED
  BY <1>3, <1>4, <1>5, <1>6, <1>7, <1>8 DEF AggregateNext

(* The invariant, and the two properties it holds. *)
THEOREM AggregateInvariant == AggregateSpec => []AggregateInv
BY AggregateInitInv, AggregateStepInv, PTL DEF AggregateSpec

(* A payload whose durations can be hashed gives exactly its usable        *)
(* windows, and nothing the domain's constructors refuse, or a typed       *)
(* failure.                                                                *)
THEOREM WindowsSurvive == AggregateSpec => []UsableWindowsSurvive
<1>1. AggregateInv => UsableWindowsSurvive
  <2> SUFFICES ASSUME AggregateInv, payload # None, ~HashRaises(payload)
               PROVE  Survive(payload, mapped)
    BY DEF UsableWindowsSurvive, Survive
  <2>1. PICK observed \in {0, Now} : payload \in Payloads /\ mapped = MapPayload(payload, observed)
    BY DEF AggregateInv, MappingInv
  <2>2. payload \in RawPayloads /\ observed \in Nat
    BY <2>1, InputsAssumption
  <2> QED
    BY <2>1, <2>2, PayloadSurvives
<1> QED
  BY <1>1, AggregateInvariant, PTL

(* The aggregate is the least share of the comparable windows.             *)
THEOREM LowestIsLeast == AggregateSpec => []LowestIsComparable
<1>1. AggregateInv => LowestIsComparable
  <2> SUFFICES ASSUME AggregateInv, outcome.kind = "aggregate" PROVE LowestIsComparable
    BY DEF LowestIsComparable
  <2>1. LoopInv
    BY DEF AggregateInv
  <2>2. IF ComparableWindows = {} THEN outcome.lowest = None
        ELSE /\ \E w \in ComparableWindows : RatioEqual(outcome.lowest, RemainingShare(w))
             /\ \A w \in ComparableWindows : ~RatioLess(RemainingShare(w), outcome.lowest)
             /\ outcome.lowest.num = 0 => \E w \in ComparableWindows :
                  w.remaining.value = 0 /\ w.limit.value > 0
    <3>1. outcome.lowest = Lowest(included) /\ ComparableIncluded
      BY <2>1 DEF LoopInv, Ended, Raised
    <3>2. included \in Seq(Entries) /\ DOMAIN included = 1 .. Len(included)
      BY <2>1, LenProperties DEF LoopInv, Lists
    <3>3. CASE included = <<>>
      <4>1. DOMAIN included = {} /\ Lowest(included) = None
        BY <3>3 DEF Lowest
      <4> QED
        BY <3>1, <4>1 DEF ComparableIncluded
    <3>4. CASE included # <<>>
      <4> DEFINE i == CHOOSE k \in DOMAIN included : LeastOf(k)
      <4>1. i \in DOMAIN included /\ LeastOf(i)
        BY <2>1, <3>4 DEF LoopInv, LeastIncluded
      <4>2. outcome.lowest = included[i].share
        BY <3>1, <3>4 DEF Lowest, LeastOf
      <4> HIDE DEF i
      <4>3. PICK w \in ComparableWindows :
              /\ included[i].share = RemainingShare(w)
              /\ RemainingShare(w).num = w.remaining.value /\ w.limit.value > 0
        BY <2>1, <4>1 DEF LoopInv, IncludedComparable
      <4>4. RatioEqual(outcome.lowest, RemainingShare(w))
        BY <4>2, <4>3 DEF RatioEqual
      <4>5. \A v \in ComparableWindows : ~RatioLess(RemainingShare(v), outcome.lowest)
        BY <3>1, <4>1, <4>2 DEF ComparableIncluded, LeastOf
      <4>6. outcome.lowest.num = 0 => w.remaining.value = 0 /\ w.limit.value > 0
        BY <4>2, <4>3
      <4> QED
        BY <4>3, <4>4, <4>5, <4>6
    <3> QED
      BY <3>3, <3>4
  <2> QED
    BY <2>2 DEF LowestIsComparable
<1> QED
  BY <1>1, AggregateInvariant, PTL

(* Every snapshot is counted once, in order, and left out for a reason     *)
(* that holds of it.                                                       *)
THEOREM SnapshotsExplained == AggregateSpec => []EverySnapshotExplained
<1>1. AggregateInv => EverySnapshotExplained
  <2> SUFFICES ASSUME LoopInv, outcome.kind = "aggregate" PROVE EverySnapshotExplained
    BY DEF AggregateInv, EverySnapshotExplained
  <2>1. /\ outcome.included = Sorted(included) /\ outcome.exclusions = Sorted(exclusions)
        /\ included \in Seq(Entries) /\ exclusions \in Seq(Exclusions) /\ taken \in Seq(Snapshots)
    BY DEF LoopInv, Ended, Lists, EverySnapshotListed
  <2>2. /\ Len(taken) = Len(included) + Len(exclusions)
        /\ \A q : Count(taken, q) = Count(included, q) + Count(exclusions, q)
    BY DEF LoopInv, EverySnapshotListed, Raised
  <2> DEFINE n == Len(included)
             m == Len(exclusions)
  <2>3. /\ n \in Nat /\ DOMAIN included = 1 .. n
        /\ m \in Nat /\ DOMAIN exclusions = 1 .. m
    BY <2>1, LenProperties
  <2>4. Ranked(included) /\ Ranked(exclusions)
    <3>1. \A i \in 1 .. n : included[i] \in Entries
      BY <2>1, <2>3
    <3>2. \A i \in 1 .. m : exclusions[i] \in Exclusions
      BY <2>1, <2>3
    <3>3. \A s \in Snapshots : Rank[s.provider] \in Int
      BY SnapshotsRanked
    <3> QED
      BY <2>3, <3>1, <3>2, <3>3 DEF Ranked, Entries, Exclusions
  <2>5. /\ DOMAIN Sorted(included) = 1 .. n
        /\ \A i, j \in 1 .. n : i < j => ~Before(Sorted(included)[j], Sorted(included)[i])
        /\ \A q : Count(Sorted(included), q) = Count(included, q)
    BY <2>3, <2>4, SortedKeeps
  <2>6. /\ DOMAIN Sorted(exclusions) = 1 .. m
        /\ \A i, j \in 1 .. m : i < j => ~Before(Sorted(exclusions)[j], Sorted(exclusions)[i])
        /\ \A i \in 1 .. m : \E j \in 1 .. m : Sorted(exclusions)[i] = exclusions[j]
        /\ \A q : Count(Sorted(exclusions), q) = Count(exclusions, q)
    BY <2>3, <2>4, SortedKeeps
  <2> HIDE DEF n, m
  <2>7. Len(outcome.included) + Len(outcome.exclusions) = Len(taken)
    <3>1. Len(Sorted(included)) = n /\ Len(Sorted(exclusions)) = m
      BY <2>3, <2>5, <2>6, SortedLength
    <3> QED
      BY <2>1, <2>2, <3>1 DEF n, m
  <2>8. \A list \in {outcome.included, outcome.exclusions} :
          \A i, j \in DOMAIN list : i < j => ~Before(list[j], list[i])
    BY <2>1, <2>5, <2>6
  <2>9. \A p \in DOMAIN Rank :
          Cardinality({i \in DOMAIN taken : taken[i].provider = p}) =
            Cardinality({i \in DOMAIN outcome.included : outcome.included[i].provider = p})
            + Cardinality({i \in DOMAIN outcome.exclusions : outcome.exclusions[i].provider = p})
    <3>1. \A p : /\ Count(taken, p) = Cardinality({i \in DOMAIN taken : taken[i].provider = p})
                /\ Count(Sorted(included), p) =
                     Cardinality({i \in DOMAIN outcome.included : outcome.included[i].provider = p})
                /\ Count(Sorted(exclusions), p) =
                     Cardinality({i \in DOMAIN outcome.exclusions : outcome.exclusions[i].provider = p})
      BY <2>1 DEF Count, Of
    <3>2. \A p : Count(taken, p) = Count(Sorted(included), p) + Count(Sorted(exclusions), p)
      BY <2>2, <2>5, <2>6
    <3> QED
      BY <3>1, <3>2
  <2>10. \A i \in DOMAIN outcome.exclusions : \E k \in DOMAIN taken :
           /\ taken[k].provider = outcome.exclusions[i].provider
           /\ Explains(outcome.exclusions[i].reason, taken[k])
    <3>1. \A j \in 1 .. m : Justified(exclusions[j])
      BY <2>3 DEF LoopInv, ExclusionsJustified
    <3> SUFFICES ASSUME NEW i \in 1 .. m
                 PROVE  Justified(Sorted(exclusions)[i])
      BY <2>1, <2>6 DEF Justified
    <3>2. PICK j \in 1 .. m : Sorted(exclusions)[i] = exclusions[j]
      BY <2>6
    <3> QED
      BY <3>1, <3>2
  <2> QED
    BY <2>7, <2>8, <2>9, <2>10 DEF EverySnapshotExplained
<1> QED
  BY <1>1, AggregateInvariant, PTL
=============================================================================
