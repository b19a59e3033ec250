-------------------------- MODULE MCStatusAggregate --------------------------
(***************************************************************************)
(* Values for StatusAggregate: one window and what can be different about  *)
(* it, one payload and what can be wrong with it.  Ages lie below, at and  *)
(* beyond the limit asked for.                                             *)
(***************************************************************************)
EXTENDS StatusAggregate

Quantity(n, metric, unit) == [value |-> n, metric |-> metric, unit |-> unit]
PointsOf(n) == Quantity(n, "COMMERCIAL_QUOTA", "percentage_points")
TechnicalOf(n) == Quantity(n, "TECHNICAL_RATE_LIMIT", "percentage_points")

Weekly ==
  [kind |-> "COMMERCIAL_QUOTA", scope |-> "account", period |-> "weekly", plan |-> "plus",
   availability |-> "KNOWN", source |-> "other-api", limit |-> PointsOf(8),
   used |-> PointsOf(2), remaining |-> PointsOf(6), reset |-> None]
Technical ==
  [Weekly EXCEPT !.kind = "TECHNICAL_RATE_LIMIT", !.plan = None, !.limit = TechnicalOf(4),
                 !.used = None, !.remaining = TechnicalOf(1)]
Unlimited ==
  [Weekly EXCEPT !.availability = "UNLIMITED", !.limit = None, !.used = None, !.remaining = None]

SuppliedWindows ==
  {Weekly, Technical, Unlimited,
   [Weekly EXCEPT !.plan = None, !.source = PlanlessSource],
   [Weekly EXCEPT !.plan = None],
   [Weekly EXCEPT !.plan = "pro"],
   [Weekly EXCEPT !.scope = "user"],
   [Weekly EXCEPT !.scope = " "],
   [Weekly EXCEPT !.reset = Naive],
   [Weekly EXCEPT !.remaining = None],
   [Weekly EXCEPT !.remaining = PointsOf(7)],
   [Weekly EXCEPT !.limit = None],
   [Weekly EXCEPT !.used = PointsOf(8), !.remaining = PointsOf(0)],
   [Weekly EXCEPT !.limit = PointsOf(0), !.used = None, !.remaining = PointsOf(0)],
   [Weekly EXCEPT !.limit = Quantity(8, "COMMERCIAL_QUOTA", "requests"), !.used = None,
                  !.remaining = Quantity(3, "COMMERCIAL_QUOTA", "requests")]}

Usages ==
  {None,
   [provider |-> "other", observedAt |-> 0, availability |-> "KNOWN", balance |-> None,
    tokenLimit |-> Quantity(5, "TOKENS", "tokens"), tokenUsed |-> Quantity(1, "TOKENS", "tokens")]}

MCNow == 10

Supply(provider, state, at, windows, usage) ==
  [provider |-> provider, state |-> state, observedAt |-> 0, dataAt |-> 0, fetchedAt |-> at,
   windows |-> windows, usage |-> usage, credits |-> None]

MCSupplied ==
  {Supply("opencode-go", "AVAILABLE", at, <<w>>, None) :
     at \in {0, MCNow - 5}, w \in SuppliedWindows}
  \union {Supply("other", state, MCNow, ws, usage) :
            state \in {"PARTIAL", "RATE_LIMITED", "UNAVAILABLE"}, usage \in Usages,
            ws \in {<<>>, <<Weekly>>, <<Technical>>, <<Unlimited>>, <<Weekly, Technical>>,
                    <<Weekly, [Weekly EXCEPT !.plan = "pro"]>>}}

Query(kind, plan) ==
  [kind |-> kind, scope |-> "account", period |-> "weekly", plan |-> plan,
   unit |-> "percentage_points", maximumAge |-> 5]

MCQueries ==
  {Query("COMMERCIAL_QUOTA", "plus"), Query("COMMERCIAL_QUOTA", None),
   Query("TECHNICAL_RATE_LIMIT", None), Query("OTHER", "plus"),
   [Query("COMMERCIAL_QUOTA", "plus") EXCEPT !.maximumAge = -1]}

-----------------------------------------------------------------------------

RawWindow(duration, used, reset) == [duration |-> duration, used |-> used, reset |-> reset]

MCRawWindows ==
  {None, NotObject}
  \union {RawWindow(d, 40, None) : d \in {300, 10080, 60, NotInteger, Unhashable}}
  \union {RawWindow(10080, u, 7) : u \in {0, 100, 101, NotInteger}}
  \union {RawWindow(300, 40, r) : r \in {7, 99, NotInteger}}

Payload(bucket, plan, primary, secondary, credits) ==
  [bucket |-> bucket, plan |-> plan, primary |-> primary, secondary |-> secondary,
   credits |-> credits]

FiveHours == RawWindow(300, 40, 7)

RawCredit ==
  [id |-> "c", resetType |-> "codexRateLimits", status |-> "available", grantedAt |-> 7,
   expiresAt |-> None, texts |-> TRUE]

MCCredits ==
  {None, NotObject}
  \union {[count |-> n, credits |-> None] : n \in {0, 9, 10, NotInteger}}
  \union {[count |-> 1, credits |-> c] :
            c \in {NotObject, <<>>, <<RawCredit>>, <<RawCredit, NotObject>>,
                   <<[RawCredit EXCEPT !.status = "lost"]>>,
                   <<[RawCredit EXCEPT !.grantedAt = 99]>>,
                   <<RawCredit, [RawCredit EXCEPT !.expiresAt = NotInteger]>>}}

MCPayloads ==
  {Payload("codex", "plus", p, s, None) : p \in MCRawWindows, s \in MCRawWindows}
  \union {Payload("codex", "plus", FiveHours, None, c) : c \in MCCredits}
  \union {Payload("codex", "gold", FiveHours, None, None),
          Payload("other", "plus", FiveHours, None, None)}

MCRank == [p \in {"codex", "opencode-go", "other"} |->
             IF p = "codex" THEN 1 ELSE IF p = "opencode-go" THEN 2 ELSE 3]
=============================================================================
