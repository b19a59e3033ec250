---------------------------- MODULE ProviderCache ----------------------------
(***************************************************************************)
(* CachedProviderReader (providers/cache.py): the opt-in, in-memory reuse  *)
(* of successful provider snapshots.  Several threads share one reader and *)
(* call fetch(request); any of them, or the application, may call          *)
(* invalidate.                                                             *)
(*                                                                         *)
(* The RLock protects three short sections of fetch and the whole of       *)
(* invalidate; each is one action here.  What runs outside the lock is a   *)
(* step of its own: reading the clock before the lookup, the upstream      *)
(* provider's fetch, and reading the clock again after a ProviderError.    *)
(*                                                                         *)
(* A snapshot is abstracted to what the cache and its promises tell apart: *)
(* the request it answers, its identity (serial), its fetched_at, and the  *)
(* history variable since: how many invalidations had covered its key when *)
(* the provider observed the source.                                       *)
(***************************************************************************)
EXTENDS Integers, FiniteSets

CONSTANTS
  Callers,            \* threads that call fetch
  Metrics,            \* the requested_metrics sets in use
  Policies,           \* AuthorizationPolicy values in use
  ReuseTtl,           \* ProviderCachePolicy.reuse_ttl
  MaximumStaleAge,    \* ProviderCachePolicy.maximum_stale_age
  TimedeltaMax,       \* timedelta.max
  Times,              \* the instants the wall clock may show
  MaxFetches,         \* bound: snapshots the provider produces
  MaxInvalidations,   \* bound: calls of invalidate
  None                \* Python's None, and "no such local yet"

Requests == [metrics : Metrics, policy : Policies]

(* Mutant of CacheKey: the authorization policy is left out of the key. *)
CacheKeyWithoutPolicy(r) == <<r.metrics>>

(* _CacheKey: the provider is fixed, so a key is the rest of the request. *)
CacheKey(r) == <<r.metrics, r.policy>>

Keys == {CacheKey(r) : r \in Requests}

Snapshots == [request : Requests, serial : Nat, fetchedAt : Times, since : Nat]

(* ProviderCachePolicy.__post_init__ *)
ASSUME PolicyAssumption ==
  /\ ReuseTtl \in Nat
  /\ MaximumStaleAge \in Nat
  /\ TimedeltaMax \in Nat
  /\ ReuseTtl <= MaximumStaleAge
  /\ MaximumStaleAge <= TimedeltaMax

ASSUME ClockAssumption == Times \subseteq Int

ASSUME BoundAssumption == MaxFetches \in Nat /\ MaxInvalidations \in Nat

Outcomes == {"hit", "fetched", "fallback", "raised"}
Answers == [kind : Outcomes, snapshot : Snapshots \union {None}]

ASSUME NoneAssumption ==
  /\ None \notin Answers
  /\ None \notin Snapshots
  /\ None \notin Requests
  /\ None \notin Int

VARIABLES
  entries,         \* self._entries: key -> snapshot or None
  keyGenerations,  \* self._key_generations
  generation,      \* self._generation
  clock,           \* what Clock.now() returns
  fetches,         \* snapshots produced so far: the next identity
  invalidations,   \* history: invalidations that covered each key
  pc,              \* where each caller is in fetch
  req,             \* its request
  now,             \* its local now
  prior,           \* its local prior
  seen,            \* its locals generation and key_generation
  result,          \* its local result
  floor,           \* history: invalidations[key] when its call began
  answer           \* how its latest call ended

shared == <<entries, keyGenerations, generation>>
locals == <<now, prior, seen, result>>
vars == <<entries, keyGenerations, generation, clock, fetches, invalidations,
          pc, req, now, prior, seen, result, floor, answer>>

Phases == {"idle", "lookup", "upstream", "store", "failed", "fallback"}
Generations == [all : Nat, key : Nat]

TypeOK ==
  /\ entries \in [Keys -> Snapshots \union {None}]
  /\ keyGenerations \in [Keys -> Nat]
  /\ generation \in Nat
  /\ clock \in Times
  /\ fetches \in Nat
  /\ invalidations \in [Keys -> Nat]
  /\ pc \in [Callers -> Phases]
  /\ req \in [Callers -> Requests \union {None}]
  /\ now \in [Callers -> Times \union {None}]
  /\ prior \in [Callers -> Snapshots \union {None}]
  /\ seen \in [Callers -> Generations \union {None}]
  /\ result \in [Callers -> Snapshots \union {None}]
  /\ floor \in [Callers -> Nat]
  /\ answer \in [Callers -> Answers \union {None}]

Init ==
  /\ entries = [k \in Keys |-> None]
  /\ keyGenerations = [k \in Keys |-> 0]
  /\ generation = 0
  /\ clock \in Times
  /\ fetches = 0
  /\ invalidations = [k \in Keys |-> 0]
  /\ pc = [c \in Callers |-> "idle"]
  /\ req = [c \in Callers |-> None]
  /\ now = [c \in Callers |-> None]
  /\ prior = [c \in Callers |-> None]
  /\ seen = [c \in Callers |-> None]
  /\ result = [c \in Callers |-> None]
  /\ floor = [c \in Callers |-> 0]
  /\ answer = [c \in Callers |-> None]

-----------------------------------------------------------------------------

KeyOf(c) == CacheKey(req[c])

(* Mutant of Age: the plain difference, which a clock set back makes negative. *)
AgeUnclamped(t, s) == t - s.fetchedAt

(* _age: an age below zero (the clock stepped back, or the snapshot is     *)
(* newer than this reading) counts as the largest timedelta.               *)
Age(t, s) == IF t >= s.fetchedAt THEN t - s.fetchedAt ELSE TimedeltaMax

Reusable(t, s) == s # None /\ Age(t, s) < ReuseTtl
Tolerable(t, s) == s # None /\ Age(t, s) <= MaximumStaleAge

CurrentGenerations(k) == [all |-> generation, key |-> keyGenerations[k]]

(* Mutant of GenerationsMatch: the key's own generation is not compared. *)
GenerationsMatchGlobally(c) == seen[c].all = generation

(* Mutant of CurrentEntry: the entry may have been replaced meanwhile. *)
CurrentEntryByGeneration(c) == seen[c] = CurrentGenerations(KeyOf(c))

(* _generations_match and _current_entry *)
GenerationsMatch(c) == seen[c] = CurrentGenerations(KeyOf(c))
CurrentEntry(c) == GenerationsMatch(c) /\ entries[KeyOf(c)] = prior[c]

(* The call returns or raises; its locals are gone. *)
Finish(c, kind, s) ==
  /\ pc' = [pc EXCEPT ![c] = "idle"]
  /\ answer' = [answer EXCEPT ![c] = [kind |-> kind, snapshot |-> s]]
  /\ now' = [now EXCEPT ![c] = None]
  /\ prior' = [prior EXCEPT ![c] = None]
  /\ seen' = [seen EXCEPT ![c] = None]
  /\ result' = [result EXCEPT ![c] = None]

(* fetch is called: the key is built and the clock read, before the lock. *)
Begin(c, r) ==
  /\ pc[c] = "idle"
  /\ pc' = [pc EXCEPT ![c] = "lookup"]
  /\ req' = [req EXCEPT ![c] = r]
  /\ now' = [now EXCEPT ![c] = clock]
  /\ floor' = [floor EXCEPT ![c] = invalidations[CacheKey(r)]]
  /\ answer' = [answer EXCEPT ![c] = None]
  /\ UNCHANGED <<shared, clock, fetches, invalidations, prior, seen, result>>

(* The first locked section: a young enough entry is the answer ... *)
Hit(c) ==
  /\ pc[c] = "lookup"
  /\ Reusable(now[c], entries[KeyOf(c)])
  /\ Finish(c, "hit", entries[KeyOf(c)])
  /\ UNCHANGED <<shared, clock, fetches, invalidations, req, floor>>

(* ... otherwise the prior entry and both generations are remembered. *)
Miss(c) ==
  /\ pc[c] = "lookup"
  /\ ~Reusable(now[c], entries[KeyOf(c)])
  /\ pc' = [pc EXCEPT ![c] = "upstream"]
  /\ prior' = [prior EXCEPT ![c] = entries[KeyOf(c)]]
  /\ seen' = [seen EXCEPT ![c] = CurrentGenerations(KeyOf(c))]
  /\ UNCHANGED <<shared, clock, fetches, invalidations, req, now, result,
                 floor, answer>>

(* The wrapped reader observes its source and dates the snapshot. *)
Observe(c) ==
  /\ pc[c] = "upstream"
  /\ fetches < MaxFetches
  /\ fetches' = fetches + 1
  /\ result' = [result EXCEPT ![c] =
                  [request |-> req[c], serial |-> fetches + 1,
                   fetchedAt |-> clock, since |-> invalidations[KeyOf(c)]]]
  /\ pc' = [pc EXCEPT ![c] = "store"]
  /\ UNCHANGED <<shared, clock, invalidations, req, now, prior, seen, floor,
                 answer>>

(* The wrapped reader raises ProviderError: the except clause is entered. *)
ProviderFails(c) ==
  /\ pc[c] = "upstream"
  /\ pc' = [pc EXCEPT ![c] = "failed"]
  /\ UNCHANGED <<shared, clock, fetches, invalidations, req, now, prior, seen,
                 result, floor, answer>>

(* Any other exception leaves fetch at once: no fallback for those. *)
OtherException(c) ==
  /\ pc[c] = "upstream"
  /\ Finish(c, "raised", None)
  /\ UNCHANGED <<shared, clock, fetches, invalidations, req, floor>>

(* Mutant of ReadClockAgain: the time spent upstream, not the instant. *)
ReadClockAgainElapsed(c) ==
  /\ pc[c] = "failed"
  /\ pc' = [pc EXCEPT ![c] = "fallback"]
  /\ now' = [now EXCEPT ![c] = clock - @]
  /\ UNCHANGED <<shared, clock, fetches, invalidations, req, prior, seen,
                 result, floor, answer>>

(* After a ProviderError the clock is read again, still outside the lock. *)
ReadClockAgain(c) ==
  /\ pc[c] = "failed"
  /\ pc' = [pc EXCEPT ![c] = "fallback"]
  /\ now' = [now EXCEPT ![c] = clock]
  /\ UNCHANGED <<shared, clock, fetches, invalidations, req, prior, seen,
                 result, floor, answer>>

(* The second locked section: the prior entry, if it is still the entry,   *)
(* nothing invalidated it and it is not too old ...                        *)
Fallback(c) ==
  /\ pc[c] = "fallback"
  /\ CurrentEntry(c)
  /\ Tolerable(now[c], prior[c])
  /\ Finish(c, "fallback", prior[c])
  /\ UNCHANGED <<shared, clock, fetches, invalidations, req, floor>>

(* ... otherwise the ProviderError goes to the caller. *)
Reraise(c) ==
  /\ pc[c] = "fallback"
  /\ ~(CurrentEntry(c) /\ Tolerable(now[c], prior[c]))
  /\ Finish(c, "raised", None)
  /\ UNCHANGED <<shared, clock, fetches, invalidations, req, floor>>

(* Mutant of Store: a result fetched before an invalidation is kept too. *)
StoreAlways(c) ==
  /\ pc[c] = "store"
  /\ entries' = [entries EXCEPT ![KeyOf(c)] = result[c]]
  /\ Finish(c, "fetched", result[c])
  /\ UNCHANGED <<keyGenerations, generation, clock, fetches, invalidations,
                 req, floor>>

(* The third locked section: the caller gets its result either way, but it *)
(* is kept only when nothing invalidated the key since the lookup.         *)
Store(c) ==
  /\ pc[c] = "store"
  /\ entries' = IF GenerationsMatch(c)
                THEN [entries EXCEPT ![KeyOf(c)] = result[c]]
                ELSE entries
  /\ Finish(c, "fetched", result[c])
  /\ UNCHANGED <<keyGenerations, generation, clock, fetches, invalidations,
                 req, floor>>

(* Mutant of InvalidateAll: entries are cleared, calls in flight forgotten. *)
InvalidateAllEntriesOnly ==
  /\ \A k \in Keys : invalidations[k] < MaxInvalidations
  /\ entries' = [k \in Keys |-> None]
  /\ invalidations' = [k \in Keys |-> invalidations[k] + 1]
  /\ UNCHANGED <<generation, keyGenerations, clock, fetches, pc, req, locals,
                 floor, answer>>

(* invalidate(): forget every entry and start a new generation. *)
InvalidateAll ==
  /\ generation < MaxInvalidations
  /\ entries' = [k \in Keys |-> None]
  /\ generation' = generation + 1
  /\ invalidations' = [k \in Keys |-> invalidations[k] + 1]
  /\ UNCHANGED <<keyGenerations, clock, fetches, pc, req, locals, floor, answer>>

(* invalidate(request): forget one entry and start a generation of its key. *)
InvalidateKey(r) ==
  LET k == CacheKey(r) IN
  /\ invalidations[k] < MaxInvalidations
  /\ entries' = [entries EXCEPT ![k] = None]
  /\ keyGenerations' = [keyGenerations EXCEPT ![k] = @ + 1]
  /\ invalidations' = [invalidations EXCEPT ![k] = @ + 1]
  /\ UNCHANGED <<generation, clock, fetches, pc, req, locals, floor, answer>>

(* The wall clock moves on, or is set back. *)
ClockMoves ==
  /\ \E t \in Times : t # clock /\ clock' = t
  /\ UNCHANGED <<shared, fetches, invalidations, pc, req, locals, floor, answer>>

CallerStep(c) ==
  \/ Hit(c) \/ Miss(c)
  \/ Observe(c) \/ ProviderFails(c) \/ OtherException(c)
  \/ ReadClockAgain(c) \/ Fallback(c) \/ Reraise(c) \/ Store(c)

Next ==
  \/ \E c \in Callers :
       \/ \E r \in Requests : Begin(c, r)
       \/ CallerStep(c)
  \/ InvalidateAll
  \/ \E r \in Requests : InvalidateKey(r)
  \/ ClockMoves

Spec == Init /\ [][Next]_vars

-----------------------------------------------------------------------------

(* The call of c ends in this step with a snapshot the cache supplied. *)
AnsweredByCache(c) ==
  /\ pc[c] # "idle" /\ pc'[c] = "idle"
  /\ answer'[c].kind \in {"hit", "fallback"}

(* An entry never outlives an invalidation: what the cache holds was       *)
(* observed after the last invalidate that covered its key, although a     *)
(* fetch that was in flight then may try to store its older result later.  *)
NoResurrection ==
  \A k \in Keys : entries[k] # None =>
    /\ entries[k].since = invalidations[k]
    /\ CacheKey(entries[k].request) = k

(* Whatever a call returns answers the request of that call, metrics and   *)
(* authorization policy both, even though callers share the entries.       *)
AnswersOwnRequest ==
  \A c \in Callers : answer[c] # None /\ answer[c].snapshot # None =>
    answer[c].snapshot.request = req[c]

(* A call returns nothing observed before an invalidation that had already *)
(* been made when the call began, be it a hit, a fallback or a fetch.      *)
NothingFromBeforeInvalidation ==
  \A c \in Callers : answer[c] # None /\ answer[c].snapshot # None =>
    answer[c].snapshot.since >= floor[c]

(* At the moment the cache itself answers a call it holds that snapshot,   *)
(* and nothing invalidated it: a fallback re-checks after the upstream     *)
(* failure what it read under the lock before the upstream call.           *)
CacheAnswersAreCurrent ==
  [][\A c \in Callers : AnsweredByCache(c) =>
       /\ answer'[c].snapshot = entries[KeyOf(c)]
       /\ answer'[c].snapshot.since = invalidations[KeyOf(c)]]_vars

(* A snapshot the cache supplies is dated neither after the call's own     *)
(* clock reading, whichever way the clock was set meanwhile, nor further   *)
(* before it than the policy allows for a hit and for a fallback.  It      *)
(* needs a maximum_stale_age below timedelta.max: see _age.                *)
ServedAgeInWindow ==
  [][\A c \in Callers : AnsweredByCache(c) /\ MaximumStaleAge < TimedeltaMax =>
       LET age == now[c] - answer'[c].snapshot.fetchedAt IN
       /\ age \in 0 .. MaximumStaleAge
       /\ answer'[c].kind = "hit" => age < ReuseTtl]_vars

(* The generations implement epochs: no caller can tell this cache from    *)
(* one that checks atomically whether a snapshot is of the current epoch.  *)
KeyFor(s) == CacheKey(s.request)

Promise == INSTANCE SnapshotReuse WITH held <- entries, epoch <- invalidations

ImplementsReuse == Promise!Spec

-----------------------------------------------------------------------------
(* What makes the above inductive: the two generation counters add up to   *)
(* the number of invalidations, and a call in flight remembers a sum that  *)
(* its own observation and the present can only have moved up from.        *)

GenerationsCountInvalidations ==
  \A k \in Keys : invalidations[k] = generation + keyGenerations[k]

CallRemembers(c) ==
  /\ pc[c] # "idle" =>
       /\ req[c] \in Requests
       /\ answer[c] = None
       /\ now[c] \in Times
       /\ floor[c] <= invalidations[KeyOf(c)]
  /\ pc[c] \in {"upstream", "store", "failed", "fallback"} =>
       /\ seen[c] \in Generations
       /\ seen[c].all <= generation
       /\ seen[c].key <= keyGenerations[KeyOf(c)]
       /\ floor[c] <= seen[c].all + seen[c].key
  /\ pc[c] = "store" =>
       /\ result[c] \in Snapshots
       /\ result[c].request = req[c]
       /\ seen[c].all + seen[c].key <= result[c].since
       /\ result[c].since <= invalidations[KeyOf(c)]

CallsRemember == \A c \in Callers : CallRemembers(c)

CacheInv ==
  /\ TypeOK
  /\ GenerationsCountInvalidations
  /\ CallsRemember
  /\ NoResurrection
=============================================================================
