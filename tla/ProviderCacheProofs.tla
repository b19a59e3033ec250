------------------------- MODULE ProviderCacheProofs -------------------------
(***************************************************************************)
(* Proofs about ProviderCache for any callers, keys, instants and bounds.  *)
(* The inductive invariant is CacheInv: two generation counters whose sum  *)
(* is the number of invalidations (GenerationsCountInvalidations), what a  *)
(* call in flight remembers of them (CallsRemember), and what an entry     *)
(* owes them (NoResurrection).                                             *)
(***************************************************************************)
EXTENDS ProviderCache, TLAPS

(* A key of a request is a key, and is read back from its two components. *)
LEMMA KeyTyping == \A r \in Requests : CacheKey(r) \in Keys
BY DEF Keys

LEMMA KeyOfTyping ==
  ASSUME NEW c, req[c] \in Requests
  PROVE  KeyOf(c) \in Keys
BY KeyTyping DEF KeyOf

-----------------------------------------------------------------------------

(* The initial states satisfy the invariant. *)
LEMMA InitCacheInv == Init => CacheInv
BY BoundAssumption
DEF Init, CacheInv, TypeOK, GenerationsCountInvalidations, CallsRemember, CallRemembers,
    NoResurrection, Phases

(* Every step of the cache, of a caller or of the clock keeps the types. *)
LEMMA TypeStep ==
  ASSUME CacheInv, [Next]_vars
  PROVE  TypeOK'
<1> USE DEF TypeOK, Phases, Outcomes, Answers
<1>0. TypeOK /\ CallsRemember
  BY DEF CacheInv
<1>1. ASSUME NEW c \in Callers, NEW r \in Requests, Begin(c, r)
      PROVE  TypeOK'
  BY <1>0, <1>1, KeyTyping DEF Begin, shared
<1>2. ASSUME NEW c \in Callers, Hit(c)
      PROVE  TypeOK'
  <2>1. entries[KeyOf(c)] \in Snapshots
    BY <1>0, <1>2, KeyOfTyping DEF Hit, Reusable, CallsRemember, CallRemembers
  <2> QED
    BY <1>0, <1>2, <2>1 DEF Hit, Finish, shared
<1>3. ASSUME NEW c \in Callers, Miss(c)
      PROVE  TypeOK'
  <2>1. KeyOf(c) \in Keys
    BY <1>0, <1>3, KeyOfTyping DEF Miss, CallsRemember, CallRemembers
  <2>2. CurrentGenerations(KeyOf(c)) \in Generations
    BY <1>0, <2>1 DEF CurrentGenerations, Generations
  <2> QED
    BY <1>0, <1>3, <2>1, <2>2 DEF Miss, shared
<1>4. ASSUME NEW c \in Callers, Observe(c)
      PROVE  TypeOK'
  <2>1. /\ KeyOf(c) \in Keys
        /\ req[c] \in Requests
    BY <1>0, <1>4, KeyOfTyping DEF Observe, CallsRemember, CallRemembers
  <2>2. [request |-> req[c], serial |-> fetches + 1, fetchedAt |-> clock,
         since |-> invalidations[KeyOf(c)]] \in Snapshots
    BY <1>0, <2>1 DEF Snapshots
  <2> QED
    BY <1>0, <1>4, <2>2 DEF Observe, shared
<1>5. ASSUME NEW c \in Callers, ProviderFails(c)
      PROVE  TypeOK'
  BY <1>0, <1>5 DEF ProviderFails, shared
<1>6. ASSUME NEW c \in Callers, OtherException(c)
      PROVE  TypeOK'
  BY <1>0, <1>6 DEF OtherException, Finish, shared
<1>7. ASSUME NEW c \in Callers, ReadClockAgain(c)
      PROVE  TypeOK'
  BY <1>0, <1>7 DEF ReadClockAgain, shared
<1>8. ASSUME NEW c \in Callers, Fallback(c)
      PROVE  TypeOK'
  BY <1>0, <1>8 DEF Fallback, Finish, shared
<1>9. ASSUME NEW c \in Callers, Reraise(c)
      PROVE  TypeOK'
  BY <1>0, <1>9 DEF Reraise, Finish, shared
<1>10. ASSUME NEW c \in Callers, Store(c)
       PROVE  TypeOK'
  <2>1. result[c] \in Snapshots
    BY <1>0, <1>10 DEF Store, CallsRemember, CallRemembers
  <2> QED
    BY <1>0, <1>10, <2>1 DEF Store, Finish
<1>11. CASE InvalidateAll
  BY <1>0, <1>11 DEF InvalidateAll, locals
<1>12. ASSUME NEW r \in Requests, InvalidateKey(r)
       PROVE  TypeOK'
  BY <1>0, <1>12, KeyTyping DEF InvalidateKey, locals
<1>13. CASE ClockMoves
  BY <1>0, <1>13 DEF ClockMoves, shared, locals
<1>14. CASE UNCHANGED vars
  BY <1>0, <1>14 DEF vars, shared, locals
<1> QED
  BY <1>1, <1>2, <1>3, <1>4, <1>5, <1>6, <1>7, <1>8, <1>9, <1>10, <1>11, <1>12,
     <1>13, <1>14
  DEF Next, CallerStep

-----------------------------------------------------------------------------

(* A step that touches neither the entries nor a generation keeps what     *)
(* relates those two.                                                      *)
LEMMA SharedFrame ==
  ASSUME CacheInv, UNCHANGED <<shared, invalidations>>
  PROVE  GenerationsCountInvalidations' /\ NoResurrection'
BY DEF CacheInv, shared, GenerationsCountInvalidations, NoResurrection

(* A call that ends leaves nothing to remember, and disturbs no other.     *)
LEMMA FinishKeepsCalls ==
  ASSUME CacheInv, NEW c \in Callers, NEW kind, NEW s,
         Finish(c, kind, s), UNCHANGED <<keyGenerations, generation,
                                         invalidations, req, floor>>
  PROVE  CallsRemember'
BY DEF CacheInv, TypeOK, CallsRemember, CallRemembers, Finish, KeyOf

(* A snapshot under a matching generation is of the current epoch: nothing *)
(* was invalidated between the lookup and the observation, or since.       *)
LEMMA MatchingResultIsCurrent ==
  ASSUME CacheInv, NEW c \in Callers, pc[c] = "store", GenerationsMatch(c)
  PROVE  /\ result[c].since = invalidations[KeyOf(c)]
         /\ CacheKey(result[c].request) = KeyOf(c)
<1>1. KeyOf(c) \in Keys
  BY KeyOfTyping DEF CacheInv, CallsRemember, CallRemembers
<1>2. /\ seen[c].all = generation
      /\ seen[c].key = keyGenerations[KeyOf(c)]
  BY DEF GenerationsMatch, CurrentGenerations
<1>3. invalidations[KeyOf(c)] = seen[c].all + seen[c].key
  BY <1>1, <1>2 DEF CacheInv, GenerationsCountInvalidations
<1>4. /\ result[c].since \in Nat
      /\ invalidations[KeyOf(c)] \in Nat
  BY <1>1 DEF CacheInv, TypeOK, CallsRemember, CallRemembers, Snapshots
<1> QED
  BY <1>3, <1>4 DEF CacheInv, CallsRemember, CallRemembers, KeyOf

(* Every step keeps the invariant. *)
LEMMA CacheInvStep ==
  ASSUME CacheInv, [Next]_vars
  PROVE  CacheInv'
<1>0. /\ TypeOK /\ GenerationsCountInvalidations /\ CallsRemember
      /\ NoResurrection
  BY DEF CacheInv
<1>t. TypeOK'
  BY TypeStep
<1> DEFINE Rest == GenerationsCountInvalidations /\ CallsRemember /\ NoResurrection
<1>1. ASSUME NEW c \in Callers, NEW r \in Requests, Begin(c, r)
      PROVE  Rest'
  <2>1. GenerationsCountInvalidations' /\ NoResurrection'
    BY <1>1, SharedFrame DEF Begin
  <2>2. invalidations[CacheKey(r)] \in Nat
    BY <1>0, KeyTyping DEF TypeOK
  <2>3. CallsRemember'
    BY <1>0, <1>1, <2>2 DEF Begin, shared, CallsRemember, CallRemembers, TypeOK, KeyOf
  <2> QED
    BY <2>1, <2>3
<1>2. ASSUME NEW c \in Callers, Hit(c)
      PROVE  Rest'
  BY <1>2, SharedFrame, FinishKeepsCalls DEF Hit, shared
<1>3. ASSUME NEW c \in Callers, Miss(c)
      PROVE  Rest'
  <2>1. GenerationsCountInvalidations' /\ NoResurrection'
    BY <1>3, SharedFrame DEF Miss
  <2>2. KeyOf(c) \in Keys
    BY <1>0, <1>3, KeyOfTyping DEF Miss, CallsRemember, CallRemembers
  <2> DEFINE g == CurrentGenerations(KeyOf(c))
  <2>3. /\ g \in Generations
        /\ g.all = generation
        /\ g.key = keyGenerations[KeyOf(c)]
        /\ floor[c] <= g.all + g.key
    BY <1>0, <1>3, <2>2
    DEF Miss, TypeOK, CallsRemember, CallRemembers, CurrentGenerations, Generations,
        GenerationsCountInvalidations
  <2>4. seen' = [seen EXCEPT ![c] = g]
    BY <1>3 DEF Miss
  <2> HIDE DEF g
  <2>5. \A x \in Nat : x <= x
    OBVIOUS
  <2>6. CallsRemember'
    BY <1>0, <1>3, <2>2, <2>3, <2>4, <2>5
    DEF Miss, shared, CallsRemember, CallRemembers, TypeOK, KeyOf
  <2> QED
    BY <2>1, <2>6
<1>4. ASSUME NEW c \in Callers, Observe(c)
      PROVE  Rest'
  <2>1. GenerationsCountInvalidations' /\ NoResurrection'
    BY <1>4, SharedFrame DEF Observe
  <2>2. KeyOf(c) \in Keys /\ req[c] \in Requests
    BY <1>0, <1>4, KeyOfTyping DEF Observe, CallsRemember, CallRemembers
  <2> DEFINE s == [request |-> req[c], serial |-> fetches + 1,
                   fetchedAt |-> clock, since |-> invalidations[KeyOf(c)]]
  <2>3. /\ s \in Snapshots
        /\ s.request = req[c]
        /\ s.since = invalidations[KeyOf(c)]
    BY <1>0, <2>2 DEF TypeOK, Snapshots
  <2>4. seen[c].all + seen[c].key <= invalidations[KeyOf(c)]
    <3>1. /\ seen[c].all \in Nat /\ seen[c].key \in Nat
          /\ seen[c].all <= generation
          /\ seen[c].key <= keyGenerations[KeyOf(c)]
      BY <1>0, <1>4 DEF Observe, CallsRemember, CallRemembers, Generations
    <3> QED
      BY <1>0, <2>2, <3>1 DEF TypeOK, GenerationsCountInvalidations
  <2>5. result' = [result EXCEPT ![c] = s]
    BY <1>4 DEF Observe
  <2>6. invalidations[KeyOf(c)] \in Nat
    BY <1>0, <2>2 DEF TypeOK
  <2> HIDE DEF s
  <2>7. CallsRemember'
    BY <1>0, <1>4, <2>2, <2>3, <2>4, <2>5, <2>6
    DEF Observe, shared, CallsRemember, CallRemembers, TypeOK, KeyOf
  <2> QED
    BY <2>1, <2>7
<1>5. ASSUME NEW c \in Callers, ProviderFails(c)
      PROVE  Rest'
  BY <1>0, <1>5, SharedFrame DEF ProviderFails, shared, CallsRemember, CallRemembers, TypeOK, KeyOf
<1>6. ASSUME NEW c \in Callers, OtherException(c)
      PROVE  Rest'
  BY <1>6, SharedFrame, FinishKeepsCalls DEF OtherException, shared
<1>7. ASSUME NEW c \in Callers, ReadClockAgain(c)
      PROVE  Rest'
  BY <1>0, <1>7, SharedFrame DEF ReadClockAgain, shared, CallsRemember, CallRemembers, TypeOK, KeyOf
<1>8. ASSUME NEW c \in Callers, Fallback(c)
      PROVE  Rest'
  BY <1>8, SharedFrame, FinishKeepsCalls DEF Fallback, shared
<1>9. ASSUME NEW c \in Callers, Reraise(c)
      PROVE  Rest'
  BY <1>9, SharedFrame, FinishKeepsCalls DEF Reraise, shared
<1>10. ASSUME NEW c \in Callers, Store(c)
       PROVE  Rest'
  <2>1. GenerationsCountInvalidations'
    BY <1>0, <1>10 DEF Store, GenerationsCountInvalidations
  <2>2. CallsRemember'
    BY <1>10, FinishKeepsCalls DEF Store
  <2>3. NoResurrection'
    BY <1>0, <1>10, MatchingResultIsCurrent DEF Store, NoResurrection, TypeOK
  <2> QED
    BY <2>1, <2>2, <2>3
<1>11. ASSUME InvalidateAll
       PROVE  Rest'
  <2>1. GenerationsCountInvalidations'
    BY <1>0, <1>11 DEF InvalidateAll, GenerationsCountInvalidations, TypeOK
  <2>2. NoResurrection'
    BY <1>11 DEF InvalidateAll, NoResurrection
  <2>3. ASSUME NEW d \in Callers
        PROVE  CallRemembers(d)'
    <3>1. CASE pc[d] = "idle"
      BY <1>11, <3>1 DEF InvalidateAll, CallRemembers
    <3>2. CASE pc[d] # "idle"
      <4>1. KeyOf(d) \in Keys
        BY <1>0, <3>2, KeyOfTyping DEF CallsRemember, CallRemembers
      <4>2. /\ invalidations'[KeyOf(d)] = invalidations[KeyOf(d)] + 1
            /\ invalidations[KeyOf(d)] \in Nat
            /\ KeyOf(d)' = KeyOf(d)
        BY <1>0, <1>11, <4>1 DEF InvalidateAll, TypeOK, KeyOf
      <4> QED
        BY <1>0, <1>11, <4>1, <4>2
        DEF InvalidateAll, locals, CallsRemember, CallRemembers, TypeOK,
            Generations, Snapshots
    <3> QED
      BY <3>1, <3>2
  <2> QED
    BY <2>1, <2>2, <2>3 DEF CallsRemember
<1>12. ASSUME NEW r \in Requests, InvalidateKey(r)
       PROVE  Rest'
  <2>1. GenerationsCountInvalidations'
    BY <1>0, <1>12 DEF InvalidateKey, GenerationsCountInvalidations, TypeOK
  <2>2. NoResurrection'
    BY <1>0, <1>12 DEF InvalidateKey, NoResurrection, TypeOK
  <2>3. ASSUME NEW d \in Callers
        PROVE  CallRemembers(d)'
    <3>1. CASE pc[d] = "idle"
      BY <1>12, <3>1 DEF InvalidateKey, CallRemembers
    <3>2. CASE pc[d] # "idle"
      <4>1. KeyOf(d) \in Keys
        BY <1>0, <3>2, KeyOfTyping DEF CallsRemember, CallRemembers
      <4>2. /\ invalidations[KeyOf(d)] \in Nat
            /\ invalidations'[KeyOf(d)] \in Nat
            /\ invalidations[KeyOf(d)] <= invalidations'[KeyOf(d)]
            /\ keyGenerations[KeyOf(d)] \in Nat
            /\ keyGenerations'[KeyOf(d)] \in Nat
            /\ keyGenerations[KeyOf(d)] <= keyGenerations'[KeyOf(d)]
            /\ KeyOf(d)' = KeyOf(d)
        BY <1>0, <1>12, <4>1 DEF InvalidateKey, TypeOK, KeyOf
      <4> QED
        BY <1>0, <1>12, <4>1, <4>2
        DEF InvalidateKey, locals, CallsRemember, CallRemembers, TypeOK,
            Generations, Snapshots
    <3> QED
      BY <3>1, <3>2
  <2> QED
    BY <2>1, <2>2, <2>3 DEF CallsRemember
<1>13. ASSUME ClockMoves
       PROVE  Rest'
  <2>1. GenerationsCountInvalidations' /\ NoResurrection'
    BY <1>13, SharedFrame DEF ClockMoves
  <2>2. CallsRemember'
    BY <1>0, <1>13 DEF ClockMoves, locals, shared, CallsRemember, CallRemembers, KeyOf
  <2> QED
    BY <2>1, <2>2
<1>14. ASSUME UNCHANGED vars
       PROVE  Rest'
  <2>1. GenerationsCountInvalidations' /\ NoResurrection'
    BY <1>14, SharedFrame DEF vars, shared
  <2>2. CallsRemember'
    BY <1>0, <1>14 DEF vars, shared, locals, CallsRemember, CallRemembers, KeyOf
  <2> QED
    BY <2>1, <2>2
<1> HIDE DEF Rest
<1>15. Rest'
  BY <1>1, <1>2, <1>3, <1>4, <1>5, <1>6, <1>7, <1>8, <1>9, <1>10, <1>11, <1>12,
     <1>13, <1>14
  DEF Next, CallerStep
<1> QED
  BY <1>t, <1>15 DEF CacheInv, Rest

-----------------------------------------------------------------------------

(* The invariant holds of every behaviour of the cache. *)
THEOREM CacheInvariant == Spec => []CacheInv
<1>1. Init => CacheInv
  BY InitCacheInv
<1>2. CacheInv /\ [Next]_vars => CacheInv'
  BY CacheInvStep
<1> QED
  BY <1>1, <1>2, PTL DEF Spec

(* The variables keep their types: cache.py stores only snapshots. *)
THEOREM TypeCorrect == Spec => []TypeOK
<1>1. CacheInv => TypeOK
  BY DEF CacheInv
<1> QED
  BY <1>1, CacheInvariant, PTL

(* No entry outlives an invalidation of its key, for any number of callers *)
(* with fetches in flight when invalidate runs.                            *)
THEOREM EntriesAreCurrent == Spec => []NoResurrection
<1>1. CacheInv => NoResurrection
  BY DEF CacheInv
<1> QED
  BY <1>1, CacheInvariant, PTL

-----------------------------------------------------------------------------

(* The key tells requests apart: nothing of the request is left out of it. *)
LEMMA CacheKeyInjective ==
  ASSUME NEW r1 \in Requests, NEW r2 \in Requests, CacheKey(r1) = CacheKey(r2)
  PROVE  r1 = r2
BY DEF Requests, CacheKey

(* What a call may return: its own request, of a current enough epoch. *)
Suits(c, s) == s.request = req[c] /\ s.since >= floor[c]

(* An entry suits every caller that finds it under its key. *)
LEMMA EntrySuits ==
  ASSUME CacheInv, NEW c \in Callers, pc[c] # "idle", entries[KeyOf(c)] # None
  PROVE  Suits(c, entries[KeyOf(c)])
<1>1. req[c] \in Requests /\ KeyOf(c) \in Keys
  BY KeyOfTyping DEF CacheInv, CallsRemember, CallRemembers
<1> DEFINE s == entries[KeyOf(c)]
<1>2. s \in Snapshots /\ s.request \in Requests
  BY <1>1 DEF CacheInv, TypeOK, Snapshots
<1>3. CacheKey(s.request) = CacheKey(req[c])
  BY <1>1 DEF CacheInv, NoResurrection, KeyOf
<1>4. s.request = req[c]
  BY <1>1, <1>2, <1>3, CacheKeyInjective
<1>5. /\ s.since = invalidations[KeyOf(c)]
      /\ floor[c] <= invalidations[KeyOf(c)]
      /\ floor[c] \in Nat
      /\ invalidations[KeyOf(c)] \in Nat
  BY <1>1 DEF CacheInv, TypeOK, NoResurrection, CallsRemember, CallRemembers
<1> QED
  BY <1>4, <1>5 DEF Suits

(* A fetched result suits its caller, matching generation or not. *)
LEMMA ResultSuits ==
  ASSUME CacheInv, NEW c \in Callers, pc[c] = "store"
  PROVE  Suits(c, result[c])
<1>1. /\ result[c].request = req[c]
      /\ floor[c] <= seen[c].all + seen[c].key
      /\ seen[c].all + seen[c].key <= result[c].since
  BY DEF CacheInv, CallsRemember, CallRemembers
<1>2. /\ floor[c] \in Nat /\ result[c].since \in Nat
      /\ seen[c].all \in Nat /\ seen[c].key \in Nat
  BY DEF CacheInv, TypeOK, CallsRemember, CallRemembers, Snapshots, Generations
<1> QED
  BY <1>1, <1>2 DEF Suits

AnswersSuit ==
  \A c \in Callers : answer[c] # None /\ answer[c].snapshot # None =>
    Suits(c, answer[c].snapshot)

(* A call that ends with a suitable snapshot, or with none, keeps it so. *)
LEMMA FinishSuits ==
  ASSUME CacheInv, AnswersSuit, NEW c \in Callers, NEW kind, NEW s,
         Finish(c, kind, s), s = None \/ Suits(c, s), UNCHANGED <<req, floor>>
  PROVE  AnswersSuit'
<1> SUFFICES ASSUME NEW d \in Callers, answer'[d] # None, answer'[d].snapshot # None
             PROVE  Suits(d, answer[d].snapshot)'
  BY DEF AnswersSuit
<1>1. CASE d = c
  <2>1. answer'[d] = [kind |-> kind, snapshot |-> s]
    BY <1>1 DEF Finish, CacheInv, TypeOK
  <2> QED
    BY <1>1, <2>1 DEF Suits
<1>2. CASE d # c
  <2>1. answer'[d] = answer[d]
    BY <1>2 DEF Finish, CacheInv, TypeOK
  <2> QED
    BY <2>1 DEF Suits, AnswersSuit
<1> QED
  BY <1>1, <1>2

(* Every step keeps the answers suitable. *)
LEMMA AnswersSuitStep ==
  ASSUME CacheInv, AnswersSuit, [Next]_vars
  PROVE  AnswersSuit'
<1>1. ASSUME NEW c \in Callers, NEW r \in Requests, Begin(c, r)
      PROVE  AnswersSuit'
  BY <1>1 DEF Begin, AnswersSuit, Suits, CacheInv, TypeOK
<1>2. ASSUME NEW c \in Callers, Hit(c)
      PROVE  AnswersSuit'
  BY <1>2, EntrySuits, FinishSuits DEF Hit, Reusable
<1>3. ASSUME NEW c \in Callers, Fallback(c)
      PROVE  AnswersSuit'
  BY <1>3, EntrySuits, FinishSuits DEF Fallback, CurrentEntry, Tolerable
<1>4. ASSUME NEW c \in Callers, Store(c)
      PROVE  AnswersSuit'
  BY <1>4, ResultSuits, FinishSuits DEF Store
<1>5. ASSUME NEW c \in Callers, OtherException(c) \/ Reraise(c)
      PROVE  AnswersSuit'
  BY <1>5, FinishSuits DEF OtherException, Reraise
<1>6. ASSUME NEW c \in Callers,
             Miss(c) \/ Observe(c) \/ ProviderFails(c) \/ ReadClockAgain(c)
      PROVE  AnswersSuit'
  BY <1>6 DEF Miss, Observe, ProviderFails, ReadClockAgain, AnswersSuit, Suits
<1>7. ASSUME \/ InvalidateAll
             \/ \E r \in Requests : InvalidateKey(r)
             \/ ClockMoves
             \/ UNCHANGED vars
      PROVE  AnswersSuit'
  BY <1>7
  DEF InvalidateAll, InvalidateKey, ClockMoves, vars, AnswersSuit, Suits
<1> QED
  BY <1>1, <1>2, <1>3, <1>4, <1>5, <1>6, <1>7 DEF Next, CallerStep

LEMMA AnswersSuitInvariant == Spec => []AnswersSuit
<1>1. Init => AnswersSuit
  BY DEF Init, AnswersSuit
<1>2. CacheInv /\ AnswersSuit /\ [Next]_vars => AnswersSuit'
  BY AnswersSuitStep
<1> QED
  BY <1>1, <1>2, CacheInvariant, PTL DEF Spec

(* No caller is given the answer to another request: entries are shared    *)
(* only between calls with the same metrics and the same policy.           *)
THEOREM AnswersAreOwn == Spec => []AnswersOwnRequest
<1>1. AnswersSuit => AnswersOwnRequest
  BY DEF AnswersSuit, Suits, AnswersOwnRequest
<1> QED
  BY <1>1, AnswersSuitInvariant, PTL

(* No call returns an observation older than an invalidation that had been *)
(* made when the call began.                                               *)
THEOREM AnswersAreNotInvalidated == Spec => []NothingFromBeforeInvalidation
<1>1. AnswersSuit => NothingFromBeforeInvalidation
  BY DEF AnswersSuit, Suits, NothingFromBeforeInvalidation
<1> QED
  BY <1>1, AnswersSuitInvariant, PTL

-----------------------------------------------------------------------------

(* Only the locked sections Hit and Fallback answer from the cache. *)
LEMMA CacheAnswersInTwoWays ==
  ASSUME CacheInv, Next, NEW c \in Callers, AnsweredByCache(c)
  PROVE  \/ Hit(c) /\ answer'[c] = [kind |-> "hit", snapshot |-> entries[KeyOf(c)]]
         \/ Fallback(c) /\ answer'[c] = [kind |-> "fallback", snapshot |-> prior[c]]
<1> USE DEF AnsweredByCache
<1>0. TypeOK
  BY DEF CacheInv
<1>1. ASSUME NEW d \in Callers, NEW kind, NEW s, Finish(d, kind, s)
      PROVE  d = c /\ answer'[c] = [kind |-> kind, snapshot |-> s]
  BY <1>0, <1>1 DEF Finish, TypeOK
<1>2. ASSUME NEW d \in Callers, NEW r \in Requests, Begin(d, r)
      PROVE  FALSE
  BY <1>0, <1>2 DEF Begin, TypeOK
<1>3. ASSUME NEW d \in Callers,
             Miss(d) \/ Observe(d) \/ ProviderFails(d) \/ ReadClockAgain(d)
      PROVE  FALSE
  BY <1>0, <1>3 DEF Miss, Observe, ProviderFails, ReadClockAgain, TypeOK
<1>4. ASSUME NEW d \in Callers, OtherException(d) \/ Reraise(d) \/ Store(d)
      PROVE  FALSE
  <2>1. ~Finish(d, "raised", None)
    <3> SUFFICES ASSUME Finish(d, "raised", None) PROVE FALSE
      OBVIOUS
    <3>1. answer'[c] = [kind |-> "raised", snapshot |-> None]
      BY <1>1
    <3> QED
      BY <3>1
  <2>2. ~Finish(d, "fetched", result[d])
    <3> SUFFICES ASSUME Finish(d, "fetched", result[d]) PROVE FALSE
      OBVIOUS
    <3>1. answer'[c] = [kind |-> "fetched", snapshot |-> result[d]]
      BY <1>1
    <3> QED
      BY <3>1
  <2> QED
    BY <1>4, <2>1, <2>2 DEF OtherException, Reraise, Store
<1>5. ASSUME NEW d \in Callers, Hit(d)
      PROVE  Hit(c) /\ answer'[c] = [kind |-> "hit", snapshot |-> entries[KeyOf(c)]]
  <2>1. /\ d = c
        /\ answer'[c] = [kind |-> "hit", snapshot |-> entries[KeyOf(d)]]
    BY <1>1, <1>5 DEF Hit
  <2> QED
    BY <1>5, <2>1
<1>6. ASSUME NEW d \in Callers, Fallback(d)
      PROVE  Fallback(c) /\ answer'[c] = [kind |-> "fallback", snapshot |-> prior[c]]
  <2>1. /\ d = c
        /\ answer'[c] = [kind |-> "fallback", snapshot |-> prior[d]]
    BY <1>1, <1>6 DEF Fallback
  <2> QED
    BY <1>6, <2>1
<1>7. ~(InvalidateAll \/ (\E r \in Requests : InvalidateKey(r)) \/ ClockMoves)
  BY DEF InvalidateAll, InvalidateKey, ClockMoves
<1> QED
  BY <1>2, <1>3, <1>4, <1>5, <1>6, <1>7 DEF Next, CallerStep

(* What the cache answers with is the live, current entry of the key. *)
LEMMA CacheAnswersWithEntry ==
  ASSUME CacheInv, Next, NEW c \in Callers, AnsweredByCache(c)
  PROVE  /\ KeyOf(c) \in Keys
         /\ entries[KeyOf(c)] # None
         /\ answer'[c].snapshot = entries[KeyOf(c)]
<1>1. KeyOf(c) \in Keys
  BY KeyOfTyping DEF CacheInv, CallsRemember, CallRemembers, AnsweredByCache
<1>2. CASE Hit(c) /\ answer'[c] = [kind |-> "hit", snapshot |-> entries[KeyOf(c)]]
  BY <1>1, <1>2 DEF Hit, Reusable
<1>3. CASE Fallback(c) /\ answer'[c] = [kind |-> "fallback", snapshot |-> prior[c]]
  BY <1>1, <1>3 DEF Fallback, CurrentEntry, Tolerable
<1> QED
  BY <1>2, <1>3, CacheAnswersInTwoWays

(* Hits and fallbacks hand out the entry the cache holds at that moment,   *)
(* observed after the last invalidation of its key.                        *)
THEOREM CacheAnswersCurrent == Spec => CacheAnswersAreCurrent
<1>1. ASSUME CacheInv, Next, NEW c \in Callers, AnsweredByCache(c)
      PROVE  /\ answer'[c].snapshot = entries[KeyOf(c)]
             /\ answer'[c].snapshot.since = invalidations[KeyOf(c)]
  BY <1>1, CacheAnswersWithEntry DEF CacheInv, NoResurrection
<1> DEFINE A == \A c \in Callers : AnsweredByCache(c) =>
                  /\ answer'[c].snapshot = entries[KeyOf(c)]
                  /\ answer'[c].snapshot.since = invalidations[KeyOf(c)]
<1>2. CacheInv /\ [Next]_vars => [A]_vars
  BY <1>1
<1> HIDE DEF A
<1>3. Spec => [][A]_vars
  BY <1>2, CacheInvariant, PTL DEF Spec
<1> QED
  BY <1>3 DEF A, CacheAnswersAreCurrent

(* A clock that was set back never makes a snapshot look young: _age       *)
(* counts a negative age as the largest one.                               *)
LEMMA AgeBounds ==
  ASSUME NEW t \in Times, NEW s \in Snapshots, NEW limit \in Nat,
         limit < TimedeltaMax, Age(t, s) <= limit
  PROVE  t - s.fetchedAt \in 0 .. limit /\ t - s.fetchedAt = Age(t, s)
<1>1. t \in Int /\ s.fetchedAt \in Int
  BY ClockAssumption DEF Snapshots
<1>2. TimedeltaMax \in Nat
  BY PolicyAssumption
<1> QED
  BY <1>1, <1>2 DEF Age

(* Served ages stay within the policy for every clock behaviour. *)
THEOREM ServedAgesBounded == Spec => ServedAgeInWindow
<1> DEFINE Bounded(c) ==
      LET age == now[c] - answer'[c].snapshot.fetchedAt IN
      /\ age \in 0 .. MaximumStaleAge
      /\ answer'[c].kind = "hit" => age < ReuseTtl
<1>1. ASSUME CacheInv, Next, NEW c \in Callers, AnsweredByCache(c),
             MaximumStaleAge < TimedeltaMax
      PROVE  Bounded(c)
  <2>1. /\ now[c] \in Times
        /\ entries[KeyOf(c)] \in Snapshots
        /\ answer'[c].snapshot = entries[KeyOf(c)]
    BY <1>1, CacheAnswersWithEntry
    DEF CacheInv, TypeOK, CallsRemember, CallRemembers, AnsweredByCache
  <2>2. Age(now[c], entries[KeyOf(c)]) \in Int
    <3>1. now[c] \in Int /\ entries[KeyOf(c)].fetchedAt \in Int
      BY <2>1, ClockAssumption DEF Snapshots
    <3> QED
      BY <3>1, PolicyAssumption DEF Age
  <2>3. CASE Hit(c) /\ answer'[c] = [kind |-> "hit", snapshot |-> entries[KeyOf(c)]]
    <3>1. Age(now[c], entries[KeyOf(c)]) < ReuseTtl
      BY <2>3 DEF Hit, Reusable
    <3>2. Age(now[c], entries[KeyOf(c)]) <= MaximumStaleAge
      BY <3>1, <2>2, PolicyAssumption
    <3> QED
      BY <1>1, <2>1, <3>1, <3>2, AgeBounds, PolicyAssumption
  <2>4. CASE Fallback(c) /\ answer'[c] = [kind |-> "fallback", snapshot |-> prior[c]]
    <3>1. /\ prior[c] = entries[KeyOf(c)]
          /\ Age(now[c], entries[KeyOf(c)]) <= MaximumStaleAge
      BY <2>4 DEF Fallback, CurrentEntry, Tolerable
    <3> QED
      BY <1>1, <2>1, <2>4, <3>1, AgeBounds, PolicyAssumption
  <2> QED
    BY <1>1, <2>3, <2>4, CacheAnswersInTwoWays
<1> DEFINE A == \A c \in Callers :
                  AnsweredByCache(c) /\ MaximumStaleAge < TimedeltaMax => Bounded(c)
<1>2. CacheInv /\ [Next]_vars => [A]_vars
  BY <1>1
<1> HIDE DEF A
<1>3. Spec => [][A]_vars
  BY <1>2, CacheInvariant, PTL DEF Spec
<1> QED
  BY <1>3 DEF A, ServedAgeInWindow

-----------------------------------------------------------------------------

(* An answer of the cache itself is a reuse of the held, current snapshot. *)
LEMMA CacheAnswerIsReuse ==
  ASSUME CacheInv, Next, NEW c \in Callers, Hit(c) \/ Fallback(c)
  PROVE  Promise!Reuse(c, KeyOf(c)) /\ KeyOf(c) \in Keys
<1>1. KeyOf(c) \in Keys
  BY KeyOfTyping DEF CacheInv, CallsRemember, CallRemembers, Hit, Fallback
<1>2. /\ entries[KeyOf(c)] # None
      /\ \/ Finish(c, "hit", entries[KeyOf(c)])
         \/ Finish(c, "fallback", entries[KeyOf(c)])
      /\ UNCHANGED <<entries, invalidations>>
  BY DEF Hit, Fallback, Reusable, Tolerable, CurrentEntry, shared
<1>3. /\ entries[KeyOf(c)].since = invalidations[KeyOf(c)]
      /\ KeyFor(entries[KeyOf(c)]) = KeyOf(c)
  BY <1>1, <1>2 DEF CacheInv, NoResurrection, KeyFor
<1>4. Promise!Answered(c, {"hit", "fallback"}, entries[KeyOf(c)])
  BY <1>2 DEF Finish, Promise!Answered
<1> QED
  BY <1>1, <1>2, <1>3, <1>4 DEF Promise!Reuse

(* Handing a fetched snapshot to its caller is a refresh; it is held only  *)
(* when its generation matched, hence only when it is current.             *)
LEMMA StoreIsRefresh ==
  ASSUME CacheInv, NEW c \in Callers, Store(c)
  PROVE  Promise!Refresh(c)
<1>1. /\ result[c] \in Snapshots
      /\ KeyFor(result[c]) = KeyOf(c)
      /\ KeyOf(c) \in Keys
  BY KeyOfTyping
  DEF CacheInv, CallsRemember, CallRemembers, Store, KeyFor, KeyOf
<1>2. /\ answer' = [answer EXCEPT ![c] = [kind |-> "fetched", snapshot |-> result[c]]]
      /\ answer'[c] = [kind |-> "fetched", snapshot |-> result[c]]
      /\ answer'[c].snapshot = result[c]
  BY DEF Store, Finish, CacheInv, TypeOK
<1>3. answer'[c] # None
  BY <1>1, <1>2, NoneAssumption DEF Answers, Outcomes
<1>4. \/ /\ result[c].since = invalidations[KeyOf(c)]
         /\ entries' = [entries EXCEPT ![KeyOf(c)] = result[c]]
      \/ UNCHANGED entries
  BY MatchingResultIsCurrent DEF Store
<1>5. UNCHANGED invalidations
  BY DEF Store
<1>6. Promise!Answered(c, {"fetched"}, result[c])
  BY <1>2 DEF Promise!Answered
<1> QED
  BY <1>1, <1>2, <1>3, <1>4, <1>5, <1>6 DEF Promise!Refresh

(* Two generation counters and three locked sections behave as one atomic  *)
(* check of epochs: the cache implements SnapshotReuse.                    *)
THEOREM CacheImplementsReuse == Spec => ImplementsReuse
<1>1. Init => Promise!Init
  BY DEF Init, Promise!Init
<1>2. CacheInv /\ [Next]_vars => [Promise!Next]_(Promise!vars)
  <2> SUFFICES ASSUME CacheInv, [Next]_vars
               PROVE  [Promise!Next]_(Promise!vars)
    OBVIOUS
  <2> DEFINE Mapped == [Promise!Next]_(Promise!vars)
  <2> USE DEF shared
  <2>1. ASSUME NEW c \in Callers, NEW r \in Requests, Begin(c, r)
        PROVE  Mapped
    BY <2>1 DEF Begin, Promise!Next, Promise!Call
  <2>2. ASSUME NEW c \in Callers, Hit(c) \/ Fallback(c), Next
        PROVE  Mapped
    BY <2>2, CacheAnswerIsReuse DEF Promise!Next
  <2>3. ASSUME NEW c \in Callers, OtherException(c) \/ Reraise(c)
        PROVE  Mapped
    BY <2>3
    DEF OtherException, Reraise, Finish, Promise!Next, Promise!Fail, Promise!Answered
  <2>4. ASSUME NEW c \in Callers, Store(c)
        PROVE  Mapped
    BY <2>4, StoreIsRefresh DEF Promise!Next
  <2>5. ASSUME NEW c \in Callers,
               Miss(c) \/ Observe(c) \/ ProviderFails(c) \/ ReadClockAgain(c)
        PROVE  Mapped
    BY <2>5 DEF Miss, Observe, ProviderFails, ReadClockAgain, Promise!vars
  <2>6. ASSUME InvalidateAll
        PROVE  Mapped
    <3>1. Promise!Invalidate(Keys)
      BY <2>6 DEF InvalidateAll, Promise!Invalidate
    <3> QED
      BY <3>1 DEF Promise!Next
  <2>7. ASSUME NEW r \in Requests, InvalidateKey(r)
        PROVE  Mapped
    <3>1. {CacheKey(r)} \in SUBSET Keys
      BY KeyTyping
    <3>2. Promise!Invalidate({CacheKey(r)})
      BY <2>7 DEF InvalidateKey, Promise!Invalidate, CacheInv, TypeOK
    <3> QED
      BY <3>1, <3>2 DEF Promise!Next
  <2>8. ASSUME ClockMoves \/ UNCHANGED vars
        PROVE  Mapped
    BY <2>8 DEF ClockMoves, vars, Promise!vars
  <2> HIDE DEF Mapped
  <2>9. Mapped
    BY <2>1, <2>2, <2>3, <2>4, <2>5, <2>6, <2>7, <2>8 DEF Next, CallerStep
  <2> QED
    BY <2>9 DEF Mapped
<1> QED
  BY <1>1, <1>2, CacheInvariant, PTL DEF Spec, ImplementsReuse, Promise!Spec
=============================================================================
