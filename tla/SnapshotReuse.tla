---------------------------- MODULE SnapshotReuse ----------------------------
(***************************************************************************)
(* What a snapshot cache promises its callers, whatever the threads do     *)
(* meanwhile: it holds at most one snapshot per key, only of the current   *)
(* epoch of that key, and a caller it answers itself gets the one it holds *)
(* for that caller's own request.  An epoch ends when the key is           *)
(* invalidated.  There are no generations, no lock and no clock here:      *)
(* ProviderCache implements this specification with                        *)
(* held <- entries and epoch <- invalidations.                             *)
(***************************************************************************)
EXTENDS Integers

CONSTANTS
  Callers,   \* who is answered
  Keys,      \* what a snapshot may be held under
  Snapshots, \* records with at least a field since, the epoch of their source
  None,
  KeyFor(_)  \* the key a snapshot answers

VARIABLES
  held,      \* key -> the snapshot held, or None
  epoch,     \* key -> how often it was invalidated
  answer     \* caller -> [kind, snapshot] of its latest call, or None

vars == <<held, epoch, answer>>

Init ==
  /\ held = [k \in Keys |-> None]
  /\ epoch = [k \in Keys |-> 0]
  /\ answer = [c \in Callers |-> None]

Answered(c, kinds, s) ==
  \E kind \in kinds : answer' = [answer EXCEPT ![c] = [kind |-> kind, snapshot |-> s]]

(* A new call of c hides the outcome of its previous one. *)
Call(c) ==
  /\ answer' = [answer EXCEPT ![c] = None]
  /\ UNCHANGED <<held, epoch>>

(* The cache answers by itself: what it holds, and of the current epoch. *)
Reuse(c, k) ==
  /\ held[k] # None
  /\ held[k].since = epoch[k]
  /\ KeyFor(held[k]) = k
  /\ Answered(c, {"hit", "fallback"}, held[k])
  /\ UNCHANGED <<held, epoch>>

(* The provider answered; its snapshot may be kept while it is current. *)
Refresh(c) ==
  /\ answer'[c] # None
  /\ answer'[c].snapshot \in Snapshots
  /\ LET s == answer'[c].snapshot
         k == KeyFor(s)
     IN  /\ Answered(c, {"fetched"}, s)
         /\ \/ s.since = epoch[k] /\ held' = [held EXCEPT ![k] = s]
            \/ UNCHANGED held
  /\ UNCHANGED epoch

Fail(c) ==
  /\ Answered(c, {"raised"}, None)
  /\ UNCHANGED <<held, epoch>>

Invalidate(K) ==
  /\ held' = [k \in Keys |-> IF k \in K THEN None ELSE held[k]]
  /\ epoch' = [k \in Keys |-> IF k \in K THEN epoch[k] + 1 ELSE epoch[k]]
  /\ UNCHANGED answer

Next ==
  \/ \E c \in Callers :
       \/ Call(c)
       \/ Fail(c)
       \/ \E k \in Keys : Reuse(c, k)
       \/ Refresh(c)
  \/ \E K \in SUBSET Keys : Invalidate(K)

Spec == Init /\ [][Next]_vars
=============================================================================
