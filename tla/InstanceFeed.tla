----------------------------- MODULE InstanceFeed -----------------------------
(***************************************************************************)
(* What a preprocessor promises about the activity of its instances,       *)
(* whichever source it reads.  Every change of the recorded activity comes *)
(* with its own message: switching on with an "active" one, switching off  *)
(* with one "inactive" or "close", decided in the same step and published  *)
(* later, once, alone or in a batch.  A message is dropped only when       *)
(* publishing fails.  The synthetic "start" is for inactive instances.     *)
(***************************************************************************)
EXTENDS Integers, Sequences, FiniteSets

CONSTANT UIDs

VARIABLES
  active,    \* [UIDs -> BOOLEAN]: the recorded activity
  outbox,    \* [UIDs -> [Kinds -> Nat]]: decided, not published yet
  feed       \* [UIDs -> Seq(Kinds)]: published, in order

vars == <<active, outbox, feed>>

Kinds == {"start", "active", "inactive", "close"}

Init ==
  /\ active = [u \in UIDs |-> FALSE]
  /\ outbox = [u \in UIDs |-> [k \in Kinds |-> 0]]
  /\ feed = [u \in UIDs |-> <<>>]

\* The instances of on, off and again get an active state, an inactive one and
\* a repeated active one; those of first a synthetic start before it.
Decide(on, off, again, first) ==
  /\ \A u \in on \cup first : ~active[u]
  /\ \A u \in off \cup again : active[u]
  /\ off \cap again = {}
  /\ active' = [u \in UIDs |-> (active[u] \/ u \in on) /\ u \notin off]
  /\ \E how \in [UIDs -> {"inactive", "close"}] :
       outbox' = [u \in UIDs |-> [k \in Kinds |-> outbox[u][k] +
                    IF \/ k = "start" /\ u \in first
                       \/ k = "active" /\ u \in on \cup again
                       \/ u \in off /\ k = how[u]
                    THEN 1 ELSE 0]]
  /\ UNCHANGED feed

Change ==
  \E on, off, again, first \in SUBSET UIDs : Decide(on, off, again, first)

\* Messages leave the outbox; what the feed gains was in it.
Gained(u, k) ==
  Cardinality({i \in DOMAIN feed'[u] \ DOMAIN feed[u] : feed'[u][i] = k})

Dispatch ==
  /\ \A u \in UIDs :
       /\ Len(feed'[u]) >= Len(feed[u])
       /\ SubSeq(feed'[u], 1, Len(feed[u])) = feed[u]
       /\ \A k \in Kinds : outbox'[u][k] \in 0 .. (outbox[u][k] - Gained(u, k))
  /\ UNCHANGED active

Next == Change \/ Dispatch

Spec == Init /\ [][Next]_vars
=============================================================================
