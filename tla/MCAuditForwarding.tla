------------------------- MODULE MCAuditForwarding -------------------------
(***************************************************************************)
(* Small clusters for AuditForwarding.                                     *)
(***************************************************************************)
EXTENDS AuditForwarding, TLC

CONSTANTS m, s1, s2, e1, e2, e3, w1, w2, ws, c1, c2

Pair     == {m, s1}
PairPeers == [n \in Pair |-> Pair]
Trio     == {m, s1, s2}
TrioPeers == [n \in Trio |-> Trio]

\* e1 and e2 happen on the master, e3 on slave s1.
MCOrigin == [e \in Event |-> IF e = e3 THEN s1 ELSE m]
\* One deduplication key per event.
DistinctKeys == [e \in Event |-> e]
\* ws flushes on slave s1, the other workers on the master.
MCHome == [w \in Worker |-> IF w = ws THEN s1 ELSE m]
\* Tasks, request slots and, with DistinctKeys, the master's events are
\* interchangeable: no definition names one of them.
Symmetry == Permutations({w1, w2}) \cup Permutations({c1, c2}) \cup Permutations({e1, e2})
=============================================================================
