-------------------------- MODULE AuditReplication --------------------------
(***************************************************************************)
(* What the cluster's audit forwarding promises, without its queue, tasks  *)
(* and requests.  Every node keeps a log of audit events; an event is      *)
(* recorded where it happens, may be copied between the master and a       *)
(* slave, and a copy may be reported as delivered only when the target     *)
(* already holds an event with the same deduplication key.                 *)
(***************************************************************************)
EXTENDS Naturals

CONSTANTS
    Node,       \* node ids
    Master,     \* the node whose profile is master
    Event,      \* audit events
    Origin,     \* the node an event happens on (event_log.server_node)
    Key         \* what the receiver compares to recognise a repeated event

VARIABLES
    recorded,   \* events committed where they happened
    holds,      \* per node, the events its log contains
    reported    \* pairs <<event, target>> shown to operators as delivered

absVars == <<recorded, holds, reported>>

\* Copies travel from the master to a slave or from a slave to the master.
Direction(e, t) == t # Origin[e] /\ (Origin[e] = Master \/ t = Master)

\* The target already holds an event the receiver cannot tell from e.
Known(e, t) == \E f \in holds[t] : Key[f] = Key[e]

AbsInit ==
    /\ recorded = {}
    /\ holds = [n \in Node |-> {}]
    /\ reported = {}

Record(e) ==
    /\ e \notin recorded
    /\ recorded' = recorded \cup {e}
    /\ holds' = [holds EXCEPT ![Origin[e]] = @ \cup {e}]
    /\ UNCHANGED reported

Replicate(t, copies) ==
    /\ copies # {}
    /\ \A e \in copies : e \in recorded /\ Direction(e, t)
    /\ holds' = [holds EXCEPT ![t] = @ \cup copies]
    /\ UNCHANGED <<recorded, reported>>

\* Reports change in any way that claims nothing the target does not know.
Report(claims) ==
    /\ \A c \in claims \ reported : c[1] \in recorded /\ Known(c[1], c[2])
    /\ reported' = claims
    /\ UNCHANGED <<recorded, holds>>

AbsNext ==
    \/ \E e \in Event : Record(e)
    \/ \E t \in Node, copies \in SUBSET Event : Replicate(t, copies)
    \/ \E claims \in SUBSET (Event \X Node) : Report(claims)

AbsSpec == AbsInit /\ [][AbsNext]_absVars
=============================================================================
