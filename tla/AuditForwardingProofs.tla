----------------------- MODULE AuditForwardingProofs ------------------------
(***************************************************************************)
(* Type correctness of AuditForwarding, that a row shown as sent is        *)
(* covered at its target, that nothing is forwarded before its commit or   *)
(* in a loop, that the outbox implements AuditReplication, and that no     *)
(* event is stored twice where no two requests check it at once, for every *)
(* cluster, batch size, attempt limit and number of faults.                *)
(***************************************************************************)
EXTENDS AuditForwarding, TLAPS

LEMMA RowParts ==
    ASSUME NEW r \in Row
    PROVE  Src(r) \in Node /\ Ev(r) \in Event /\ Dst(r) \in Node
BY DEF Row, Src, Ev, Dst

\* The initial state is well typed.
LEMMA TypeInit == Init => TypeOK
BY ForwardingAssumption DEF Init, TypeOK, FreeConn, ConnState, Status, TaskPC, Mark

LEMMA OrphanedType ==
    ASSUME TypeOK, NEW w \in Worker
    PROVE  Orphaned(w) \in [Conn -> ConnState]
<1> SUFFICES ASSUME NEW c \in Conn
             PROVE  Orphaned(w)[c] \in ConnState
    BY DEF Orphaned
<1>1. FreeConn \in ConnState
    BY ForwardingAssumption DEF FreeConn, ConnState
<1>2. conn[c] \in ConnState
    BY DEF TypeOK
<1>3. [conn[c] EXCEPT !.by = NoWorker] \in ConnState
    BY <1>2 DEF ConnState
<1> QED
    BY <1>1, <1>2, <1>3 DEF Orphaned

LEMMA DiscardType ==
    ASSUME TypeOK, NEW w \in Worker, Discard(w), faults' \in Nat
    PROVE  TypeOK'
<1>1. conn' \in [Conn -> ConnState]
    BY OrphanedType DEF Discard
<1>2. /\ pc' \in [Worker -> TaskPC]
      /\ todo' \in [Worker -> SUBSET Row]
      /\ group' \in [Worker -> SUBSET Row]
    BY DEF Discard, TypeOK, TaskPC
<1>3. read' \in [Worker -> [Row -> Nat]]
    BY DEF Discard, TypeOK
<1>4. mark' \in [Worker -> [Row -> Mark]]
    BY DEF Discard, TypeOK, Mark
<1> QED
    BY <1>1, <1>2, <1>3, <1>4 DEF Discard, TypeOK, logVars, queueVars

LEMMA MarkGroupType ==
    ASSUME TypeOK, NEW w \in Worker, NEW mk \in [Row -> Mark],
           pc' = [pc EXCEPT ![w] = "run"],
           mark' = [mark EXCEPT ![w] = mk],
           todo' = [todo EXCEPT ![w] = @ \ group[w]],
           group' = [group EXCEPT ![w] = {}],
           UNCHANGED <<logVars, log, registry, queueVars, read, conn, faults>>
    PROVE  TypeOK'
BY DEF TypeOK, TaskPC, logVars, queueVars

\* Every step keeps the state well typed.
LEMMA TypeNext == TypeOK /\ [Next]_vars => TypeOK'
<1> SUFFICES ASSUME TypeOK, [Next]_vars PROVE TypeOK'
    OBVIOUS
<1> USE ForwardingAssumption
<1>1. ASSUME NEW e \in Event, LogBegin(e) PROVE TypeOK'
  <2>1. Targets(Origin[e], e) \in SUBSET Node
      BY DEF Targets, TypeOK
  <2> QED
      BY <1>1, <2>1 DEF LogBegin, TypeOK, queueVars, taskVars
<1>2. ASSUME NEW e \in Event, LogRollback(e) PROVE TypeOK'
    BY <1>2 DEF LogRollback, Fault, TypeOK, queueVars, taskVars
<1>3. ASSUME NEW e \in Event, LogCommit(e) PROVE TypeOK'
  <2>1. log' \in [Node -> [Event -> Nat]]
      BY <1>3 DEF LogCommit, TypeOK
  <2>2. status' \in [Row -> Status] /\ attempts' \in [Row -> Nat] /\ due' \in [Row -> BOOLEAN]
      BY <1>3 DEF LogCommit, TypeOK, Status
  <2> QED
      BY <1>3, <2>1, <2>2 DEF LogCommit, TypeOK, taskVars
<1>4. ASSUME NEW r \in Row, BackoffElapsed(r) PROVE TypeOK'
    BY <1>4 DEF BackoffElapsed, TypeOK, logVars, taskVars
<1>5. ASSUME NEW w \in Worker, NEW batch \in SUBSET DueRows(Home[w]), FlushSelect(w, batch)
      PROVE  TypeOK'
    BY <1>5 DEF FlushSelect, DueRows, TypeOK, TaskPC, logVars, queueVars
<1>6. ASSUME NEW w \in Worker, NEW t \in Node, TargetMissing(w, t) PROVE TypeOK'
    BY <1>6 DEF TargetMissing, TargetRows, TypeOK, TaskPC, logVars, queueVars
<1>7. ASSUME NEW w \in Worker, NEW t \in Node, NEW c \in Conn, Post(w, t, c) PROVE TypeOK'
  <2>1. TargetRows(w, t) \in SUBSET Row
      BY DEF TargetRows, TypeOK
  <2>2. conn' \in [Conn -> ConnState]
      BY <1>7, <2>1 DEF Post, TypeOK, ConnState
  <2> QED
      BY <1>7, <2>1, <2>2 DEF Post, TypeOK, TaskPC, logVars, queueVars
<1>8. ASSUME NEW w \in Worker, NEW c \in Conn, PostSucceeds(w, c) PROVE TypeOK'
    BY <1>8 DEF PostSucceeds, TypeOK, TaskPC, ConnState, FreeConn, logVars, queueVars
<1>9. ASSUME NEW w \in Worker, PostFails(w) PROVE TypeOK'
    BY <1>9 DEF PostFails, TypeOK, TaskPC, logVars, queueVars
<1>10. ASSUME NEW w \in Worker, PostTimesOut(w) PROVE TypeOK'
  <2>1. conn' \in [Conn -> ConnState]
      BY <1>10, OrphanedType DEF PostTimesOut
  <2> QED
      BY <1>10, <2>1 DEF PostTimesOut, Fault, TypeOK, TaskPC, logVars, queueVars
<1>11. ASSUME NEW w \in Worker, MarkSent(w) PROVE TypeOK'
  <2> DEFINE mk == [r \in Row |-> IF r \in group[w] THEN "sent" ELSE mark[w][r]]
  <2>1. mk \in [Row -> Mark]
      BY DEF TypeOK, Mark
  <2>2. mark' = [mark EXCEPT ![w] = mk]
      BY <1>11 DEF MarkSent, MarkGroup
  <2> HIDE DEF mk
  <2> QED
      BY <1>11, <2>1, <2>2, MarkGroupType DEF MarkSent, MarkGroup
<1>12. ASSUME NEW w \in Worker, MarkFailed(w) PROVE TypeOK'
  <2> DEFINE mk == [r \in Row |-> IF r \in group[w] THEN AfterFailure(w, r) ELSE mark[w][r]]
  <2>1. mk \in [Row -> Mark]
      BY DEF TypeOK, Mark, AfterFailure
  <2>2. mark' = [mark EXCEPT ![w] = mk]
      BY <1>12 DEF MarkFailed, MarkGroup
  <2> HIDE DEF mk
  <2> QED
      BY <1>12, <2>1, <2>2, MarkGroupType DEF MarkFailed, MarkGroup
<1>13. ASSUME NEW w \in Worker, MarkAbandoned(w) PROVE TypeOK'
  <2> DEFINE mk == [r \in Row |-> IF r \in group[w] THEN "abandoned" ELSE mark[w][r]]
  <2>1. mk \in [Row -> Mark]
      BY DEF TypeOK, Mark
  <2>2. mark' = [mark EXCEPT ![w] = mk]
      BY <1>13 DEF MarkAbandoned, MarkGroup
  <2> HIDE DEF mk
  <2> QED
      BY <1>13, <2>1, <2>2, MarkGroupType DEF MarkAbandoned, MarkGroup
<1>14. ASSUME NEW w \in Worker, Commit(w) PROVE TypeOK'
  <2>1. status' \in [Row -> Status]
      BY <1>14 DEF Commit, TypeOK, WritesStatus, Status
  <2>2. attempts' \in [Row -> Nat] /\ due' \in [Row -> BOOLEAN]
      BY <1>14 DEF Commit, TypeOK
  <2>3. read' \in [Worker -> [Row -> Nat]] /\ mark' \in [Worker -> [Row -> Mark]]
      BY <1>14 DEF Commit, TypeOK, Mark
  <2> QED
      BY <1>14, <2>1, <2>2, <2>3 DEF Commit, TypeOK, TaskPC, logVars
<1>15. ASSUME NEW w \in Worker, Killed(w) PROVE TypeOK'
  <2>1. faults' \in Nat
      BY <1>15 DEF Killed, Fault, TypeOK
  <2> QED
      BY <1>15, <2>1, DiscardType DEF Killed
<1>16. ASSUME NEW w \in Worker, StaleNode(w) \/ DeadlockVictim(w) PROVE TypeOK'
  <2>1. faults' \in Nat /\ Discard(w)
      BY <1>16 DEF StaleNode, DeadlockVictim, TypeOK
  <2> QED
      BY <2>1, DiscardType
<1>17. ASSUME NEW c \in Conn, IngestCheck(c) PROVE TypeOK'
  <2>1. \A e : e \in EventsOf(c) => e \in Event
      BY RowParts DEF EventsOf, TypeOK, ConnState
  <2>2. \A S \in SUBSET Event, p \in {"free", "sent", "checked", "answered"}, k \in ConnState :
            [[k EXCEPT !.pc = p] EXCEPT !.fresh = S] \in ConnState
      BY DEF ConnState
  <2>3. conn[c] \in ConnState
      BY DEF TypeOK
  <2> DEFINE S == {e \in EventsOf(c) : ~Seen(e, conn[c].to)}
             k == [[conn[c] EXCEPT !.pc = "checked"] EXCEPT !.fresh = S]
  <2>4. k \in ConnState
      BY <2>1, <2>2, <2>3
  <2>5. conn' = [conn EXCEPT ![c] = k]
      BY <1>17 DEF IngestCheck, TypeOK
  <2> HIDE DEF k
  <2>6. conn' \in [Conn -> ConnState]
      BY <2>4, <2>5 DEF TypeOK
  <2> QED
      BY <1>17, <2>6 DEF IngestCheck, TypeOK, logVars, queueVars, taskVars
<1>18. ASSUME NEW c \in Conn, IngestCommit(c) PROVE TypeOK'
  <2>1. log' \in [Node -> [Event -> Nat]]
      BY <1>18 DEF IngestCommit, TypeOK, ConnState
  <2>3. conn[c] \in ConnState /\ FreeConn \in ConnState
      BY DEF TypeOK, FreeConn, ConnState
  <2>4. [conn[c] EXCEPT !.pc = "answered"] \in ConnState
      BY <2>3 DEF ConnState
  <2> DEFINE k == IF conn[c].by = NoWorker THEN FreeConn
                  ELSE [conn[c] EXCEPT !.pc = "answered"]
  <2>5. k \in ConnState
      BY <2>3, <2>4
  <2>6. conn' = [conn EXCEPT ![c] = k]
      BY <1>18 DEF IngestCommit
  <2> HIDE DEF k
  <2>2. conn' \in [Conn -> ConnState]
      BY <2>5, <2>6 DEF TypeOK
  <2> QED
      BY <1>18, <2>1, <2>2 DEF IngestCommit, TypeOK, logVars, queueVars, taskVars
<1>19. ASSUME NEW c \in Conn, RequestLost(c) PROVE TypeOK'
    BY <1>19 DEF RequestLost, Fault, FreeConn, ConnState, TypeOK, logVars, queueVars, taskVars
<1>20. ASSUME NEW n \in Node, DeleteNode(n) PROVE TypeOK'
    BY <1>20 DEF DeleteNode, TypeOK, Status, logVars, taskVars
<1>21. ASSUME NEW n \in Node, AddNode(n) PROVE TypeOK'
    BY <1>21 DEF AddNode, TypeOK, logVars, queueVars, taskVars
<1>22. CASE UNCHANGED vars
    BY <1>22 DEF vars, TypeOK
<1> QED
    BY <1>1, <1>2, <1>3, <1>4, <1>5, <1>6, <1>7, <1>8, <1>9, <1>10, <1>11, <1>12,
       <1>13, <1>14, <1>15, <1>16, <1>17, <1>18, <1>19, <1>20, <1>21, <1>22
       DEF Next, WriterStep, TaskStep, ReceiverStep, Environment

\* Type correctness: every reachable state of the outbox is well typed.
THEOREM TypeCorrect == Spec => []TypeOK
BY TypeInit, TypeNext, PTL DEF Spec

-----------------------------------------------------------------------------
(* Nothing a step does makes a log forget an event.                        *)

LogGrows == \A n \in Node, e \in Event : log[n][e] > 0 => log'[n][e] > 0

LEMMA LogNeverShrinks == TypeOK /\ [Next]_vars => LogGrows
<1> SUFFICES ASSUME TypeOK, [Next]_vars PROVE LogGrows
    OBVIOUS
<1>1. ASSUME NEW e \in Event, LogCommit(e) PROVE LogGrows
    BY <1>1, ForwardingAssumption DEF LogCommit, LogGrows, TypeOK
<1>2. ASSUME NEW c \in Conn, IngestCommit(c) PROVE LogGrows
    BY <1>2 DEF IngestCommit, LogGrows, TypeOK, ConnState
<1>3. CASE UNCHANGED log
    BY <1>3 DEF LogGrows
<1> QED
    BY <1>1, <1>2, <1>3
       DEF Next, vars, WriterStep, TaskStep, ReceiverStep, Environment, LogBegin,
           LogRollback, BackoffElapsed, FlushSelect, TargetMissing, Post,
           PostSucceeds, PostFails, PostTimesOut, MarkSent, MarkFailed,
           MarkAbandoned, MarkGroup, Commit, Killed, StaleNode, DeadlockVictim,
           Discard, IngestCheck, RequestLost, DeleteNode, AddNode

LEMMA CoveredStable ==
    ASSUME LogGrows, NEW r \in Row, Covered(r)
    PROVE  Covered(r)'
BY RowParts DEF Covered, LogGrows, Src, Ev, Dst

\* Steps that touch no request and no task, and show no further row as sent.
LEMMA FrameDelivery ==
    ASSUME RequestsCovered, TasksCovered, SentMeansCovered, TypeOK, LogGrows,
           UNCHANGED <<pc, group, mark, conn>>,
           \A r \in Row : status'[r] = "sent" => status[r] = "sent"
    PROVE  RequestsCovered' /\ TasksCovered' /\ SentMeansCovered'
<1>1. \A c \in Conn : conn[c].rows \subseteq Row
    BY DEF TypeOK, ConnState
<1>2. RequestsCovered'
    BY <1>1, CoveredStable DEF RequestsCovered, Dst, Ev
<1>3. \A w \in Worker : group[w] \subseteq Row
    BY DEF TypeOK
<1>4. TasksCovered'
    BY <1>3, CoveredStable DEF TasksCovered
<1>5. SentMeansCovered'
    BY CoveredStable DEF SentMeansCovered
<1> QED
    BY <1>2, <1>4, <1>5

\* Steps of a task that leave the logs and the queue alone.
LEMMA TaskFrame ==
    ASSUME SentMeansCovered, UNCHANGED <<log, status>>
    PROVE  SentMeansCovered' /\ \A r \in Row : Covered(r) <=> Covered(r)'
BY DEF SentMeansCovered, Covered

LEMMA DiscardDelivery ==
    ASSUME DeliveryInv, NEW w \in Worker, Discard(w)
    PROVE  RequestsCovered' /\ TasksCovered' /\ SentMeansCovered'
<1> USE DEF DeliveryInv
<1>1. SentMeansCovered' /\ \A r \in Row : Covered(r) <=> Covered(r)'
    BY TaskFrame DEF Discard, queueVars
<1>2. \A v \in Worker : /\ v # w => pc'[v] = pc[v] /\ group'[v] = group[v]
                        /\ v # w => mark'[v] = mark[v]
    BY DEF Discard, TypeOK
<1>3. pc'[w] = "idle" /\ \A r \in Row : mark'[w][r] = "none"
    BY DEF Discard, TypeOK
<1>4. TasksCovered'
  <2> SUFFICES ASSUME NEW v \in Worker
               PROVE  /\ pc'[v] = "ok" => \A r \in group'[v] : Covered(r)'
                      /\ \A r \in Row : mark'[v][r] = "sent" => Covered(r)'
      BY DEF TasksCovered
  <2>1. group[v] \subseteq Row
      BY DEF TypeOK
  <2>2. CASE v = w
      BY <1>3, <2>2
  <2>3. CASE v # w
      BY <1>1, <1>2, <2>1, <2>3 DEF TasksCovered
  <2> QED
      BY <2>2, <2>3
<1>5. RequestsCovered'
  <2> SUFFICES ASSUME NEW c \in Conn
               PROVE  RequestsCovered!(c)'
      BY DEF RequestsCovered
  <2>1. conn[c] \in ConnState /\ conn[c].rows \subseteq Row
      BY DEF TypeOK, ConnState
  <2>2. conn' = Orphaned(w)
      BY DEF Discard
  <2>3. CASE conn[c].by # w
    <3>1. conn'[c] = conn[c]
        BY <2>2, <2>3 DEF Orphaned
    <3>2. conn[c].by # NoWorker => conn[c].by \in Worker
        BY <2>1 DEF ConnState
    <3> QED
        BY <1>1, <1>2, <2>1, <2>3, <3>1, <3>2 DEF RequestsCovered, Dst, Ev
  <2>4. CASE conn[c].by = w /\ conn[c].pc = "answered"
    <3>1. conn'[c] = FreeConn
        BY <2>2, <2>4 DEF Orphaned
    <3> QED
        BY <3>1 DEF FreeConn
  <2>5. CASE conn[c].by = w /\ conn[c].pc # "answered"
    <3>1. conn'[c] = [conn[c] EXCEPT !.by = NoWorker]
        BY <2>2, <2>5 DEF Orphaned
    <3>2. /\ conn'[c].by = NoWorker /\ conn'[c].pc = conn[c].pc
          /\ conn'[c].rows = conn[c].rows /\ conn'[c].fresh = conn[c].fresh
          /\ conn'[c].to = conn[c].to
        BY <2>1, <3>1 DEF ConnState
    <3> QED
        BY <1>1, <2>1, <2>5, <3>2 DEF RequestsCovered, Dst, Ev
  <2> QED
      BY <2>3, <2>4, <2>5
<1> QED
    BY <1>1, <1>4, <1>5

\* A task marks its group: the marks it adds as sent must be covered.
LEMMA MarkDelivery ==
    ASSUME DeliveryInv, NEW w \in Worker, NEW mk \in [Row -> Mark],
           pc[w] \in {"ok", "err", "gone"},
           pc' = [pc EXCEPT ![w] = "run"],
           mark' = [mark EXCEPT ![w] = mk],
           group' = [group EXCEPT ![w] = {}],
           \A r \in Row : mk[r] = "sent" => Covered(r),
           UNCHANGED <<log, status, conn>>
    PROVE  RequestsCovered' /\ TasksCovered' /\ SentMeansCovered'
<1> USE DEF DeliveryInv
<1>1. SentMeansCovered' /\ \A r \in Row : Covered(r) <=> Covered(r)'
    BY TaskFrame
<1>2. \A v \in Worker : v # w => /\ pc'[v] = pc[v] /\ group'[v] = group[v]
                                 /\ mark'[v] = mark[v]
    BY DEF TypeOK
<1>3. pc'[w] = "run" /\ mark'[w] = mk
    BY DEF TypeOK
<1>4. TasksCovered'
  <2>1. \A v \in Worker : group[v] \subseteq Row
      BY DEF TypeOK
  <2> QED
      BY <1>1, <1>2, <1>3, <2>1 DEF TasksCovered
<1>5. RequestsCovered'
  <2>1. \A c \in Conn : conn[c].by # w /\ conn[c].rows \subseteq Row
                        /\ (conn[c].by # NoWorker => conn[c].by \in Worker)
      BY ForwardingAssumption DEF RequestsCovered, TypeOK, ConnState
  <2> QED
      BY <1>1, <1>2, <2>1 DEF RequestsCovered, Dst, Ev
<1> QED
    BY <1>1, <1>4, <1>5

\* The rest of a task: only its own place changes, or the request it waits for.
LEMMA MoveDelivery ==
    ASSUME DeliveryInv, NEW w \in Worker,
           \A v \in Worker : v # w => pc'[v] = pc[v] /\ group'[v] = group[v],
           pc'[w] = "ok" => \A r \in group'[w] : Covered(r),
           group'[w] \subseteq Row,
           UNCHANGED <<log, status, mark>>
    PROVE  TasksCovered' /\ SentMeansCovered'
<1> USE DEF DeliveryInv
<1>1. SentMeansCovered' /\ \A r \in Row : Covered(r) <=> Covered(r)'
    BY TaskFrame
<1>2. \A v \in Worker : group[v] \subseteq Row
    BY DEF TypeOK
<1> QED
    BY <1>1, <1>2 DEF TasksCovered

LEMMA RequestsKept ==
    ASSUME DeliveryInv, NEW w \in Worker,
           \A v \in Worker : v # w => pc'[v] = pc[v] /\ group'[v] = group[v],
           \A r \in Row : Covered(r) => Covered(r)',
           \A c \in Conn : \/ conn'[c] = FreeConn
                           \/ conn'[c] = conn[c] /\ conn[c].by # w
                           \/ conn'[c] = [conn[c] EXCEPT !.by = NoWorker]
                              /\ conn[c].pc # "free"
    PROVE  RequestsCovered'
<1> USE DEF DeliveryInv
<1> SUFFICES ASSUME NEW c \in Conn
             PROVE  RequestsCovered!(c)'
    BY DEF RequestsCovered
<1>1. /\ conn[c] \in ConnState /\ conn[c].rows \subseteq Row
      /\ conn[c].by # NoWorker => conn[c].by \in Worker
    BY DEF TypeOK, ConnState
<1>2. CASE conn'[c] = FreeConn
    BY <1>2 DEF FreeConn
<1>3. CASE conn'[c] = conn[c] /\ conn[c].by # w
    BY <1>1, <1>3 DEF RequestsCovered, Dst, Ev
<1>4. CASE conn'[c] = [conn[c] EXCEPT !.by = NoWorker]
  <2>1. /\ conn'[c].by = NoWorker /\ conn'[c].pc = conn[c].pc
        /\ conn'[c].rows = conn[c].rows /\ conn'[c].fresh = conn[c].fresh
        /\ conn'[c].to = conn[c].to
      BY <1>1, <1>4 DEF ConnState
  <2> QED
      BY <1>1, <2>1 DEF RequestsCovered, Dst, Ev
<1> QED
    BY <1>2, <1>3, <1>4

\* A task waits for one request at a time.
LEMMA OneRequestNext ==
    TypeOK /\ RequestsCovered /\ OneRequestEach /\ [Next]_vars => OneRequestEach'
<1> SUFFICES ASSUME TypeOK, RequestsCovered, OneRequestEach, [Next]_vars
             PROVE  OneRequestEach'
    OBVIOUS
<1>1. ASSUME NEW w \in Worker, NEW t \in Node, NEW c \in Conn, Post(w, t, c)
      PROVE  OneRequestEach'
  <2>1. \A d \in Conn : conn[d].by # w
      BY <1>1, ForwardingAssumption DEF Post, RequestsCovered
  <2>2. \A d \in Conn : conn'[d].by = IF d = c THEN w ELSE conn[d].by
      BY <1>1 DEF Post, TypeOK
  <2> QED
      BY <2>1, <2>2 DEF OneRequestEach
<1>2. ASSUME \A d \in Conn : conn'[d].by \in {conn[d].by, NoWorker}
      PROVE  OneRequestEach'
    BY <1>2 DEF OneRequestEach
<1>3. ASSUME NEW w \in Worker, conn' = Orphaned(w)
      PROVE  OneRequestEach'
  <2>1. \A d \in Conn : conn[d] \in ConnState
      BY DEF TypeOK
  <2>2. \A d \in Conn : [conn[d] EXCEPT !.by = NoWorker].by = NoWorker
      BY <2>1 DEF ConnState
  <2>3. FreeConn.by = NoWorker
      BY DEF FreeConn
  <2>4. \A d \in Conn : conn'[d].by \in {conn[d].by, NoWorker}
      BY <1>3, <2>2, <2>3 DEF Orphaned
  <2> QED
      BY <1>2, <2>4
<1>4. ASSUME NEW w \in Worker, NEW c \in Conn, PostSucceeds(w, c)
      PROVE  OneRequestEach'
    BY <1>2, <1>4 DEF PostSucceeds, FreeConn, TypeOK
<1>5. ASSUME NEW c \in Conn, RequestLost(c)
      PROVE  OneRequestEach'
    BY <1>2, <1>5 DEF RequestLost, FreeConn, TypeOK
<1>6. ASSUME NEW c \in Conn, IngestCheck(c)
      PROVE  OneRequestEach'
  <2>1. conn[c] \in ConnState
      BY DEF TypeOK
  <2>2. \A S, p : [[conn[c] EXCEPT !.pc = p] EXCEPT !.fresh = S].by = conn[c].by
      BY <2>1 DEF ConnState
  <2>3. conn' = [conn EXCEPT ![c] = [[conn[c] EXCEPT !.pc = "checked"]
                    EXCEPT !.fresh = {e \in EventsOf(c) : ~Seen(e, conn[c].to)}]]
      BY <1>6 DEF IngestCheck, TypeOK
  <2> QED
      BY <1>2, <2>2, <2>3 DEF TypeOK
<1>7. ASSUME NEW c \in Conn, IngestCommit(c)
      PROVE  OneRequestEach'
  <2>1. conn[c] \in ConnState
      BY DEF TypeOK
  <2>2. [conn[c] EXCEPT !.pc = "answered"].by = conn[c].by
      BY <2>1 DEF ConnState
  <2>3. FreeConn.by = NoWorker
      BY DEF FreeConn
  <2> QED
      BY <1>2, <1>7, <2>2, <2>3 DEF IngestCommit, TypeOK
<1>8. CASE UNCHANGED conn
    BY <1>8 DEF OneRequestEach
<1> QED
    BY <1>1, <1>3, <1>4, <1>5, <1>6, <1>7, <1>8
       DEF Next, vars, WriterStep, TaskStep, ReceiverStep, Environment, LogBegin,
           LogRollback, LogCommit, BackoffElapsed, FlushSelect, TargetMissing,
           PostFails, PostTimesOut, MarkSent, MarkFailed, MarkAbandoned, MarkGroup,
           Commit, Killed, StaleNode, DeadlockVictim, Discard, DeleteNode, AddNode

\* Every step keeps the delivery invariant.
LEMMA DeliveryNext == DeliveryInv /\ [Next]_vars => DeliveryInv'
<1> SUFFICES ASSUME DeliveryInv, [Next]_vars
             PROVE  RequestsCovered' /\ TasksCovered' /\ SentMeansCovered'
    BY TypeNext, OneRequestNext DEF DeliveryInv
<1> USE DEF DeliveryInv
<1>0. LogGrows
    BY LogNeverShrinks
<1>a. \A c \in Conn : conn[c] \in ConnState /\ conn[c].rows \subseteq Row
    BY DEF TypeOK, ConnState
<1>1. ASSUME NEW e \in Event, WriterStep(e)
      PROVE  RequestsCovered' /\ TasksCovered' /\ SentMeansCovered'
  <2>1. UNCHANGED <<pc, group, mark, conn>>
      BY <1>1 DEF WriterStep, LogBegin, LogRollback, LogCommit, taskVars
  <2>2. \A r \in Row : status'[r] = "sent" => status[r] = "sent"
      BY <1>1 DEF WriterStep, LogBegin, LogRollback, LogCommit, queueVars, TypeOK
  <2> QED
      BY <1>0, <2>1, <2>2, FrameDelivery
<1>2. ASSUME NEW r \in Row, BackoffElapsed(r)
      PROVE  RequestsCovered' /\ TasksCovered' /\ SentMeansCovered'
    BY <1>0, <1>2, FrameDelivery DEF BackoffElapsed, taskVars
<1>3. ASSUME NEW n \in Node, DeleteNode(n) \/ AddNode(n)
      PROVE  RequestsCovered' /\ TasksCovered' /\ SentMeansCovered'
  <2>1. UNCHANGED <<pc, group, mark, conn>>
      BY <1>3 DEF DeleteNode, AddNode, taskVars
  <2>2. \A r \in Row : status'[r] = "sent" => status[r] = "sent"
      BY <1>3 DEF DeleteNode, AddNode, queueVars, TypeOK
  <2> QED
      BY <1>0, <2>1, <2>2, FrameDelivery
<1>4. ASSUME NEW w \in Worker, Discard(w)
      PROVE  RequestsCovered' /\ TasksCovered' /\ SentMeansCovered'
    BY <1>4, DiscardDelivery
<1>5. ASSUME NEW w \in Worker, NEW batch \in SUBSET DueRows(Home[w]), FlushSelect(w, batch)
      PROVE  RequestsCovered' /\ TasksCovered' /\ SentMeansCovered'
  <2>1. pc[w] = "idle" /\ pc' = [pc EXCEPT ![w] = "run"]
        /\ UNCHANGED <<log, status, mark, group, conn>>
      BY <1>5 DEF FlushSelect, queueVars
  <2>2. \A v \in Worker : v # w => pc'[v] = pc[v] /\ group'[v] = group[v]
      BY <2>1 DEF TypeOK
  <2>3. pc'[w] = "run" /\ group'[w] \subseteq Row
      BY <2>1 DEF TypeOK
  <2>4. TasksCovered' /\ SentMeansCovered'
      BY <2>1, <2>2, <2>3, MoveDelivery
  <2>5. \A c \in Conn : conn[c].by # w
      BY <2>1, ForwardingAssumption DEF RequestsCovered
  <2> QED
      BY <1>0, <2>1, <2>2, <2>4, <2>5, CoveredStable, RequestsKept
<1>6. ASSUME NEW w \in Worker, NEW t \in Node, TargetMissing(w, t)
      PROVE  RequestsCovered' /\ TasksCovered' /\ SentMeansCovered'
  <2>1. pc[w] = "run" /\ pc' = [pc EXCEPT ![w] = "gone"]
        /\ group' = [group EXCEPT ![w] = TargetRows(w, t)]
        /\ UNCHANGED <<log, status, mark, conn>>
      BY <1>6 DEF TargetMissing, queueVars
  <2>2. \A v \in Worker : v # w => pc'[v] = pc[v] /\ group'[v] = group[v]
      BY <2>1 DEF TypeOK
  <2>3. pc'[w] = "gone" /\ group'[w] \subseteq Row
      BY <2>1 DEF TypeOK, TargetRows
  <2>4. TasksCovered' /\ SentMeansCovered'
      BY <2>1, <2>2, <2>3, MoveDelivery
  <2>5. \A c \in Conn : conn[c].by # w
      BY <2>1, ForwardingAssumption DEF RequestsCovered
  <2> QED
      BY <1>0, <2>1, <2>2, <2>4, <2>5, CoveredStable, RequestsKept
<1>7. ASSUME NEW w \in Worker, NEW t \in Node, NEW c \in Conn, Post(w, t, c)
      PROVE  RequestsCovered' /\ TasksCovered' /\ SentMeansCovered'
  <2> DEFINE k == [pc |-> "sent", by |-> w, to |-> t,
                   rows |-> TargetRows(w, t), fresh |-> {}]
  <2>1. pc[w] = "run" /\ pc' = [pc EXCEPT ![w] = "wait"]
        /\ group' = [group EXCEPT ![w] = TargetRows(w, t)]
        /\ conn' = [conn EXCEPT ![c] = k]
        /\ UNCHANGED <<log, status, mark>>
      BY <1>7 DEF Post, queueVars
  <2>2. \A v \in Worker : v # w => pc'[v] = pc[v] /\ group'[v] = group[v]
      BY <2>1 DEF TypeOK
  <2>3. pc'[w] = "wait" /\ group'[w] = TargetRows(w, t) /\ TargetRows(w, t) \subseteq Row
      BY <2>1 DEF TypeOK, TargetRows
  <2>4. TasksCovered' /\ SentMeansCovered'
      BY <2>1, <2>2, <2>3, MoveDelivery
  <2>5. \A d \in Conn : conn[d].by # w /\ (conn[d].by # NoWorker => conn[d].by \in Worker)
      BY <2>1, ForwardingAssumption DEF RequestsCovered, TypeOK, ConnState
  <2>6. \A r \in Row : Covered(r) => Covered(r)'
      BY <1>0, CoveredStable
  <2>7. RequestsCovered'
    <3> SUFFICES ASSUME NEW d \in Conn PROVE RequestsCovered!(d)'
        BY DEF RequestsCovered
    <3>1. CASE d = c
      <4>1. conn'[d] = k
          BY <2>1, <3>1 DEF TypeOK
      <4> QED
          BY <2>3, <4>1 DEF TargetRows
    <3>2. CASE d # c
      <4>1. conn'[d] = conn[d]
          BY <2>1, <3>2 DEF TypeOK
      <4> QED
          BY <1>a, <2>2, <2>5, <2>6, <4>1 DEF RequestsCovered, Dst, Ev
    <3> QED
        BY <3>1, <3>2
  <2> QED
      BY <2>4, <2>7
<1>8. ASSUME NEW w \in Worker, NEW c \in Conn, PostSucceeds(w, c)
      PROVE  RequestsCovered' /\ TasksCovered' /\ SentMeansCovered'
  <2>1. pc[w] = "wait" /\ conn[c].by = w /\ conn[c].pc = "answered"
        /\ pc' = [pc EXCEPT ![w] = "ok"]
        /\ conn' = [conn EXCEPT ![c] = FreeConn]
        /\ UNCHANGED <<log, status, mark, group>>
      BY <1>8 DEF PostSucceeds, Answered, queueVars
  <2>2. \A v \in Worker : v # w => pc'[v] = pc[v] /\ group'[v] = group[v]
      BY <2>1 DEF TypeOK
  <2>3. \A r \in group[w] : Covered(r)
      BY <2>1, ForwardingAssumption DEF RequestsCovered
  <2>4. group'[w] = group[w] /\ group[w] \subseteq Row
      BY <2>1 DEF TypeOK
  <2>5. TasksCovered' /\ SentMeansCovered'
      BY <2>1, <2>2, <2>3, <2>4, MoveDelivery
  <2>6. \A r \in Row : Covered(r) => Covered(r)'
      BY <1>0, CoveredStable
  <2>7. RequestsCovered'
    <3> SUFFICES ASSUME NEW d \in Conn PROVE RequestsCovered!(d)'
        BY DEF RequestsCovered
    <3>1. CASE d = c
        BY <2>1, <3>1 DEF TypeOK, FreeConn
    <3>2. CASE d # c /\ conn[d].by # w
      <4>1. conn'[d] = conn[d] /\ (conn[d].by # NoWorker => conn[d].by \in Worker)
          BY <2>1, <3>2 DEF TypeOK, ConnState
      <4> QED
          BY <1>a, <2>2, <2>6, <3>2, <4>1 DEF RequestsCovered, Dst, Ev
    <3>3. d # c => conn[d].by # w
        BY <2>1, ForwardingAssumption DEF OneRequestEach
    <3> QED
        BY <3>1, <3>2, <3>3
  <2> QED
      BY <2>5, <2>7
<1>9. ASSUME NEW w \in Worker, PostFails(w)
      PROVE  RequestsCovered' /\ TasksCovered' /\ SentMeansCovered'
  <2>1. pc[w] = "wait" /\ Waiting(w) = {} /\ pc' = [pc EXCEPT ![w] = "err"]
        /\ UNCHANGED <<log, status, mark, group, conn>>
      BY <1>9 DEF PostFails, queueVars
  <2>2. \A v \in Worker : v # w => pc'[v] = pc[v] /\ group'[v] = group[v]
      BY <2>1 DEF TypeOK
  <2>3. pc'[w] = "err" /\ group'[w] \subseteq Row
      BY <2>1 DEF TypeOK
  <2>4. TasksCovered' /\ SentMeansCovered'
      BY <2>1, <2>2, <2>3, MoveDelivery
  <2>5. \A c \in Conn : conn[c].by # w \/ conn[c].pc = "free"
      BY <2>1 DEF Waiting
  <2>6. \A c \in Conn : conn[c].by # w
      BY <2>5, ForwardingAssumption DEF RequestsCovered
  <2> QED
      BY <1>0, <2>1, <2>2, <2>4, <2>6, CoveredStable, RequestsKept
<1>10. ASSUME NEW w \in Worker, PostTimesOut(w)
       PROVE  RequestsCovered' /\ TasksCovered' /\ SentMeansCovered'
  <2>1. pc' = [pc EXCEPT ![w] = "err"] /\ conn' = Orphaned(w)
        /\ UNCHANGED <<log, status, mark, group>>
      BY <1>10 DEF PostTimesOut, queueVars
  <2>2. \A v \in Worker : v # w => pc'[v] = pc[v] /\ group'[v] = group[v]
      BY <2>1 DEF TypeOK
  <2>3. pc[w] = "wait" /\ pc'[w] = "err" /\ group'[w] \subseteq Row
      BY <1>10, <2>1 DEF PostTimesOut, TypeOK
  <2>4. TasksCovered' /\ SentMeansCovered'
      BY <2>1, <2>2, <2>3, MoveDelivery
  <2>5. \A c \in Conn : \/ conn'[c] = FreeConn
                        \/ conn'[c] = conn[c] /\ conn[c].by # w
                        \/ conn'[c] = [conn[c] EXCEPT !.by = NoWorker]
                           /\ conn[c].pc # "free"
      BY <2>1, ForwardingAssumption DEF Orphaned, RequestsCovered, FreeConn
  <2>6. \A r \in Row : Covered(r) => Covered(r)'
      BY <1>0, CoveredStable
  <2> QED
      BY <2>2, <2>4, <2>5, <2>6, RequestsKept
<1>11. ASSUME NEW w \in Worker, MarkSent(w)
       PROVE  RequestsCovered' /\ TasksCovered' /\ SentMeansCovered'
  <2> DEFINE mk == [r \in Row |-> IF r \in group[w] THEN "sent" ELSE mark[w][r]]
  <2>1. mk \in [Row -> Mark]
      BY DEF TypeOK, Mark
  <2>2. \A r \in Row : mk[r] = "sent" => Covered(r)
      BY <1>11 DEF MarkSent, TasksCovered
  <2>3. mark' = [mark EXCEPT ![w] = mk]
      BY <1>11 DEF MarkSent, MarkGroup
  <2> HIDE DEF mk
  <2> QED
      BY <1>11, <2>1, <2>2, <2>3, MarkDelivery DEF MarkSent, MarkGroup, queueVars
<1>12. ASSUME NEW w \in Worker, MarkFailed(w)
       PROVE  RequestsCovered' /\ TasksCovered' /\ SentMeansCovered'
  <2> DEFINE mk == [r \in Row |-> IF r \in group[w] THEN AfterFailure(w, r) ELSE mark[w][r]]
  <2>1. mk \in [Row -> Mark]
      BY DEF TypeOK, Mark, AfterFailure
  <2>2. \A r \in Row : mk[r] = "sent" => Covered(r)
      BY DEF TasksCovered, AfterFailure
  <2>3. mark' = [mark EXCEPT ![w] = mk]
      BY <1>12 DEF MarkFailed, MarkGroup
  <2> HIDE DEF mk
  <2> QED
      BY <1>12, <2>1, <2>2, <2>3, MarkDelivery DEF MarkFailed, MarkGroup, queueVars
<1>13. ASSUME NEW w \in Worker, MarkAbandoned(w)
       PROVE  RequestsCovered' /\ TasksCovered' /\ SentMeansCovered'
  <2> DEFINE mk == [r \in Row |-> IF r \in group[w] THEN "abandoned" ELSE mark[w][r]]
  <2>1. mk \in [Row -> Mark]
      BY DEF TypeOK, Mark
  <2>2. \A r \in Row : mk[r] = "sent" => Covered(r)
      BY DEF TasksCovered
  <2>3. mark' = [mark EXCEPT ![w] = mk]
      BY <1>13 DEF MarkAbandoned, MarkGroup
  <2> HIDE DEF mk
  <2> QED
      BY <1>13, <2>1, <2>2, <2>3, MarkDelivery DEF MarkAbandoned, MarkGroup, queueVars
<1>14. ASSUME NEW w \in Worker, Commit(w)
       PROVE  RequestsCovered' /\ TasksCovered' /\ SentMeansCovered'
  <2>1. pc[w] = "run" /\ pc' = [pc EXCEPT ![w] = "idle"]
        /\ mark' = [mark EXCEPT ![w] = [r \in Row |-> "none"]]
        /\ UNCHANGED <<log, group, conn>>
      BY <1>14 DEF Commit
  <2>2. \A r \in Row : Covered(r) <=> Covered(r)'
      BY <2>1 DEF Covered
  <2>3. \A r \in Row : status'[r] = "sent" => status[r] = "sent" \/ mark[w][r] = "sent"
      BY <1>14 DEF Commit, WritesStatus
  <2>4. SentMeansCovered'
      BY <2>2, <2>3 DEF SentMeansCovered, TasksCovered
  <2>5. \A v \in Worker : /\ v # w => pc'[v] = pc[v] /\ mark'[v] = mark[v]
                          /\ group[v] \subseteq Row
      BY <2>1 DEF TypeOK
  <2>6. pc'[w] = "idle" /\ \A r \in Row : mark'[w][r] = "none"
      BY <2>1 DEF TypeOK
  <2>7. TasksCovered'
      BY <2>1, <2>2, <2>5, <2>6 DEF TasksCovered
  <2>8. \A c \in Conn : conn[c].by # w /\ (conn[c].by # NoWorker => conn[c].by \in Worker)
      BY <2>1, ForwardingAssumption DEF RequestsCovered, TypeOK, ConnState
  <2>9. RequestsCovered'
      BY <1>a, <2>1, <2>2, <2>5, <2>8 DEF RequestsCovered, Dst, Ev
  <2> QED
      BY <2>4, <2>7, <2>9
<1>15. ASSUME NEW c \in Conn, NEW k \in ConnState, UNCHANGED <<pc, group, mark, status>>,
              conn' = [conn EXCEPT ![c] = k],
              k.by \in {conn[c].by, NoWorker}, k.by # NoWorker => k.rows = conn[c].rows /\ k.pc # "free",
              k.pc # "free" => \A r \in k.rows : Dst(r) = k.to,
              k.pc = "checked" => \A r \in k.rows : Ev(r) \in k.fresh \/ Covered(r)',
              k.pc = "answered" => \A r \in k.rows : Covered(r)'
       PROVE  RequestsCovered' /\ TasksCovered' /\ SentMeansCovered'
  <2>1. \A r \in Row : Covered(r) => Covered(r)'
      BY <1>0, CoveredStable
  <2>2. TasksCovered' /\ SentMeansCovered'
      BY <1>15, <2>1 DEF TasksCovered, SentMeansCovered, TypeOK
  <2>3. RequestsCovered'
    <3> SUFFICES ASSUME NEW d \in Conn PROVE RequestsCovered!(d)'
        BY DEF RequestsCovered
    <3>1. CASE d = c
      <4>1. conn'[d] = k
          BY <1>15, <3>1 DEF TypeOK
      <4> QED
          BY <1>15, <3>1, <4>1 DEF RequestsCovered, Dst, Ev
    <3>2. CASE d # c
      <4>1. conn'[d] = conn[d]
          BY <1>15, <3>2 DEF TypeOK
      <4> QED
          BY <1>15, <1>a, <2>1, <4>1 DEF RequestsCovered, Dst, Ev
    <3> QED
        BY <3>1, <3>2
  <2> QED
      BY <2>2, <2>3
<1>16. ASSUME NEW c \in Conn, IngestCheck(c)
       PROVE  RequestsCovered' /\ TasksCovered' /\ SentMeansCovered'
  <2> DEFINE S == {e \in EventsOf(c) : ~Seen(e, conn[c].to)}
             k == [[conn[c] EXCEPT !.pc = "checked"] EXCEPT !.fresh = S]
  <2>1. conn' = [conn EXCEPT ![c] = k] /\ conn[c].pc = "sent"
        /\ UNCHANGED <<pc, group, mark, status, log>>
      BY <1>16 DEF IngestCheck, TypeOK, queueVars, taskVars
  <2>2. S \subseteq Event
      BY <1>a, RowParts DEF EventsOf
  <2>3. k \in ConnState /\ k.pc = "checked" /\ k.fresh = S /\ k.by = conn[c].by
        /\ k.rows = conn[c].rows /\ k.to = conn[c].to
      BY <1>a, <2>2 DEF ConnState
  <2>4. \A r \in k.rows : Dst(r) = k.to
      BY <2>1, <2>3 DEF RequestsCovered
  <2>5. \A r \in k.rows : Ev(r) \in S \/ Covered(r)'
      BY <2>1, <2>3, <2>4 DEF EventsOf, Seen, Covered
  <2> HIDE DEF k
  <2> QED
      BY <1>15, <2>1, <2>3, <2>4, <2>5
<1>17. ASSUME NEW c \in Conn, IngestCommit(c)
       PROVE  RequestsCovered' /\ TasksCovered' /\ SentMeansCovered'
  <2> DEFINE a == [conn[c] EXCEPT !.pc = "answered"]
             k == IF conn[c].by = NoWorker THEN FreeConn ELSE a
  <2>1. conn' = [conn EXCEPT ![c] = k] /\ conn[c].pc = "checked"
        /\ UNCHANGED <<pc, group, mark, status>>
      BY <1>17 DEF IngestCommit, queueVars, taskVars
  <2>2. a \in ConnState /\ a.pc = "answered" /\ a.by = conn[c].by
        /\ a.rows = conn[c].rows /\ a.to = conn[c].to
      BY <1>a DEF ConnState
  <2>3. FreeConn \in ConnState /\ FreeConn.by = NoWorker /\ FreeConn.pc = "free"
      BY ForwardingAssumption DEF FreeConn, ConnState
  <2>4. \A r \in conn[c].rows : Dst(r) = conn[c].to
      BY <2>1 DEF RequestsCovered
  <2>5. \A e \in conn[c].fresh : log'[conn[c].to][e] > 0
      BY <1>17, <1>a DEF IngestCommit, TypeOK, ConnState
  <2>6. \A r \in conn[c].rows : Covered(r)'
    <3> SUFFICES ASSUME NEW r \in conn[c].rows PROVE Covered(r)'
        OBVIOUS
    <3>1. r \in Row /\ Ev(r) \in Event
        BY <1>a, RowParts
    <3>2. CASE Ev(r) \in conn[c].fresh
        BY <2>4, <2>5, <3>1, <3>2 DEF Covered, Dst, Ev
    <3>3. CASE Covered(r)
        BY <1>0, <3>1, <3>3, CoveredStable
    <3> QED
        BY <2>1, <3>2, <3>3 DEF RequestsCovered
  <2>7. k \in ConnState /\ k.by \in {conn[c].by, NoWorker}
        /\ (k.by # NoWorker => k.rows = conn[c].rows /\ k.pc # "free") /\ k.pc \in {"free", "answered"}
        /\ (k.pc # "free" => k.rows = conn[c].rows /\ k.to = conn[c].to)
      BY <2>2, <2>3
  <2> HIDE DEF k
  <2> QED
      BY <1>15, <2>1, <2>4, <2>6, <2>7
<1>18. ASSUME NEW c \in Conn, RequestLost(c)
       PROVE  RequestsCovered' /\ TasksCovered' /\ SentMeansCovered'
  <2>1. conn' = [conn EXCEPT ![c] = FreeConn]
        /\ UNCHANGED <<pc, group, mark, status>>
      BY <1>18 DEF RequestLost, queueVars, taskVars
  <2>2. FreeConn \in ConnState /\ FreeConn.by = NoWorker /\ FreeConn.pc = "free"
      BY ForwardingAssumption DEF FreeConn, ConnState
  <2> QED
      BY <1>15, <2>1, <2>2
<1>19. CASE UNCHANGED vars
    BY <1>0, <1>19, FrameDelivery DEF vars
<1> QED
    BY <1>1, <1>2, <1>3, <1>4, <1>5, <1>6, <1>7, <1>8, <1>9, <1>10, <1>11, <1>12,
       <1>13, <1>14, <1>16, <1>17, <1>18, <1>19
       DEF Next, TaskStep, ReceiverStep, Environment, Killed, StaleNode, DeadlockVictim

LEMMA DeliveryInit == Init => DeliveryInv
<1> SUFFICES ASSUME Init PROVE DeliveryInv
    OBVIOUS
<1>1. TypeOK
    BY TypeInit
<1>2. RequestsCovered /\ OneRequestEach
    BY DEF Init, RequestsCovered, OneRequestEach, FreeConn
<1>3. TasksCovered /\ SentMeansCovered
    BY DEF Init, TasksCovered, SentMeansCovered
<1> QED
    BY <1>1, <1>2, <1>3 DEF DeliveryInv

\* A row shown as sent is covered at its target, whatever is lost, killed,
\* repeated or deleted.
THEOREM NoFalseSent == Spec => []SentMeansCovered
<1>1. DeliveryInv => SentMeansCovered
    BY DEF DeliveryInv
<1> QED
    BY <1>1, DeliveryInit, DeliveryNext, PTL DEF Spec

\* When no two events share a deduplication key, the target of a row shown as
\* sent stores that very event.
THEOREM NoFalseSentDistinct ==
    ASSUME \A e, f \in Event : Key[e] = Key[f] => e = f
    PROVE  Spec => []SentMeansStored
<1>1. TypeOK /\ SentMeansCovered => SentMeansStored
  <2> SUFFICES ASSUME TypeOK, SentMeansCovered, NEW r \in Row, status[r] = "sent"
               PROVE  log[Dst(r)][Ev(r)] > 0
      BY DEF SentMeansStored
  <2>1. PICK f \in Event : Key[f] = Key[Ev(r)] /\ log[Dst(r)][f] > 0
      BY DEF SentMeansCovered, Covered
  <2>2. f = Ev(r)
      BY <2>1, RowParts
  <2> QED
      BY <2>1, <2>2
<1> QED
    BY <1>1, TypeCorrect, NoFalseSent, PTL

-----------------------------------------------------------------------------
(* What is queued, sent or stored was committed where it happened.         *)

PhaseKept == \A e \in Event : phase[e] = "logged" => phase'[e] = "logged"

\* An event that is committed stays committed.
LEMMA LoggedStays == TypeOK /\ [Next]_vars => PhaseKept
<1> SUFFICES ASSUME TypeOK, [Next]_vars PROVE PhaseKept
    OBVIOUS
<1>1. ASSUME NEW e \in Event, WriterStep(e) PROVE PhaseKept
    BY <1>1 DEF WriterStep, LogBegin, LogRollback, LogCommit, PhaseKept, TypeOK
<1>2. CASE UNCHANGED phase
    BY <1>2 DEF PhaseKept
<1> QED
    BY <1>1, <1>2
       DEF Next, vars, logVars, TaskStep, ReceiverStep, Environment, BackoffElapsed,
           FlushSelect, TargetMissing, Post, PostSucceeds, PostFails, PostTimesOut,
           MarkSent, MarkFailed, MarkAbandoned, MarkGroup, Commit, Killed, StaleNode,
           DeadlockVictim, Discard, IngestCheck, IngestCommit, RequestLost,
           DeleteNode, AddNode

LEMMA GenuineStable ==
    ASSUME PhaseKept, NEW r \in Row, Genuine(r)
    PROVE  Genuine(r)'
BY RowParts DEF Genuine, PhaseKept, Src, Ev, Dst

LEMMA TargetsOutward ==
    ASSUME TypeOK, NEW e \in Event, NEW t \in Targets(Origin[e], e)
    PROVE  Abstract!Direction(e, t)
BY ForwardingAssumption DEF Targets, Abstract!Direction

LEMMA DraftsNext ==
    ASSUME ForwardingInv, [Next]_vars
    PROVE  DraftsOutward'
<1> USE DEF ForwardingInv
<1>1. ASSUME NEW e \in Event, LogBegin(e) PROVE DraftsOutward'
  <2> SUFFICES ASSUME NEW f \in Event, NEW t \in draft'[f]
               PROVE  Abstract!Direction(f, t)
      BY DEF DraftsOutward, Abstract!Direction
  <2>1. draft' = [draft EXCEPT ![e] = Targets(Origin[e], e)]
      BY <1>1 DEF LogBegin
  <2>2. CASE f = e
      BY <2>1, <2>2, TargetsOutward DEF TypeOK
  <2>3. CASE f # e
      BY <2>1, <2>3 DEF DraftsOutward, TypeOK
  <2> QED
      BY <2>2, <2>3
<1>2. ASSUME NEW e \in Event, LogRollback(e) \/ LogCommit(e) PROVE DraftsOutward'
    BY <1>2 DEF LogRollback, LogCommit, DraftsOutward, TypeOK, Abstract!Direction
<1>3. CASE UNCHANGED draft
    BY <1>3 DEF DraftsOutward, Abstract!Direction
<1> QED
    BY <1>1, <1>2, <1>3
       DEF Next, vars, logVars, WriterStep, TaskStep, ReceiverStep, Environment,
           BackoffElapsed, FlushSelect, TargetMissing, Post, PostSucceeds, PostFails,
           PostTimesOut, MarkSent, MarkFailed, MarkAbandoned, MarkGroup, Commit, Killed,
           StaleNode, DeadlockVictim, Discard, IngestCheck, IngestCommit, RequestLost,
           DeleteNode, AddNode

\* A row enters the queue with the commit of its event.
LEMMA NewRowsGenuine ==
    ASSUME ForwardingInv, NEW e \in Event, LogCommit(e), NEW r \in NewRows(e)
    PROVE  Genuine(r)'
<1>1. r \in Row /\ Src(r) = Origin[e] /\ Ev(r) = e /\ Dst(r) \in draft[e]
    BY DEF NewRows
<1>2. Abstract!Direction(e, Dst(r))
    BY <1>1 DEF ForwardingInv, DraftsOutward
<1>3. phase'[e] = "logged"
    BY DEF LogCommit, ForwardingInv, TypeOK
<1> QED
    BY <1>1, <1>2, <1>3 DEF Genuine, Abstract!Direction, Src, Ev, Dst

LEMMA RowsNext ==
    ASSUME ForwardingInv, PhaseKept, [Next]_vars
    PROVE  RowsGenuine'
<1> USE DEF ForwardingInv
<1>1. ASSUME \A r \in Row : status'[r] # "none" => status[r] # "none"
      PROVE  RowsGenuine'
    BY <1>1, GenuineStable DEF RowsGenuine
<1>2. ASSUME NEW e \in Event, LogCommit(e) PROVE RowsGenuine'
  <2> SUFFICES ASSUME NEW r \in Row, status'[r] # "none" PROVE Genuine(r)'
      BY DEF RowsGenuine
  <2>1. CASE r \in NewRows(e)
      BY <1>2, <2>1, NewRowsGenuine
  <2>2. CASE r \notin NewRows(e)
    <3>1. status[r] # "none"
        BY <1>2, <2>2 DEF LogCommit
    <3> QED
        BY <3>1, GenuineStable DEF RowsGenuine
  <2> QED
      BY <2>1, <2>2
<1>3. ASSUME NEW w \in Worker, Commit(w) PROVE RowsGenuine'
  <2> SUFFICES ASSUME NEW r \in Row, status'[r] # "none" PROVE Genuine(r)'
      BY DEF RowsGenuine
  <2>1. status[r] # "none" \/ mark[w][r] # "none"
      BY <1>3 DEF Commit, WritesStatus
  <2> QED
      BY <2>1, GenuineStable DEF RowsGenuine, TasksGenuine
<1>4. ASSUME NEW n \in Node, DeleteNode(n) PROVE RowsGenuine'
    BY <1>1, <1>4 DEF DeleteNode, ClosedByDelete
<1>5. CASE UNCHANGED status
    BY <1>1, <1>5
<1> QED
    BY <1>2, <1>3, <1>4, <1>5
       DEF Next, vars, queueVars, WriterStep, TaskStep, ReceiverStep, Environment,
           LogBegin, LogRollback, BackoffElapsed, FlushSelect, TargetMissing, Post,
           PostSucceeds, PostFails, PostTimesOut, MarkSent, MarkFailed, MarkAbandoned,
           MarkGroup, Killed, StaleNode, DeadlockVictim, Discard, IngestCheck,
           IngestCommit, RequestLost, AddNode

LEMMA TasksKept ==
    ASSUME ForwardingInv, PhaseKept, NEW w \in Worker,
           \A v \in Worker : v # w => todo'[v] = todo[v] /\ group'[v] = group[v] /\ mark'[v] = mark[v],
           \A r \in todo'[w] \cup group'[w] : r \in Row /\ Genuine(r),
           \A r \in Row : mark'[w][r] # "none" => Genuine(r)
    PROVE  TasksGenuine'
<1> USE DEF ForwardingInv
<1> SUFFICES ASSUME NEW v \in Worker
             PROVE  /\ \A r \in todo'[v] \cup group'[v] : Genuine(r)'
                    /\ \A r \in Row : mark'[v][r] # "none" => Genuine(r)'
    BY DEF TasksGenuine
<1>1. CASE v = w
    BY <1>1, GenuineStable
<1>2. CASE v # w
  <2>1. todo[v] \subseteq Row /\ group[v] \subseteq Row
      BY DEF TypeOK
  <2> QED
      BY <1>2, <2>1, GenuineStable DEF TasksGenuine
<1> QED
    BY <1>1, <1>2

LEMMA MarkKeepsTasks ==
    ASSUME ForwardingInv, PhaseKept, NEW w \in Worker, NEW mk \in [Row -> Mark],
           \A r \in Row : r \notin group[w] => mk[r] = mark[w][r],
           mark' = [mark EXCEPT ![w] = mk],
           todo' = [todo EXCEPT ![w] = @ \ group[w]],
           group' = [group EXCEPT ![w] = {}]
    PROVE  TasksGenuine'
<1> USE DEF ForwardingInv
<1>1. \A v \in Worker : v # w => todo'[v] = todo[v] /\ group'[v] = group[v] /\ mark'[v] = mark[v]
    BY DEF TypeOK
<1>2. todo'[w] = todo[w] \ group[w] /\ group'[w] = {} /\ mark'[w] = mk
    BY DEF TypeOK
<1>3. \A r \in todo'[w] \cup group'[w] : r \in Row /\ Genuine(r)
    BY <1>2 DEF TasksGenuine, TypeOK
<1>4. \A r \in Row : mark'[w][r] # "none" => Genuine(r)
    BY <1>2 DEF TasksGenuine
<1> QED
    BY <1>1, <1>3, <1>4, TasksKept

LEMMA DiscardKeepsTasks ==
    ASSUME ForwardingInv, PhaseKept, NEW w \in Worker, Discard(w)
    PROVE  TasksGenuine'
<1> USE DEF ForwardingInv
<1>1. \A v \in Worker : v # w => todo'[v] = todo[v] /\ group'[v] = group[v] /\ mark'[v] = mark[v]
    BY DEF Discard, TypeOK
<1>2. todo'[w] = {} /\ group'[w] = {} /\ \A r \in Row : mark'[w][r] = "none"
    BY DEF Discard, TypeOK
<1> QED
    BY <1>1, <1>2, TasksKept

LEMMA TasksNext ==
    ASSUME ForwardingInv, PhaseKept, [Next]_vars
    PROVE  TasksGenuine'
<1> USE DEF ForwardingInv
<1>1. ASSUME NEW w \in Worker, NEW batch \in SUBSET DueRows(Home[w]), FlushSelect(w, batch)
      PROVE  TasksGenuine'
  <2>1. \A v \in Worker : v # w => todo'[v] = todo[v] /\ group'[v] = group[v] /\ mark'[v] = mark[v]
      BY <1>1 DEF FlushSelect, TypeOK
  <2>2. todo'[w] = batch /\ group'[w] = group[w] /\ mark'[w] = mark[w]
      BY <1>1 DEF FlushSelect, TypeOK
  <2>3. \A r \in batch : r \in Row /\ Genuine(r)
      BY DEF DueRows, RowsGenuine
  <2>4. \A r \in group[w] : r \in Row /\ Genuine(r)
      BY DEF TasksGenuine, TypeOK
  <2> QED
      BY <2>1, <2>2, <2>3, <2>4, TasksKept DEF TasksGenuine
<1>2. ASSUME NEW w \in Worker, NEW t \in Node,
             TargetMissing(w, t) \/ \E c \in Conn : Post(w, t, c)
      PROVE  TasksGenuine'
  <2>1. \A v \in Worker : v # w => todo'[v] = todo[v] /\ group'[v] = group[v] /\ mark'[v] = mark[v]
      BY <1>2 DEF TargetMissing, Post, TypeOK
  <2>2. todo'[w] = todo[w] /\ group'[w] = TargetRows(w, t) /\ mark'[w] = mark[w]
      BY <1>2 DEF TargetMissing, Post, TypeOK
  <2>3. \A r \in todo[w] : r \in Row /\ Genuine(r)
      BY DEF TasksGenuine, TypeOK
  <2> QED
      BY <2>1, <2>2, <2>3, TasksKept DEF TasksGenuine, TargetRows
<1>3. ASSUME NEW w \in Worker, MarkSent(w) PROVE TasksGenuine'
  <2> DEFINE mk == [r \in Row |-> IF r \in group[w] THEN "sent" ELSE mark[w][r]]
  <2>1. mk \in [Row -> Mark] /\ \A r \in Row : r \notin group[w] => mk[r] = mark[w][r]
      BY DEF TypeOK, Mark
  <2>2. mark' = [mark EXCEPT ![w] = mk]
      BY <1>3 DEF MarkSent, MarkGroup
  <2> HIDE DEF mk
  <2> QED
      BY <1>3, <2>1, <2>2, MarkKeepsTasks DEF MarkSent, MarkGroup
<1>4. ASSUME NEW w \in Worker, MarkFailed(w) PROVE TasksGenuine'
  <2> DEFINE mk == [r \in Row |-> IF r \in group[w] THEN AfterFailure(w, r) ELSE mark[w][r]]
  <2>1. mk \in [Row -> Mark] /\ \A r \in Row : r \notin group[w] => mk[r] = mark[w][r]
      BY DEF TypeOK, Mark, AfterFailure
  <2>2. mark' = [mark EXCEPT ![w] = mk]
      BY <1>4 DEF MarkFailed, MarkGroup
  <2> HIDE DEF mk
  <2> QED
      BY <1>4, <2>1, <2>2, MarkKeepsTasks DEF MarkFailed, MarkGroup
<1>5. ASSUME NEW w \in Worker, MarkAbandoned(w) PROVE TasksGenuine'
  <2> DEFINE mk == [r \in Row |-> IF r \in group[w] THEN "abandoned" ELSE mark[w][r]]
  <2>1. mk \in [Row -> Mark] /\ \A r \in Row : r \notin group[w] => mk[r] = mark[w][r]
      BY DEF TypeOK, Mark
  <2>2. mark' = [mark EXCEPT ![w] = mk]
      BY <1>5 DEF MarkAbandoned, MarkGroup
  <2> HIDE DEF mk
  <2> QED
      BY <1>5, <2>1, <2>2, MarkKeepsTasks DEF MarkAbandoned, MarkGroup
<1>6. ASSUME NEW w \in Worker, Commit(w) PROVE TasksGenuine'
  <2>1. \A v \in Worker : v # w => todo'[v] = todo[v] /\ group'[v] = group[v] /\ mark'[v] = mark[v]
      BY <1>6 DEF Commit, TypeOK
  <2>2. todo'[w] = todo[w] /\ group'[w] = group[w] /\ \A r \in Row : mark'[w][r] = "none"
      BY <1>6 DEF Commit, TypeOK
  <2>3. \A r \in todo[w] \cup group[w] : r \in Row /\ Genuine(r)
      BY DEF TasksGenuine, TypeOK
  <2> QED
      BY <2>1, <2>2, <2>3, TasksKept
<1>7. ASSUME NEW w \in Worker, Discard(w) PROVE TasksGenuine'
    BY <1>7, DiscardKeepsTasks
<1>8. CASE UNCHANGED <<todo, group, mark>>
  <2> SUFFICES ASSUME NEW w \in Worker
               PROVE  /\ \A r \in todo'[w] \cup group'[w] : Genuine(r)'
                      /\ \A r \in Row : mark'[w][r] # "none" => Genuine(r)'
      BY DEF TasksGenuine
  <2>1. todo[w] \subseteq Row /\ group[w] \subseteq Row
      BY DEF TypeOK
  <2> QED
      BY <1>8, <2>1, GenuineStable DEF TasksGenuine
<1> QED
    BY <1>1, <1>2, <1>3, <1>4, <1>5, <1>6, <1>7, <1>8
       DEF Next, vars, taskVars, WriterStep, TaskStep, ReceiverStep, Environment,
           LogBegin, LogRollback, LogCommit, BackoffElapsed, PostSucceeds, PostFails,
           PostTimesOut, Killed, StaleNode, DeadlockVictim, IngestCheck, IngestCommit,
           RequestLost, DeleteNode, AddNode

\* What a request needs to stay genuine.
RequestGenuine(k) ==
    /\ \A r \in k.rows : r \in Row /\ Genuine(r) /\ Dst(r) = k.to
    /\ \A e \in k.fresh : e \in Event /\ phase[e] = "logged" /\ Abstract!Direction(e, k.to)

LEMMA RequestsByRecord ==
    ASSUME ForwardingInv, PhaseKept,
           \A c \in Conn : RequestGenuine(conn'[c])
    PROVE  RequestsGenuine'
<1> SUFFICES ASSUME NEW c \in Conn
             PROVE  /\ \A r \in conn'[c].rows : Genuine(r)' /\ Dst(r) = conn'[c].to
                    /\ \A e \in conn'[c].fresh :
                           phase'[e] = "logged" /\ Abstract!Direction(e, conn'[c].to)
    BY DEF RequestsGenuine, Abstract!Direction, Dst
<1> QED
    BY GenuineStable DEF RequestGenuine, PhaseKept

LEMMA RequestsNow ==
    ASSUME ForwardingInv, NEW c \in Conn
    PROVE  RequestGenuine(conn[c])
<1>1. conn[c].rows \subseteq Row /\ conn[c].fresh \subseteq Event
    BY DEF ForwardingInv, TypeOK, ConnState
<1> QED
    BY <1>1 DEF ForwardingInv, RequestsGenuine, RequestGenuine

LEMMA FreeGenuine == RequestGenuine(FreeConn)
BY DEF RequestGenuine, FreeConn

LEMMA RequestsNext ==
    ASSUME ForwardingInv, PhaseKept, [Next]_vars
    PROVE  RequestsGenuine'
<1> USE DEF ForwardingInv
<1>1. \A c \in Conn : conn[c] \in ConnState
    BY DEF TypeOK
<1>2. ASSUME NEW w \in Worker, NEW t \in Node, NEW c \in Conn, Post(w, t, c)
      PROVE  RequestsGenuine'
  <2> DEFINE k == [pc |-> "sent", by |-> w, to |-> t, rows |-> TargetRows(w, t), fresh |-> {}]
  <2>1. conn' = [conn EXCEPT ![c] = k]
      BY <1>2 DEF Post
  <2>2. RequestGenuine(k)
      BY DEF RequestGenuine, TargetRows, TasksGenuine, TypeOK
  <2> HIDE DEF k
  <2> QED
      BY <2>1, <2>2, RequestsNow, RequestsByRecord DEF TypeOK
<1>3. ASSUME NEW w \in Worker, conn' = Orphaned(w) PROVE RequestsGenuine'
  <2> SUFFICES ASSUME NEW c \in Conn PROVE RequestGenuine(conn'[c])
      BY RequestsByRecord
  <2>1. conn'[c] \in {conn[c], FreeConn, [conn[c] EXCEPT !.by = NoWorker]}
      BY <1>3 DEF Orphaned
  <2>2. RequestGenuine([conn[c] EXCEPT !.by = NoWorker])
      BY <1>1, RequestsNow DEF RequestGenuine, ConnState
  <2> QED
      BY <2>1, <2>2, RequestsNow, FreeGenuine
<1>4. ASSUME NEW c \in Conn, conn' = [conn EXCEPT ![c] = FreeConn] PROVE RequestsGenuine'
    BY <1>4, RequestsNow, FreeGenuine, RequestsByRecord DEF TypeOK
<1>5. ASSUME NEW c \in Conn, IngestCheck(c) PROVE RequestsGenuine'
  <2> DEFINE S == {e \in EventsOf(c) : ~Seen(e, conn[c].to)}
             k == [[conn[c] EXCEPT !.pc = "checked"] EXCEPT !.fresh = S]
  <2>1. conn' = [conn EXCEPT ![c] = k]
      BY <1>5 DEF IngestCheck, TypeOK
  <2>2. k.rows = conn[c].rows /\ k.to = conn[c].to /\ k.fresh = S
      BY <1>1 DEF ConnState
  <2>3. \A e \in S : e \in Event /\ phase[e] = "logged" /\ Abstract!Direction(e, conn[c].to)
      BY RequestsNow, RowParts DEF EventsOf, RequestGenuine, Genuine
  <2>4. RequestGenuine(k)
      BY <2>2, <2>3, RequestsNow DEF RequestGenuine
  <2> HIDE DEF k
  <2> QED
      BY <2>1, <2>4, RequestsNow, RequestsByRecord DEF TypeOK
<1>6. ASSUME NEW c \in Conn, IngestCommit(c) PROVE RequestsGenuine'
  <2> DEFINE a == [conn[c] EXCEPT !.pc = "answered"]
             k == IF conn[c].by = NoWorker THEN FreeConn ELSE a
  <2>1. conn' = [conn EXCEPT ![c] = k]
      BY <1>6 DEF IngestCommit
  <2>2. RequestGenuine(a)
      BY <1>1, RequestsNow DEF RequestGenuine, ConnState
  <2>3. RequestGenuine(k)
      BY <2>2, FreeGenuine
  <2> HIDE DEF k
  <2> QED
      BY <2>1, <2>3, RequestsNow, RequestsByRecord DEF TypeOK
<1>7. CASE UNCHANGED conn
    BY <1>7, RequestsNow, RequestsByRecord
<1> QED
    BY <1>2, <1>3, <1>4, <1>5, <1>6, <1>7
       DEF Next, vars, WriterStep, TaskStep, ReceiverStep, Environment, LogBegin,
           LogRollback, LogCommit, BackoffElapsed, FlushSelect, TargetMissing,
           PostSucceeds, PostFails, PostTimesOut, MarkSent, MarkFailed, MarkAbandoned,
           MarkGroup, Commit, Killed, StaleNode, DeadlockVictim, Discard, RequestLost,
           DeleteNode, AddNode

LEMMA LogsNext ==
    ASSUME ForwardingInv, PhaseKept, [Next]_vars
    PROVE  LogsGenuine'
<1> USE DEF ForwardingInv
<1> USE ForwardingAssumption
<1>1. ASSUME NEW e \in Event, LogCommit(e) PROVE LogsGenuine'
  <2> SUFFICES ASSUME NEW n \in Node, NEW f \in Event
               PROVE  /\ log'[n][f] > 0 =>
                             phase'[f] = "logged" /\ (n = Origin[f] \/ Abstract!Direction(f, n))
                      /\ n = Origin[f] => log'[n][f] <= 1
      BY DEF LogsGenuine, Abstract!Direction
  <2>1. log' = [log EXCEPT ![Origin[e]][e] = @ + 1] /\ phase' = [phase EXCEPT ![e] = "logged"]
        /\ phase[e] = "open"
      BY <1>1 DEF LogCommit
  <2>2. CASE n = Origin[e] /\ f = e
    <3>0. log[n][f] \in Nat /\ phase[f] # "logged"
        BY <2>1, <2>2 DEF TypeOK
    <3>1. log[n][f] = 0
        BY <3>0 DEF LogsGenuine
    <3> QED
        BY <2>1, <2>2, <3>1 DEF TypeOK
  <2>3. CASE ~(n = Origin[e] /\ f = e)
    <3>1. log'[n][f] = log[n][f]
        BY <2>1, <2>3 DEF TypeOK
    <3> QED
        BY <3>1 DEF LogsGenuine, PhaseKept
  <2> QED
      BY <2>2, <2>3
<1>2. ASSUME NEW c \in Conn, IngestCommit(c) PROVE LogsGenuine'
  <2> SUFFICES ASSUME NEW n \in Node, NEW f \in Event
               PROVE  /\ log'[n][f] > 0 =>
                             phase'[f] = "logged" /\ (n = Origin[f] \/ Abstract!Direction(f, n))
                      /\ n = Origin[f] => log'[n][f] <= 1
      BY DEF LogsGenuine, Abstract!Direction
  <2>1. conn[c].to \in Node
      BY DEF TypeOK, ConnState
  <2>2. log' = [log EXCEPT ![conn[c].to] =
                 [e \in Event |-> IF e \in conn[c].fresh THEN @[e] + 1 ELSE @[e]]]
        /\ phase' = phase
      BY <1>2 DEF IngestCommit, logVars
  <2>3. CASE n = conn[c].to /\ f \in conn[c].fresh
    <3>1. phase[f] = "logged" /\ Abstract!Direction(f, n)
        BY <2>3 DEF RequestsGenuine
    <3> QED
        BY <2>2, <3>1 DEF Abstract!Direction
  <2>4. CASE ~(n = conn[c].to /\ f \in conn[c].fresh)
    <3>1. log'[n][f] = log[n][f]
        BY <2>1, <2>2, <2>4 DEF TypeOK
    <3> QED
        BY <2>2, <3>1 DEF LogsGenuine
  <2> QED
      BY <2>3, <2>4
<1>3. CASE UNCHANGED log
    BY <1>3 DEF LogsGenuine, PhaseKept, Abstract!Direction
<1> QED
    BY <1>1, <1>2, <1>3
       DEF Next, vars, WriterStep, TaskStep, ReceiverStep, Environment, LogBegin,
           LogRollback, BackoffElapsed, FlushSelect, TargetMissing, Post, PostSucceeds,
           PostFails, PostTimesOut, MarkSent, MarkFailed, MarkAbandoned, MarkGroup,
           Commit, Killed, StaleNode, DeadlockVictim, Discard, IngestCheck, RequestLost,
           DeleteNode, AddNode

LEMMA ForwardingInit == Init => ForwardingInv
<1> SUFFICES ASSUME Init PROVE ForwardingInv
    OBVIOUS
<1>1. TypeOK
    BY TypeInit
<1>2. DraftsOutward /\ RowsGenuine /\ TasksGenuine
    BY DEF Init, DraftsOutward, RowsGenuine, TasksGenuine
<1>3. RequestsGenuine /\ LogsGenuine
    BY DEF Init, RequestsGenuine, LogsGenuine, FreeConn
<1> QED
    BY <1>1, <1>2, <1>3 DEF ForwardingInv

LEMMA ForwardingNext == ForwardingInv /\ [Next]_vars => ForwardingInv'
<1> SUFFICES ASSUME ForwardingInv, [Next]_vars PROVE ForwardingInv'
    OBVIOUS
<1>1. TypeOK' /\ PhaseKept
    BY TypeNext, LoggedStays DEF ForwardingInv
<1>2. DraftsOutward' /\ RowsGenuine'
    BY <1>1, DraftsNext, RowsNext
<1>3. TasksGenuine' /\ RequestsGenuine' /\ LogsGenuine'
    BY <1>1, TasksNext, RequestsNext, LogsNext
<1> QED
    BY <1>1, <1>2, <1>3 DEF ForwardingInv

\* No queue row and no copy exists of an event whose transaction is open or
\* was rolled back (log_event and its callers' commits).
THEOREM NothingForwardedEarly == Spec => []NothingForwardedBeforeCommit
<1>1. ForwardingInv => NothingForwardedBeforeCommit
  <2> SUFFICES ASSUME ForwardingInv, NEW e \in Event, phase[e] # "logged"
               PROVE  /\ \A n \in Node : log[n][e] = 0
                      /\ \A r \in Row : Ev(r) = e => status[r] = "none"
      BY DEF NothingForwardedBeforeCommit
  <2>1. \A n \in Node : log[n][e] = 0
      BY DEF ForwardingInv, LogsGenuine, TypeOK
  <2>2. \A r \in Row : Ev(r) = e => status[r] = "none"
      BY DEF ForwardingInv, RowsGenuine, Genuine
  <2> QED
      BY <2>1, <2>2
<1> QED
    BY <1>1, ForwardingInit, ForwardingNext, PTL DEF Spec

\* The targets enqueue_audit_event chooses never let a copy come back to the
\* node its event happened on, nor travel from slave to slave.
THEOREM NoLoop == Spec => []NoForwardingLoop
<1>1. ForwardingInv => NoForwardingLoop
    BY DEF ForwardingInv, LogsGenuine, NoForwardingLoop, Abstract!Direction
<1> QED
    BY <1>1, ForwardingInit, ForwardingNext, PTL DEF Spec

-----------------------------------------------------------------------------
(* The outbox implements AuditReplication.                                 *)

Recorded == {e \in Event : phase[e] = "logged"}
Holds    == [n \in Node |-> {e \in Event : log[n][e] > 0}]
Reported == {c \in Event \X Node : status[<<Origin[c[1]], c[1], c[2]>>] = "sent"}

LEMMA ReportRow ==
    ASSUME NEW c \in Event \X Node
    PROVE  /\ <<Origin[c[1]], c[1], c[2]>> \in Row
           /\ Ev(<<Origin[c[1]], c[1], c[2]>>) = c[1]
           /\ Dst(<<Origin[c[1]], c[1], c[2]>>) = c[2]
BY ForwardingAssumption DEF Row, Ev, Dst

\* A step that changes statuses only is a Report.
LEMMA StatusReports ==
    ASSUME ForwardingInv', SentMeansCovered', UNCHANGED <<phase, log>>
    PROVE  \E claims \in SUBSET (Event \X Node) : Abstract!Report(claims)
<1>0. PICK claims : claims = Reported'
    OBVIOUS
<1>1. claims \in SUBSET (Event \X Node)
    BY <1>0 DEF Reported
<1>2. \A c \in claims : c[1] \in Recorded /\ Abstract!Known(c[1], c[2])
  <2> SUFFICES ASSUME NEW c \in claims
               PROVE  c[1] \in Recorded /\ Abstract!Known(c[1], c[2])
      OBVIOUS
  <2> DEFINE r == <<Origin[c[1]], c[1], c[2]>>
  <2>1. c \in Event \X Node /\ status'[r] = "sent"
      BY <1>0 DEF Reported
  <2>2. r \in Row /\ Ev(r) = c[1] /\ Dst(r) = c[2]
      BY <2>1, ReportRow
  <2> HIDE DEF r
  <2>3. Genuine(r)' /\ Covered(r)'
      BY <2>1, <2>2 DEF ForwardingInv, RowsGenuine, SentMeansCovered
  <2>4. phase[c[1]] = "logged"
      BY <2>2, <2>3 DEF Genuine, Ev, Dst
  <2>5. PICK f \in Event : Key[f] = Key[c[1]] /\ log[c[2]][f] > 0
      BY <2>2, <2>3 DEF Covered, Ev, Dst
  <2> QED
      BY <2>1, <2>4, <2>5 DEF Recorded, Abstract!Known
<1>3. UNCHANGED <<Recorded, Holds>>
    BY DEF Recorded, Holds
<1>4. Abstract!Report(claims)
    BY <1>0, <1>2, <1>3 DEF Abstract!Report, Recorded, Holds, Reported
<1> QED
    BY <1>1, <1>4

LEMMA CommitRecords ==
    ASSUME ForwardingInv, NEW e \in Event, LogCommit(e)
    PROVE  Abstract!Record(e)
<1> USE DEF ForwardingInv
<1> USE ForwardingAssumption
<1>1. phase[e] = "open" /\ phase' = [phase EXCEPT ![e] = "logged"]
      /\ log' = [log EXCEPT ![Origin[e]][e] = @ + 1]
    BY DEF LogCommit
<1>2. e \notin Recorded /\ Recorded' = Recorded \cup {e}
    BY <1>1 DEF Recorded, TypeOK
<1>3. Holds' = [Holds EXCEPT ![Origin[e]] = @ \cup {e}]
  <2>1. \A n \in Node : Holds'[n] = IF n = Origin[e] THEN Holds[n] \cup {e} ELSE Holds[n]
      BY <1>1 DEF Holds, TypeOK
  <2>2. Holds = [n \in Node |-> Holds[n]] /\ Holds' = [n \in Node |-> Holds'[n]]
      BY DEF Holds
  <2> QED
      BY <2>1, <2>2
<1>4. Reported' = Reported
  <2>1. \A r \in Row : (status'[r] = "sent") <=> (status[r] = "sent")
      BY <1>1 DEF LogCommit, NewRows, RowsGenuine, Genuine
  <2> QED
      BY <2>1, ReportRow DEF Reported
<1> QED
    BY <1>2, <1>3, <1>4 DEF Abstract!Record, Recorded, Holds, Reported

LEMMA IngestReplicates ==
    ASSUME ForwardingInv, NEW c \in Conn, IngestCommit(c)
    PROVE  [Abstract!AbsNext]_(Abstract!absVars)
<1> USE DEF ForwardingInv
<1>0. PICK t, copies : t = conn[c].to /\ copies = conn[c].fresh
    OBVIOUS
<1>1. t \in Node /\ copies \subseteq Event
    BY <1>0 DEF TypeOK, ConnState
<1>2. \A e \in copies : e \in Recorded /\ Abstract!Direction(e, t)
    BY <1>0, <1>1 DEF RequestsGenuine, Recorded
<1>3. UNCHANGED <<phase, status>>
    BY DEF IngestCommit, logVars, queueVars
<1>4. UNCHANGED <<Recorded, Reported>>
    BY <1>3 DEF Recorded, Reported
<1>5. Holds' = [Holds EXCEPT ![t] = @ \cup copies]
  <2>1. \A n \in Node : Holds'[n] = IF n = t THEN Holds[n] \cup copies ELSE Holds[n]
      BY <1>0, <1>1 DEF IngestCommit, Holds, TypeOK
  <2>2. Holds = [n \in Node |-> Holds[n]] /\ Holds' = [n \in Node |-> Holds'[n]]
      BY DEF Holds
  <2> QED
      BY <2>1, <2>2
<1>6. CASE copies # {}
  <2>1. Abstract!Replicate(t, copies)
      BY <1>2, <1>4, <1>5, <1>6 DEF Abstract!Replicate, Recorded, Holds, Reported
  <2> QED
      BY <1>1, <2>1 DEF Abstract!AbsNext
<1>7. CASE copies = {}
  <2>1. UNCHANGED Holds
      BY <1>5, <1>7 DEF Holds
  <2> QED
      BY <1>4, <2>1 DEF Abstract!absVars, Recorded, Holds, Reported
<1> QED
    BY <1>6, <1>7

\* Every step of the outbox is a step of AuditReplication or a stutter.
LEMMA StepReplicates ==
    ForwardingInv /\ ForwardingInv' /\ SentMeansCovered' /\ [Next]_vars
        => [Abstract!AbsNext]_(Abstract!absVars)
<1> SUFFICES ASSUME ForwardingInv, ForwardingInv', SentMeansCovered', [Next]_vars
             PROVE  [Abstract!AbsNext]_(Abstract!absVars)
    OBVIOUS
<1>1. ASSUME NEW e \in Event, LogCommit(e) PROVE Abstract!AbsNext
    BY <1>1, CommitRecords DEF Abstract!AbsNext
<1>2. ASSUME NEW c \in Conn, IngestCommit(c) PROVE [Abstract!AbsNext]_(Abstract!absVars)
    BY <1>2, IngestReplicates
<1>3. CASE UNCHANGED <<phase, log>>
    BY <1>3, StatusReports DEF Abstract!AbsNext
<1>4. ASSUME NEW e \in Event, LogBegin(e) \/ LogRollback(e)
      PROVE  UNCHANGED Abstract!absVars
  <2>1. UNCHANGED <<log, status>> /\ phase[e] # "logged" /\ phase'[e] # "logged"
        /\ \A f \in Event : f # e => phase'[f] = phase[f]
      BY <1>4 DEF LogBegin, LogRollback, queueVars, ForwardingInv, TypeOK
  <2> QED
      BY <2>1 DEF Abstract!absVars
<1> QED
    BY <1>1, <1>2, <1>3, <1>4
       DEF Next, vars, logVars, WriterStep, TaskStep, ReceiverStep, Environment,
           BackoffElapsed, FlushSelect, TargetMissing, Post, PostSucceeds, PostFails,
           PostTimesOut, MarkSent, MarkFailed, MarkAbandoned, MarkGroup, Commit, Killed,
           StaleNode, DeadlockVictim, Discard, IngestCheck, RequestLost, DeleteNode,
           AddNode

\* Seen without queue, tasks and requests, the cluster records an event where
\* it happens, copies only recorded events to the other side, and reports as
\* delivered only what the target knows (flush_queue_once, ingest_audit_events).
THEOREM ReplicationImplemented == Spec => ImplementsReplication
<1>1. Init => Abstract!AbsInit
    BY ForwardingAssumption DEF Init, Abstract!AbsInit, Row
<1>2. DeliveryInv => SentMeansCovered
    BY DEF DeliveryInv
<1> QED
    BY <1>1, <1>2, ForwardingInit, ForwardingNext, DeliveryInit, DeliveryNext,
       StepReplicates, PTL DEF Spec, ImplementsReplication, Abstract!AbsSpec
-----------------------------------------------------------------------------
(* At most one copy.  The check of ingest_audit_events leaves a window, up *)
(* to its commit; nothing else can store an event twice.                   *)

\* The commit of a request stores what its check found missing, and what other
\* requests are about to store stays missing.
LEMMA IngestOnce ==
    ASSUME ForwardingInv, StoredAtMostOnce, FreshIsNew, ChecksApart,
           NEW c \in Conn, IngestCommit(c)
    PROVE  StoredAtMostOnce' /\ FreshIsNew'
<1>0. PICK t, new : t = conn[c].to /\ new = conn[c].fresh
    OBVIOUS
<1>1. t \in Node /\ new \subseteq Event /\ conn[c].pc = "checked"
    BY <1>0 DEF ForwardingInv, TypeOK, ConnState, IngestCommit
<1>2. \A n \in Node, e \in Event :
          log'[n][e] = IF n = t /\ e \in new THEN log[n][e] + 1 ELSE log[n][e]
    BY <1>0, <1>1 DEF IngestCommit, ForwardingInv, TypeOK
<1>3. \A e \in new : log[t][e] = 0
    BY <1>0, <1>1 DEF FreshIsNew
<1>4. StoredAtMostOnce'
    BY <1>1, <1>2, <1>3 DEF StoredAtMostOnce
<1>5. \A d \in Conn : d # c => conn'[d] = conn[d]
    BY DEF IngestCommit, ForwardingInv, TypeOK
<1>6. conn'[c].pc # "checked"
    BY DEF IngestCommit, FreeConn, ForwardingInv, TypeOK, ConnState
<1>7. FreshIsNew'
  <2> SUFFICES ASSUME NEW d \in Conn, conn'[d].pc = "checked", NEW e \in conn'[d].fresh
               PROVE  log'[conn'[d].to][e] = 0
      BY DEF FreshIsNew
  <2>0. PICK n : n = conn[d].to
      OBVIOUS
  <2>1. d # c /\ conn'[d] = conn[d]
      BY <1>5, <1>6
  <2>2. n \in Node /\ e \in Event /\ log[n][e] = 0
      BY <2>0, <2>1 DEF ForwardingInv, TypeOK, ConnState, FreshIsNew
  <2>3. ~(n = t /\ e \in new)
      BY <1>0, <1>1, <2>0, <2>1 DEF ChecksApart
  <2> QED
      BY <1>2, <2>0, <2>1, <2>2, <2>3
<1> QED
    BY <1>4, <1>7

\* An event is committed where it happens before anybody can carry it.
LEMMA LogCommitOnce ==
    ASSUME ForwardingInv, StoredAtMostOnce, FreshIsNew, NEW e \in Event, LogCommit(e)
    PROVE  StoredAtMostOnce' /\ FreshIsNew'
<1>1. phase[e] = "open" /\ Origin[e] \in Node /\ UNCHANGED conn
    BY ForwardingAssumption DEF LogCommit
<1>2. log[Origin[e]][e] = 0
  <2>1. log[Origin[e]][e] \in Nat /\ ~(log[Origin[e]][e] > 0)
      BY <1>1 DEF ForwardingInv, TypeOK, LogsGenuine
  <2> QED
      BY <2>1
<1>3. \A n \in Node, f \in Event :
          log'[n][f] = IF n = Origin[e] /\ f = e THEN log[n][f] + 1 ELSE log[n][f]
    BY <1>1 DEF LogCommit, ForwardingInv, TypeOK
<1>4. StoredAtMostOnce'
    BY <1>1, <1>2, <1>3 DEF StoredAtMostOnce
<1>5. FreshIsNew'
  <2> SUFFICES ASSUME NEW d \in Conn, conn[d].pc = "checked", NEW f \in conn[d].fresh
               PROVE  log'[conn[d].to][f] = 0
      BY <1>1 DEF FreshIsNew
  <2>0. PICK n : n = conn[d].to
      OBVIOUS
  <2>1. n \in Node /\ f \in Event /\ phase[f] = "logged" /\ log[n][f] = 0
      BY <2>0 DEF ForwardingInv, TypeOK, ConnState, RequestsGenuine, FreshIsNew
  <2> QED
      BY <1>1, <1>3, <2>0, <2>1
<1> QED
    BY <1>4, <1>5

LEMMA CheckOnce ==
    ASSUME ForwardingInv, StoredAtMostOnce, FreshIsNew, NEW c \in Conn, IngestCheck(c)
    PROVE  StoredAtMostOnce' /\ FreshIsNew'
<1>0. PICK t : t = conn[c].to
    OBVIOUS
<1>1. t \in Node /\ UNCHANGED log
    BY <1>0 DEF IngestCheck, ForwardingInv, TypeOK, ConnState
<1>2. /\ \A d \in Conn : d # c => conn'[d] = conn[d]
      /\ conn'[c].to = t /\ conn'[c].fresh = {e \in EventsOf(c) : ~Seen(e, t)}
    BY <1>0 DEF IngestCheck, ForwardingInv, TypeOK, ConnState
<1>3. \A e \in conn'[c].fresh : e \in Event /\ log[t][e] = 0
  <2> SUFFICES ASSUME NEW r \in conn[c].rows, ~Seen(Ev(r), t)
               PROVE  Ev(r) \in Event /\ log[t][Ev(r)] = 0
      BY <1>2 DEF EventsOf
  <2>1. r \in Row
      BY DEF ForwardingInv, TypeOK, ConnState
  <2>2. Ev(r) \in Event
      BY <2>1, RowParts
  <2>3. log[t][Ev(r)] \in Nat /\ ~(log[t][Ev(r)] > 0)
      BY <1>1, <2>2 DEF Seen, ForwardingInv, TypeOK
  <2> QED
      BY <2>2, <2>3
<1>4. FreshIsNew'
  <2> SUFFICES ASSUME NEW d \in Conn, conn'[d].pc = "checked", NEW e \in conn'[d].fresh
               PROVE  log[conn'[d].to][e] = 0
      BY <1>1 DEF FreshIsNew
  <2>1. CASE d = c
      BY <2>1, <1>2, <1>3
  <2>2. CASE d # c
      BY <2>2, <1>2 DEF FreshIsNew
  <2> QED
      BY <2>1, <2>2
<1>5. StoredAtMostOnce'
    BY <1>1 DEF StoredAtMostOnce
<1> QED
    BY <1>4, <1>5

\* No other step touches a log, or puts a request between check and commit.
LEMMA ElsewhereOnce ==
    ASSUME ForwardingInv, StoredAtMostOnce, FreshIsNew, UNCHANGED log,
           \A c \in Conn : conn'[c].pc = "checked" =>
               conn[c].pc = "checked" /\ conn'[c].to = conn[c].to /\ conn'[c].fresh = conn[c].fresh
    PROVE  StoredAtMostOnce' /\ FreshIsNew'
  BY DEF StoredAtMostOnce, FreshIsNew

LEMMA OnceNext ==
    ForwardingInv /\ StoredAtMostOnce /\ FreshIsNew /\ ChecksApart /\ [Next]_vars
        => StoredAtMostOnce' /\ FreshIsNew'
<1> SUFFICES ASSUME ForwardingInv, StoredAtMostOnce, FreshIsNew, ChecksApart, [Next]_vars
             PROVE  StoredAtMostOnce' /\ FreshIsNew'
    OBVIOUS
<1>1. CASE UNCHANGED <<log, conn>>
    BY <1>1, ElsewhereOnce
<1>2. ASSUME NEW w \in Worker, UNCHANGED log, conn' = Orphaned(w)
      PROVE  StoredAtMostOnce' /\ FreshIsNew'
  <2>1. \A c \in Conn : conn[c] \in ConnState
      BY DEF ForwardingInv, TypeOK
  <2> QED
      BY <1>2, <2>1, ElsewhereOnce DEF Orphaned, FreeConn, ConnState
<1>3. ASSUME NEW c \in Conn, UNCHANGED log, NEW k, k.pc # "checked", conn' = [conn EXCEPT ![c] = k]
      PROVE  StoredAtMostOnce' /\ FreshIsNew'
  <2>1. \A d \in Conn : conn'[d] = IF d = c THEN k ELSE conn[d]
      BY <1>3 DEF ForwardingInv, TypeOK
  <2> QED
      BY <1>3, <2>1, ElsewhereOnce
<1>4. FreeConn.pc # "checked"
    BY DEF FreeConn
<1>5. ASSUME NEW w \in Worker, TaskStep(w) PROVE StoredAtMostOnce' /\ FreshIsNew'
  <2>1. ASSUME NEW t \in Node, NEW c \in Conn, Post(w, t, c) PROVE StoredAtMostOnce' /\ FreshIsNew'
    <3> DEFINE k == [pc |-> "sent", by |-> w, to |-> t, rows |-> TargetRows(w, t), fresh |-> {}]
    <3>1. k.pc # "checked" /\ conn' = [conn EXCEPT ![c] = k] /\ UNCHANGED log
        BY <2>1 DEF Post
    <3> HIDE DEF k
    <3> QED
        BY <3>1, <1>3
  <2>2. ASSUME NEW c \in Conn, PostSucceeds(w, c) PROVE StoredAtMostOnce' /\ FreshIsNew'
      BY <2>2, <1>3, <1>4 DEF PostSucceeds
  <2>3. CASE StaleNode(w) \/ DeadlockVictim(w)
      BY <2>3, <1>2 DEF StaleNode, DeadlockVictim, Discard
  <2> QED
      BY <1>5, <2>1, <2>2, <2>3, <1>1
         DEF TaskStep, FlushSelect, TargetMissing, PostFails, MarkSent, MarkFailed,
             MarkAbandoned, MarkGroup, Commit
<1>6. ASSUME NEW c \in Conn, RequestLost(c) PROVE StoredAtMostOnce' /\ FreshIsNew'
    BY <1>6, <1>3, <1>4 DEF RequestLost
<1>7. ASSUME NEW w \in Worker, PostTimesOut(w) \/ Killed(w) PROVE StoredAtMostOnce' /\ FreshIsNew'
    BY <1>7, <1>2 DEF PostTimesOut, Killed, Discard
<1> QED
    BY <1>1, <1>5, <1>6, <1>7, IngestOnce, LogCommitOnce, CheckOnce
       DEF Next, vars, WriterStep, ReceiverStep, Environment, LogBegin, LogRollback,
           BackoffElapsed, DeleteNode, AddNode

LEMMA OnceInit == Init => StoredAtMostOnce /\ FreshIsNew
  BY DEF Init, StoredAtMostOnce, FreshIsNew, FreeConn

\* Retries, lost answers, kills and re-added nodes store no event twice, as long as
\* no two requests with it stand between the check and the commit of
\* ingest_audit_events at one node: that window is all there is.
THEOREM StoredOnceApart == Spec /\ []ChecksApart => []StoredAtMostOnce
  BY OnceInit, OnceNext, ForwardingInit, ForwardingNext, PTL DEF Spec

\* So a node that handles one request at a time stores no event twice.
THEOREM StoredOnce ==
    ASSUME \A c, d \in Conn : c = d
    PROVE  Spec => []StoredAtMostOnce
<1>1. ChecksApart
    BY DEF ChecksApart
<1> QED
    BY <1>1, OnceInit, OnceNext, ForwardingInit, ForwardingNext, PTL DEF Spec
=============================================================================
