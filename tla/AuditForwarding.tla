-------------------------- MODULE AuditForwarding ---------------------------
(***************************************************************************)
(* The cluster's audit outbox (backend/app/services/cluster_service.py,    *)
(* audit_service.py, worker/tasks/cluster_tasks.py).  log_event writes an  *)
(* event and one queue row per target in the caller's transaction; flush   *)
(* tasks, which may overlap, read due rows, POST them per target and write *)
(* the outcome back in one transaction; the target ingests the events with *)
(* a check-then-insert; an administrator may delete or add a node while    *)
(* all this runs.  Requests and replies are lost, tasks are killed.        *)
(***************************************************************************)
EXTENDS Naturals, FiniteSets

CONSTANTS
    Node,         \* node ids (cluster.node.node_id)
    Master,       \* the node that runs with the master profile
    Event,        \* audit events that will happen
    Origin,       \* [Event -> Node]: event_log.server_node
    Key,          \* [Event -> keys]: (server_node, occurred_at, event_code)
    Peers,        \* [Node -> SUBSET Node]: initial content of cluster.node
    Worker,       \* slots for cluster.flush_sync_queue tasks
    Home,         \* [Worker -> Node]: the node a task runs on
    Conn,         \* slots for HTTP requests
    BatchSize,    \* batch_size of flush_queue_once (50)
    MaxAttempts,  \* sync_queue.max_attempts (5)
    MaxFaults,    \* bound: lost requests, timeouts and killed tasks together
    NoWorker      \* nobody waits for the answer of a request

ASSUME ForwardingAssumption ==
    /\ Master \in Node
    /\ Origin \in [Event -> Node]
    /\ Peers \in [Node -> SUBSET Node]
    /\ Home \in [Worker -> Node]
    /\ BatchSize \in Nat \ {0}
    /\ MaxAttempts \in Nat \ {0}
    /\ MaxFaults \in Nat
    /\ NoWorker \notin Worker
    /\ DOMAIN Key = Event

VARIABLES
    phase,     \* per event: not yet happened, transaction open, committed
    draft,     \* per event: targets its open transaction has read
    log,       \* per node and event: copies in mtl_audit.event_log
    registry,  \* per node: the rows of its cluster.node table
    status,    \* per queue row: sync_queue.status, or "none" if no row
    attempts,  \* per queue row: sync_queue.attempts
    due,       \* per queue row: next_attempt_at <= now
    pc,        \* per flush task: where it is
    todo,      \* per flush task: rows it has selected and not yet handled
    group,     \* per flush task: the rows of the target it is working on
    read,      \* per flush task and row: attempts as selected
    mark,      \* per flush task and row: the uncommitted outcome
    conn,      \* per request slot: where the request is
    faults     \* environment faults so far

logVars   == <<phase, draft>>
queueVars == <<status, attempts, due>>
taskVars  == <<pc, todo, group, read, mark>>
vars == <<phase, draft, log, registry, status, attempts, due,
          pc, todo, group, read, mark, conn, faults>>

\* A queue row is named by the node that stores it, its event and its target.
Row == Node \X Event \X Node
Src(r) == r[1]
Ev(r)  == r[2]
Dst(r) == r[3]

Status  == {"none", "pending", "sent", "failed", "abandoned"}
Mark    == {"none", "sent", "retry", "failed", "abandoned"}
TaskPC  == {"idle", "run", "wait", "ok", "err", "gone"}
\* A request: who waits for its answer, where it goes, the rows whose events
\* it carries and, once checked by the receiver, the events to insert.
FreeConn == [pc |-> "free", by |-> NoWorker, to |-> Master, rows |-> {}, fresh |-> {}]
ConnState == [pc : {"free", "sent", "checked", "answered"},
              by : Worker \cup {NoWorker},
              to : Node,
              rows : SUBSET Row,
              fresh : SUBSET Event]

TypeOK ==
    /\ phase \in [Event -> {"new", "open", "logged"}]
    /\ draft \in [Event -> SUBSET Node]
    /\ log \in [Node -> [Event -> Nat]]
    /\ registry \in [Node -> SUBSET Node]
    /\ status \in [Row -> Status]
    /\ attempts \in [Row -> Nat]
    /\ due \in [Row -> BOOLEAN]
    /\ pc \in [Worker -> TaskPC]
    /\ todo \in [Worker -> SUBSET Row]
    /\ group \in [Worker -> SUBSET Row]
    /\ read \in [Worker -> [Row -> Nat]]
    /\ mark \in [Worker -> [Row -> Mark]]
    /\ conn \in [Conn -> ConnState]
    /\ faults \in Nat

Init ==
    /\ phase = [e \in Event |-> "new"]
    /\ draft = [e \in Event |-> {}]
    /\ log = [n \in Node |-> [e \in Event |-> 0]]
    /\ registry = Peers
    /\ status = [r \in Row |-> "none"]
    /\ attempts = [r \in Row |-> 0]
    /\ due = [r \in Row |-> FALSE]
    /\ pc = [w \in Worker |-> "idle"]
    /\ todo = [w \in Worker |-> {}]
    /\ group = [w \in Worker |-> {}]
    /\ read = [w \in Worker |-> [r \in Row |-> 0]]
    /\ mark = [w \in Worker |-> [r \in Row |-> "none"]]
    /\ conn = [c \in Conn |-> FreeConn]
    /\ faults = 0

Fault == faults < MaxFaults /\ faults' = faults + 1

-----------------------------------------------------------------------------
(* Writing an event: audit_service.log_event inside the caller's           *)
(* transaction, and enqueue_audit_event, which reads the targets.          *)

\* The master forwards to the slaves it knows; a slave forwards only what it
\* produced itself, and only to the master.
Targets(n, e) ==
    IF n = Master
    THEN registry[n] \ {Master}
    ELSE IF Origin[e] = n THEN registry[n] \cap {Master} ELSE {}

LogBegin(e) ==
    /\ phase[e] = "new"
    /\ phase' = [phase EXCEPT ![e] = "open"]
    /\ draft' = [draft EXCEPT ![e] = Targets(Origin[e], e)]
    /\ UNCHANGED <<log, registry, queueVars, taskVars, conn, faults>>

NewRows(e) == {r \in Row : Src(r) = Origin[e] /\ Ev(r) = e /\ Dst(r) \in draft[e]}

\* The caller's transaction fails: neither the event nor its rows exist.
RowsOutliveRollback(e) ==
    /\ phase[e] = "open"
    /\ Fault
    /\ phase' = [phase EXCEPT ![e] = "new"]
    /\ status' = [r \in Row |-> IF r \in NewRows(e) THEN "pending" ELSE status[r]]
    /\ UNCHANGED <<draft, log, registry, attempts, due, taskVars, conn>>

LogRollback(e) ==
    /\ phase[e] = "open"
    /\ Fault
    /\ phase' = [phase EXCEPT ![e] = "new"]
    /\ draft' = [draft EXCEPT ![e] = {}]
    /\ UNCHANGED <<log, registry, queueVars, taskVars, conn>>

LogCommit(e) ==
    /\ phase[e] = "open"
    /\ phase' = [phase EXCEPT ![e] = "logged"]
    /\ draft' = [draft EXCEPT ![e] = {}]
    /\ log' = [log EXCEPT ![Origin[e]][e] = @ + 1]
    /\ status' = [r \in Row |-> IF r \in NewRows(e) THEN "pending" ELSE status[r]]
    /\ attempts' = [r \in Row |-> IF r \in NewRows(e) THEN 0 ELSE attempts[r]]
    /\ due' = [r \in Row |-> r \in NewRows(e) \/ due[r]]
    /\ UNCHANGED <<registry, taskVars, conn, faults>>

-----------------------------------------------------------------------------
(* A flush task: flush_queue_once under cluster.flush_sync_queue.          *)

DueRows(n) == {r \in Row : Src(r) = n /\ status[r] = "pending" /\ due[r]}

\* next_attempt_at passes.
BackoffElapsed(r) ==
    /\ status[r] = "pending" /\ ~due[r]
    /\ due' = [due EXCEPT ![r] = TRUE]
    /\ UNCHANGED <<logVars, log, registry, status, attempts, taskVars, conn, faults>>

\* Read up to BatchSize due rows; nothing locks them.  Which rows come first
\* (queued_at) is left open.
FlushSelect(w, batch) ==
    /\ pc[w] = "idle"
    /\ batch # {} /\ batch \subseteq DueRows(Home[w])
    /\ batch = DueRows(Home[w]) \/ Cardinality(batch) = BatchSize
    /\ pc' = [pc EXCEPT ![w] = "run"]
    /\ todo' = [todo EXCEPT ![w] = batch]
    /\ read' = [read EXCEPT ![w] = attempts]
    /\ UNCHANGED <<logVars, log, registry, queueVars, group, mark, conn, faults>>

TargetRows(w, t) == {r \in todo[w] : Dst(r) = t}

\* The target's cluster.node row is gone: its rows will be abandoned.
TargetMissing(w, t) ==
    /\ pc[w] = "run" /\ TargetRows(w, t) # {}
    /\ t \notin registry[Home[w]]
    /\ pc' = [pc EXCEPT ![w] = "gone"]
    /\ group' = [group EXCEPT ![w] = TargetRows(w, t)]
    /\ UNCHANGED <<logVars, log, registry, queueVars, todo, read, mark, conn, faults>>

\* One POST carries the events of every selected row of the target.
Post(w, t, c) ==
    /\ pc[w] = "run" /\ TargetRows(w, t) # {}
    /\ t \in registry[Home[w]]
    /\ conn[c].pc = "free"
    /\ pc' = [pc EXCEPT ![w] = "wait"]
    /\ group' = [group EXCEPT ![w] = TargetRows(w, t)]
    /\ conn' = [conn EXCEPT ![c] = [pc |-> "sent", by |-> w, to |-> t,
                                    rows |-> TargetRows(w, t), fresh |-> {}]]
    /\ UNCHANGED <<logVars, log, registry, queueVars, todo, read, mark, faults>>

Waiting(w) == {c \in Conn : conn[c].pc # "free" /\ conn[c].by = w}

\* The endpoint answers after its commit.
AnsweredBeforeCommit(c) == conn[c].pc \in {"checked", "answered"}
Answered(c) == conn[c].pc = "answered"

\* A 2xx answer arrives.
PostSucceeds(w, c) ==
    /\ pc[w] = "wait" /\ conn[c].by = w /\ Answered(c)
    /\ pc' = [pc EXCEPT ![w] = "ok"]
    /\ conn' = [conn EXCEPT ![c] = FreeConn]
    /\ UNCHANGED <<logVars, log, registry, queueVars, todo, group, read, mark, faults>>

\* The connection is refused, reset, or answered with an error.
PostFails(w) ==
    /\ pc[w] = "wait" /\ Waiting(w) = {}
    /\ pc' = [pc EXCEPT ![w] = "err"]
    /\ UNCHANGED <<logVars, log, registry, queueVars, todo, group, read, mark, conn, faults>>

\* The client gives up after 10 s while the server goes on.
Orphaned(w) == [c \in Conn |->
    IF conn[c].by # w THEN conn[c]
    ELSE IF conn[c].pc = "answered" THEN FreeConn
    ELSE [conn[c] EXCEPT !.by = NoWorker]]

PostTimesOut(w) ==
    /\ pc[w] = "wait" /\ Waiting(w) # {}
    /\ Fault
    /\ pc' = [pc EXCEPT ![w] = "err"]
    /\ conn' = Orphaned(w)
    /\ UNCHANGED <<logVars, log, registry, queueVars, todo, group, read, mark>>

\* The UPDATEs of a group are flushed to the database and keep their row
\* locks until the task commits; a 2xx also updates the node's last_sync_at.
HoldsLock(v, w) ==
    /\ v # w /\ Home[v] = Home[w]
    /\ \/ \E r \in group[w] : mark[v][r] # "none"
       \/ /\ pc[w] = "ok"
          /\ \E r \in group[w], q \in Row : Dst(q) = Dst(r) /\ mark[v][q] = "sent"

Blocked(w) == pc[w] \in {"ok", "err", "gone"} /\ \E v \in Worker : HoldsLock(v, w)

MarkGroup(w, outcome(_)) ==
    /\ ~Blocked(w)
    /\ pc' = [pc EXCEPT ![w] = "run"]
    /\ mark' = [mark EXCEPT ![w] =
                  [r \in Row |-> IF r \in group[w] THEN outcome(r) ELSE @[r]]]
    /\ todo' = [todo EXCEPT ![w] = @ \ group[w]]
    /\ group' = [group EXCEPT ![w] = {}]
    /\ UNCHANGED <<logVars, log, registry, queueVars, read, conn, faults>>

NodesPresent(w) == \A r \in group[w] : Dst(r) \in registry[Home[w]]

MarkSent(w) ==
    /\ pc[w] = "ok" /\ NodesPresent(w)
    /\ MarkGroup(w, LAMBDA r : "sent")

\* 2^attempts minutes of backoff, until the attempts are used up.
OneAttemptShort(w, r) == IF read[w][r] + 2 >= MaxAttempts THEN "failed" ELSE "retry"
FailureIgnored(w, r) == "sent"
AfterFailure(w, r) == IF read[w][r] + 1 >= MaxAttempts THEN "failed" ELSE "retry"

MarkFailed(w) ==
    /\ pc[w] = "err"
    /\ MarkGroup(w, LAMBDA r : AfterFailure(w, r))

OrphansSkipped(w) ==
    /\ pc[w] = "gone"
    /\ MarkGroup(w, LAMBDA r : "none")

MarkAbandoned(w) ==
    /\ pc[w] = "gone"
    /\ MarkGroup(w, LAMBDA r : "abandoned")

\* The outcomes that write the status column; a retry leaves it alone.
EveryMark == Mark \ {"none"}
WritesStatus == {"sent", "failed", "abandoned"}

\* The single commit at the end: each row takes what this task read and
\* decided, whatever another task committed meanwhile.
Commit(w) ==
    /\ pc[w] = "run" /\ todo[w] = {}
    /\ status' = [r \in Row |-> IF mark[w][r] \in WritesStatus
                                THEN mark[w][r] ELSE status[r]]
    /\ attempts' = [r \in Row |-> IF mark[w][r] \in {"sent", "failed", "retry"}
                                  THEN read[w][r] + 1 ELSE attempts[r]]
    /\ due' = [r \in Row |-> due[r] /\ mark[w][r] # "retry"]
    /\ pc' = [pc EXCEPT ![w] = "idle"]
    /\ read' = [read EXCEPT ![w] = [r \in Row |-> 0]]
    /\ mark' = [mark EXCEPT ![w] = [r \in Row |-> "none"]]
    /\ UNCHANGED <<logVars, log, registry, todo, group, conn, faults>>

\* The task ends without a commit; everything it marked is rolled back.
Discard(w) ==
    /\ pc' = [pc EXCEPT ![w] = "idle"]
    /\ todo' = [todo EXCEPT ![w] = {}]
    /\ group' = [group EXCEPT ![w] = {}]
    /\ read' = [read EXCEPT ![w] = [r \in Row |-> 0]]
    /\ mark' = [mark EXCEPT ![w] = [r \in Row |-> "none"]]
    /\ conn' = Orphaned(w)
    /\ UNCHANGED <<logVars, log, registry, queueVars>>

\* Worker crash, task_time_limit or a database error.
Killed(w) == pc[w] # "idle" /\ Fault /\ Discard(w)

\* The UPDATE of a node deleted since it was read matches no row.
StaleNode(w) ==
    /\ pc[w] = "ok" /\ ~NodesPresent(w) /\ ~Blocked(w)
    /\ Discard(w)
    /\ UNCHANGED faults

\* Two tasks wait for each other's locks; the database aborts one.
DeadlockVictim(w) ==
    /\ Blocked(w)
    /\ \E v \in Worker : HoldsLock(v, w) /\ HoldsLock(w, v) /\ Blocked(v)
    /\ Discard(w)
    /\ UNCHANGED faults

-----------------------------------------------------------------------------
(* The receiving node: /cluster/sync-receive and ingest_audit_events.      *)

EventsOf(c) == {Ev(r) : r \in conn[c].rows}

NeverSeen(e, t) == FALSE
\* The duplicate check compares server_node, occurred_at and event_code.
Seen(e, t) == \E f \in Event : Key[f] = Key[e] /\ log[t][f] > 0

IngestCheck(c) ==
    /\ conn[c].pc = "sent"
    /\ conn' = [conn EXCEPT ![c].pc = "checked",
                            ![c].fresh = {e \in EventsOf(c) : ~Seen(e, conn[c].to)}]
    /\ UNCHANGED <<logVars, log, registry, queueVars, taskVars, faults>>

\* The inserts of one request commit together; ingest never enqueues.
IngestCommit(c) ==
    /\ conn[c].pc = "checked"
    /\ log' = [log EXCEPT ![conn[c].to] =
                 [e \in Event |-> IF e \in conn[c].fresh THEN @[e] + 1 ELSE @[e]]]
    /\ conn' = [conn EXCEPT ![c] = IF conn[c].by = NoWorker THEN FreeConn
                                   ELSE [conn[c] EXCEPT !.pc = "answered"]]
    /\ UNCHANGED <<logVars, registry, queueVars, taskVars, faults>>

\* The request, its handling or its answer is lost.
RequestLost(c) ==
    /\ conn[c].pc # "free"
    /\ Fault
    /\ conn' = [conn EXCEPT ![c] = FreeConn]
    /\ UNCHANGED <<logVars, log, registry, queueVars, taskVars>>

-----------------------------------------------------------------------------
(* The registry, changed by an administrator on the master.                *)

RowsFor(n) == {r \in Row : Src(r) = Master /\ Dst(r) = n}

\* The rows a deletion makes terminal.
ClosedByDelete == {"pending", "failed"}

\* The bulk UPDATE and the DELETE wait for rows a flush task has locked.
LockedByTask(n) ==
    \E w \in Worker : \E r \in RowsFor(n) :
        \/ mark[w][r] = "sent"
        \/ mark[w][r] # "none" /\ status[r] \in ClosedByDelete

\* admin_delete_node: the pending and failed rows become abandoned.
DeleteNode(n) ==
    /\ n \in registry[Master] \ {Master}
    /\ ~LockedByTask(n)
    /\ registry' = [registry EXCEPT ![Master] = @ \ {n}]
    /\ status' = [r \in Row |->
                    IF r \in RowsFor(n) /\ status[r] \in ClosedByDelete
                    THEN "abandoned" ELSE status[r]]
    /\ UNCHANGED <<logVars, log, attempts, due, taskVars, conn, faults>>

\* admin_add_node, register_node.
AddNode(n) ==
    /\ n \notin registry[Master]
    /\ registry' = [registry EXCEPT ![Master] = @ \cup {n}]
    /\ UNCHANGED <<logVars, log, queueVars, taskVars, conn, faults>>

-----------------------------------------------------------------------------
WriterStep(e) == LogBegin(e) \/ LogRollback(e) \/ LogCommit(e)

TaskStep(w) ==
    \/ \E batch \in SUBSET DueRows(Home[w]) : FlushSelect(w, batch)
    \/ \E t \in Node : TargetMissing(w, t)
    \/ \E t \in Node, c \in Conn : Post(w, t, c)
    \/ \E c \in Conn : PostSucceeds(w, c)
    \/ PostFails(w)
    \/ MarkSent(w) \/ MarkFailed(w) \/ MarkAbandoned(w)
    \/ Commit(w) \/ StaleNode(w) \/ DeadlockVictim(w)

ReceiverStep(c) == IngestCheck(c) \/ IngestCommit(c)

Environment ==
    \/ \E w \in Worker : PostTimesOut(w) \/ Killed(w)
    \/ \E c \in Conn : RequestLost(c)
    \/ \E n \in Node : DeleteNode(n) \/ AddNode(n)

Next ==
    \/ \E e \in Event : WriterStep(e)
    \/ \E r \in Row : BackoffElapsed(r)
    \/ \E w \in Worker : TaskStep(w)
    \/ \E c \in Conn : ReceiverStep(c)
    \/ Environment

Spec == Init /\ [][Next]_vars

\* Beat starts a flush every 10 s and a running task goes on; handlers run to
\* their end; time passes.  Writers, faults and administrators are free.
Fairness ==
    /\ \A r \in Row : WF_vars(BackoffElapsed(r))
    /\ \A w \in Worker : WF_vars(TaskStep(w))
    /\ \A c \in Conn : WF_vars(ReceiverStep(c))

FairSpec == Spec /\ Fairness
-----------------------------------------------------------------------------
(* Properties.                                                             *)

\* What the target holds that it cannot tell from e.
Covered(r) == \E f \in Event : Key[f] = Key[Ev(r)] /\ log[Dst(r)][f] > 0

\* A row is shown as sent only when its target has committed an event with
\* the same duplicate key: a lost answer, a kill before the commit, two
\* overlapping flushes or a deleted node never make a false "sent".
SentMeansCovered == \A r \in Row : status[r] = "sent" => Covered(r)

\* Why it holds: a request answered with success has stored or recognised
\* every event it carries, and only such a request lets a task mark its group.
RequestsCovered ==
    \A c \in Conn :
        /\ conn[c].pc # "free" => \A r \in conn[c].rows : Dst(r) = conn[c].to
        /\ conn[c].pc = "checked" =>
               \A r \in conn[c].rows : Ev(r) \in conn[c].fresh \/ Covered(r)
        /\ conn[c].pc = "answered" => \A r \in conn[c].rows : Covered(r)
        /\ conn[c].by # NoWorker =>
               conn[c].pc # "free" /\ pc[conn[c].by] = "wait" /\ conn[c].rows = group[conn[c].by]

OneRequestEach ==
    \A c, d \in Conn : conn[c].by = conn[d].by /\ conn[c].by # NoWorker => c = d

TasksCovered ==
    \A w \in Worker :
        /\ pc[w] = "ok" => \A r \in group[w] : Covered(r)
        /\ \A r \in Row : mark[w][r] = "sent" => Covered(r)

DeliveryInv ==
    TypeOK /\ RequestsCovered /\ OneRequestEach /\ TasksCovered /\ SentMeansCovered

\* The stronger reading of "sent": the target holds this very event.
SentMeansStored == \A r \in Row : status[r] = "sent" => log[Dst(r)][Ev(r)] > 0

\* Outbox atomicity: whatever a target holds, or a queue row names, is
\* committed where it happened.
NothingForwardedBeforeCommit ==
    \A e \in Event : phase[e] # "logged" =>
        /\ \A n \in Node : log[n][e] = 0
        /\ \A r \in Row : Ev(r) = e => status[r] = "none"

\* Retries are idempotent: no target stores an event twice.
StoredAtMostOnce == \A n \in Node, e \in Event : log[n][e] <= 1

\* Why it holds as long as no two requests with an event stand between check and
\* commit at one node: what a request is about to insert is not there.
ChecksApart ==
    \A c, d \in Conn : c # d /\ conn[c].to = conn[d].to =>
        \/ conn[c].pc # "checked" \/ conn[d].pc # "checked"
        \/ conn[c].fresh \cap conn[d].fresh = {}
FreshIsNew ==
    \A c \in Conn : conn[c].pc = "checked" =>
        \A e \in conn[c].fresh : log[conn[c].to][e] = 0

\* Every queue row is eventually out of the pending state.
RowsSettle == \A r \in Row : (status[r] = "pending") ~> (status[r] # "pending")

\* With fewer faults than attempts, an event reaches every node it was queued
\* for, unless the node was deleted.
RowsDelivered ==
    \A r \in Row : (status[r] = "pending") ~> (Covered(r) \/ status[r] = "abandoned")

\* The refinement: what the outbox does, seen without queue and tasks.
Abstract == INSTANCE AuditReplication WITH
    recorded <- {e \in Event : phase[e] = "logged"},
    holds <- [n \in Node |-> {e \in Event : log[n][e] > 0}],
    reported <- {c \in Event \X Node : status[<<Origin[c[1]], c[1], c[2]>>] = "sent"}

ImplementsReplication == Abstract!AbsSpec

\* Why nothing is forwarded before its commit, and nothing comes back: every
\* row that is queued, selected, marked or sent belongs to an event that is
\* committed where it happened and whose target is on the other side.
Genuine(r) ==
    /\ phase[Ev(r)] = "logged"
    /\ Src(r) = Origin[Ev(r)]
    /\ Abstract!Direction(Ev(r), Dst(r))

DraftsOutward ==
    \A e \in Event : \A t \in draft[e] : Abstract!Direction(e, t)

RowsGenuine == \A r \in Row : status[r] # "none" => Genuine(r)

TasksGenuine ==
    \A w \in Worker :
        /\ \A r \in todo[w] \cup group[w] : Genuine(r)
        /\ \A r \in Row : mark[w][r] # "none" => Genuine(r)

RequestsGenuine ==
    \A c \in Conn :
        /\ \A r \in conn[c].rows : Genuine(r) /\ Dst(r) = conn[c].to
        /\ \A e \in conn[c].fresh : phase[e] = "logged" /\ Abstract!Direction(e, conn[c].to)

LogsGenuine ==
    \A n \in Node, e \in Event :
        /\ log[n][e] > 0 => phase[e] = "logged" /\ (n = Origin[e] \/ Abstract!Direction(e, n))
        /\ n = Origin[e] => log[n][e] <= 1

ForwardingInv ==
    TypeOK /\ DraftsOutward /\ RowsGenuine /\ TasksGenuine /\ RequestsGenuine /\ LogsGenuine

\* Forwarding has no loop: the node an event happened on never receives a
\* copy of it, and copies only travel between the master and a slave.
NoForwardingLoop ==
    \A e \in Event, n \in Node :
        /\ n = Origin[e] => log[n][e] <= 1
        /\ log[n][e] > 0 => n = Origin[e] \/ n = Master \/ Origin[e] = Master
=============================================================================
