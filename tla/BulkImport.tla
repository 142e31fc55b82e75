----------------------------- MODULE BulkImport -----------------------------
(***************************************************************************)
(* Bulk jobs (backend/app/services/bulk_import_service.py and              *)
(* worker/tasks/bulk_tasks.py behind api/v1/users.py): a batch of creates  *)
(* that a worker takes from a queue, or a batch of creates, updates or     *)
(* deletes inside the request.  Every item is a call of                    *)
(* ldap_user_service: LDAP at once, the row in the transaction of the      *)
(* batch, which is committed every Chunk items by the worker and once at   *)
(* the end otherwise.  Batches interleave; an item, a commit or a process  *)
(* may fail.                                                               *)
(***************************************************************************)
EXTENDS Naturals, FiniteSets, Sequences

CONSTANTS
    Job,        \* bulk jobs
    Uid,        \* LDAP uids
    Request,    \* what administrators may submit
    Chunk,      \* items between two commits of the worker (50)
    MaxFaults,  \* bound: failures of LDAP, the database and processes
    Before,     \* the sets of users that may exist from the start
    Seed,       \* their entries and rows
    Null        \* no request, no entry, no row

Kind == {"import", "create", "update", "delete"}  \* import is queued, the others are not
JobRow == [status : {"pending", "running", "completed", "partial", "failed"},
           processed : Nat, ok : Nat, bad : Nat]
\* An entry or a row is named by the job and the item that inserted it.
Row == (Job \X Nat) \cup {Seed}

ASSUME ImportAssumption ==
    /\ Request \subseteq [kind : Kind, batch : Seq(Uid), unparsed : Nat, stop : BOOLEAN]
    /\ Chunk \in Nat \ {0} /\ MaxFaults \in Nat /\ Before \subseteq SUBSET Uid
    /\ Null \notin Row /\ Seed \notin Job \X Nat /\ Null \notin Request /\ Null \notin JobRow

VARIABLES
    req,     \* per job: what was submitted
    ldap,    \* per user: the LDAP entry
    meta,    \* per user: the committed user_metadata row
    job,     \* per job: the committed bulk_import_job row
    queue,   \* jobs whose message is in the broker
    open,    \* jobs whose queueing request has not committed yet
    work,    \* per job: the loop over its items and its transaction
    made,    \* per job: the items whose effect is committed
    faults

vars == <<req, ldap, meta, job, queue, open, work, made, faults>>

Batch(j) == req[j].batch
Current(j) == Batch(j)[work[j].next]
KindOf(j) == req[j].kind

Looping == {"search", "select", "add", "write", "reread", "progress", "final"}
Stage == Looping \cup {"none", "mark", "ended", "missed", "dead"}
\* row is what the item has loaded; kept the items done since the last commit;
\* put, cut and touched the rows inserted, deleted and updated since then (put
\* by which item, 0 for none); broken a session that refuses every statement.
Work == [at : Stage, next : Nat, ok : Nat, bad : Nat, row : Row \cup {Null},
         kept : SUBSET Nat, put : [Uid -> Nat], cut : SUBSET Uid, touched : SUBSET Uid,
         broken : BOOLEAN]
NoChange == [u \in Uid |-> 0]
NoWork == [at |-> "none", next |-> 1, ok |-> 0, bad |-> 0, row |-> Null, kept |-> {},
           put |-> NoChange, cut |-> {}, touched |-> {}, broken |-> FALSE]
At(w, stage) == [w EXCEPT !.at = stage]

TypeOK ==
    /\ req \in [Job -> Request \cup {Null}]
    /\ ldap \in [Uid -> Row \cup {Null}]
    /\ meta \in [Uid -> Row \cup {Null}]
    /\ job \in [Job -> JobRow \cup {Null}]
    /\ queue \subseteq Job /\ open \subseteq Job
    /\ work \in [Job -> Work]
    /\ made \in [Job -> SUBSET Nat]
    /\ faults \in Nat

Init ==
    /\ req = [j \in Job |-> Null]
    /\ \E users \in Before : meta = [u \in Uid |-> IF u \in users THEN Seed ELSE Null]
    /\ ldap = meta
    /\ job = [j \in Job |-> Null]
    /\ queue = {} /\ open = {}
    /\ work = [j \in Job |-> NoWork]
    /\ made = [j \in Job |-> {}]
    /\ faults = 0

Fault == faults < MaxFaults /\ faults' = faults + 1
Becomes(j, w) == work' = [work EXCEPT ![j] = w]

-----------------------------------------------------------------------------
(* The request.                                                            *)

\* A batch inside the request, with an item at least: its job row stays in
\* the transaction.
SubmitSync(j, r) ==
    /\ req[j] = Null /\ r.kind # "import" /\ r.batch # <<>>
    /\ req' = [req EXCEPT ![j] = r]
    /\ Becomes(j, At(NoWork, "search"))
    /\ UNCHANGED <<ldap, meta, job, queue, open, made, faults>>

\* The job row is flushed and the message sent before the commit; a CSV file
\* without a readable line sends none.
SubmitQueued(j, r) ==
    /\ req[j] = Null /\ r.kind = "import"
    /\ req' = [req EXCEPT ![j] = r]
    /\ queue' = IF r.batch = <<>> THEN queue ELSE queue \cup {j}
    /\ open' = open \cup {j}
    /\ UNCHANGED <<ldap, meta, job, work, made, faults>>

SubmitCommit(j) ==
    /\ j \in open
    /\ open' = open \ {j}
    /\ job' = [job EXCEPT ![j] =
          [status |-> IF Batch(j) = <<>> THEN "failed" ELSE "pending",
           processed |-> 0, ok |-> 0, bad |-> req[j].unparsed]]
    /\ UNCHANGED <<req, ldap, meta, queue, work, made, faults>>

\* The message stays.
SubmitFails(j) ==
    /\ j \in open /\ Fault
    /\ open' = open \ {j}
    /\ UNCHANGED <<req, ldap, meta, job, queue, work, made>>

-----------------------------------------------------------------------------
(* The task.                                                               *)

\* A message is acknowledged when it is taken and never delivered again.
Take(j) ==
    /\ j \in queue
    /\ queue' = queue \ {j}
    /\ IF job[j] = Null
       THEN Becomes(j, At(NoWork, "missed")) /\ UNCHANGED job
       ELSE /\ Becomes(j, At(NoWork, "search"))
            /\ job' = [job EXCEPT ![j] = [job[j] EXCEPT !.status = "running"]]
    /\ UNCHANGED <<req, ldap, meta, open, made, faults>>

TakeFails(j) ==
    /\ j \in queue /\ Fault
    /\ queue' = queue \ {j}
    /\ Becomes(j, At(NoWork, "mark"))
    /\ UNCHANGED <<req, ldap, meta, job, open, made>>

-----------------------------------------------------------------------------
(* One item.                                                               *)

\* stop is on_conflict or on_error = fail.  The loop over synchronous creates
\* looks for an error code in a text that does not contain it and never
\* stops; for the same reason skip never turns a failure into a success.
Stops(j) == req[j].stop /\ KindOf(j) # "create"

\* Where the loop goes after item n.
Following(j, n, good) ==
    IF ~good /\ Stops(j) THEN "final"
    ELSE IF KindOf(j) = "import" /\ n % Chunk = 0 THEN "progress"
    ELSE IF n = Len(Batch(j)) THEN "final" ELSE "search"

\* Mutant of Counted: a failure is taken back as a skip without having been
\* counted.
CountedBack(j, w, good) ==
    [w EXCEPT !.at = Following(j, w.next, good), !.next = w.next + 1, !.row = Null,
              !.ok = IF good THEN w.ok + 1 ELSE w.ok,
              !.bad = IF good THEN w.bad ELSE w.bad - 1,
              !.kept = IF good THEN w.kept \cup {w.next} ELSE w.kept]

\* The item of w is over.
Counted(j, w, good) ==
    [w EXCEPT !.at = Following(j, w.next, good), !.next = w.next + 1, !.row = Null,
              !.ok = IF good THEN w.ok + 1 ELSE w.ok,
              !.bad = IF good THEN w.bad ELSE w.bad + 1,
              !.kept = IF good THEN w.kept \cup {w.next} ELSE w.kept]

\* The transaction is over.
Clean(w) == [w EXCEPT !.kept = {}, !.put = NoChange, !.cut = {}, !.touched = {}]

\* Mutant of Broken: the loop rolls back and goes on.
BrokenRecovers(w) == Clean(w)

\* A statement failed: the transaction is rolled back, and the session
\* refuses all others until a rollback call that the loop does not make.
Broken(w) == [w EXCEPT !.kept = {}, !.put = NoChange, !.cut = {}, !.touched = {},
                       !.broken = TRUE]

\* The row of u as the transaction of j sees it.
Seen(j, u) ==
    IF work[j].put[u] # 0 THEN <<j, work[j].put[u]>>
    ELSE IF u \in work[j].cut THEN Null ELSE meta[u]
Holds(k, u) == work[k].put[u] # 0 \/ u \in work[k].cut \/ u \in work[k].touched
Blocked(j) == work[j].at = "write" /\ \E k \in Job \ {j} : Holds(k, Current(j))

\* search_user_by_uid, and for an update or a delete the LDAP change.
Search(j) ==
    LET u == Current(j)
        found == ldap[u] # Null
    IN
    /\ work[j].at = "search"
    /\ IF found <=> KindOf(j) \in {"update", "delete"}
       THEN Becomes(j, At(work[j], "select"))
       ELSE Becomes(j, Counted(j, work[j], FALSE))
    /\ ldap' = IF KindOf(j) = "delete" THEN [ldap EXCEPT ![u] = Null] ELSE ldap
    /\ UNCHANGED <<req, meta, job, queue, open, made, faults>>

\* The lookup of the row.
Select(j) ==
    LET w == work[j]
        row == Seen(j, Current(j))
    IN
    /\ w.at = "select"
    /\ Becomes(j, CASE w.broken -> Counted(j, w, FALSE)
                    [] ~w.broken /\ KindOf(j) \in {"import", "create"} ->
                          IF row = Null THEN At(w, "add") ELSE Counted(j, w, FALSE)
                    [] ~w.broken /\ KindOf(j) = "update" -> [w EXCEPT !.at = "write", !.row = row]
                    [] ~w.broken /\ KindOf(j) = "delete" ->
                          IF row = Null THEN Counted(j, w, TRUE)
                          ELSE [w EXCEPT !.at = "write", !.row = row])
    /\ UNCHANGED <<req, ldap, meta, job, queue, open, made, faults>>

\* Mutant of Add: the result of conn.add is not looked at.
AddUnchecked(j) ==
    LET u == Current(j) IN
    /\ work[j].at = "add"
    /\ Becomes(j, At(work[j], "write"))
    /\ ldap' = IF ldap[u] # Null THEN ldap ELSE [ldap EXCEPT ![u] = <<j, work[j].next>>]
    /\ UNCHANGED <<req, meta, job, queue, open, made, faults>>

\* conn.add refuses an entry that exists by now.
Add(j) ==
    LET u == Current(j) IN
    /\ work[j].at = "add"
    /\ IF ldap[u] # Null
       THEN Becomes(j, Counted(j, work[j], FALSE)) /\ UNCHANGED ldap
       ELSE /\ Becomes(j, At(work[j], "write"))
            /\ ldap' = [ldap EXCEPT ![u] = <<j, work[j].next>>]
    /\ UNCHANGED <<req, meta, job, queue, open, made, faults>>

\* The flushes.  A row another transaction has changed is waited for; an
\* insert that meets a row, or an update that meets none, fails.
Insert(j) ==
    LET w == work[j]
        u == Current(j)
        put == [w EXCEPT !.put = [w.put EXCEPT ![u] = w.next]]
    IN
    /\ w.at = "write" /\ ~Blocked(j)
    /\ w.row = Null
    /\ Becomes(j, IF meta[u] # Null THEN Counted(j, Broken(w), FALSE)
                  ELSE IF KindOf(j) = "update" THEN At(put, "reread")
                  ELSE Counted(j, put, TRUE))
    /\ UNCHANGED <<req, ldap, meta, job, queue, open, made, faults>>

Update(j) ==
    LET w == work[j]
        u == Current(j)
    IN
    /\ w.at = "write" /\ ~Blocked(j)
    /\ w.row # Null /\ KindOf(j) = "update"
    /\ Becomes(j, IF Seen(j, u) = w.row
                  THEN [w EXCEPT !.at = "reread", !.touched = w.touched \cup {u}]
                  ELSE Counted(j, Broken(w), FALSE))
    /\ UNCHANGED <<req, ldap, meta, job, queue, open, made, faults>>

\* A row that is gone is not an error.
Delete(j) ==
    LET w == work[j]
        u == Current(j)
    IN
    /\ w.at = "write" /\ ~Blocked(j)
    /\ w.row # Null /\ KindOf(j) = "delete"
    /\ Becomes(j, Counted(j, IF meta[u] = w.row THEN [w EXCEPT !.cut = w.cut \cup {u}] ELSE w,
                          TRUE))
    /\ UNCHANGED <<req, ldap, meta, job, queue, open, made, faults>>

\* The get_user at the end of update_user: the item may fail, its row stays.
Reread(j) ==
    /\ work[j].at = "reread"
    /\ Becomes(j, Counted(j, work[j], ldap[Current(j)] # Null))
    /\ UNCHANGED <<req, ldap, meta, job, queue, open, made, faults>>

\* Batches that wait for each other in a ring: the database fails one of them.
Waits(j) == {k \in Job \ {j} : work[j].at = "write" /\ Holds(k, Current(j))}
DeadlockVictim(j) ==
    /\ \E ring \in SUBSET Job :
          /\ j \in ring
          /\ \A k \in ring : Waits(k) \cap ring # {} /\ \E l \in ring : k \in Waits(l)
    /\ Becomes(j, Counted(j, Broken(work[j]), FALSE))
    /\ UNCHANGED <<req, ldap, meta, job, queue, open, made, faults>>

-----------------------------------------------------------------------------
(* The commits.                                                            *)

Counters(j, status, processed) ==
    [status |-> status, processed |-> processed, ok |-> work[j].ok, bad |-> work[j].bad]

\* The rows of the transaction of j, its job row and its items.
Commit(j, row) ==
    /\ meta' = [u \in Uid |-> Seen(j, u)]
    /\ job' = [job EXCEPT ![j] = row]
    /\ made' = [made EXCEPT ![j] = made[j] \cup work[j].kept]

CommitProgress(j) == Commit(j, Counters(j, "running", work[j].next - 1))
CommitFinal(j) ==
    Commit(j, Counters(j, IF work[j].bad = 0 THEN "completed" ELSE "partial", Len(Batch(j))))

\* An exception leaves the loop: the task goes on to _mark_failed, a request
\* answers with an error.
Escaped(j, w) == At(Clean(w), IF KindOf(j) = "import" THEN "mark" ELSE "ended")

Progress(j) ==
    LET w == work[j] IN
    /\ w.at = "progress"
    /\ IF w.broken THEN Becomes(j, Escaped(j, w)) /\ UNCHANGED <<meta, job, made>>
       ELSE /\ CommitProgress(j)
            /\ Becomes(j, At(Clean(w), IF w.next > Len(Batch(j)) THEN "final" ELSE "search"))
    /\ UNCHANGED <<req, ldap, queue, open, faults>>

Finish(j) ==
    LET w == work[j] IN
    /\ w.at = "final"
    /\ IF w.broken THEN Becomes(j, Escaped(j, w)) /\ UNCHANGED <<meta, job, made>>
       ELSE CommitFinal(j) /\ Becomes(j, At(Clean(w), "ended"))
    /\ UNCHANGED <<req, ldap, queue, open, faults>>

\* Mutant of Mark: the failure is only logged.
MarkForgotten(j) ==
    /\ work[j].at = "mark"
    /\ Becomes(j, At(work[j], "ended"))
    /\ UNCHANGED <<req, ldap, meta, job, queue, open, made, faults>>

\* Without a visible row there is nothing to mark.
Mark(j) ==
    /\ work[j].at = "mark"
    /\ IF job[j] = Null
       THEN Becomes(j, At(work[j], "missed")) /\ UNCHANGED job
       ELSE /\ Becomes(j, At(work[j], "ended"))
            /\ job' = [job EXCEPT ![j] = [job[j] EXCEPT !.status = "failed"]]
    /\ UNCHANGED <<req, ldap, meta, queue, open, made, faults>>

-----------------------------------------------------------------------------
(* Failures.                                                               *)

\* An LDAP operation fails, with or without effect.
LdapFails(j) ==
    LET u == Current(j) IN
    /\ work[j].at \in {"search", "add", "reread"} /\ Fault
    /\ Becomes(j, Counted(j, work[j], FALSE))
    /\ \/ UNCHANGED ldap
       \/ /\ work[j].at = "search" /\ KindOf(j) = "delete"
          /\ ldap' = [ldap EXCEPT ![u] = Null]
       \/ /\ work[j].at = "add" /\ ldap[u] = Null
          /\ ldap' = [ldap EXCEPT ![u] = <<j, work[j].next>>]
    /\ UNCHANGED <<req, meta, job, queue, open, made>>

DatabaseFails(j) ==
    /\ work[j].at \in {"select", "write", "reread"} /\ Fault
    /\ Becomes(j, Counted(j, Broken(work[j]), FALSE))
    /\ UNCHANGED <<req, ldap, meta, job, queue, open, made>>

\* A commit fails, or succeeds and its answer is lost.
CommitFails(j) ==
    /\ work[j].at \in {"progress", "final"} /\ ~work[j].broken /\ Fault
    /\ \/ UNCHANGED <<meta, job, made>>
       \/ work[j].at = "progress" /\ CommitProgress(j)
       \/ work[j].at = "final" /\ CommitFinal(j)
    /\ Becomes(j, Escaped(j, work[j]))
    /\ UNCHANGED <<req, ldap, queue, open>>

\* The process dies, or the hard time limit of the task ends it.
Kill(j) ==
    /\ work[j].at \in Looping \cup {"mark"} /\ Fault
    /\ Becomes(j, At(Clean(work[j]), "dead"))
    /\ UNCHANGED <<req, ldap, meta, job, queue, open, made>>

-----------------------------------------------------------------------------
Step(j) ==
    \/ SubmitCommit(j) \/ Take(j)
    \/ Search(j) \/ Select(j) \/ Add(j) \/ Insert(j) \/ Update(j) \/ Delete(j) \/ Reread(j)
    \/ DeadlockVictim(j) \/ Progress(j) \/ Finish(j) \/ Mark(j)

Next ==
    \E j \in Job :
        \/ \E r \in Request : SubmitSync(j, r) \/ SubmitQueued(j, r)
        \/ Step(j)
        \/ SubmitFails(j) \/ TakeFails(j) \/ LdapFails(j) \/ DatabaseFails(j)
        \/ CommitFails(j) \/ Kill(j)

Spec == Init /\ [][Next]_vars

\* A request and a task that run go on; the worker takes what is queued.
FairSpec == Spec /\ \A j \in Job : WF_vars(Step(j))

-----------------------------------------------------------------------------
(* Properties.                                                             *)

Page == INSTANCE ImportReport

\* What the page of a job shows is the truth at every moment: its counters
\* are those of committed items, with their rows; completed means all of
\* them; nothing but _mark_failed changes a job that is over.
ImplementsReport == Page!AbsSpec

\* Users nobody deletes in bulk: the row a create has inserted and the LDAP
\* entry of the same uid come from the same item of the same batch, however
\* batches that contain the uid overlap and whatever fails.
SameOrigin ==
    \A u \in Uid :
        (/\ meta[u] \notin {Null, Seed} /\ KindOf(meta[u][1]) \in {"import", "create"}
         /\ \A k \in Job : (req[k] # Null /\ KindOf(k) = "delete") =>
                \A n \in 1..Len(Batch(k)) : Batch(k)[n] # u)
        => ldap[u] = meta[u]

\* A job that is shown as waiting or running comes to an end, unless its
\* message was taken before its row was visible or its process died.
StatusOf(j) == IF job[j] = Null THEN "none" ELSE job[j].status
JobsSettle ==
    \A j \in Job :
        (StatusOf(j) \in {"pending", "running"}) ~>
        (StatusOf(j) \in {"completed", "partial", "failed"} \/ work[j].at \in {"missed", "dead"})
=============================================================================
