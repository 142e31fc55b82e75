---------------------------- MODULE ImportReport ----------------------------
(***************************************************************************)
(* What the page of a bulk job promises, without the steps that get there: *)
(* its counters speak of changes that are committed, completed means every *)
(* item was carried out, and a job that is over is never changed again.    *)
(***************************************************************************)
EXTENDS Naturals, FiniteSets, Sequences

CONSTANTS
    Job,      \* bulk jobs
    Uid,      \* LDAP uids
    Request,  \* what administrators may submit
    Before,   \* the sets of users that may exist from the start
    Seed,     \* their rows
    Null      \* no request, no row

VARIABLES
    req,   \* per job: what was submitted
    meta,  \* per user: the committed user_metadata row
    job,   \* per job: the committed bulk_import_job row
    made   \* per job: the items whose effect is committed

reportVars == <<req, meta, job, made>>

Batch(j) == req[j].batch
Items(j) == 1..Len(Batch(j))

AbsInit ==
    /\ req = [j \in Job |-> Null]
    /\ \E users \in Before : meta = [u \in Uid |-> IF u \in users THEN Seed ELSE Null]
    /\ job = [j \in Job |-> Null]
    /\ made = [j \in Job |-> {}]

Accept(j) ==
    /\ req[j] = Null
    /\ \E r \in Request : req' = [req EXCEPT ![j] = r]
    /\ UNCHANGED <<meta, job, made>>

\* A queued job appears: waiting, or over because no line could be read.
Show(j) ==
    /\ req[j] # Null /\ job[j] = Null
    /\ job' = [job EXCEPT ![j] =
          [status |-> IF Batch(j) = <<>> THEN "failed" ELSE "pending",
           processed |-> 0, ok |-> 0, bad |-> req[j].unparsed]]
    /\ UNCHANGED <<req, meta, made>>

Start(j) ==
    /\ job[j] # Null /\ job[j].status = "pending"
    /\ job' = [job EXCEPT ![j] = [job[j] EXCEPT !.status = "running"]]
    /\ UNCHANGED <<req, meta, made>>

\* Items are committed together with the counters that count them; what the
\* others in the batch leave behind is open, and no other user is touched.
Report(j, status, new, processed, bad) ==
    /\ req[j] # Null
    /\ job[j] = Null \/ job[j].status = "running"
    /\ new \subseteq Items(j) \ made[j]
    /\ made' = [made EXCEPT ![j] = made[j] \cup new]
    /\ job' = [job EXCEPT ![j] = [status |-> status, processed |-> processed,
                                  ok |-> Cardinality(made[j] \cup new), bad |-> bad]]
    /\ CASE status = "running"   -> bad + Cardinality(made[j] \cup new) = processed
         [] status = "completed" -> bad = 0 /\ made[j] \cup new = Items(j)
         [] status = "partial"   -> bad > 0
    /\ bad + Cardinality(made[j] \cup new) <= processed
    /\ \A i \in new : req[j].kind # "delete" => meta'[Batch(j)[i]] # Null
    /\ \A u \in Uid : (\A i \in Items(j) : Batch(j)[i] # u) => meta'[u] = meta[u]
    /\ UNCHANGED req

\* The task is known to have failed; its last commit may have gone through
\* all the same, and the counters of that commit stand.
Fail(j) ==
    /\ job[j] # Null
    /\ job' = [job EXCEPT ![j] = [job[j] EXCEPT !.status = "failed"]]
    /\ UNCHANGED <<req, meta, made>>

AbsNext ==
    \E j \in Job :
        \/ Accept(j) \/ Show(j) \/ Start(j) \/ Fail(j)
        \/ /\ req[j] # Null
           /\ \E status \in {"running", "completed", "partial"}, new \in SUBSET Items(j),
                 processed \in 0..Len(Batch(j)), bad \in 0..Len(Batch(j)) :
                 Report(j, status, new, processed, bad)

AbsSpec == AbsInit /\ [][AbsNext]_reportVars
=============================================================================
