-------------------------- MODULE BulkImportProofs --------------------------
(***************************************************************************)
(* Proofs about BulkImport: for any number of batches, users, items and    *)
(* failures, the page of a job tells the truth (BulkImport implements      *)
(* ImportReport), and the entry and the row of a user nobody deletes in    *)
(* bulk come from the same item.                                           *)
(***************************************************************************)
EXTENDS BulkImport, FiniteSetTheorems, TLAPS

Creates(r) == r.kind \in {"import", "create"}
ItemStage == {"search", "select", "add", "write", "reread"}

\* The counters of a running loop over the items before w.next: those done are
\* committed (m) or kept, and a loop without a failure has done them all.
Counting(w, m) ==
    /\ w.ok + w.bad = w.next - 1
    /\ w.kept \subseteq 1..(w.next - 1) /\ m \subseteq 1..(w.next - 1)
    /\ w.kept \cap m = {}
    /\ w.broken => w.bad > 0
    /\ ~w.broken => w.ok = Cardinality(m \cup w.kept)
    /\ w.bad = 0 => m \cup w.kept = 1..(w.next - 1)

NothingPending(w) == w.kept = {} /\ w.put = NoChange /\ w.cut = {} /\ w.touched = {}

\* Where the loop of request r stands.
LoopOK(r, w, m) ==
    /\ w.at \in Looping => Counting(w, m)
    /\ w.at \in ItemStage => w.next \in 1..Len(r.batch)
    /\ w.at \in {"progress", "final"} => w.next \in 2..(Len(r.batch) + 1)
    /\ w.at = "final" => w.next = Len(r.batch) + 1 \/ w.bad > 0
    /\ w.at = "progress" => r.kind = "import"
    /\ w.at \notin Looping => NothingPending(w)
    /\ w.at = "none" => m = {}

Holding(w, u) == w.put[u] # 0 \/ u \in w.cut \/ u \in w.touched

\* What the transaction of request r has changed.
Pending(r, w) ==
    /\ \A u \in Uid : Holding(w, u) => \E i \in 1..Len(r.batch) : r.batch[i] = u
    /\ r.kind # "delete" => w.cut = {}
    /\ \A i \in w.kept : r.kind # "delete" => w.put[r.batch[i]] # 0 \/ r.batch[i] \in w.touched

ChangesOK(r, w) ==
    /\ w.at \in Looping => Pending(r, w)
    /\ w.at \in Looping \ {"write", "reread"} => w.row = Null
    /\ w.at \in {"add", "write", "reread"} => w.broken = FALSE
    /\ w.at = "add" => Creates(r)
    /\ w.at = "write" => /\ Creates(r) => w.row = Null
                         /\ r.kind = "delete" => w.row # Null
    /\ w.at = "reread" => /\ r.kind = "update"
                          /\ w.put[r.batch[w.next]] # 0 \/ r.batch[w.next] \in w.touched

\* How the request, the message and the job row of j go together.
JobOK(j) ==
    /\ req[j] = Null => work[j].at = "none" /\ j \notin queue /\ j \notin open /\ job[j] = Null
    /\ j \in queue \cup open => KindOf(j) = "import"
    /\ j \in queue => /\ work[j].at = "none" /\ Batch(j) # <<>>
                      /\ job[j] # Null => job[j].status = "pending"
    /\ j \in open => job[j] = Null /\ work[j].at \notin Looping
    /\ work[j].at \in Looping =>
          IF KindOf(j) = "import" THEN job[j] # Null /\ job[j].status = "running"
          ELSE job[j] = Null

JobsOK == \A j \in Job : JobOK(j)
LoopsOK == \A j \in Job : LoopOK(req[j], work[j], made[j]) /\ ChangesOK(req[j], work[j])
\* A changed row is locked, and an updated one exists.
Locked == \A j, k \in Job, u \in Uid : j # k /\ Holds(j, u) => ~Holds(k, u)
Updated == \A j \in Job, u \in Uid : u \in work[j].touched /\ work[j].put[u] = 0 => meta[u] # Null

\* No bulk delete names u.
Undeleted(u) ==
    \A k \in Job : (req[k] # Null /\ KindOf(k) = "delete") =>
        \A n \in 1..Len(Batch(k)) : Batch(k)[n] # u
RowsOwned == \A u \in Uid : meta[u] \notin {Null, Seed} =>
                 meta[u] \in Job \X Nat /\ req[meta[u][1]] # Null
\* The entry is there before its row is inserted, and stays.
EntryFirst ==
    \A j \in Job : req[j] # Null /\ Creates(req[j]) =>
        /\ work[j].at = "write" /\ Undeleted(Current(j)) =>
              ldap[Current(j)] = <<j, work[j].next>>
        /\ \A u \in Uid : work[j].put[u] # 0 /\ Undeleted(u) =>
              ldap[u] = <<j, work[j].put[u]>>

ImportInv ==
    /\ TypeOK /\ JobsOK /\ LoopsOK /\ Locked /\ Updated
    /\ RowsOwned /\ EntryFirst /\ SameOrigin

-----------------------------------------------------------------------------
(* What the operators on work records do.                                  *)

LEMMA NoWorkFacts == NoWork \in Work /\ NothingPending(NoWork)
  BY ImportAssumption DEF NoWork, Work, NoChange, NothingPending, Stage

LEMMA AtFacts ==
  ASSUME NEW w \in Work, NEW stage \in Stage
  PROVE  /\ At(w, stage) \in Work
         /\ At(w, stage).at = stage
         /\ At(w, stage).next = w.next /\ At(w, stage).ok = w.ok /\ At(w, stage).bad = w.bad
         /\ At(w, stage).row = w.row /\ At(w, stage).kept = w.kept
         /\ At(w, stage).put = w.put /\ At(w, stage).cut = w.cut
         /\ At(w, stage).touched = w.touched /\ At(w, stage).broken = w.broken
  BY DEF At, Work

LEMMA CleanFacts ==
  ASSUME NEW w \in Work
  PROVE  /\ Clean(w) \in Work
         /\ NothingPending(Clean(w))
         /\ Clean(w).at = w.at /\ Clean(w).next = w.next /\ Clean(w).ok = w.ok
         /\ Clean(w).bad = w.bad /\ Clean(w).row = w.row /\ Clean(w).broken = w.broken
  BY DEF Clean, Work, NoChange, NothingPending

LEMMA BrokenFacts ==
  ASSUME NEW w \in Work
  PROVE  /\ Broken(w) \in Work
         /\ NothingPending(Broken(w))
         /\ Broken(w).at = w.at /\ Broken(w).next = w.next /\ Broken(w).ok = w.ok
         /\ Broken(w).bad = w.bad /\ Broken(w).row = w.row /\ Broken(w).broken = TRUE
  BY DEF Broken, Work, NoChange, NothingPending

LEMMA CountedFacts ==
  ASSUME NEW j \in Job, NEW w \in Work, NEW good \in BOOLEAN
  PROVE  /\ Counted(j, w, good) \in Work
         /\ Counted(j, w, good).at = Following(j, w.next, good)
         /\ Counted(j, w, good).at \in {"search", "progress", "final"}
         /\ Counted(j, w, good).next = w.next + 1
         /\ Counted(j, w, good).ok = IF good THEN w.ok + 1 ELSE w.ok
         /\ Counted(j, w, good).bad = IF good THEN w.bad ELSE w.bad + 1
         /\ Counted(j, w, good).kept = IF good THEN w.kept \cup {w.next} ELSE w.kept
         /\ Counted(j, w, good).row = Null
         /\ Counted(j, w, good).put = w.put /\ Counted(j, w, good).cut = w.cut
         /\ Counted(j, w, good).touched = w.touched
         /\ Counted(j, w, good).broken = w.broken
<1>1. Following(j, w.next, good) \in {"search", "progress", "final"}
  BY DEF Following
<1>2. Following(j, w.next, good) \in Stage
  BY <1>1 DEF Stage, Looping
<1> HIDE DEF Following
<1>3. w.kept \cup {w.next} \in SUBSET Nat /\ w.ok + 1 \in Nat /\ w.bad + 1 \in Nat /\ w.next + 1 \in Nat
  BY DEF Work
<1>4. QED
  BY <1>1, <1>2, <1>3 DEF Counted, Work

\* One more item has been done.
LEMMA CountingGood ==
  ASSUME NEW w \in Work, NEW m \in SUBSET Nat, Counting(w, m), ~w.broken,
         NEW c \in Work, c.next = w.next + 1, c.ok = w.ok + 1, c.bad = w.bad,
         c.kept = w.kept \cup {w.next}, c.broken = w.broken, w.next # 0
  PROVE  Counting(c, m)
<1>1. w.next \in Nat /\ w.ok \in Nat /\ w.bad \in Nat
  BY DEF Work
<1>2. IsFiniteSet(m \cup w.kept) /\ w.next \notin m \cup w.kept
  <2>1. m \cup w.kept \subseteq 1..(w.next - 1)
    BY DEF Counting
  <2>2. IsFiniteSet(1..(w.next - 1))
    <3>1. 1 \in Int /\ w.next - 1 \in Int
      BY <1>1
    <3>2. QED
      BY <3>1, FS_Interval
  <2>3. QED
    BY <1>1, <2>1, <2>2, FS_Subset
<1>3. m \cup c.kept = (m \cup w.kept) \cup {w.next}
  OBVIOUS
<1>4. Cardinality(m \cup c.kept) = Cardinality(m \cup w.kept) + 1
  <2>1. Cardinality((m \cup w.kept) \cup {w.next}) = Cardinality(m \cup w.kept) + 1
    BY <1>2, FS_AddElement
  <2>2. QED
    BY <1>3, <2>1
<1>5. 1..(c.next - 1) = 1..(w.next - 1) \cup {w.next}
  BY <1>1
<1>6. QED
  BY <1>1, <1>2, <1>3, <1>4, <1>5 DEF Counting

LEMMA CountingBad ==
  ASSUME NEW w \in Work, NEW m \in SUBSET Nat, Counting(w, m),
         NEW c \in Work, c.next = w.next + 1, c.ok = w.ok, c.bad = w.bad + 1,
         c.kept = w.kept, c.broken = w.broken
  PROVE  Counting(c, m)
<1>1. w.next \in Nat /\ w.ok \in Nat /\ w.bad \in Nat
  BY DEF Work
<1>2. 1..(w.next - 1) \subseteq 1..(c.next - 1)
  BY <1>1
<1>3. QED
  BY <1>1, <1>2 DEF Counting

\* An item fails and takes the transaction with it.
LEMMA CountingBroken ==
  ASSUME NEW w \in Work, NEW m \in SUBSET Nat, Counting(w, m),
         NEW c \in Work, c.next = w.next + 1, c.ok = w.ok, c.bad = w.bad + 1,
         c.kept = {}, c.broken = TRUE
  PROVE  Counting(c, m)
<1>1. w.next \in Nat /\ w.ok \in Nat /\ w.bad \in Nat
  BY DEF Work
<1>2. 1..(w.next - 1) \subseteq 1..(c.next - 1)
  BY <1>1
<1>3. c.ok + c.bad = c.next - 1 /\ c.bad > 0 /\ c.bad # 0
  BY <1>1 DEF Counting
<1>4. c.kept \subseteq 1..(c.next - 1) /\ m \subseteq 1..(c.next - 1) /\ c.kept \cap m = {}
  BY <1>2 DEF Counting
<1>5. ~c.broken => c.ok = Cardinality(m \cup c.kept)
  OBVIOUS
<1>6. QED
  BY <1>3, <1>4, <1>5 DEF Counting

-----------------------------------------------------------------------------
(* An item is over.                                                        *)

\* Where the loop goes next is a place it may be at.
LEMMA FollowingOK ==
  ASSUME NEW j \in Job, req[j] \in Request, NEW w \in Work, NEW m \in SUBSET Nat,
         NEW good \in BOOLEAN, w.next \in 1..Len(Batch(j)),
         Counting(Counted(j, w, good), m)
  PROVE  LoopOK(req[j], Counted(j, w, good), m)
<1> DEFINE c == Counted(j, w, good)
<1>1. /\ c \in Work /\ c.at = Following(j, w.next, good)
      /\ c.at \in {"search", "progress", "final"} /\ c.next = w.next + 1
      /\ c.bad = IF good THEN w.bad ELSE w.bad + 1
  BY CountedFacts
<1>2. w.next \in Nat /\ w.bad \in Nat /\ Len(Batch(j)) \in Nat
  BY ImportAssumption DEF Work, Batch
<1> HIDE DEF c
<1>3. c.at = "search" => w.next # Len(Batch(j))
  BY <1>1 DEF Following
<1>4. c.at = "final" => w.next = Len(Batch(j)) \/ ~good
  BY <1>1 DEF Following
<1>5. Counting(c, m)
  BY DEF c
<1>6. c.at = "progress" => req[j].kind = "import"
  BY <1>1 DEF Following, KindOf
<1>7. LoopOK(req[j], c, m)
  BY <1>1, <1>2, <1>3, <1>4, <1>5, <1>6 DEF LoopOK, Looping, ItemStage, Batch
<1>8. QED
  BY <1>7 DEF c

\* The item failed and left the transaction as it was.
LEMMA ItemFails ==
  ASSUME NEW j \in Job, req[j] \in Request, NEW w \in Work, NEW m \in SUBSET Nat,
         w.next \in 1..Len(Batch(j)), Counting(w, m), Pending(req[j], w)
  PROVE  LoopOK(req[j], Counted(j, w, FALSE), m) /\ ChangesOK(req[j], Counted(j, w, FALSE))
<1> DEFINE c == Counted(j, w, FALSE)
<1>1. /\ c \in Work /\ c.at \in {"search", "progress", "final"} /\ c.next = w.next + 1
      /\ c.ok = w.ok /\ c.bad = w.bad + 1 /\ c.kept = w.kept /\ c.row = Null
      /\ c.put = w.put /\ c.cut = w.cut /\ c.touched = w.touched /\ c.broken = w.broken
  BY CountedFacts
<1> HIDE DEF c
<1>2. Counting(c, m)
  BY <1>1, CountingBad
<1>3. Pending(req[j], c)
  BY <1>1 DEF Pending, Holding
<1>4. ChangesOK(req[j], c)
  BY <1>1, <1>3 DEF ChangesOK
<1>5. LoopOK(req[j], c, m)
  BY <1>2, FollowingOK DEF c
<1>6. QED
  BY <1>4, <1>5 DEF c

\* The item failed and the transaction with it.
LEMMA ItemBreaks ==
  ASSUME NEW j \in Job, req[j] \in Request, NEW w \in Work, NEW m \in SUBSET Nat,
         w.next \in 1..Len(Batch(j)), Counting(w, m)
  PROVE  /\ LoopOK(req[j], Counted(j, Broken(w), FALSE), m)
         /\ ChangesOK(req[j], Counted(j, Broken(w), FALSE))
         /\ Counted(j, Broken(w), FALSE) \in Work
         /\ Counted(j, Broken(w), FALSE).at \in {"search", "progress", "final"}
         /\ NothingPending(Counted(j, Broken(w), FALSE))
<1> DEFINE b == Broken(w)
           c == Counted(j, b, FALSE)
<1>1. /\ b \in Work /\ NothingPending(b) /\ b.next = w.next /\ b.ok = w.ok /\ b.bad = w.bad
      /\ b.broken = TRUE
  BY BrokenFacts
<1> HIDE DEF b
<1>2. /\ c \in Work /\ c.at \in {"search", "progress", "final"} /\ c.next = w.next + 1
      /\ c.ok = w.ok /\ c.bad = w.bad + 1 /\ c.kept = b.kept /\ c.row = Null
      /\ c.put = b.put /\ c.cut = b.cut /\ c.touched = b.touched /\ c.broken = TRUE
  <2>1. /\ c \in Work /\ c.at \in {"search", "progress", "final"} /\ c.next = b.next + 1
        /\ c.ok = b.ok /\ c.bad = b.bad + 1 /\ c.kept = b.kept /\ c.row = Null
        /\ c.put = b.put /\ c.cut = b.cut /\ c.touched = b.touched /\ c.broken = b.broken
    BY <1>1, CountedFacts
  <2> HIDE DEF c
  <2>2. QED
    BY <1>1, <2>1
<1> HIDE DEF c
<1>3. NothingPending(c)
  BY <1>1, <1>2 DEF NothingPending
<1>4. Counting(c, m)
  BY <1>2, <1>3, CountingBroken DEF NothingPending
<1>5. Pending(req[j], c)
  BY <1>3 DEF Pending, Holding, NothingPending, NoChange
<1>6. ChangesOK(req[j], c)
  BY <1>2, <1>5 DEF ChangesOK
<1>7. LoopOK(req[j], c, m)
  BY <1>1, <1>4, FollowingOK DEF c
<1>8. QED
  BY <1>2, <1>3, <1>6, <1>7 DEF b, c

\* The item is done and its row, if it has one, is in the transaction.
LEMMA ItemDone ==
  ASSUME NEW j \in Job, req[j] \in Request, NEW w \in Work, NEW m \in SUBSET Nat,
         w.next \in 1..Len(Batch(j)), Counting(w, m), Pending(req[j], w), w.broken = FALSE,
         KindOf(j) # "delete" => w.put[Current(j)] # 0 \/ Current(j) \in w.touched,
         w.next = work[j].next
  PROVE  LoopOK(req[j], Counted(j, w, TRUE), m) /\ ChangesOK(req[j], Counted(j, w, TRUE))
<1> DEFINE c == Counted(j, w, TRUE)
<1>1. /\ c \in Work /\ c.at \in {"search", "progress", "final"} /\ c.next = w.next + 1
      /\ c.ok = w.ok + 1 /\ c.bad = w.bad /\ c.kept = w.kept \cup {w.next} /\ c.row = Null
      /\ c.put = w.put /\ c.cut = w.cut /\ c.touched = w.touched /\ c.broken = w.broken
  BY CountedFacts
<1> HIDE DEF c
<1>2. w.next # 0
  BY ImportAssumption DEF Work
<1>3. Counting(c, m)
  BY <1>1, <1>2, CountingGood
<1>4. Pending(req[j], c)
  BY <1>1 DEF Pending, Holding, Current, Batch, KindOf
<1>5. ChangesOK(req[j], c)
  BY <1>1, <1>4 DEF ChangesOK
<1>6. LoopOK(req[j], c, m)
  BY <1>3, FollowingOK DEF c
<1>7. QED
  BY <1>5, <1>6 DEF c

-----------------------------------------------------------------------------
(* One batch moves.                                                        *)

LEMMA LoopFacts ==
  ASSUME ImportInv, NEW j \in Job, work[j].at \in Looping
  PROVE  /\ req[j] \in Request /\ req[j] # Null /\ work[j] \in Work /\ made[j] \in SUBSET Nat
         /\ Batch(j) \in Seq(Uid) /\ Len(Batch(j)) \in Nat
         /\ Counting(work[j], made[j]) /\ Pending(req[j], work[j])
         /\ work[j].at \in ItemStage => work[j].next \in 1..Len(Batch(j)) /\ Current(j) \in Uid
         /\ j \notin queue /\ j \notin open
<1>1. req[j] # Null /\ req[j] \in Request
  BY DEF ImportInv, TypeOK, JobsOK, JobOK, Looping
<1>2. work[j] \in Work /\ made[j] \in SUBSET Nat
  BY DEF ImportInv, TypeOK
<1>3. Batch(j) \in Seq(Uid) /\ Len(Batch(j)) \in Nat
  BY <1>1, ImportAssumption DEF Batch
<1>4. Counting(work[j], made[j]) /\ Pending(req[j], work[j])
  BY DEF ImportInv, LoopsOK, LoopOK, ChangesOK
<1>5. work[j].at \in ItemStage => work[j].next \in 1..Len(Batch(j))
  BY DEF ImportInv, LoopsOK, LoopOK, Batch
<1>6. work[j].next \in 1..Len(Batch(j)) => Current(j) \in Uid
  BY <1>3 DEF Current
<1>7. j \notin queue /\ j \notin open
  BY DEF ImportInv, JobsOK, JobOK, Looping
<1>8. QED
  BY <1>1, <1>2, <1>3, <1>4, <1>5, <1>6, <1>7

\* The loop of j goes on with w: no new lock is held by another, no row that
\* does not exist is updated, and entries of undeleted users stay.
LEMMA WorkMoves ==
  ASSUME ImportInv, NEW j \in Job, work[j].at \in Looping,
         NEW w \in Work, w.at \in Looping, work' = [work EXCEPT ![j] = w],
         UNCHANGED <<req, meta, job, queue, open, made>>, faults' \in Nat,
         ldap' \in [Uid -> Row \cup {Null}],
         LoopOK(req[j], w, made[j]), ChangesOK(req[j], w),
         \A u \in Uid : Holding(w, u) => Holding(work[j], u) \/ \A k \in Job \ {j} : ~Holds(k, u),
         \A u \in Uid : u \in w.touched /\ w.put[u] = 0 => meta[u] # Null,
         Creates(req[j]) =>
            /\ w.at = "write" /\ Undeleted(req[j].batch[w.next]) =>
                  ldap'[req[j].batch[w.next]] = <<j, w.next>>
            /\ \A u \in Uid : w.put[u] # 0 /\ Undeleted(u) => ldap'[u] = <<j, w.put[u]>>,
         \A u \in Uid : Undeleted(u) /\ ldap[u] # Null => ldap'[u] = ldap[u]
  PROVE  ImportInv'
<1>0. work \in [Job -> Work] /\ work' \in [Job -> Work]
      /\ work'[j] = w /\ \A k \in Job : k # j => work'[k] = work[k]
  BY DEF ImportInv, TypeOK
<1>1. TypeOK'
  BY <1>0 DEF ImportInv, TypeOK
<1>2. JobsOK'
  BY <1>0, LoopFacts DEF ImportInv, JobsOK, JobOK, KindOf, Batch
<1>3. LoopsOK'
  BY <1>0 DEF ImportInv, LoopsOK
<1>4. Locked'
  BY <1>0 DEF ImportInv, Locked, Holds, Holding
<1>5. Updated'
  BY <1>0 DEF ImportInv, Updated
<1>6. RowsOwned'
  BY DEF ImportInv, RowsOwned
<1>7. \A u \in Uid : Undeleted(u)' <=> Undeleted(u)
  BY DEF Undeleted, KindOf, Batch
<1>8. EntryFirst'
  <2> SUFFICES ASSUME NEW k \in Job, (req[k] # Null /\ Creates(req[k]))'
               PROVE  (/\ work[k].at = "write" /\ Undeleted(Current(k)) =>
                             ldap[Current(k)] = <<k, work[k].next>>
                       /\ \A u \in Uid : work[k].put[u] # 0 /\ Undeleted(u) =>
                             ldap[u] = <<k, work[k].put[u]>>)'
    BY DEF EntryFirst
  <2>1. CASE k = j
    BY <2>1, <1>0 DEF Current, Batch, Undeleted, KindOf
  <2>2. CASE k # j
    <3>1. work'[k] = work[k] /\ Current(k)' = Current(k) /\ work[k] \in Work
      BY <2>2, <1>0 DEF Current, Batch
    <3>2. work[k].at = "write" => Current(k) \in Uid
      BY LoopFacts DEF Looping, ItemStage
    <3>3. \A n \in Nat : <<k, n>> # Null
      BY ImportAssumption DEF Row
    <3>4. work[k].next \in Nat /\ work[k].put \in [Uid -> Nat]
      BY <3>1 DEF Work
    <3>5. work[k].at = "write" /\ Undeleted(Current(k)) => ldap'[Current(k)] = <<k, work[k].next>>
      BY <3>2, <3>3, <3>4 DEF ImportInv, EntryFirst
    <3>6. \A u \in Uid : work[k].put[u] # 0 /\ Undeleted(u) => ldap'[u] = <<k, work[k].put[u]>>
      <4> TAKE u \in Uid
      <4> HAVE work[k].put[u] # 0 /\ Undeleted(u)
      <4>1. req[k] # Null /\ Creates(req[k])
        BY DEF Creates
      <4>2. ldap[u] = <<k, work[k].put[u]>>
        BY <4>1 DEF ImportInv, EntryFirst
      <4>3. work[k].put[u] \in Nat
        BY <3>4
      <4>4. QED
        BY <3>3, <4>2, <4>3
    <3>7. Undeleted(Current(k))' <=> Undeleted(Current(k))
      BY <3>1 DEF Undeleted, KindOf, Batch
    <3>8. QED
      BY <1>7, <3>1, <3>5, <3>6, <3>7
  <2>3. QED
    BY <2>1, <2>2
<1>9. SameOrigin'
  <2> SUFFICES ASSUME NEW u \in Uid, meta[u] \notin {Null, Seed},
                      KindOf(meta[u][1]) \in {"import", "create"}, Undeleted(u)
               PROVE  ldap'[u] = meta[u]
    BY DEF SameOrigin, Undeleted, KindOf, Batch
  <2>1. ldap[u] = meta[u]
    BY DEF ImportInv, SameOrigin, Undeleted
  <2>2. QED
    BY <2>1
<1>10. QED
  BY <1>1, <1>2, <1>3, <1>4, <1>5, <1>6, <1>8, <1>9 DEF ImportInv

\* The item at hand fails without the database.
LEMMA ItemFailsInv ==
  ASSUME ImportInv, NEW j \in Job, work[j].at \in ItemStage,
         work' = [work EXCEPT ![j] = Counted(j, work[j], FALSE)],
         UNCHANGED <<req, meta, job, queue, open, made>>, faults' \in Nat,
         ldap' \in [Uid -> Row \cup {Null}],
         \A u \in Uid : Undeleted(u) /\ ldap[u] # Null => ldap'[u] = ldap[u]
  PROVE  ImportInv'
<1> DEFINE c == Counted(j, work[j], FALSE)
<1>1. work[j].at \in Looping
  BY DEF Looping, ItemStage
<1>2. req[j] \in Request /\ work[j] \in Work /\ made[j] \in SUBSET Nat /\ req[j] # Null
      /\ work[j].next \in 1..Len(Batch(j)) /\ Counting(work[j], made[j]) /\ Pending(req[j], work[j])
  BY <1>1, LoopFacts
<1>3. c \in Work /\ c.at \in {"search", "progress", "final"}
      /\ c.put = work[j].put /\ c.cut = work[j].cut /\ c.touched = work[j].touched
  BY <1>2, CountedFacts
<1>4. LoopOK(req[j], c, made[j]) /\ ChangesOK(req[j], c)
  BY <1>2, ItemFails
<1> HIDE DEF c
<1>5. \A u \in Uid : Holding(c, u) => Holding(work[j], u)
  BY <1>3 DEF Holding
<1>6. \A u \in Uid : u \in c.touched /\ c.put[u] = 0 => meta[u] # Null
  BY <1>3 DEF ImportInv, Updated
<1>7. \A u \in Uid : Creates(req[j]) /\ c.put[u] # 0 /\ Undeleted(u) => ldap'[u] = <<j, c.put[u]>>
  <2>1. \A u \in Uid : <<j, c.put[u]>> # Null
    BY <1>3, ImportAssumption DEF Row, Work
  <2>2. QED
    BY <2>1, <1>2, <1>3 DEF ImportInv, EntryFirst
<1>8. c.at \in Looping /\ c.at # "write" /\ work' = [work EXCEPT ![j] = c]
  BY <1>3 DEF Looping, c
<1>9. Creates(req[j]) =>
         /\ c.at = "write" /\ Undeleted(req[j].batch[c.next]) =>
               ldap'[req[j].batch[c.next]] = <<j, c.next>>
         /\ \A u \in Uid : c.put[u] # 0 /\ Undeleted(u) => ldap'[u] = <<j, c.put[u]>>
  BY <1>7, <1>8
<1>10. \A u \in Uid : Holding(c, u) => Holding(work[j], u) \/ \A k \in Job \ {j} : ~Holds(k, u)
  BY <1>5
<1>11. c \in Work
  BY <1>3
<1>12. QED
  BY <1>1, <1>4, <1>6, <1>8, <1>9, <1>10, <1>11, WorkMoves

\* A statement of the item at hand fails.
LEMMA ItemBreaksInv ==
  ASSUME ImportInv, NEW j \in Job, work[j].at \in ItemStage,
         work' = [work EXCEPT ![j] = Counted(j, Broken(work[j]), FALSE)],
         UNCHANGED <<req, ldap, meta, job, queue, open, made>>, faults' \in Nat
  PROVE  ImportInv'
<1> DEFINE c == Counted(j, Broken(work[j]), FALSE)
<1>1. work[j].at \in Looping
  BY DEF Looping, ItemStage
<1>2. req[j] \in Request /\ work[j] \in Work /\ made[j] \in SUBSET Nat
      /\ work[j].next \in 1..Len(Batch(j)) /\ Counting(work[j], made[j])
  BY <1>1, LoopFacts
<1>3. c \in Work /\ c.at \in {"search", "progress", "final"} /\ NothingPending(c)
      /\ LoopOK(req[j], c, made[j]) /\ ChangesOK(req[j], c)
  BY <1>2, ItemBreaks
<1> HIDE DEF c
<1>4. \A u \in Uid : ~Holding(c, u) /\ c.put[u] = 0 /\ u \notin c.touched
  BY <1>3 DEF NothingPending, Holding, NoChange
<1>5. c.at \in Looping /\ c.at # "write" /\ work' = [work EXCEPT ![j] = c]
  BY <1>3 DEF Looping, c
<1>6. ldap' \in [Uid -> Row \cup {Null}] /\ ldap' = ldap
  BY DEF ImportInv, TypeOK
<1>7. QED
  BY <1>1, <1>3, <1>4, <1>5, <1>6, WorkMoves

\* The item at hand is done; w is the loop with its row.
LEMMA ItemDoneInv ==
  ASSUME ImportInv, NEW j \in Job, work[j].at \in ItemStage, NEW w \in Work,
         w.next = work[j].next, Counting(w, made[j]), Pending(req[j], w), w.broken = FALSE,
         KindOf(j) # "delete" => w.put[Current(j)] # 0 \/ Current(j) \in w.touched,
         work' = [work EXCEPT ![j] = Counted(j, w, TRUE)],
         UNCHANGED <<req, ldap, meta, job, queue, open, made, faults>>,
         \A u \in Uid : Holding(w, u) => Holding(work[j], u) \/ \A k \in Job \ {j} : ~Holds(k, u),
         \A u \in Uid : u \in w.touched /\ w.put[u] = 0 => meta[u] # Null,
         \A u \in Uid : Creates(req[j]) /\ w.put[u] # 0 /\ Undeleted(u) => ldap[u] = <<j, w.put[u]>>
  PROVE  ImportInv'
<1> DEFINE c == Counted(j, w, TRUE)
<1>1. work[j].at \in Looping
  BY DEF Looping, ItemStage
<1>2. req[j] \in Request /\ made[j] \in SUBSET Nat /\ w.next \in 1..Len(Batch(j))
  BY <1>1, LoopFacts
<1>3. c \in Work /\ c.at \in {"search", "progress", "final"}
      /\ c.put = w.put /\ c.cut = w.cut /\ c.touched = w.touched
  BY CountedFacts
<1>4. LoopOK(req[j], c, made[j]) /\ ChangesOK(req[j], c)
  BY <1>2, ItemDone
<1> HIDE DEF c
<1>5. \A u \in Uid : Holding(c, u) => Holding(work[j], u) \/ \A k \in Job \ {j} : ~Holds(k, u)
  BY <1>3 DEF Holding
<1>6. \A u \in Uid : u \in c.touched /\ c.put[u] = 0 => meta[u] # Null
  BY <1>3
<1>7. c.at \in Looping /\ c.at # "write" /\ work' = [work EXCEPT ![j] = c]
  BY <1>3 DEF Looping, c
<1>8. ldap' \in [Uid -> Row \cup {Null}] /\ ldap' = ldap /\ faults' \in Nat
  BY DEF ImportInv, TypeOK
<1>9. Creates(req[j]) =>
         /\ c.at = "write" /\ Undeleted(req[j].batch[c.next]) =>
               ldap'[req[j].batch[c.next]] = <<j, c.next>>
         /\ \A u \in Uid : c.put[u] # 0 /\ Undeleted(u) => ldap'[u] = <<j, c.put[u]>>
  BY <1>3, <1>7, <1>8
<1>10. c \in Work
  BY <1>3
<1>11. QED
  BY <1>1, <1>4, <1>5, <1>6, <1>7, <1>8, <1>9, <1>10, WorkMoves

\* The item at hand goes on to its next step with w, which has the counters of
\* the loop; no entry changes.
LEMMA StageInv ==
  ASSUME ImportInv, NEW j \in Job, work[j].at \in ItemStage, NEW w \in Work, w.at \in ItemStage,
         w.next = work[j].next, w.ok = work[j].ok, w.bad = work[j].bad,
         w.kept = work[j].kept, w.broken = work[j].broken,
         ChangesOK(req[j], w),
         work' = [work EXCEPT ![j] = w],
         UNCHANGED <<req, ldap, meta, job, queue, open, made, faults>>,
         \A u \in Uid : Holding(w, u) => Holding(work[j], u) \/ \A k \in Job \ {j} : ~Holds(k, u),
         \A u \in Uid : u \in w.touched /\ w.put[u] = 0 => meta[u] # Null,
         Creates(req[j]) => w.at # "write" /\ w.put = work[j].put
  PROVE  ImportInv'
<1>1. work[j].at \in Looping /\ w.at \in Looping
  BY DEF Looping, ItemStage
<1>2. req[j] # Null /\ Counting(work[j], made[j]) /\ w.next \in 1..Len(Batch(j))
  BY <1>1, LoopFacts
<1>3. Counting(w, made[j])
  BY <1>2 DEF Counting
<1>4. LoopOK(req[j], w, made[j])
  BY <1>1, <1>2, <1>3 DEF LoopOK, ItemStage, Looping, Batch
<1>5. ldap' \in [Uid -> Row \cup {Null}] /\ ldap' = ldap /\ faults' \in Nat
  BY DEF ImportInv, TypeOK
<1>6. Creates(req[j]) =>
         /\ w.at = "write" /\ Undeleted(req[j].batch[w.next]) =>
               ldap'[req[j].batch[w.next]] = <<j, w.next>>
         /\ \A u \in Uid : w.put[u] # 0 /\ Undeleted(u) => ldap'[u] = <<j, w.put[u]>>
  BY <1>2, <1>5 DEF ImportInv, EntryFirst
<1>7. QED
  BY <1>1, <1>4, <1>5, <1>6, WorkMoves

-----------------------------------------------------------------------------
(* The steps of an item.                                                   *)

\* The LDAP entry of a user in a bulk delete may go.
LEMMA EntryGone ==
  ASSUME ImportInv, NEW j \in Job, work[j].at \in ItemStage, KindOf(j) = "delete",
         ldap' = [ldap EXCEPT ![Current(j)] = Null], UNCHANGED req
  PROVE  /\ ldap' \in [Uid -> Row \cup {Null}]
         /\ \A u \in Uid : Undeleted(u) /\ ldap[u] # Null => ldap'[u] = ldap[u]
<1>1. req[j] # Null /\ work[j].next \in 1..Len(Batch(j))
  BY LoopFacts DEF Looping, ItemStage
<1>2. ~Undeleted(Current(j))
  BY <1>1 DEF Undeleted, Current
<1>3. ldap \in [Uid -> Row \cup {Null}]
  BY DEF ImportInv, TypeOK
<1>4. QED
  BY <1>2, <1>3

LEMMA SearchOK ==
  ASSUME ImportInv, NEW j \in Job, Search(j)
  PROVE  ImportInv'
<1> DEFINE w == At(work[j], "select")
<1>1. work[j].at \in ItemStage /\ work[j].at \in Looping /\ work[j].at = "search"
  BY DEF Search, ItemStage, Looping
<1>2. faults' \in Nat /\ UNCHANGED <<req, meta, job, queue, open, made>>
  BY DEF Search, ImportInv, TypeOK
<1>3. /\ ldap' \in [Uid -> Row \cup {Null}]
      /\ \A u \in Uid : Undeleted(u) /\ ldap[u] # Null => ldap'[u] = ldap[u]
  <2>1. CASE KindOf(j) = "delete"
    BY <1>1, <2>1, EntryGone DEF Search
  <2>2. CASE KindOf(j) # "delete"
    BY <2>2 DEF Search, ImportInv, TypeOK
  <2>3. QED
    BY <2>1, <2>2
<1>4. CASE work' = [work EXCEPT ![j] = Counted(j, work[j], FALSE)]
  BY <1>1, <1>2, <1>3, <1>4, ItemFailsInv
<1>5. CASE work' = [work EXCEPT ![j] = w]
  <2>1. req[j] # Null /\ work[j] \in Work /\ Counting(work[j], made[j]) /\ Pending(req[j], work[j])
        /\ work[j].next \in 1..Len(Batch(j))
    BY <1>1, LoopFacts
  <2>2. w \in Work /\ w.at = "select" /\ w.next = work[j].next /\ w.ok = work[j].ok
        /\ w.bad = work[j].bad /\ w.row = work[j].row /\ w.kept = work[j].kept
        /\ w.put = work[j].put /\ w.cut = work[j].cut /\ w.touched = work[j].touched
        /\ w.broken = work[j].broken
    BY <2>1, AtFacts DEF Stage, Looping
  <2> HIDE DEF w
  <2>3. Counting(w, made[j]) /\ Pending(req[j], w)
    BY <2>1, <2>2 DEF Counting, Pending, Holding
  <2>4. LoopOK(req[j], w, made[j])
    BY <2>1, <2>2, <2>3 DEF LoopOK, ItemStage, Looping, Batch
  <2>5. work[j].row = Null
    BY <1>1 DEF ImportInv, LoopsOK, ChangesOK
  <2>6. ChangesOK(req[j], w)
    BY <2>2, <2>3, <2>5 DEF ChangesOK
  <2>7. \A u \in Uid : Holding(w, u) => Holding(work[j], u)
    BY <2>2 DEF Holding
  <2>8. \A u \in Uid : u \in w.touched /\ w.put[u] = 0 => meta[u] # Null
    BY <2>2 DEF ImportInv, Updated
  <2>9. Creates(req[j]) =>
          /\ w.at = "write" /\ Undeleted(req[j].batch[w.next]) =>
                ldap'[req[j].batch[w.next]] = <<j, w.next>>
          /\ \A u \in Uid : w.put[u] # 0 /\ Undeleted(u) => ldap'[u] = <<j, w.put[u]>>
    <3>1. \A u \in Uid : <<j, w.put[u]>> # Null
      BY <2>2, ImportAssumption DEF Row, Work
    <3>2. QED
      BY <1>3, <2>1, <2>2, <3>1 DEF ImportInv, EntryFirst
  <2>10. w.at \in Looping /\ w \in Work
    BY <2>2 DEF Looping
  <2>11. \A u \in Uid : Holding(w, u) => Holding(work[j], u) \/ \A k \in Job \ {j} : ~Holds(k, u)
    BY <2>7
  <2>12. QED
    BY <1>1, <1>2, <1>3, <1>5, <2>4, <2>6, <2>8, <2>9, <2>10, <2>11, WorkMoves
<1>6. QED
  BY <1>4, <1>5 DEF Search, Becomes

\* What Seen, the row of u in the transaction of j, may be.
LEMMA SeenFacts ==
  ASSUME ImportInv, NEW j \in Job, NEW u \in Uid
  PROVE  /\ Seen(j, u) \in Row \cup {Null}
         /\ work[j].put[u] # 0 => Seen(j, u) = <<j, work[j].put[u]>> /\ Seen(j, u) # Null
         /\ work[j].put[u] = 0 /\ Seen(j, u) # Null => u \notin work[j].cut /\ meta[u] = Seen(j, u)
         /\ ~Holding(work[j], u) => Seen(j, u) = meta[u]
<1>1. work[j].put[u] \in Nat /\ meta[u] \in Row \cup {Null}
  BY DEF ImportInv, TypeOK, Work
<1>2. <<j, work[j].put[u]>> \in Row /\ Null \notin Row
  BY <1>1, ImportAssumption DEF Row
<1>3. QED
  BY <1>1, <1>2 DEF Seen, Holding

LEMMA SelectOK ==
  ASSUME ImportInv, NEW j \in Job, Select(j)
  PROVE  ImportInv'
<1> DEFINE row == Seen(j, Current(j))
<1>1. work[j].at \in ItemStage /\ work[j].at \in Looping /\ work[j].at = "select"
  BY DEF Select, ItemStage, Looping
<1>2. faults' \in Nat /\ UNCHANGED <<req, ldap, meta, job, queue, open, made, faults>>
  BY DEF Select, ImportInv, TypeOK
<1>3. req[j] # Null /\ req[j] \in Request /\ work[j] \in Work /\ Counting(work[j], made[j])
      /\ Pending(req[j], work[j]) /\ work[j].next \in 1..Len(Batch(j)) /\ Current(j) \in Uid
      /\ made[j] \in SUBSET Nat
  BY <1>1, LoopFacts
<1>4. row \in Row \cup {Null}
  BY <1>3, SeenFacts
<1>5. work[j].row = Null /\ work[j].broken \in BOOLEAN
  BY <1>1, <1>3 DEF ImportInv, LoopsOK, ChangesOK, Work
<1> HIDE DEF row
<1>6. CASE work' = [work EXCEPT ![j] = Counted(j, work[j], FALSE)]
  <2>1. /\ ldap' \in [Uid -> Row \cup {Null}]
        /\ \A u \in Uid : Undeleted(u) /\ ldap[u] # Null => ldap'[u] = ldap[u]
    BY <1>2 DEF ImportInv, TypeOK
  <2>2. QED
    BY <1>1, <1>2, <1>6, <2>1, ItemFailsInv
<1>7. CASE ~work[j].broken /\ KindOf(j) \in {"import", "create"}
           /\ work' = [work EXCEPT ![j] = At(work[j], "add")]
  <2> DEFINE w == At(work[j], "add")
  <2>1. w \in Work /\ w.at = "add" /\ w.next = work[j].next /\ w.ok = work[j].ok
        /\ w.bad = work[j].bad /\ w.row = work[j].row /\ w.kept = work[j].kept
        /\ w.put = work[j].put /\ w.cut = work[j].cut /\ w.touched = work[j].touched
        /\ w.broken = work[j].broken
    BY <1>3, AtFacts DEF Stage, Looping
  <2> HIDE DEF w
  <2>2. Pending(req[j], w)
    BY <1>3, <2>1 DEF Pending, Holding
  <2>3. w.row = Null /\ w.broken = FALSE /\ Creates(req[j])
    BY <1>5, <1>7, <2>1 DEF Creates, KindOf
  <2>4. ChangesOK(req[j], w)
    BY <2>1, <2>2, <2>3 DEF ChangesOK
  <2>5. \A u \in Uid : Holding(w, u) => Holding(work[j], u) \/ \A k \in Job \ {j} : ~Holds(k, u)
    BY <2>1 DEF Holding
  <2>6. \A u \in Uid : u \in w.touched /\ w.put[u] = 0 => meta[u] # Null
    BY <2>1 DEF ImportInv, Updated
  <2>7. w \in Work /\ w.at \in ItemStage /\ w.at # "write" /\ w.put = work[j].put
        /\ work' = [work EXCEPT ![j] = w]
    BY <1>7, <2>1 DEF ItemStage, w
  <2>8. w.next = work[j].next /\ w.ok = work[j].ok /\ w.bad = work[j].bad
        /\ w.kept = work[j].kept /\ w.broken = work[j].broken
    BY <2>1
  <2>9. QED
    BY <1>1, <1>2, <2>4, <2>5, <2>6, <2>7, <2>8, StageInv
<1>8. CASE ~work[j].broken /\ KindOf(j) \in {"update", "delete"}
           /\ (KindOf(j) = "delete" => row # Null)
           /\ work' = [work EXCEPT ![j] = [work[j] EXCEPT !.at = "write", !.row = row]]
  <2> DEFINE w == [work[j] EXCEPT !.at = "write", !.row = row]
  <2>1. w \in Work /\ w.at = "write" /\ w.next = work[j].next /\ w.ok = work[j].ok
        /\ w.bad = work[j].bad /\ w.row = row /\ w.kept = work[j].kept
        /\ w.put = work[j].put /\ w.cut = work[j].cut /\ w.touched = work[j].touched
        /\ w.broken = work[j].broken
    BY <1>3, <1>4 DEF Work, Stage, Looping
  <2> HIDE DEF w
  <2>2. Pending(req[j], w)
    BY <1>3, <2>1 DEF Pending, Holding
  <2>3. w.broken = FALSE /\ ~Creates(req[j]) /\ (req[j].kind = "delete" => w.row # Null)
    BY <1>5, <1>8, <2>1 DEF Creates, KindOf
  <2>4. ChangesOK(req[j], w)
    BY <2>1, <2>2, <2>3 DEF ChangesOK
  <2>5. \A u \in Uid : Holding(w, u) => Holding(work[j], u) \/ \A k \in Job \ {j} : ~Holds(k, u)
    BY <2>1 DEF Holding
  <2>6. \A u \in Uid : u \in w.touched /\ w.put[u] = 0 => meta[u] # Null
    BY <2>1 DEF ImportInv, Updated
  <2>7. w \in Work /\ w.at \in ItemStage /\ work' = [work EXCEPT ![j] = w]
    BY <1>8, <2>1 DEF ItemStage, w
  <2>8. w.next = work[j].next /\ w.ok = work[j].ok /\ w.bad = work[j].bad
        /\ w.kept = work[j].kept /\ w.broken = work[j].broken
    BY <2>1
  <2>9. QED
    BY <1>1, <1>2, <2>3, <2>4, <2>5, <2>6, <2>7, <2>8, StageInv
<1>9. CASE ~work[j].broken /\ KindOf(j) = "delete"
           /\ work' = [work EXCEPT ![j] = Counted(j, work[j], TRUE)]
  <2>1. work[j].broken = FALSE
    BY <1>5, <1>9
  <2>2. \A u \in Uid : u \in work[j].touched /\ work[j].put[u] = 0 => meta[u] # Null
    BY DEF ImportInv, Updated
  <2>3. \A u \in Uid : Creates(req[j]) /\ work[j].put[u] # 0 /\ Undeleted(u)
                       => ldap[u] = <<j, work[j].put[u]>>
    BY <1>3 DEF ImportInv, EntryFirst
  <2>4. \A u \in Uid : Holding(work[j], u) => Holding(work[j], u) \/ \A k \in Job \ {j} : ~Holds(k, u)
    OBVIOUS
  <2>5. QED
    BY <1>1, <1>2, <1>3, <1>9, <2>1, <2>2, <2>3, <2>4, ItemDoneInv
<1>10. KindOf(j) \in {"import", "create", "update", "delete"}
  BY <1>3, ImportAssumption DEF KindOf, Kind
<1>11. QED
  BY <1>5, <1>6, <1>7, <1>8, <1>9, <1>10 DEF Select, Becomes, row

LEMMA AddOK ==
  ASSUME ImportInv, NEW j \in Job, Add(j)
  PROVE  ImportInv'
<1> DEFINE w == At(work[j], "write")
<1>1. work[j].at \in ItemStage /\ work[j].at \in Looping /\ work[j].at = "add"
  BY DEF Add, ItemStage, Looping
<1>2. faults' \in Nat /\ UNCHANGED <<req, meta, job, queue, open, made>>
  BY DEF Add, ImportInv, TypeOK
<1>3. req[j] # Null /\ work[j] \in Work /\ Counting(work[j], made[j])
      /\ Pending(req[j], work[j]) /\ work[j].next \in 1..Len(Batch(j)) /\ Current(j) \in Uid
  BY <1>1, LoopFacts
<1>4. <<j, work[j].next>> \in Row /\ ldap \in [Uid -> Row \cup {Null}]
  BY <1>3 DEF Row, Work, ImportInv, TypeOK
<1>5. /\ ldap' \in [Uid -> Row \cup {Null}]
      /\ \A u \in Uid : Undeleted(u) /\ ldap[u] # Null => ldap'[u] = ldap[u]
  BY <1>3, <1>4 DEF Add
<1>6. CASE ldap[Current(j)] # Null
  BY <1>1, <1>2, <1>5, <1>6, ItemFailsInv DEF Add, Becomes
<1>7. CASE ldap[Current(j)] = Null
  <2>1. w \in Work /\ w.at = "write" /\ w.next = work[j].next /\ w.ok = work[j].ok
        /\ w.bad = work[j].bad /\ w.row = work[j].row /\ w.kept = work[j].kept
        /\ w.put = work[j].put /\ w.cut = work[j].cut /\ w.touched = work[j].touched
        /\ w.broken = work[j].broken
    BY <1>3, AtFacts DEF Stage, Looping
  <2>2. work' = [work EXCEPT ![j] = w] /\ ldap'[Current(j)] = <<j, work[j].next>>
    BY <1>3, <1>4, <1>7 DEF Add, Becomes
  <2> HIDE DEF w
  <2>3. Counting(w, made[j]) /\ Pending(req[j], w)
    BY <1>3, <2>1 DEF Counting, Pending, Holding
  <2>4. LoopOK(req[j], w, made[j])
    BY <1>3, <2>1, <2>3 DEF LoopOK, ItemStage, Looping, Batch
  <2>5. work[j].row = Null /\ Creates(req[j]) /\ work[j].broken = FALSE
    BY <1>1 DEF ImportInv, LoopsOK, ChangesOK
  <2>6. ChangesOK(req[j], w)
    BY <2>1, <2>3, <2>5 DEF ChangesOK, Creates
  <2>7. \A u \in Uid : Holding(w, u) => Holding(work[j], u) \/ \A k \in Job \ {j} : ~Holds(k, u)
    BY <2>1 DEF Holding
  <2>8. \A u \in Uid : u \in w.touched /\ w.put[u] = 0 => meta[u] # Null
    BY <2>1 DEF ImportInv, Updated
  <2>9. \A u \in Uid : w.put[u] # 0 /\ Undeleted(u) => ldap'[u] = <<j, w.put[u]>>
    <3>1. \A u \in Uid : <<j, w.put[u]>> # Null
      BY <2>1, ImportAssumption DEF Row, Work
    <3>2. QED
      BY <1>3, <1>5, <2>1, <2>5, <3>1 DEF ImportInv, EntryFirst
  <2>10. ldap'[req[j].batch[w.next]] = <<j, w.next>>
    BY <2>1, <2>2 DEF Current, Batch
  <2>11. w.at \in Looping /\ w \in Work
    BY <2>1 DEF Looping
  <2>12. QED
    BY <1>1, <1>2, <1>5, <2>2, <2>4, <2>6, <2>7, <2>8, <2>9, <2>10, <2>11, WorkMoves
<1>8. QED
  BY <1>6, <1>7

\* What holds where a row is about to be written.
LEMMA WriteFacts ==
  ASSUME ImportInv, NEW j \in Job, work[j].at = "write", ~Blocked(j)
  PROVE  /\ work[j].at \in ItemStage /\ work[j].at \in Looping
         /\ req[j] # Null /\ req[j] \in Request /\ work[j] \in Work /\ work[j].broken = FALSE
         /\ Counting(work[j], made[j]) /\ Pending(req[j], work[j])
         /\ work[j].next \in 1..Len(Batch(j)) /\ Current(j) \in Uid
         /\ work[j].next \in Nat /\ work[j].next # 0
         /\ \A k \in Job \ {j} : ~Holds(k, Current(j))
         /\ KindOf(j) \in {"import", "create", "update", "delete"}
         /\ work[j].row \in Row \cup {Null}
         /\ Creates(req[j]) => work[j].row = Null
         /\ KindOf(j) = "delete" => work[j].row # Null
         /\ \A u \in Uid : u \in work[j].touched /\ work[j].put[u] = 0 => meta[u] # Null
<1>1. work[j].at \in ItemStage /\ work[j].at \in Looping
  BY DEF ItemStage, Looping
<1>2. req[j] # Null /\ req[j] \in Request /\ work[j] \in Work /\ Counting(work[j], made[j])
      /\ Pending(req[j], work[j]) /\ work[j].next \in 1..Len(Batch(j)) /\ Current(j) \in Uid
  BY <1>1, LoopFacts
<1>3. work[j].next \in Nat /\ work[j].next # 0 /\ work[j].row \in Row \cup {Null}
  BY <1>2 DEF Work
<1>4. \A k \in Job \ {j} : ~Holds(k, Current(j))
  BY DEF Blocked
<1>5. KindOf(j) \in {"import", "create", "update", "delete"}
  BY <1>2, ImportAssumption DEF KindOf, Kind
<1>6. work[j].broken = FALSE /\ (Creates(req[j]) => work[j].row = Null)
      /\ (KindOf(j) = "delete" => work[j].row # Null)
  BY DEF ImportInv, LoopsOK, ChangesOK, KindOf
<1>7. \A u \in Uid : u \in work[j].touched /\ work[j].put[u] = 0 => meta[u] # Null
  BY DEF ImportInv, Updated
<1>8. QED
  BY <1>1, <1>2, <1>3, <1>4, <1>5, <1>6, <1>7

LEMMA InsertOK ==
  ASSUME ImportInv, NEW j \in Job, Insert(j)
  PROVE  ImportInv'
<1> DEFINE u == Current(j)
           put == [work[j] EXCEPT !.put = [work[j].put EXCEPT ![u] = work[j].next]]
<1>1. /\ work[j].at \in ItemStage /\ work[j].at = "write"
      /\ req[j] # Null /\ req[j] \in Request /\ work[j] \in Work /\ work[j].broken = FALSE
      /\ Counting(work[j], made[j]) /\ Pending(req[j], work[j])
      /\ work[j].next \in 1..Len(Batch(j)) /\ u \in Uid
      /\ work[j].next \in Nat /\ work[j].next # 0 /\ work[j].row = Null
      /\ KindOf(j) \in {"import", "create", "update"}
      /\ \A k \in Job \ {j} : ~Holds(k, u)
      /\ \A v \in Uid : v \in work[j].touched /\ work[j].put[v] = 0 => meta[v] # Null
  BY WriteFacts DEF Insert
<1>2. faults' \in Nat /\ UNCHANGED <<req, ldap, meta, job, queue, open, made, faults>>
  BY DEF Insert, ImportInv, TypeOK
<1>3. CASE work' = [work EXCEPT ![j] = Counted(j, Broken(work[j]), FALSE)]
  BY <1>1, <1>2, <1>3, ItemBreaksInv
<1>4. put \in Work /\ put.at = "write" /\ put.next = work[j].next /\ put.ok = work[j].ok
      /\ put.bad = work[j].bad /\ put.row = Null /\ put.kept = work[j].kept
      /\ put.put = [work[j].put EXCEPT ![u] = work[j].next]
      /\ put.cut = work[j].cut /\ put.touched = work[j].touched /\ put.broken = FALSE
  BY <1>1 DEF Work
<1> HIDE DEF put
<1>5. put.put[u] = work[j].next /\ \A v \in Uid : v # u => put.put[v] = work[j].put[v]
  BY <1>1, <1>4 DEF Work
<1>6. \A v \in Uid : Holding(put, v) => Holding(work[j], v) \/ v = u
  BY <1>4, <1>5 DEF Holding
<1>7. \A v \in Uid : Holding(put, v) => Holding(work[j], v) \/ \A k \in Job \ {j} : ~Holds(k, v)
  BY <1>1, <1>6
<1>8. \A v \in Uid : v \in put.touched /\ put.put[v] = 0 => meta[v] # Null
  BY <1>1, <1>4, <1>5
<1>9. Pending(req[j], put)
  <2>1. \A v \in Uid : Holding(put, v) => \E i \in 1..Len(req[j].batch) : req[j].batch[i] = v
    BY <1>1, <1>6 DEF Pending, Current, Batch
  <2>2. \A i \in put.kept : req[j].kind # "delete" =>
           put.put[req[j].batch[i]] # 0 \/ req[j].batch[i] \in put.touched
    <3> TAKE i \in put.kept
    <3> HAVE req[j].kind # "delete"
    <3>1. work[j].put[req[j].batch[i]] # 0 \/ req[j].batch[i] \in work[j].touched
      BY <1>1, <1>4 DEF Pending
    <3>2. DOMAIN work[j].put = Uid
      BY <1>1 DEF Work
    <3>3. i \in 1..Len(req[j].batch)
      <4>1. i \in 1..(work[j].next - 1)
        BY <1>1, <1>4 DEF Counting
      <4>2. Len(req[j].batch) \in Nat /\ work[j].next \in 1..Len(req[j].batch)
        BY <1>1, ImportAssumption DEF Batch
      <4>3. QED
        BY <4>1, <4>2, <1>1
    <3>4. req[j].batch[i] \in Uid
      BY <3>3, <1>1, ImportAssumption
    <3>5. QED
      BY <1>1, <1>4, <1>5, <3>1, <3>4
  <2>3. QED
    BY <1>1, <1>4, <2>1, <2>2 DEF Pending
<1>10. CASE KindOf(j) = "update" /\ work' = [work EXCEPT ![j] = At(put, "reread")]
  <2> DEFINE w == At(put, "reread")
  <2>1. w \in Work /\ w.at = "reread" /\ w.next = put.next /\ w.ok = put.ok
        /\ w.bad = put.bad /\ w.row = put.row /\ w.kept = put.kept
        /\ w.put = put.put /\ w.cut = put.cut /\ w.touched = put.touched
        /\ w.broken = put.broken
    BY <1>4, AtFacts DEF Stage, Looping
  <2> HIDE DEF w
  <2>2. Pending(req[j], w)
    BY <1>9, <2>1 DEF Pending, Holding
  <2>3. w.put[req[j].batch[w.next]] # 0 /\ req[j].kind = "update"
    BY <1>1, <1>4, <1>5, <1>10, <2>1 DEF Current, Batch, KindOf
  <2>4. ChangesOK(req[j], w)
    BY <1>4, <2>1, <2>2, <2>3 DEF ChangesOK
  <2>5. \A v \in Uid : Holding(w, v) => Holding(work[j], v) \/ \A k \in Job \ {j} : ~Holds(k, v)
    BY <1>7, <2>1 DEF Holding
  <2>6. \A v \in Uid : v \in w.touched /\ w.put[v] = 0 => meta[v] # Null
    BY <1>8, <2>1
  <2>7. ~Creates(req[j]) /\ w.at \in ItemStage /\ work' = [work EXCEPT ![j] = w]
    BY <1>10, <2>1 DEF Creates, KindOf, ItemStage, w
  <2>8. w \in Work /\ w.next = work[j].next /\ w.ok = work[j].ok /\ w.bad = work[j].bad
        /\ w.kept = work[j].kept /\ w.broken = work[j].broken
    BY <1>1, <1>4, <2>1
  <2>9. QED
    BY <1>1, <1>2, <2>4, <2>5, <2>6, <2>7, <2>8, StageInv
<1>11. CASE work' = [work EXCEPT ![j] = Counted(j, put, TRUE)]
  <2>1. Counting(put, made[j])
    BY <1>1, <1>4 DEF Counting
  <2>2. \A v \in Uid : Creates(req[j]) /\ put.put[v] # 0 /\ Undeleted(v) => ldap[v] = <<j, put.put[v]>>
    BY <1>1, <1>4, <1>5 DEF ImportInv, EntryFirst
  <2>3. put.put[Current(j)] # 0
    BY <1>1, <1>5
  <2>4. QED
    BY <1>1, <1>2, <1>4, <1>7, <1>8, <1>9, <1>11, <2>1, <2>2, <2>3, ItemDoneInv
<1>12. QED
  BY <1>1, <1>3, <1>10, <1>11 DEF Insert, Becomes, put

LEMMA UpdateOK ==
  ASSUME ImportInv, NEW j \in Job, Update(j)
  PROVE  ImportInv'
<1> DEFINE u == Current(j)
           w == [work[j] EXCEPT !.at = "reread", !.touched = work[j].touched \cup {u}]
<1>1. /\ work[j].at \in ItemStage /\ work[j].at = "write"
      /\ req[j] # Null /\ req[j] \in Request /\ work[j] \in Work /\ work[j].broken = FALSE
      /\ Pending(req[j], work[j]) /\ work[j].next \in 1..Len(Batch(j)) /\ u \in Uid
      /\ \A k \in Job \ {j} : ~Holds(k, u)
      /\ \A v \in Uid : v \in work[j].touched /\ work[j].put[v] = 0 => meta[v] # Null
  BY WriteFacts DEF Update
<1>2. faults' \in Nat /\ UNCHANGED <<req, ldap, meta, job, queue, open, made, faults>>
      /\ work[j].row # Null /\ KindOf(j) = "update"
  BY DEF Update, ImportInv, TypeOK
<1>3. CASE work' = [work EXCEPT ![j] = Counted(j, Broken(work[j]), FALSE)]
  BY <1>1, <1>2, <1>3, ItemBreaksInv
<1>4. CASE Seen(j, u) = work[j].row /\ work' = [work EXCEPT ![j] = w]
  <2>1. w \in Work /\ w.at = "reread" /\ w.next = work[j].next /\ w.ok = work[j].ok
        /\ w.bad = work[j].bad /\ w.kept = work[j].kept /\ w.put = work[j].put
        /\ w.cut = work[j].cut /\ w.touched = work[j].touched \cup {u} /\ w.broken = FALSE
    BY <1>1 DEF Work, Stage, Looping
  <2> HIDE DEF w
  <2>2. \A v \in Uid : Holding(w, v) => Holding(work[j], v) \/ v = u
    BY <2>1 DEF Holding
  <2>3. Pending(req[j], w)
    BY <1>1, <2>1, <2>2 DEF Pending, Current, Batch
  <2>4. req[j].kind = "update" /\ req[j].batch[w.next] \in w.touched
    BY <1>2, <2>1 DEF KindOf, Current, Batch
  <2>5. ChangesOK(req[j], w)
    BY <2>1, <2>3, <2>4 DEF ChangesOK
  <2>6. \A v \in Uid : Holding(w, v) => Holding(work[j], v) \/ \A k \in Job \ {j} : ~Holds(k, v)
    BY <1>1, <2>2
  <2>7. work[j].put[u] = 0 => meta[u] # Null
    BY <1>1, <1>2, <1>4, SeenFacts
  <2>8. \A v \in Uid : v \in w.touched /\ w.put[v] = 0 => meta[v] # Null
    BY <1>1, <2>1, <2>7
  <2>9. ~Creates(req[j]) /\ w.at \in ItemStage /\ work' = [work EXCEPT ![j] = w]
    BY <1>2, <1>4, <2>1 DEF Creates, KindOf, ItemStage, w
  <2>10. w \in Work /\ w.next = work[j].next /\ w.ok = work[j].ok /\ w.bad = work[j].bad
         /\ w.kept = work[j].kept /\ w.broken = work[j].broken
    BY <1>1, <2>1
  <2>11. QED
    BY <1>1, <1>2, <2>5, <2>6, <2>8, <2>9, <2>10, StageInv
<1>5. QED
  BY <1>3, <1>4 DEF Update, Becomes

LEMMA DeleteOK ==
  ASSUME ImportInv, NEW j \in Job, Delete(j)
  PROVE  ImportInv'
<1> DEFINE u == Current(j)
           w == IF meta[u] = work[j].row THEN [work[j] EXCEPT !.cut = work[j].cut \cup {u}]
                ELSE work[j]
<1>1. /\ work[j].at \in ItemStage
      /\ req[j] # Null /\ req[j] \in Request /\ work[j] \in Work /\ work[j].broken = FALSE
      /\ Counting(work[j], made[j]) /\ Pending(req[j], work[j])
      /\ work[j].next \in 1..Len(Batch(j)) /\ u \in Uid
      /\ \A k \in Job \ {j} : ~Holds(k, u)
      /\ \A v \in Uid : v \in work[j].touched /\ work[j].put[v] = 0 => meta[v] # Null
  BY WriteFacts DEF Delete
<1>2. UNCHANGED <<req, ldap, meta, job, queue, open, made, faults>> /\ KindOf(j) = "delete"
      /\ work' = [work EXCEPT ![j] = Counted(j, w, TRUE)]
  BY DEF Delete, Becomes
<1>3. w \in Work /\ w.next = work[j].next /\ w.ok = work[j].ok
      /\ w.bad = work[j].bad /\ w.kept = work[j].kept /\ w.put = work[j].put
      /\ w.cut \subseteq work[j].cut \cup {u} /\ w.touched = work[j].touched /\ w.broken = FALSE
  BY <1>1 DEF Work
<1> HIDE DEF w
<1>4. \A v \in Uid : Holding(w, v) => Holding(work[j], v) \/ v = u
  BY <1>3 DEF Holding
<1>5. Pending(req[j], w)
  BY <1>1, <1>2, <1>3, <1>4 DEF Pending, Current, Batch, KindOf
<1>6. Counting(w, made[j])
  BY <1>1, <1>3 DEF Counting
<1>7. \A v \in Uid : Holding(w, v) => Holding(work[j], v) \/ \A k \in Job \ {j} : ~Holds(k, v)
  BY <1>1, <1>4
<1>8. \A v \in Uid : v \in w.touched /\ w.put[v] = 0 => meta[v] # Null
  BY <1>1, <1>3
<1>9. ~Creates(req[j])
  BY <1>2 DEF Creates, KindOf
<1>10. QED
  BY <1>1, <1>2, <1>3, <1>5, <1>6, <1>7, <1>8, <1>9, ItemDoneInv

LEMMA RereadOK ==
  ASSUME ImportInv, NEW j \in Job, Reread(j)
  PROVE  ImportInv'
<1>1. work[j].at \in ItemStage /\ work[j].at \in Looping /\ work[j].at = "reread"
  BY DEF Reread, ItemStage, Looping
<1>2. faults' \in Nat /\ UNCHANGED <<req, ldap, meta, job, queue, open, made, faults>>
      /\ ldap' \in [Uid -> Row \cup {Null}]
      /\ \A u \in Uid : Undeleted(u) /\ ldap[u] # Null => ldap'[u] = ldap[u]
  BY DEF Reread, ImportInv, TypeOK
<1>3. CASE ldap[Current(j)] = Null
  <2>1. work' = [work EXCEPT ![j] = Counted(j, work[j], FALSE)]
    BY <1>3 DEF Reread, Becomes
  <2>2. QED
    BY <1>1, <1>2, <2>1, ItemFailsInv
<1>4. CASE ldap[Current(j)] # Null
  <2>1. work' = [work EXCEPT ![j] = Counted(j, work[j], TRUE)]
    BY <1>4 DEF Reread, Becomes
  <2>2. work[j] \in Work /\ Counting(work[j], made[j]) /\ Pending(req[j], work[j])
    BY <1>1, LoopFacts
  <2>3. work[j].broken = FALSE /\ ~Creates(req[j])
        /\ (work[j].put[Current(j)] # 0 \/ Current(j) \in work[j].touched)
    BY <1>1 DEF ImportInv, LoopsOK, ChangesOK, Current, Batch, Creates
  <2>4. \A u \in Uid : u \in work[j].touched /\ work[j].put[u] = 0 => meta[u] # Null
    BY DEF ImportInv, Updated
  <2>5. QED
    BY <1>1, <1>2, <2>1, <2>2, <2>3, <2>4, ItemDoneInv
<1>5. QED
  BY <1>3, <1>4

LEMMA StatementFails ==
  ASSUME ImportInv, NEW j \in Job, DeadlockVictim(j) \/ DatabaseFails(j)
  PROVE  ImportInv'
<1>1. work[j].at \in ItemStage
  BY DEF DeadlockVictim, DatabaseFails, Waits, ItemStage
<1>2. faults \in Nat
  BY DEF ImportInv, TypeOK
<1>3. CASE DeadlockVictim(j)
  <2>1. faults' \in Nat
    BY <1>2, <1>3 DEF DeadlockVictim
  <2>2. QED
    BY <1>1, <1>3, <2>1, ItemBreaksInv DEF DeadlockVictim, Becomes
<1>4. CASE DatabaseFails(j)
  <2>1. faults' \in Nat
    BY <1>2, <1>4 DEF DatabaseFails, Fault
  <2>2. QED
    BY <1>1, <1>4, <2>1, ItemBreaksInv DEF DatabaseFails, Becomes
<1>5. QED
  BY <1>3, <1>4

LEMMA LdapFailsOK ==
  ASSUME ImportInv, NEW j \in Job, LdapFails(j)
  PROVE  ImportInv'
<1>1. work[j].at \in ItemStage /\ work[j].at \in Looping
  BY DEF LdapFails, ItemStage, Looping
<1>2. faults' \in Nat /\ UNCHANGED <<req, meta, job, queue, open, made>>
      /\ work' = [work EXCEPT ![j] = Counted(j, work[j], FALSE)]
  BY DEF LdapFails, Fault, Becomes, ImportInv, TypeOK
<1>3. /\ ldap' \in [Uid -> Row \cup {Null}]
      /\ \A u \in Uid : Undeleted(u) /\ ldap[u] # Null => ldap'[u] = ldap[u]
  <2>1. ldap \in [Uid -> Row \cup {Null}] /\ <<j, work[j].next>> \in Row
    BY <1>1, LoopFacts DEF ImportInv, TypeOK, Work, Row
  <2>2. CASE UNCHANGED ldap
    BY <2>1, <2>2
  <2>3. CASE KindOf(j) = "delete" /\ ldap' = [ldap EXCEPT ![Current(j)] = Null]
    BY <1>1, <1>2, <2>3, EntryGone
  <2>4. CASE ldap[Current(j)] = Null /\ ldap' = [ldap EXCEPT ![Current(j)] = <<j, work[j].next>>]
    BY <2>1, <2>4
  <2>5. QED
    BY <2>2, <2>3, <2>4 DEF LdapFails
<1>4. QED
  BY <1>1, <1>2, <1>3, ItemFailsInv

-----------------------------------------------------------------------------
(* The steps around the loop.                                              *)

\* j goes to w, where its transaction is empty; its request may be new.
LEMMA RestMoves ==
  ASSUME ImportInv, NEW j \in Job, NEW w \in Work, NothingPending(w), w.at # "write",
         work' = [work EXCEPT ![j] = w], UNCHANGED <<ldap, meta, made>>,
         req' \in [Job -> Request \cup {Null}],
         \A k \in Job : k # j \/ req[j] # Null => req'[k] = req[k],
         LoopOK(req'[j], w, made[j]), ChangesOK(req'[j], w)
  PROVE  LoopsOK' /\ Locked' /\ Updated' /\ RowsOwned' /\ EntryFirst' /\ SameOrigin'
<1>1. work \in [Job -> Work] /\ req \in [Job -> Request \cup {Null}]
      /\ work'[j] = w /\ \A k \in Job : k # j => work'[k] = work[k]
  BY DEF ImportInv, TypeOK
<1>2. \A u \in Uid : ~Holding(w, u) /\ w.put[u] = 0 /\ u \notin w.touched
  BY DEF NothingPending, Holding, NoChange
<1>3. LoopsOK'
  BY <1>1 DEF ImportInv, LoopsOK
<1>4. Locked'
  BY <1>1, <1>2 DEF ImportInv, Locked, Holds, Holding
<1>5. Updated'
  BY <1>1, <1>2 DEF ImportInv, Updated
<1>6. RowsOwned'
  <2> SUFFICES ASSUME NEW u \in Uid, meta[u] \notin {Null, Seed}
               PROVE  meta[u] \in Job \X Nat /\ req'[meta[u][1]] # Null
    BY DEF RowsOwned
  <2>1. meta[u] \in Job \X Nat /\ req[meta[u][1]] # Null /\ meta[u][1] \in Job
    BY DEF ImportInv, RowsOwned
  <2>2. QED
    BY <2>1
<1>7. \A u \in Uid : Undeleted(u)' => Undeleted(u)
  <2> SUFFICES ASSUME NEW u \in Uid, Undeleted(u)', NEW k \in Job, req[k] # Null,
                      KindOf(k) = "delete", NEW n \in 1..Len(Batch(k))
               PROVE  Batch(k)[n] # u
    BY DEF Undeleted
  <2>1. req'[k] = req[k]
    OBVIOUS
  <2>2. QED
    BY <2>1 DEF Undeleted, KindOf, Batch
<1>8. EntryFirst'
  <2> SUFFICES ASSUME NEW k \in Job, (req[k] # Null /\ Creates(req[k]))'
               PROVE  (/\ work[k].at = "write" /\ Undeleted(Current(k)) =>
                             ldap[Current(k)] = <<k, work[k].next>>
                       /\ \A u \in Uid : work[k].put[u] # 0 /\ Undeleted(u) =>
                             ldap[u] = <<k, work[k].put[u]>>)'
    BY DEF EntryFirst
  <2>1. CASE k = j
    BY <2>1, <1>1, <1>2
  <2>2. CASE k # j
    <3>1. work'[k] = work[k] /\ req'[k] = req[k] /\ Current(k)' = Current(k)
      BY <2>2, <1>1 DEF Current, Batch
    <3>2. req[k] # Null /\ Creates(req[k])
      BY <3>1 DEF Creates
    <3>3. work[k].at = "write" => Current(k) \in Uid
      BY LoopFacts DEF Looping, ItemStage
    <3>4. work[k].at = "write" /\ Undeleted(Current(k))' => Undeleted(Current(k))
      <4> SUFFICES ASSUME work[k].at = "write", Undeleted(Current(k))'
                   PROVE  Undeleted(Current(k))
        OBVIOUS
      <4> DEFINE v == Current(k)
      <4>1. v' = v /\ v \in Uid
        BY <3>1, <3>3
      <4>2. \A l \in Job : (req'[l] # Null /\ req'[l].kind = "delete") =>
                \A n \in 1..Len(req'[l].batch) : req'[l].batch[n] # v
        BY <4>1 DEF Undeleted, KindOf, Batch
      <4>3. \A l \in Job : req[l] # Null => req'[l] = req[l]
        OBVIOUS
      <4> HIDE DEF v
      <4>4. Undeleted(v)
        BY <4>2, <4>3 DEF Undeleted, KindOf, Batch
      <4>5. QED
        BY <4>4 DEF v
    <3>5. work[k].at = "write" /\ Undeleted(Current(k)) => ldap[Current(k)] = <<k, work[k].next>>
      BY <3>2 DEF ImportInv, EntryFirst
    <3>6. \A u \in Uid : work[k].put[u] # 0 /\ Undeleted(u) => ldap[u] = <<k, work[k].put[u]>>
      BY <3>2 DEF ImportInv, EntryFirst
    <3>7. QED
      BY <1>7, <3>1, <3>4, <3>5, <3>6
  <2>3. QED
    BY <2>1, <2>2
<1>9. SameOrigin'
  <2> SUFFICES ASSUME NEW u \in Uid, meta[u] \notin {Null, Seed},
                      (KindOf(meta[u][1]) \in {"import", "create"})', Undeleted(u)'
               PROVE  ldap[u] = meta[u]
    BY DEF SameOrigin, Undeleted
  <2>1. meta[u][1] \in Job /\ req[meta[u][1]] # Null
    BY DEF ImportInv, RowsOwned
  <2>2. KindOf(meta[u][1]) \in {"import", "create"}
    BY <2>1 DEF KindOf
  <2>3. Undeleted(u)
    BY <1>7
  <2>4. QED
    BY <2>2, <2>3 DEF ImportInv, SameOrigin, Undeleted
<1>10. QED
  BY <1>3, <1>4, <1>5, <1>6, <1>8, <1>9

\* The loop of a request with an item at least begins.
LEMMA LoopBegins ==
  ASSUME NEW r \in Request, r.batch # <<>>
  PROVE  LET w == At(NoWork, "search") IN
         w \in Work /\ NothingPending(w) /\ w.at = "search" /\ LoopOK(r, w, {}) /\ ChangesOK(r, w)
<1> DEFINE w == At(NoWork, "search")
<1>1. w \in Work /\ w.at = "search" /\ w.next = 1 /\ w.ok = 0 /\ w.bad = 0 /\ w.row = Null
      /\ w.kept = {} /\ w.put = NoChange /\ w.cut = {} /\ w.touched = {} /\ w.broken = FALSE
  <2>1. "search" \in Stage
    BY DEF Stage, Looping
  <2>2. QED
    BY <2>1, NoWorkFacts, AtFacts DEF NoWork
<1> HIDE DEF w
<1>2. r.batch \in Seq(Uid)
  BY ImportAssumption
<1>3. 1 \in 1..Len(r.batch)
  BY <1>2
<1>4. Counting(w, {})
  BY <1>1, FS_EmptySet DEF Counting
<1>5. LoopOK(r, w, {})
  BY <1>1, <1>3, <1>4 DEF LoopOK, Looping
<1>6. Pending(r, w)
  BY <1>1 DEF Pending, Holding, NoChange
<1>7. ChangesOK(r, w)
  BY <1>1, <1>6 DEF ChangesOK
<1>8. NothingPending(w)
  BY <1>1 DEF NothingPending
<1>9. QED
  BY <1>1, <1>5, <1>7, <1>8 DEF w

\* A loop that is over.
LEMMA LoopRests ==
  ASSUME NEW r, NEW m, NEW w \in Work, NothingPending(w), w.at \in {"mark", "ended", "missed", "dead"}
  PROVE  LoopOK(r, w, m) /\ ChangesOK(r, w) /\ w.at # "write"
  BY DEF LoopOK, ChangesOK, Looping, ItemStage

\* A job that is not in its loop has nothing pending; one that has not begun
\* has done nothing.
LEMMA RestFacts ==
  ASSUME ImportInv, NEW j \in Job, work[j].at \notin Looping
  PROVE  /\ work[j] \in Work /\ work[j].at # "write"
         /\ work' = work => work' = [work EXCEPT ![j] = work[j]]
         /\ NothingPending(work[j])
         /\ \A r : LoopOK(r, work[j], made[j]) /\ ChangesOK(r, work[j])
         /\ work[j].at = "none" => made[j] = {}
<1>1. work \in [Job -> Work]
  BY DEF ImportInv, TypeOK
<1>2. LoopOK(req[j], work[j], made[j]) /\ ChangesOK(req[j], work[j])
  BY DEF ImportInv, LoopsOK
<1>3. NothingPending(work[j]) /\ (work[j].at = "none" => made[j] = {})
  BY <1>2 DEF LoopOK
<1>4. \A r : LoopOK(r, work[j], made[j]) /\ ChangesOK(r, work[j])
  BY <1>3 DEF LoopOK, ChangesOK, Looping, ItemStage
<1>5. QED
  BY <1>1, <1>3, <1>4 DEF Looping

LEMMA SubmitSyncOK ==
  ASSUME ImportInv, NEW j \in Job, NEW r \in Request, SubmitSync(j, r)
  PROVE  ImportInv'
<1> DEFINE w == At(NoWork, "search")
<1>1. req[j] = Null /\ work[j].at = "none" /\ j \notin queue /\ j \notin open /\ job[j] = Null
      /\ r.batch # <<>> /\ r.kind # "import"
  BY DEF SubmitSync, ImportInv, JobsOK, JobOK
<1>2. made[j] = {}
  BY <1>1, RestFacts DEF Looping
<1>3. w \in Work /\ NothingPending(w) /\ w.at = "search" /\ LoopOK(r, w, made[j]) /\ ChangesOK(r, w)
  BY <1>1, <1>2, LoopBegins
<1>4. work' = [work EXCEPT ![j] = w] /\ UNCHANGED <<ldap, meta, job, queue, open, made, faults>>
  BY DEF SubmitSync, Becomes
<1> HIDE DEF w
<1>5. req \in [Job -> Request \cup {Null}] /\ work \in [Job -> Work]
  BY DEF ImportInv, TypeOK
<1>6. req'[j] = r /\ req' \in [Job -> Request \cup {Null}]
      /\ \A k \in Job : k # j \/ req[j] # Null => req'[k] = req[k]
  BY <1>1, <1>5 DEF SubmitSync
<1>7. LoopsOK' /\ Locked' /\ Updated' /\ RowsOwned' /\ EntryFirst' /\ SameOrigin'
  BY <1>3, <1>4, <1>6, RestMoves
<1>8. TypeOK'
  BY <1>3, <1>4, <1>5, <1>6 DEF ImportInv, TypeOK
<1>9. work'[j] = w /\ \A k \in Job : k # j => work'[k] = work[k]
  BY <1>4, <1>5
<1>10. JobsOK'
  <2> SUFFICES ASSUME NEW k \in Job PROVE JobOK(k)'
    BY DEF JobsOK
  <2>1. CASE k = j
    <3>1. req'[j] # Null
      BY <1>6, ImportAssumption
    <3>2. QED
      BY <1>1, <1>3, <1>4, <1>6, <1>9, <2>1, <3>1 DEF JobOK, KindOf
  <2>2. CASE k # j
    BY <1>4, <1>6, <1>9, <2>2 DEF ImportInv, JobsOK, JobOK, KindOf, Batch
  <2>3. QED
    BY <2>1, <2>2
<1>11. QED
  BY <1>7, <1>8, <1>10 DEF ImportInv

LEMMA SubmitQueuedOK ==
  ASSUME ImportInv, NEW j \in Job, NEW r \in Request, SubmitQueued(j, r)
  PROVE  ImportInv'
<1>1. req[j] = Null /\ work[j].at = "none" /\ j \notin queue /\ j \notin open /\ job[j] = Null
      /\ r.kind = "import"
  BY DEF SubmitQueued, ImportInv, JobsOK, JobOK
<1>2. UNCHANGED <<ldap, meta, job, work, made, faults>> /\ open' = open \cup {j}
      /\ queue' \subseteq queue \cup {j} /\ (j \in queue' => r.batch # <<>>)
      /\ queue \subseteq queue'
  BY <1>1 DEF SubmitQueued
<1>3. req \in [Job -> Request \cup {Null}]
  BY DEF ImportInv, TypeOK
<1>4. req'[j] = r /\ req' \in [Job -> Request \cup {Null}]
      /\ \A k \in Job : k # j \/ req[j] # Null => req'[k] = req[k]
  BY <1>1, <1>3 DEF SubmitQueued
<1>5. LoopsOK' /\ Locked' /\ Updated' /\ RowsOwned' /\ EntryFirst' /\ SameOrigin'
  <2>1. work[j].at \notin Looping
    BY <1>1 DEF Looping
  <2>2. work[j] \in Work /\ NothingPending(work[j]) /\ work[j].at # "write"
        /\ work' = [work EXCEPT ![j] = work[j]]
        /\ LoopOK(req'[j], work[j], made[j]) /\ ChangesOK(req'[j], work[j])
    BY <1>2, <2>1, RestFacts
  <2>3. QED
    BY <1>2, <1>4, <2>2, RestMoves
<1>6. TypeOK'
  BY <1>2, <1>4 DEF ImportInv, TypeOK
<1>7. JobsOK'
  <2> SUFFICES ASSUME NEW k \in Job PROVE JobOK(k)'
    BY DEF JobsOK
  <2>1. CASE k = j
    <3>1. req'[j] # Null
      BY <1>4, ImportAssumption
    <3>2. QED
      BY <1>1, <1>2, <1>4, <2>1, <3>1 DEF JobOK, KindOf, Batch, Looping
  <2>2. CASE k # j
    BY <1>2, <1>4, <2>2 DEF ImportInv, JobsOK, JobOK, KindOf, Batch
  <2>3. QED
    BY <2>1, <2>2
<1>8. QED
  BY <1>5, <1>6, <1>7 DEF ImportInv

\* Steps that leave the loop alone or end it without a commit.
LEMMA EndMoves ==
  ASSUME ImportInv, NEW j \in Job, NEW w \in Work, NothingPending(w),
         w.at # "write", LoopOK(req[j], w, made[j]), ChangesOK(req[j], w),
         work' = [work EXCEPT ![j] = w], UNCHANGED <<req, ldap, meta, made>>,
         faults' \in Nat, queue' \subseteq queue, open' \subseteq open,
         job' \in [Job -> JobRow \cup {Null}],
         \A k \in Job \ {j} : job'[k] = job[k], JobOK(j)'
  PROVE  ImportInv'
<1>1. work \in [Job -> Work] /\ req \in [Job -> Request \cup {Null}]
      /\ work'[j] = w /\ \A k \in Job : k # j => work'[k] = work[k]
  BY DEF ImportInv, TypeOK
<1>2. LoopsOK' /\ Locked' /\ Updated' /\ RowsOwned' /\ EntryFirst' /\ SameOrigin'
  BY <1>1, RestMoves
<1>3. TypeOK'
  BY <1>1 DEF ImportInv, TypeOK
<1>4. JobsOK'
  <2> SUFFICES ASSUME NEW k \in Job, k # j PROVE JobOK(k)'
    BY DEF JobsOK
  <2>1. work'[k] = work[k] /\ job'[k] = job[k] /\ req'[k] = req[k]
        /\ (k \in queue' => k \in queue) /\ (k \in open' => k \in open)
    BY <1>1
  <2>2. QED
    BY <2>1 DEF ImportInv, JobsOK, JobOK, KindOf, Batch
<1>5. QED
  BY <1>2, <1>3, <1>4 DEF ImportInv

LEMMA SubmitCommitOK ==
  ASSUME ImportInv, NEW j \in Job, SubmitCommit(j)
  PROVE  ImportInv'
<1>1. j \in open /\ job[j] = Null /\ work[j].at \notin Looping /\ req[j] # Null
      /\ KindOf(j) = "import" /\ req[j] \in Request
  BY DEF SubmitCommit, ImportInv, JobsOK, JobOK, TypeOK
<1> DEFINE row == [status |-> IF Batch(j) = <<>> THEN "failed" ELSE "pending",
                   processed |-> 0, ok |-> 0, bad |-> req[j].unparsed]
<1>2. row \in JobRow /\ row # Null
  <2>1. req[j].unparsed \in Nat
    BY <1>1, ImportAssumption
  <2>2. QED
    BY <2>1, ImportAssumption DEF JobRow
<1>3. job' = [job EXCEPT ![j] = row] /\ open' = open \ {j}
      /\ UNCHANGED <<req, ldap, meta, queue, work, made, faults>>
  BY DEF SubmitCommit
<1>4. row.status = "pending" \/ Batch(j) = <<>>
  OBVIOUS
<1> HIDE DEF row
<1>5. job' \in [Job -> JobRow \cup {Null}] /\ job'[j] = row
      /\ \A k \in Job \ {j} : job'[k] = job[k]
  BY <1>2, <1>3 DEF ImportInv, TypeOK
<1>6. work[j] \in Work /\ NothingPending(work[j]) /\ work[j].at # "write"
      /\ work' = [work EXCEPT ![j] = work[j]]
      /\ LoopOK(req[j], work[j], made[j]) /\ ChangesOK(req[j], work[j])
  BY <1>1, <1>3, RestFacts
<1>7. JobOK(j)'
  BY <1>1, <1>2, <1>3, <1>4, <1>5 DEF ImportInv, JobsOK, JobOK, KindOf, Batch
<1>8. faults' \in Nat
  BY <1>3 DEF ImportInv, TypeOK
<1>9. QED
  BY <1>3, <1>5, <1>6, <1>7, <1>8, EndMoves

LEMMA SubmitFailsOK ==
  ASSUME ImportInv, NEW j \in Job, SubmitFails(j)
  PROVE  ImportInv'
<1>1. j \in open /\ work[j].at \notin Looping
  BY DEF SubmitFails, ImportInv, JobsOK, JobOK
<1>2. open' = open \ {j} /\ UNCHANGED <<req, ldap, meta, job, queue, work, made>> /\ faults' \in Nat
      /\ job' \in [Job -> JobRow \cup {Null}]
  BY DEF SubmitFails, Fault, ImportInv, TypeOK
<1>3. work[j] \in Work /\ NothingPending(work[j]) /\ work[j].at # "write"
      /\ work' = [work EXCEPT ![j] = work[j]]
      /\ LoopOK(req[j], work[j], made[j]) /\ ChangesOK(req[j], work[j])
  BY <1>1, <1>2, RestFacts
<1>4. JobOK(j)'
  BY <1>1, <1>2 DEF ImportInv, JobsOK, JobOK, KindOf, Batch
<1>5. QED
  BY <1>2, <1>3, <1>4, EndMoves

\* A new status leaves the rest of a job row.
LEMMA StatusFacts ==
  ASSUME ImportInv, NEW j \in Job, job[j] # Null,
         NEW status \in {"pending", "running", "completed", "partial", "failed"},
         job' = [job EXCEPT ![j] = [job[j] EXCEPT !.status = status]]
  PROVE  /\ job' \in [Job -> JobRow \cup {Null}]
         /\ job'[j] # Null /\ job'[j].status = status
         /\ \A k \in Job \ {j} : job'[k] = job[k]
<1>1. job \in [Job -> JobRow \cup {Null}] /\ job[j] \in JobRow
  BY DEF ImportInv, TypeOK
<1>2. [job[j] EXCEPT !.status = status] \in JobRow
  BY <1>1 DEF JobRow
<1>3. [job[j] EXCEPT !.status = status].status = status
  BY <1>1 DEF JobRow
<1>4. QED
  BY <1>1, <1>2, <1>3, ImportAssumption

LEMMA TakeOK ==
  ASSUME ImportInv, NEW j \in Job, Take(j) \/ TakeFails(j)
  PROVE  ImportInv'
<1>1. j \in queue /\ work[j].at = "none" /\ Batch(j) # <<>> /\ KindOf(j) = "import"
      /\ req[j] # Null /\ req[j] \in Request /\ (j \in open => job[j] = Null)
  BY DEF Take, TakeFails, ImportInv, JobsOK, JobOK, TypeOK
<1>2. made[j] = {}
  BY <1>1, RestFacts DEF Looping
<1>3. queue' = queue \ {j} /\ UNCHANGED <<req, ldap, meta, open, made>> /\ faults' \in Nat
      /\ work \in [Job -> Work] /\ job \in [Job -> JobRow \cup {Null}]
  BY DEF Take, TakeFails, Fault, ImportInv, TypeOK
<1>4. ASSUME NEW stage \in {"missed", "mark"}, work' = [work EXCEPT ![j] = At(NoWork, stage)],
             UNCHANGED job
      PROVE  ImportInv'
  <2> DEFINE w == At(NoWork, stage)
  <2>1. stage \in Stage /\ NoWork \in Work
    BY NoWorkFacts DEF Stage
  <2>2. w \in Work /\ w.at = stage /\ NothingPending(w)
    BY <2>1, AtFacts, NoWorkFacts DEF NothingPending
  <2>3. work' = [work EXCEPT ![j] = w]
    BY <1>4
  <2> HIDE DEF w
  <2>4. LoopOK(req[j], w, made[j]) /\ ChangesOK(req[j], w) /\ w.at # "write"
    BY <2>2, LoopRests
  <2>5. JobOK(j)'
    BY <1>1, <1>3, <1>4, <2>2, <2>3 DEF JobOK, KindOf, Batch, Looping
  <2>6. QED
    BY <1>3, <1>4, <2>2, <2>3, <2>4, <2>5, EndMoves
<1>5. ASSUME job[j] # Null, work' = [work EXCEPT ![j] = At(NoWork, "search")],
             job' = [job EXCEPT ![j] = [job[j] EXCEPT !.status = "running"]]
      PROVE  ImportInv'
  <2> DEFINE w == At(NoWork, "search")
  <2>1. w \in Work /\ NothingPending(w) /\ w.at = "search"
        /\ LoopOK(req[j], w, made[j]) /\ ChangesOK(req[j], w)
    BY <1>1, <1>2, LoopBegins DEF Batch
  <2>2. work' = [work EXCEPT ![j] = w]
    BY <1>5
  <2> HIDE DEF w
  <2>3. /\ job' \in [Job -> JobRow \cup {Null}]
        /\ job'[j] # Null /\ job'[j].status = "running"
        /\ \A k \in Job \ {j} : job'[k] = job[k]
    BY <1>5, StatusFacts
  <2>4. JobOK(j)'
    BY <1>1, <1>3, <1>5, <2>1, <2>2, <2>3 DEF JobOK, KindOf, Batch, Looping
  <2>5. QED
    BY <1>3, <2>1, <2>2, <2>3, <2>4, EndMoves
<1>6. CASE Take(j)
  <2>1. CASE job[j] = Null
    BY <1>4, <1>6, <2>1 DEF Take, Becomes
  <2>2. CASE job[j] # Null
    BY <1>5, <1>6, <2>2 DEF Take, Becomes
  <2>3. QED
    BY <2>1, <2>2
<1>7. CASE TakeFails(j)
  BY <1>4, <1>7 DEF TakeFails, Becomes
<1>8. QED
  BY <1>6, <1>7

\* The loop of j ends without a commit.
LEMMA LoopEnds ==
  ASSUME ImportInv, NEW j \in Job, work[j].at \in Looping \cup {"mark"},
         NEW stage \in {"mark", "ended", "missed", "dead"},
         work' = [work EXCEPT ![j] = At(Clean(work[j]), stage)],
         UNCHANGED <<req, ldap, meta, job, queue, open, made>>, faults' \in Nat
  PROVE  ImportInv'
<1> DEFINE w == At(Clean(work[j]), stage)
<1>1. work \in [Job -> Work] /\ work[j] \in Work /\ stage \in Stage
      /\ job' \in [Job -> JobRow \cup {Null}]
  BY DEF ImportInv, TypeOK, Stage
<1>2. w \in Work /\ w.at = stage /\ NothingPending(w)
  BY <1>1, CleanFacts, AtFacts DEF NothingPending
<1>3. work' = [work EXCEPT ![j] = w]
  OBVIOUS
<1> HIDE DEF w
<1>4. LoopOK(req[j], w, made[j]) /\ ChangesOK(req[j], w) /\ w.at # "write"
  BY <1>2, LoopRests
<1>5. JobOK(j)'
  BY <1>1, <1>2, <1>3 DEF ImportInv, JobsOK, JobOK, KindOf, Batch, Looping
<1>6. QED
  BY <1>1, <1>2, <1>3, <1>4, <1>5, EndMoves

LEMMA KillOK ==
  ASSUME ImportInv, NEW j \in Job, Kill(j)
  PROVE  ImportInv'
<1>1. faults' \in Nat
  BY DEF Kill, Fault, ImportInv, TypeOK
<1>2. QED
  BY <1>1, LoopEnds DEF Kill, Becomes

LEMMA MarkOK ==
  ASSUME ImportInv, NEW j \in Job, Mark(j)
  PROVE  ImportInv'
<1>1. work[j].at = "mark" /\ work[j].at \notin Looping
      /\ UNCHANGED <<req, ldap, meta, queue, open, made, faults>>
  BY DEF Mark, Looping
<1>2. work \in [Job -> Work] /\ work[j] \in Work /\ NothingPending(work[j]) /\ faults' \in Nat
  BY <1>1, RestFacts DEF ImportInv, TypeOK
<1>3. \A stage \in {"missed", "ended"} :
         LET w == At(work[j], stage) IN
         w \in Work /\ w.at = stage /\ NothingPending(w) /\ w.at # "write"
         /\ LoopOK(req[j], w, made[j]) /\ ChangesOK(req[j], w)
  <2> TAKE stage \in {"missed", "ended"}
  <2> DEFINE w == At(work[j], stage)
  <2>1. stage \in Stage
    BY DEF Stage
  <2>2. w \in Work /\ w.at = stage /\ NothingPending(w)
    BY <1>2, <2>1, AtFacts DEF NothingPending
  <2> HIDE DEF w
  <2>3. LoopOK(req[j], w, made[j]) /\ ChangesOK(req[j], w) /\ w.at # "write"
    BY <2>2, LoopRests
  <2>4. QED
    BY <2>2, <2>3 DEF w
<1>4. CASE job[j] = Null
  <2> DEFINE w == At(work[j], "missed")
  <2>1. w \in Work /\ w.at = "missed" /\ NothingPending(w) /\ w.at # "write"
        /\ LoopOK(req[j], w, made[j]) /\ ChangesOK(req[j], w)
    BY <1>3
  <2>2. work' = [work EXCEPT ![j] = w] /\ UNCHANGED job
    BY <1>4 DEF Mark, Becomes
  <2> HIDE DEF w
  <2>3. job' \in [Job -> JobRow \cup {Null}]
    BY <2>2 DEF ImportInv, TypeOK
  <2>4. JobOK(j)'
    BY <1>1, <1>2, <2>1, <2>2 DEF ImportInv, JobsOK, JobOK, KindOf, Batch, Looping
  <2>5. QED
    BY <1>1, <1>2, <2>1, <2>2, <2>3, <2>4, EndMoves
<1>5. CASE job[j] # Null
  <2> DEFINE w == At(work[j], "ended")
  <2>1. w \in Work /\ w.at = "ended" /\ NothingPending(w) /\ w.at # "write"
        /\ LoopOK(req[j], w, made[j]) /\ ChangesOK(req[j], w)
    BY <1>3
  <2>2. work' = [work EXCEPT ![j] = w]
        /\ job' = [job EXCEPT ![j] = [job[j] EXCEPT !.status = "failed"]]
    BY <1>5 DEF Mark, Becomes
  <2> HIDE DEF w
  <2>3. /\ job' \in [Job -> JobRow \cup {Null}]
        /\ job'[j] # Null /\ \A k \in Job \ {j} : job'[k] = job[k]
    BY <1>5, <2>2, StatusFacts
  <2>4. JobOK(j)'
    BY <1>1, <1>2, <1>5, <2>1, <2>2, <2>3 DEF ImportInv, JobsOK, JobOK, KindOf, Batch, Looping
  <2>5. QED
    BY <1>1, <1>2, <2>1, <2>2, <2>3, <2>4, EndMoves
<1>6. QED
  BY <1>4, <1>5

-----------------------------------------------------------------------------
(* The commits.                                                            *)

\* What a loop that commits has to say.
LEMMA CommitFacts ==
  ASSUME ImportInv, NEW j \in Job, work[j].at \in {"progress", "final"}
  PROVE  /\ work[j].at \in Looping /\ req[j] # Null /\ req[j] \in Request
         /\ work[j] \in Work /\ work[j].broken \in BOOLEAN /\ made[j] \in SUBSET Nat
         /\ Len(Batch(j)) \in Nat /\ work[j].next \in 2..(Len(Batch(j)) + 1)
         /\ work[j].ok \in Nat /\ work[j].bad \in Nat
         /\ Counting(work[j], made[j]) /\ Pending(req[j], work[j])
         /\ work[j].at = "final" => work[j].next = Len(Batch(j)) + 1 \/ work[j].bad > 0
         /\ work[j].at = "progress" => KindOf(j) = "import"
         /\ job[j] # Null => KindOf(j) = "import" /\ job[j].status = "running"
<1>1. work[j].at \in Looping
  BY DEF Looping
<1>2. req[j] # Null /\ req[j] \in Request /\ work[j] \in Work /\ made[j] \in SUBSET Nat
      /\ Len(Batch(j)) \in Nat /\ Counting(work[j], made[j]) /\ Pending(req[j], work[j])
  BY <1>1, LoopFacts
<1>3. LoopOK(req[j], work[j], made[j]) /\ JobOK(j)
  BY DEF ImportInv, LoopsOK, JobsOK
<1>4. work[j].next \in 2..(Len(Batch(j)) + 1)
      /\ (work[j].at = "final" => work[j].next = Len(Batch(j)) + 1 \/ work[j].bad > 0)
      /\ (work[j].at = "progress" => KindOf(j) = "import")
  BY <1>3 DEF LoopOK, Batch, KindOf
<1>5. job[j] # Null => KindOf(j) = "import" /\ job[j].status = "running"
  BY <1>1, <1>3 DEF JobOK
<1>6. QED
  BY <1>1, <1>2, <1>4, <1>5 DEF Work

LEMMA CountersFacts ==
  ASSUME ImportInv, NEW j \in Job, work[j].at \in {"progress", "final"},
         NEW status \in {"running", "completed", "partial"}, NEW processed \in Nat
  PROVE  Counters(j, status, processed) \in JobRow
  BY CommitFacts DEF Counters, JobRow

LEMMA CommitInv ==
  ASSUME ImportInv, NEW j \in Job, work[j].at \in {"progress", "final"},
         NEW row \in JobRow, Commit(j, row), NEW w \in Work, NothingPending(w),
         w.at \notin {"write", "none"}, work' = [work EXCEPT ![j] = w],
         UNCHANGED <<req, ldap, queue, open>>, faults' \in Nat,
         LoopOK(req[j], w, made[j] \cup work[j].kept), ChangesOK(req[j], w),
         w.at \in Looping => KindOf(j) = "import" /\ row.status = "running"
  PROVE  ImportInv'
<1>1. work \in [Job -> Work] /\ job \in [Job -> JobRow \cup {Null}]
      /\ made \in [Job -> SUBSET Nat] /\ meta \in [Uid -> Row \cup {Null}]
      /\ req \in [Job -> Request \cup {Null}]
  BY DEF ImportInv, TypeOK
<1>2. work'[j] = w /\ \A k \in Job : k # j => work'[k] = work[k]
  BY <1>1
<1>3. req[j] # Null /\ j \notin queue /\ j \notin open /\ work[j] \in Work
  BY LoopFacts DEF Looping
<1>4. job' \in [Job -> JobRow \cup {Null}] /\ job'[j] = row /\ row # Null
      /\ \A k \in Job : k # j => job'[k] = job[k]
  BY <1>1, ImportAssumption DEF Commit
<1>5. made' \in [Job -> SUBSET Nat] /\ made'[j] = made[j] \cup work[j].kept
      /\ \A k \in Job : k # j => made'[k] = made[k]
  BY <1>1, <1>3 DEF Commit, Work
<1>6. meta' \in [Uid -> Row \cup {Null}] /\ \A u \in Uid : meta'[u] = Seen(j, u)
  BY SeenFacts DEF Commit
<1>7. TypeOK'
  BY <1>1, <1>4, <1>5, <1>6 DEF ImportInv, TypeOK
<1>8. JobsOK'
  <2> SUFFICES ASSUME NEW k \in Job PROVE JobOK(k)'
    BY DEF JobsOK
  <2>1. CASE k = j
    BY <1>2, <1>3, <1>4, <2>1 DEF JobOK, KindOf, Batch
  <2>2. CASE k # j
    BY <1>2, <1>4, <2>2 DEF ImportInv, JobsOK, JobOK, KindOf, Batch
  <2>3. QED
    BY <2>1, <2>2
<1>9. LoopsOK'
  BY <1>2, <1>5 DEF ImportInv, LoopsOK
<1>10. \A u \in Uid : ~Holding(w, u) /\ w.put[u] = 0 /\ u \notin w.touched
  BY DEF NothingPending, Holding, NoChange
<1>11. Locked'
  BY <1>2, <1>10 DEF ImportInv, Locked, Holds, Holding
<1>12. Updated'
  <2> SUFFICES ASSUME NEW k \in Job, NEW u \in Uid, u \in work'[k].touched, work'[k].put[u] = 0
               PROVE  meta'[u] # Null
    BY DEF Updated
  <2>1. k # j /\ u \in work[k].touched /\ work[k].put[u] = 0
    BY <1>2, <1>10
  <2>2. ~Holding(work[j], u)
    BY <2>1 DEF ImportInv, Locked, Holds, Holding
  <2>3. meta'[u] = meta[u]
    BY <1>6, <2>2, SeenFacts
  <2>4. QED
    BY <2>1, <2>3 DEF ImportInv, Updated
<1>13. \A u \in Uid : \/ work[j].put[u] # 0 /\ meta'[u] = <<j, work[j].put[u]>>
                      \/ meta'[u] \in {Null, meta[u]}
  BY <1>6 DEF Seen
<1>14. RowsOwned'
  <2> SUFFICES ASSUME NEW u \in Uid, meta'[u] \notin {Null, Seed}
               PROVE  meta'[u] \in Job \X Nat /\ req[meta'[u][1]] # Null
    BY DEF RowsOwned
  <2>1. CASE meta'[u] = <<j, work[j].put[u]>>
    BY <1>3, <2>1 DEF Work
  <2>2. CASE meta'[u] = meta[u]
    BY <2>2 DEF ImportInv, RowsOwned
  <2>3. QED
    BY <1>13, <2>1, <2>2
<1>15. \A u \in Uid : Undeleted(u)' <=> Undeleted(u)
  BY DEF Undeleted, KindOf, Batch
<1>16. EntryFirst'
  <2> SUFFICES ASSUME NEW k \in Job, (req[k] # Null /\ Creates(req[k]))'
               PROVE  (/\ work[k].at = "write" /\ Undeleted(Current(k)) =>
                             ldap[Current(k)] = <<k, work[k].next>>
                       /\ \A u \in Uid : work[k].put[u] # 0 /\ Undeleted(u) =>
                             ldap[u] = <<k, work[k].put[u]>>)'
    BY DEF EntryFirst
  <2>1. CASE k = j
    BY <2>1, <1>2, <1>10
  <2>2. CASE k # j
    <3>1. work'[k] = work[k] /\ Current(k)' = Current(k)
      BY <2>2, <1>2 DEF Current, Batch
    <3>2. req[k] # Null /\ Creates(req[k])
      BY DEF Creates
    <3>3. Undeleted(Current(k))' <=> Undeleted(Current(k))
      BY <3>1 DEF Undeleted, KindOf, Batch
    <3>4. work[k].at = "write" /\ Undeleted(Current(k)) => ldap[Current(k)] = <<k, work[k].next>>
      BY <3>2 DEF ImportInv, EntryFirst
    <3>5. \A u \in Uid : work[k].put[u] # 0 /\ Undeleted(u) => ldap[u] = <<k, work[k].put[u]>>
      BY <3>2 DEF ImportInv, EntryFirst
    <3>6. QED
      BY <1>15, <3>1, <3>3, <3>4, <3>5
  <2>3. QED
    BY <2>1, <2>2
<1>17. SameOrigin'
  <2> SUFFICES ASSUME NEW u \in Uid, meta'[u] \notin {Null, Seed},
                      KindOf(meta'[u][1]) \in {"import", "create"}, Undeleted(u)
               PROVE  ldap[u] = meta'[u]
    BY <1>15 DEF SameOrigin, Undeleted, KindOf, Batch
  <2>1. CASE work[j].put[u] # 0 /\ meta'[u] = <<j, work[j].put[u]>>
    <3>1. Creates(req[j])
      BY <2>1 DEF KindOf, Creates
    <3>2. QED
      BY <1>3, <2>1, <3>1 DEF ImportInv, EntryFirst
  <2>2. CASE meta'[u] = meta[u]
    BY <2>2 DEF ImportInv, SameOrigin, Undeleted
  <2>3. QED
    BY <1>13, <2>1, <2>2
<1>18. QED
  BY <1>7, <1>8, <1>9, <1>11, <1>12, <1>14, <1>16, <1>17 DEF ImportInv

\* The page after the commit, and the loop: it goes on, or it is over.
LEMMA EscapedFacts ==
  ASSUME ImportInv, NEW j \in Job, work[j].at \in {"progress", "final"}, NEW m
  PROVE  /\ Escaped(j, work[j]) \in Work /\ NothingPending(Escaped(j, work[j]))
         /\ Escaped(j, work[j]).at \in {"mark", "ended"}
         /\ LoopOK(req[j], Escaped(j, work[j]), m) /\ ChangesOK(req[j], Escaped(j, work[j]))
<1> DEFINE stage == IF KindOf(j) = "import" THEN "mark" ELSE "ended"
           w == At(Clean(work[j]), stage)
<1>1. stage \in Stage /\ work[j] \in Work /\ stage \in {"mark", "ended"}
  BY CommitFacts DEF Stage
<1> HIDE DEF stage
<1>2. w \in Work /\ w.at = stage /\ NothingPending(w)
  BY <1>1, CleanFacts, AtFacts DEF NothingPending
<1> HIDE DEF w
<1>3. LoopOK(req[j], w, m) /\ ChangesOK(req[j], w)
  BY <1>1, <1>2, LoopRests
<1>4. QED
  BY <1>1, <1>2, <1>3 DEF w, stage, Escaped

LEMMA GoesOnFacts ==
  ASSUME ImportInv, NEW j \in Job, work[j].at = "progress", work[j].broken = FALSE
  PROVE  LET w == At(Clean(work[j]), IF work[j].next > Len(Batch(j)) THEN "final" ELSE "search")
         IN  /\ w \in Work /\ NothingPending(w) /\ w.at \in {"final", "search"}
             /\ LoopOK(req[j], w, made[j] \cup work[j].kept) /\ ChangesOK(req[j], w)
<1> DEFINE stage == IF work[j].next > Len(Batch(j)) THEN "final" ELSE "search"
           w == At(Clean(work[j]), stage)
           m == made[j] \cup work[j].kept
<1>1. stage \in Stage /\ stage \in {"final", "search"} /\ work[j] \in Work
  BY CommitFacts DEF Stage, Looping
<1>2. Len(Batch(j)) \in Nat /\ work[j].next \in 2..(Len(Batch(j)) + 1)
      /\ Counting(work[j], made[j])
  BY CommitFacts
<1>3. (stage = "final" => work[j].next = Len(Batch(j)) + 1)
      /\ (stage = "search" => work[j].next \in 1..Len(Batch(j)))
  BY <1>2
<1> HIDE DEF stage
<1>4. /\ w \in Work /\ w.at = stage /\ NothingPending(w) /\ w.next = work[j].next
      /\ w.ok = work[j].ok /\ w.bad = work[j].bad /\ w.row = work[j].row /\ w.broken = FALSE
      /\ w.kept = {}
  BY <1>1, CleanFacts, AtFacts DEF NothingPending
<1> HIDE DEF w
<1>5. m \cup w.kept = m /\ m \cup {} = m /\ w.kept \cap m = {}
  BY <1>4
<1>6. Counting(w, m)
  BY <1>2, <1>4, <1>5 DEF Counting
<1>7. work[j].row = Null
  BY DEF ImportInv, LoopsOK, ChangesOK, Looping
<1> HIDE DEF m
<1>8. LoopOK(req[j], w, m)
  BY <1>1, <1>2, <1>3, <1>4, <1>6 DEF LoopOK, Looping, ItemStage, Batch
<1>9. ChangesOK(req[j], w)
  BY <1>1, <1>4, <1>7 DEF ChangesOK, Pending, Holding, NothingPending, NoChange
<1>10. QED
  BY <1>1, <1>4, <1>8, <1>9 DEF w, m, stage

LEMMA ProgressOK ==
  ASSUME ImportInv, NEW j \in Job, Progress(j)
  PROVE  ImportInv'
<1>1. work[j].at = "progress" /\ work[j].at \in {"progress", "final"}
      /\ UNCHANGED <<req, ldap, queue, open, faults>> /\ faults' \in Nat
  BY DEF Progress, ImportInv, TypeOK
<1>2. CASE work[j].broken
  <2>1. work' = [work EXCEPT ![j] = Escaped(j, work[j])] /\ UNCHANGED <<meta, job, made>>
    BY <1>2 DEF Progress, Becomes
  <2>2. QED
    BY <1>1, <2>1, LoopEnds DEF Escaped, Looping
<1>3. CASE ~work[j].broken
  <2> DEFINE w == At(Clean(work[j]), IF work[j].next > Len(Batch(j)) THEN "final" ELSE "search")
             row == Counters(j, "running", work[j].next - 1)
  <2>1. work[j].broken = FALSE /\ work[j].next - 1 \in Nat /\ KindOf(j) = "import"
    BY <1>1, <1>3, CommitFacts
  <2>2. /\ w \in Work /\ NothingPending(w) /\ w.at \in {"final", "search"}
        /\ LoopOK(req[j], w, made[j] \cup work[j].kept) /\ ChangesOK(req[j], w)
    BY <1>1, <2>1, GoesOnFacts
  <2>3. row \in JobRow /\ row.status = "running"
    BY <1>1, <2>1, CountersFacts DEF Counters
  <2>4. Commit(j, row) /\ work' = [work EXCEPT ![j] = w]
    BY <1>3 DEF Progress, CommitProgress, Becomes
  <2> HIDE DEF w, row
  <2>5. w.at \notin {"write", "none"}
    BY <2>2
  <2>6. QED
    BY <1>1, <2>1, <2>2, <2>3, <2>4, <2>5, CommitInv
<1>4. QED
  BY <1>2, <1>3

LEMMA FinalRow ==
  ASSUME ImportInv, NEW j \in Job, work[j].at = "final"
  PROVE  Counters(j, IF work[j].bad = 0 THEN "completed" ELSE "partial", Len(Batch(j))) \in JobRow
  BY CommitFacts, CountersFacts

LEMMA FinishOK ==
  ASSUME ImportInv, NEW j \in Job, Finish(j)
  PROVE  ImportInv'
<1>1. work[j].at = "final" /\ work[j].at \in {"progress", "final"}
      /\ UNCHANGED <<req, ldap, queue, open, faults>> /\ faults' \in Nat
  BY DEF Finish, ImportInv, TypeOK
<1>2. CASE work[j].broken
  <2>1. work' = [work EXCEPT ![j] = Escaped(j, work[j])] /\ UNCHANGED <<meta, job, made>>
    BY <1>2 DEF Finish, Becomes
  <2>2. QED
    BY <1>1, <2>1, LoopEnds DEF Escaped, Looping
<1>3. CASE ~work[j].broken
  <2> DEFINE w == At(Clean(work[j]), "ended")
             row == Counters(j, IF work[j].bad = 0 THEN "completed" ELSE "partial", Len(Batch(j)))
  <2>1. work[j] \in Work /\ "ended" \in Stage
    BY <1>1, CommitFacts DEF Stage
  <2>2. w \in Work /\ NothingPending(w) /\ w.at = "ended"
    BY <2>1, CleanFacts, AtFacts DEF NothingPending
  <2>3. row \in JobRow
    BY <1>1, FinalRow
  <2>4. Commit(j, row) /\ work' = [work EXCEPT ![j] = w]
    BY <1>3 DEF Finish, CommitFinal, Becomes
  <2> HIDE DEF w, row
  <2>5. LoopOK(req[j], w, made[j] \cup work[j].kept) /\ ChangesOK(req[j], w)
    BY <2>2, LoopRests
  <2>6. w.at \notin {"write", "none"} /\ w.at \notin Looping
    BY <2>2 DEF Looping
  <2>7. QED
    BY <1>1, <2>2, <2>3, <2>4, <2>5, <2>6, CommitInv
<1>4. QED
  BY <1>2, <1>3

LEMMA CommitFailsOK ==
  ASSUME ImportInv, NEW j \in Job, CommitFails(j)
  PROVE  ImportInv'
<1> DEFINE w == Escaped(j, work[j])
<1>1. work[j].at \in {"progress", "final"} /\ faults' \in Nat
      /\ UNCHANGED <<req, ldap, queue, open>> /\ work' = [work EXCEPT ![j] = w]
  BY DEF CommitFails, Fault, Becomes, ImportInv, TypeOK
<1>2. /\ w \in Work /\ NothingPending(w) /\ w.at \in {"mark", "ended"}
      /\ LoopOK(req[j], w, made[j] \cup work[j].kept) /\ ChangesOK(req[j], w)
  BY <1>1, EscapedFacts
<1>3. CASE UNCHANGED <<meta, job, made>>
  BY <1>1, <1>3, LoopEnds DEF Escaped, Looping
<1> HIDE DEF w
<1>4. w.at \notin {"write", "none"} /\ w.at \notin Looping
  BY <1>2 DEF Looping
<1>5. ASSUME NEW row \in JobRow, Commit(j, row) PROVE ImportInv'
  BY <1>1, <1>2, <1>4, <1>5, CommitInv
<1>6. CASE work[j].at = "progress" /\ CommitProgress(j)
  <2>1. work[j].next - 1 \in Nat
    BY <1>1, CommitFacts
  <2>2. Counters(j, "running", work[j].next - 1) \in JobRow
    BY <1>1, <2>1, CountersFacts
  <2>3. QED
    BY <1>5, <1>6, <2>2 DEF CommitProgress
<1>7. CASE work[j].at = "final" /\ CommitFinal(j)
  BY <1>5, <1>7, FinalRow DEF CommitFinal
<1>8. QED
  BY <1>3, <1>6, <1>7 DEF CommitFails

-----------------------------------------------------------------------------
(* The invariant.                                                          *)

LEMMA InitOK == Init => ImportInv
<1> SUFFICES ASSUME Init PROVE ImportInv
  OBVIOUS
<1>1. req = [j \in Job |-> Null] /\ job = [j \in Job |-> Null] /\ work = [j \in Job |-> NoWork]
      /\ made = [j \in Job |-> {}] /\ queue = {} /\ open = {} /\ faults = 0 /\ ldap = meta
  BY DEF Init
<1>2. meta \in [Uid -> {Seed, Null}] /\ {Seed, Null} \subseteq Row \cup {Null}
  BY DEF Init, Row
<1>3. NoWork \in Work /\ NothingPending(NoWork) /\ NoWork.at = "none"
  BY NoWorkFacts DEF NoWork
<1>4. TypeOK
  BY <1>1, <1>2, <1>3 DEF TypeOK
<1>5. JobsOK
  BY <1>1, <1>3 DEF JobsOK, JobOK, Looping
<1>6. LoopsOK
  BY <1>1, <1>3 DEF LoopsOK, LoopOK, ChangesOK, Looping, ItemStage
<1>7. \A j \in Job, u \in Uid : work[j].put[u] = 0 /\ work[j].cut = {} /\ work[j].touched = {}
  BY <1>1, <1>3 DEF NothingPending, NoChange
<1>8. Locked /\ Updated /\ EntryFirst
  BY <1>1, <1>7 DEF Locked, Updated, EntryFirst, Holds
<1>9. RowsOwned /\ SameOrigin
  BY <1>2 DEF RowsOwned, SameOrigin
<1>10. QED
  BY <1>4, <1>5, <1>6, <1>8, <1>9 DEF ImportInv

LEMMA NextOK == ImportInv /\ [Next]_vars => ImportInv'
<1> SUFFICES ASSUME ImportInv, [Next]_vars PROVE ImportInv'
  OBVIOUS
<1>1. CASE UNCHANGED vars
  <2>1. UNCHANGED <<req, ldap, meta, job, queue, open, work, made, faults>>
    BY <1>1 DEF vars
  <2>2. TypeOK' /\ Locked' /\ Updated' /\ RowsOwned'
    BY <2>1 DEF ImportInv, TypeOK, Locked, Holds, Updated, RowsOwned
  <2>3. JobsOK' /\ LoopsOK'
    BY <2>1 DEF ImportInv, JobsOK, JobOK, KindOf, Batch, LoopsOK
  <2>4. EntryFirst'
    BY <2>1 DEF ImportInv, EntryFirst, Undeleted, KindOf, Batch, Current
  <2>5. SameOrigin'
    BY <2>1 DEF ImportInv, SameOrigin, KindOf, Batch
  <2>6. QED
    BY <2>2, <2>3, <2>4, <2>5 DEF ImportInv
<1>2. ASSUME NEW j \in Job, NEW r \in Request, SubmitSync(j, r) \/ SubmitQueued(j, r)
      PROVE  ImportInv'
  BY <1>2, SubmitSyncOK, SubmitQueuedOK
<1>3. ASSUME NEW j \in Job, SubmitCommit(j) \/ SubmitFails(j) PROVE ImportInv'
  BY <1>3, SubmitCommitOK, SubmitFailsOK
<1>4. ASSUME NEW j \in Job, Take(j) \/ TakeFails(j) PROVE ImportInv'
  BY <1>4, TakeOK
<1>5. ASSUME NEW j \in Job, Search(j) \/ Select(j) \/ Add(j) \/ Reread(j) PROVE ImportInv'
  BY <1>5, SearchOK, SelectOK, AddOK, RereadOK
<1>6. ASSUME NEW j \in Job, Insert(j) \/ Update(j) \/ Delete(j) PROVE ImportInv'
  BY <1>6, InsertOK, UpdateOK, DeleteOK
<1>7. ASSUME NEW j \in Job, DeadlockVictim(j) \/ DatabaseFails(j) \/ LdapFails(j) PROVE ImportInv'
  BY <1>7, StatementFails, LdapFailsOK
<1>8. ASSUME NEW j \in Job, Progress(j) \/ Finish(j) \/ CommitFails(j) PROVE ImportInv'
  BY <1>8, ProgressOK, FinishOK, CommitFailsOK
<1>9. ASSUME NEW j \in Job, Mark(j) \/ Kill(j) PROVE ImportInv'
  BY <1>9, MarkOK, KillOK
<1>10. QED
  BY <1>1, <1>2, <1>3, <1>4, <1>5, <1>6, <1>7, <1>8, <1>9 DEF Next, Step

LEMMA Invariant == Spec => []ImportInv
  BY InitOK, NextOK, PTL DEF Spec

\* The types of the requests, the broker, the rows and the loops.
THEOREM TypeCorrect == Spec => []TypeOK
<1>1. ImportInv => TypeOK
  BY DEF ImportInv
<1>2. QED
  BY <1>1, Invariant, PTL

\* Whatever batches overlap and whatever fails, the row that a create has
\* inserted and the LDAP entry come from the same item, for a user that no
\* bulk delete names.
THEOREM SameOriginHolds == Spec => []SameOrigin
<1>1. ImportInv => SameOrigin
  BY DEF ImportInv
<1>2. QED
  BY <1>1, Invariant, PTL

-----------------------------------------------------------------------------
(* BulkImport implements ImportReport.                                     *)

\* A commit is a report: its counters count what is committed with it.
LEMMA CommitReports ==
  ASSUME ImportInv, NEW j \in Job, work[j].at \in {"progress", "final"}, work[j].broken = FALSE,
         NEW status \in {"running", "completed", "partial"}, NEW processed \in 0..Len(Batch(j)),
         Commit(j, Counters(j, status, processed)), UNCHANGED req,
         work[j].next - 1 <= processed,
         status = "running" => processed = work[j].next - 1,
         status = "completed" => work[j].bad = 0 /\ work[j].next = Len(Batch(j)) + 1,
         status = "partial" => work[j].bad > 0
  PROVE  Page!AbsNext
<1> DEFINE new == work[j].kept
           bad == work[j].bad
<1>1. /\ req[j] # Null /\ work[j] \in Work /\ made[j] \in SUBSET Nat
      /\ Len(Batch(j)) \in Nat /\ work[j].next \in 2..(Len(Batch(j)) + 1)
      /\ work[j].ok \in Nat /\ bad \in Nat
      /\ Counting(work[j], made[j]) /\ Pending(req[j], work[j])
      /\ (job[j] # Null => job[j].status = "running")
  BY CommitFacts
<1>2. new \subseteq 1..Len(Batch(j)) /\ new \cap made[j] = {}
  <2>1. new \subseteq 1..(work[j].next - 1) /\ new \cap made[j] = {}
    BY <1>1 DEF Counting
  <2>2. 1..(work[j].next - 1) \subseteq 1..Len(Batch(j))
    BY <1>1
  <2>3. QED
    BY <2>1, <2>2
<1>3. work[j].ok = Cardinality(made[j] \cup new) /\ work[j].ok + bad = work[j].next - 1
  BY <1>1 DEF Counting
<1>4. bad \in 0..Len(Batch(j)) /\ bad + work[j].ok <= processed
  BY <1>1, <1>3
<1>5. made' = [made EXCEPT ![j] = made[j] \cup new]
      /\ job' = [job EXCEPT ![j] = [status |-> status, processed |-> processed,
                                    ok |-> Cardinality(made[j] \cup new), bad |-> bad]]
  BY <1>3 DEF Commit, Counters
<1>6. (CASE status = "running"   -> bad + Cardinality(made[j] \cup new) = processed
        [] status = "completed" -> bad = 0 /\ made[j] \cup new = 1..Len(Batch(j))
        [] status = "partial"   -> bad > 0)
  <2>1. CASE status = "running"
    BY <1>1, <1>3, <2>1
  <2>2. CASE status = "completed"
    <3>1. made[j] \cup new = 1..(work[j].next - 1) /\ work[j].next - 1 = Len(Batch(j))
      BY <1>1, <2>2 DEF Counting
    <3>2. QED
      BY <2>2, <3>1
  <2>3. CASE status = "partial"
    BY <2>3
  <2>4. QED
    BY <2>1, <2>2, <2>3
<1>7. \A u \in Uid : meta'[u] = Seen(j, u)
  BY DEF Commit
<1>8. \A i \in new : req[j].kind # "delete" => meta'[Batch(j)[i]] # Null
  <2> SUFFICES ASSUME NEW i \in new, req[j].kind # "delete" PROVE meta'[Batch(j)[i]] # Null
    OBVIOUS
  <2> DEFINE u == Batch(j)[i]
  <2>1. u \in Uid
    BY <1>1, <1>2, LoopFacts DEF Looping
  <2>2. work[j].cut = {} /\ (work[j].put[u] # 0 \/ u \in work[j].touched)
    BY <1>1 DEF Pending, Batch
  <2> HIDE DEF u
  <2>3. work[j].put[u] # 0 => meta'[u] # Null
    BY <1>7, <2>1, SeenFacts
  <2>4. work[j].put[u] = 0 => meta'[u] # Null
    BY <1>7, <2>1, <2>2 DEF Seen, ImportInv, Updated
  <2>5. QED
    BY <2>3, <2>4 DEF u
<1>9. \A u \in Uid : (\A i \in 1..Len(Batch(j)) : Batch(j)[i] # u) => meta'[u] = meta[u]
  <2> SUFFICES ASSUME NEW u \in Uid, \A i \in 1..Len(Batch(j)) : Batch(j)[i] # u
               PROVE  meta'[u] = meta[u]
    OBVIOUS
  <2>1. ~Holding(work[j], u)
    BY <1>1 DEF Pending, Batch
  <2>2. QED
    BY <1>7, <2>1, SeenFacts
<1>10. Page!Batch(j) = Batch(j) /\ Page!Items(j) = 1..Len(Batch(j))
  BY DEF Page!Batch, Page!Items, Batch
<1>11. Page!Cardinality(made[j] \cup new) = Cardinality(made[j] \cup new)
  BY DEF Page!Cardinality, Cardinality
<1> HIDE DEF new, bad
<1>12. Page!Report(j, status, new, processed, bad)
  <2>1. new \subseteq Page!Items(j) \ made[j]
    BY <1>2, <1>10
  <2>2. job[j] = Null \/ job[j].status = "running"
    BY <1>1
  <2>3. bad + Cardinality(made[j] \cup new) <= processed
    BY <1>3, <1>4
  <2>4. (CASE status = "running"   -> bad + Cardinality(made[j] \cup new) = processed
           [] status = "completed" -> bad = 0 /\ made[j] \cup new = Page!Items(j)
           [] status = "partial"   -> bad > 0)
    BY <1>6, <1>10
  <2>5. \A i \in new : req[j].kind # "delete" => meta'[Page!Batch(j)[i]] # Null
    BY <1>8, <1>10
  <2>6. \A u \in Uid : (\A i \in Page!Items(j) : Page!Batch(j)[i] # u) => meta'[u] = meta[u]
    BY <1>9, <1>10
  <2>7. req[j] # Null /\ req' = req
    BY <1>1
  <2>8. QED
    BY <1>5, <1>11, <2>1, <2>2, <2>3, <2>4, <2>5, <2>6, <2>7 DEF Page!Report
<1>13. QED
  BY <1>1, <1>2, <1>4, <1>10, <1>12 DEF Page!AbsNext

LEMMA ProgressReports ==
  ASSUME ImportInv, NEW j \in Job, work[j].at = "progress", ~work[j].broken, CommitProgress(j),
         UNCHANGED req
  PROVE  Page!AbsNext
<1>1. work[j].next - 1 \in 0..Len(Batch(j)) /\ work[j].broken = FALSE
      /\ work[j].next - 1 <= work[j].next - 1
  BY CommitFacts
<1>2. QED
  BY <1>1, CommitReports DEF CommitProgress

LEMMA FinalReports ==
  ASSUME ImportInv, NEW j \in Job, work[j].at = "final", ~work[j].broken, CommitFinal(j),
         UNCHANGED req
  PROVE  Page!AbsNext
<1> DEFINE status == IF work[j].bad = 0 THEN "completed" ELSE "partial"
<1>1. /\ Len(Batch(j)) \in 0..Len(Batch(j)) /\ work[j].broken = FALSE
      /\ work[j].next - 1 <= Len(Batch(j)) /\ work[j].bad \in Nat
      /\ (work[j].next = Len(Batch(j)) + 1 \/ work[j].bad > 0)
  BY CommitFacts
<1>2. status \in {"running", "completed", "partial"} /\ status # "running"
      /\ (status = "completed" => work[j].bad = 0 /\ work[j].next = Len(Batch(j)) + 1)
      /\ (status = "partial" => work[j].bad > 0)
  BY <1>1
<1>3. Commit(j, Counters(j, status, Len(Batch(j))))
  BY DEF CommitFinal
<1> HIDE DEF status
<1>4. QED
  BY <1>1, <1>2, <1>3, CommitReports

LEMMA StepReports == ImportInv /\ [Next]_vars => [Page!AbsNext]_(Page!reportVars)
<1> SUFFICES ASSUME ImportInv, [Next]_vars, ~UNCHANGED <<req, meta, job, made>>
             PROVE  Page!AbsNext
  BY DEF Page!reportVars
<1>1. CASE UNCHANGED vars
  BY <1>1 DEF vars
<1>2. ASSUME NEW j \in Job, NEW r \in Request, SubmitSync(j, r) \/ SubmitQueued(j, r)
      PROVE  Page!AbsNext
  <2>1. req[j] = Null /\ req' = [req EXCEPT ![j] = r] /\ UNCHANGED <<meta, job, made>>
    BY <1>2, SubmitSyncOK, SubmitQueuedOK DEF SubmitSync, SubmitQueued, ImportInv, JobsOK, JobOK
  <2>2. QED
    BY <2>1 DEF Page!AbsNext, Page!Accept
<1>3. ASSUME NEW j \in Job, SubmitCommit(j) PROVE Page!AbsNext
  <2>1. req[j] # Null /\ job[j] = Null
    BY <1>3 DEF SubmitCommit, ImportInv, JobsOK, JobOK
  <2>2. Page!Show(j)
    BY <1>3, <2>1 DEF SubmitCommit, Page!Show, Page!Batch, Batch
  <2>3. QED
    BY <2>2 DEF Page!AbsNext
<1>4. ASSUME NEW j \in Job, Take(j) PROVE Page!AbsNext
  <2>1. job[j] # Null /\ UNCHANGED <<req, meta, made>>
        /\ job' = [job EXCEPT ![j] = [job[j] EXCEPT !.status = "running"]]
    BY <1>4 DEF Take
  <2>2. job[j].status = "pending"
    BY <1>4, <2>1 DEF Take, ImportInv, JobsOK, JobOK
  <2>3. QED
    BY <2>1, <2>2 DEF Page!AbsNext, Page!Start
<1>5. ASSUME NEW j \in Job, Mark(j) PROVE Page!AbsNext
  <2>1. job[j] # Null /\ UNCHANGED <<req, meta, made>>
        /\ job' = [job EXCEPT ![j] = [job[j] EXCEPT !.status = "failed"]]
    BY <1>5 DEF Mark
  <2>2. QED
    BY <2>1 DEF Page!AbsNext, Page!Fail
<1>6. ASSUME NEW j \in Job, Progress(j) \/ Finish(j) \/ CommitFails(j) PROVE Page!AbsNext
  <2>1. UNCHANGED req
        /\ \/ work[j].at = "progress" /\ ~work[j].broken /\ CommitProgress(j)
           \/ work[j].at = "final" /\ ~work[j].broken /\ CommitFinal(j)
    BY <1>6 DEF Progress, Finish, CommitFails
  <2>2. QED
    BY <2>1, ProgressReports, FinalReports
<1>7. ASSUME NEW j \in Job, \/ SubmitFails(j) \/ TakeFails(j) \/ Kill(j) \/ LdapFails(j)
                            \/ DatabaseFails(j) \/ DeadlockVictim(j)
      PROVE  Page!AbsNext
  BY <1>7 DEF SubmitFails, TakeFails, Kill, LdapFails, DatabaseFails, DeadlockVictim
<1>8. ASSUME NEW j \in Job, \/ Search(j) \/ Select(j) \/ Add(j) \/ Insert(j) \/ Update(j)
                            \/ Delete(j) \/ Reread(j)
      PROVE  Page!AbsNext
  BY <1>8 DEF Search, Select, Add, Insert, Update, Delete, Reread
<1>9. QED
  BY <1>1, <1>2, <1>3, <1>4, <1>5, <1>6, <1>7, <1>8 DEF Next, Step

\* A job page shows what is committed: its counters count committed items
\* whose rows are there, completed means all of them, and only _mark_failed
\* changes a job that is over.
THEOREM ReportImplemented == Spec => ImplementsReport
<1>1. Init => Page!AbsInit
  BY DEF Init, Page!AbsInit
<1>2. QED
  BY <1>1, StepReports, Invariant, PTL DEF Spec, ImplementsReport, Page!AbsSpec
=============================================================================
