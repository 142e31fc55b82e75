------------------------ MODULE PasswordResetProofs ------------------------
(***************************************************************************)
(* Proofs about PasswordReset: for any number of users, API calls and      *)
(* requests, whatever fails, a request that no two calls raced on answers  *)
(* at most max_attempts codes and changes the password once per completion *)
(* or fault, and a completed one has changed it; requests that were not    *)
(* handled together share no throttle window, and what is over stays over. *)
(* Interleaved calls implement the requests of ResetRequests.              *)
(***************************************************************************)
EXTENDS PasswordReset, TLAPS

\* The columns a commit writes, and those it keeps.
LEMMA WithStatusFacts ==
  ASSUME NEW r \in Row, NEW s \in Status
  PROVE  /\ WithStatus(r, s) \in Row
         /\ WithStatus(r, s).status = s
         /\ WithStatus(r, s).attempts = r.attempts
  BY DEF Row, WithStatus

LEMMA WithAttemptFacts ==
  ASSUME NEW r \in Row, NEW seen \in 0..MaxAttempts, seen < MaxAttempts
  PROVE  /\ WithAttempt(r, seen) \in Row
         /\ WithAttempt(r, seen).status = r.status
         /\ WithAttempt(r, seen).attempts = seen + 1
  BY ResetAssumption DEF Row, WithAttempt

LEMMA VerifiedFacts ==
  ASSUME NEW r \in Row, NEW seen \in 0..MaxAttempts, seen < MaxAttempts
  PROVE  /\ Verified(r, seen) \in Row
         /\ Verified(r, seen).status = "verified"
         /\ Verified(r, seen).attempts = seen + 1
  BY ResetAssumption DEF Row, Verified, Status

LEMMA ClockFacts ==
  ASSUME NEW r \in Row
  PROVE  /\ OutOfWindow(r) \in Row
         /\ OutOfWindow(r).status = r.status /\ OutOfWindow(r).attempts = r.attempts
         /\ OutOfTime(r) \in Row
         /\ OutOfTime(r).status = r.status /\ OutOfTime(r).attempts = r.attempts
  BY DEF Row, OutOfWindow, OutOfTime

LEMMA CommittingFacts ==
  ASSUME NEW s \in CallState
  PROVE  /\ Committing(s) \in CallState /\ Committing(s).at = "complete"
         /\ Committing(s).no = s.no /\ Committing(s).user = s.user
         /\ Committing(s).seen = s.seen
  BY DEF CallState, Committing, Stage

LEMMA IdleFacts == Idle \in CallState /\ Idle.at = "idle" /\ Idle.no = 0
  BY ResetAssumption DEF Idle, CallState, Stage

\* A call at work on a request has a well-typed row in front of it.
LEMMA RowAtHand ==
  ASSUME ResetInv, NEW c \in Call, call[c].at \notin {"idle", "insert"}
  PROVE  /\ call[c] \in CallState
         /\ call[c].no \in Number /\ Stored(call[c].no) /\ row[call[c].no] \in Row
         /\ call[c].no # 0
<1>1. call[c] \in CallState
  BY DEF ResetInv, TypeOK
<1>2. call[c].no # 0 /\ Stored(call[c].no)
  BY DEF ResetInv, CallsHaveRows
<1>3. call[c].no \in Number
  BY <1>1, <1>2, ResetAssumption DEF CallState, Number
<1>4. row[call[c].no] \in Row
  BY <1>2, <1>3 DEF ResetInv, TypeOK, Stored
<1>5. QED
  BY <1>1, <1>2, <1>3, <1>4

\* Call c commits a new version r of its row and ends.  What r must satisfy is
\* stated here once; the actions below only have to show it.
LEMMA RowCommitted ==
  ASSUME ResetInv, NEW c \in Call, call[c].at \notin {"idle", "insert"}, End(c),
         NEW r \in Row, row' = [row EXCEPT ![call[c].no] = r],
         UNCHANGED <<issued, changes, together, raced, faults>>,
         answered' \in [Number -> Nat],
         \A n \in Number : n # call[c].no => answered'[n] = answered[n],
         call[c].no \notin raced => answered'[call[c].no] <= r.attempts,
         r.status = "completed" => changes[call[c].no] > 0,
         call[c].no \notin raced /\ r.status # "completed" => changes[call[c].no] <= faults
  PROVE  ResetInv'
<1> DEFINE n0 == call[c].no
<1>1. n0 \in Number /\ Stored(n0) /\ call[c] \in CallState /\ n0 # 0
  BY RowAtHand
<1>2. /\ \A n \in Number : row'[n] = IF n = n0 THEN r ELSE row[n]
      /\ \A n \in Number : Stored(n)' <=> Stored(n)
  BY <1>1, NullIsNoRow DEF ResetInv, TypeOK, Stored
<1>3. \A d \in Call : call'[d] = IF d = c THEN Idle ELSE call[d]
  BY DEF ResetInv, TypeOK, End
<1>4. \A d \in Call : d # c /\ call[d].no = n0 => n0 \in raced
  BY <1>1 DEF ResetInv, Exclusive
<1>5. TypeOK'
  BY <1>1, IdleFacts DEF ResetInv, TypeOK, End
<1>6. UnusedRows'
  BY <1>1, <1>2 DEF ResetInv, UnusedRows
<1>7. CallsHaveRows'
  <2> SUFFICES ASSUME NEW d \in Call PROVE CallsHaveRows!(d)'
    BY DEF CallsHaveRows
  <2>1. call[d] \in CallState
    BY DEF ResetInv, TypeOK
  <2>2. call[d].no # 0 => call[d].no \in Number
    BY <2>1, ResetAssumption DEF CallState, Number
  <2>3. CASE d = c
    BY <2>3, <1>3, IdleFacts
  <2>4. CASE d # c
    <3>1. call'[d] = call[d]
      BY <2>4, <1>3
    <3>2. CallsHaveRows!(d)
      BY DEF ResetInv, CallsHaveRows
    <3>3. QED
      BY <3>1, <3>2, <2>2, <1>2
  <2>5. QED
    BY <2>3, <2>4
<1>8. RowsAreIssued'
  BY <1>2 DEF ResetInv, RowsAreIssued
<1>9. Exclusive'
  BY <1>3, IdleFacts DEF ResetInv, Exclusive
<1>10. ReadsHold'
  <2> SUFFICES ASSUME NEW d \in Call, d # c, call[d].no \notin raced, call[d].at # "idle"
               PROVE  ReadsHold!(d)'
    BY <1>3, IdleFacts DEF ReadsHold
  <2>1. call'[d] = call[d] /\ call[d].no # n0
    BY <1>3, <1>4
  <2>2. CASE call[d].at = "insert"
    BY <2>1, <2>2 DEF ReadsHold
  <2>3. CASE call[d].at # "insert"
    <3>1. call[d].no \in Number
      BY <2>3, RowAtHand
    <3>2. row'[call[d].no] = row[call[d].no]
      BY <3>1, <2>1, <1>2
    <3>3. QED
      BY <2>1, <3>2 DEF ResetInv, ReadsHold
  <2>4. QED
    BY <2>2, <2>3
<1>11. CountsHold'
  <2> SUFFICES ASSUME NEW n \in Number, Stored(n), n \notin raced PROVE CountsHold!(n)'
    BY <1>2 DEF CountsHold
  <2>1. CountsHold!(n)
    BY DEF ResetInv, CountsHold
  <2>2. CASE n = n0
    BY <2>1, <2>2, <1>2 DEF CountsHold
  <2>3. CASE n # n0
    <3>1. row'[n] = row[n] /\ answered'[n] = answered[n]
      BY <2>3, <1>2
    <3>2. Changing(n)' <=> Changing(n)
      BY <2>3, <1>3, IdleFacts DEF Changing
    <3>3. QED
      BY <2>1, <3>1, <3>2
  <2>4. QED
    BY <2>2, <2>3
<1>12. CompletedMeansChanged'
  BY <1>2 DEF ResetInv, CompletedMeansChanged
<1>13. QED
  BY <1>5, <1>6, <1>7, <1>8, <1>9, <1>10, <1>11, <1>12 DEF ResetInv

\* What holds of the row of a call that nobody raced with.
LEMMA Unraced ==
  ASSUME ResetInv, NEW c \in Call, call[c].at \notin {"idle", "insert"},
         call[c].no \notin raced, call[c].at # "complete",
         row[call[c].no].status # "completed"
  PROVE  changes[call[c].no] <= faults
<1>1. call[c].no \in Number /\ Stored(call[c].no) /\ call[c].no # 0
  BY RowAtHand
<1>2. ~Changing(call[c].no)
  BY <1>1 DEF ResetInv, Exclusive, Changing
<1>3. QED
  BY <1>1, <1>2 DEF ResetInv, CountsHold

LEMMA ExpireCommitInv ==
  ASSUME ResetInv, NEW c \in Call, ExpireCommit(c)
  PROVE  ResetInv'
<1> DEFINE r == WithStatus(row[call[c].no], "expired")
<1>1. call[c].at = "expire"
  BY DEF ExpireCommit
<1>2. r \in Row /\ r.status = "expired" /\ r.attempts = row[call[c].no].attempts
  BY <1>1, RowAtHand, WithStatusFacts DEF Status
<1>3. call[c].no \notin raced => /\ answered[call[c].no] <= r.attempts
                                /\ changes[call[c].no] <= faults
  BY <1>1, <1>2, RowAtHand, Unraced DEF ResetInv, ReadsHold, CountsHold
<1>4. QED
  BY <1>1, <1>2, <1>3, RowCommitted DEF ExpireCommit, history, ResetInv, TypeOK

LEMMA LockCommitInv ==
  ASSUME ResetInv, NEW c \in Call, LockCommit(c)
  PROVE  ResetInv'
<1> DEFINE r == WithStatus(row[call[c].no], "locked")
<1>1. call[c].at = "lock"
  BY DEF LockCommit
<1>2. r \in Row /\ r.status = "locked" /\ r.attempts = row[call[c].no].attempts
  BY <1>1, RowAtHand, WithStatusFacts DEF Status
<1>3. call[c].no \notin raced => /\ answered[call[c].no] <= r.attempts
                                /\ changes[call[c].no] <= faults
  BY <1>1, <1>2, RowAtHand, Unraced DEF ResetInv, ReadsHold, CountsHold
<1>4. QED
  BY <1>1, <1>2, <1>3, RowCommitted DEF LockCommit, history, ResetInv, TypeOK

LEMMA AnsweredFacts ==
  ASSUME ResetInv, NEW n \in Number
  PROVE  /\ Answered(n) \in [Number -> Nat]
         /\ n \notin raced => Answered(n)[n] = answered[n] + 1
         /\ \A k \in Number : k # n => Answered(n)[k] = answered[k]
  BY DEF Answered, ResetInv, TypeOK

LEMMA VerifyWrongInv ==
  ASSUME ResetInv, NEW c \in Call, VerifyWrong(c)
  PROVE  ResetInv'
<1> DEFINE n == call[c].no
           r == WithAttempt(row[n], call[c].seen)
<1>1. call[c].at = "count"
  BY DEF VerifyWrong
<1>2. /\ n \in Number /\ Stored(n) /\ row[n] \in Row
      /\ call[c].seen \in 0..MaxAttempts /\ call[c].seen < MaxAttempts
  BY <1>1, RowAtHand DEF CallState, ResetInv, CallsHaveRows
<1>3. r \in Row /\ r.status = row[n].status /\ r.attempts = call[c].seen + 1
  BY <1>2, WithAttemptFacts
<1>4. n \notin raced => /\ call[c].seen = row[n].attempts /\ row[n].status = "pending"
                       /\ answered[n] <= row[n].attempts /\ changes[n] <= faults
  BY <1>1, <1>2, Unraced DEF ResetInv, ReadsHold, CountsHold
<1>5. answered' = Answered(n)
  BY DEF VerifyWrong
<1>6. /\ answered' \in [Number -> Nat]
      /\ \A k \in Number : k # n => answered'[k] = answered[k]
      /\ n \notin raced => answered'[n] <= r.attempts
  <2>1. answered[n] \in Nat
    BY <1>2 DEF ResetInv, TypeOK
  <2>2. QED
    BY <2>1, <1>2, <1>3, <1>4, <1>5, AnsweredFacts
<1>7. r.status = "completed" => changes[n] > 0
  BY <1>2, <1>3 DEF ResetInv, CompletedMeansChanged
<1>8. /\ End(c) /\ row' = [row EXCEPT ![n] = r]
      /\ UNCHANGED <<issued, changes, together, raced, faults>>
  BY DEF VerifyWrong
<1> HIDE DEF r
<1>9. QED
  BY <1>1, <1>3, <1>4, <1>6, <1>7, <1>8, RowCommitted

LEMMA VerifyRightInv ==
  ASSUME ResetInv, NEW c \in Call, VerifyRight(c)
  PROVE  ResetInv'
<1> DEFINE n == call[c].no
           r == Verified(row[n], call[c].seen)
<1>1. call[c].at = "verify"
  BY DEF VerifyRight
<1>2. /\ n \in Number /\ Stored(n) /\ row[n] \in Row
      /\ call[c].seen \in 0..MaxAttempts /\ call[c].seen < MaxAttempts
  BY <1>1, RowAtHand DEF CallState, ResetInv, CallsHaveRows
<1>3. r \in Row /\ r.status = "verified" /\ r.attempts = call[c].seen + 1
  BY <1>2, VerifiedFacts
<1>4. n \notin raced => /\ call[c].seen = row[n].attempts /\ row[n].status = "pending"
                       /\ answered[n] <= row[n].attempts /\ changes[n] <= faults
  BY <1>1, <1>2, Unraced DEF ResetInv, ReadsHold, CountsHold
<1>5. answered' = Answered(n)
  BY DEF VerifyRight
<1>6. /\ answered' \in [Number -> Nat]
      /\ \A k \in Number : k # n => answered'[k] = answered[k]
      /\ n \notin raced => answered'[n] <= r.attempts
  <2>1. answered[n] \in Nat
    BY <1>2 DEF ResetInv, TypeOK
  <2>2. QED
    BY <2>1, <1>2, <1>3, <1>4, <1>5, AnsweredFacts
<1>7. /\ End(c) /\ row' = [row EXCEPT ![n] = r]
      /\ UNCHANGED <<issued, changes, together, raced, faults>>
  BY DEF VerifyRight
<1> HIDE DEF r
<1>8. QED
  BY <1>1, <1>3, <1>4, <1>6, <1>7, RowCommitted

LEMMA CompleteCommitInv ==
  ASSUME ResetInv, NEW c \in Call, CompleteCommit(c)
  PROVE  ResetInv'
<1> DEFINE n == call[c].no
           r == WithStatus(row[n], "completed")
<1>1. call[c].at = "complete"
  BY DEF CompleteCommit
<1>2. n \in Number /\ Stored(n) /\ row[n] \in Row
  BY <1>1, RowAtHand
<1>3. r \in Row /\ r.status = "completed" /\ r.attempts = row[n].attempts
  BY <1>2, WithStatusFacts DEF Status
<1>4. changes[n] > 0 /\ (n \notin raced => answered[n] <= r.attempts)
  BY <1>1, <1>2, <1>3 DEF ResetInv, CallsHaveRows, CountsHold
<1>5. /\ End(c) /\ row' = [row EXCEPT ![n] = r]
      /\ UNCHANGED <<issued, changes, together, raced, answered, faults>>
      /\ answered \in [Number -> Nat]
  BY DEF CompleteCommit, history, ResetInv, TypeOK
<1> HIDE DEF r
<1>6. QED
  BY <1>1, <1>3, <1>4, <1>5, RowCommitted

\* Call c reads row n and goes on to a stage it may reach from what it read.
LEMMA TakeInv ==
  ASSUME ResetInv, NEW c \in Call, NEW n \in Number, NEW stage \in Stage,
         call[c].at = "idle", Stored(n), Take(c, n, stage),
         stage \notin {"idle", "insert", "complete"},
         stage \in {"count", "verify"} => row[n].attempts < MaxAttempts,
         stage \in {"lock", "count", "verify"} => row[n].status = "pending",
         stage = "expire" => row[n].status \in {"pending", "verified"},
         stage = "modify" => row[n].status = "verified"
  PROVE  ResetInv'
<1> DEFINE s == [at |-> stage, user |-> row[n].user, no |-> n, seen |-> row[n].attempts]
<1>1. row[n] \in Row /\ n # 0 /\ n \in 0..MaxRows
  BY ResetAssumption DEF Stored, ResetInv, TypeOK, Number
<1>2. /\ s \in CallState /\ s.at = stage /\ s.no = n /\ s.seen = row[n].attempts
      /\ s.user = row[n].user
  BY <1>1 DEF CallState, Row
<1>3. call' = [call EXCEPT ![c] = s] /\ UNCHANGED <<row, issued, changes, together, answered, faults>>
  BY DEF Take
<1> HIDE DEF s
<1>4. \A d \in Call : call'[d] = IF d = c THEN s ELSE call[d]
  BY <1>3 DEF ResetInv, TypeOK
<1>5. /\ raced \subseteq raced' /\ raced' \subseteq Number
      /\ \A k : k \in raced' /\ k # n => k \in raced
      /\ \A d \in Call : call[d].no = n => n \in raced'
  BY DEF Take, ResetInv, TypeOK
<1>6. TypeOK'
  BY <1>2, <1>3, <1>5 DEF ResetInv, TypeOK
<1>7. UnusedRows'
  BY <1>3, <1>5 DEF ResetInv, UnusedRows, Stored
<1>8. CallsHaveRows'
  <2> SUFFICES ASSUME NEW d \in Call PROVE CallsHaveRows!(d)'
    BY DEF CallsHaveRows
  <2>1. CASE d = c
    BY <2>1, <1>1, <1>2, <1>3, <1>4 DEF Stored
  <2>2. CASE d # c
    BY <2>2, <1>3, <1>4 DEF Stored, ResetInv, CallsHaveRows
  <2>3. QED
    BY <2>1, <2>2
<1>9. RowsAreIssued'
  BY <1>3 DEF ResetInv, RowsAreIssued, Stored
<1>10. Exclusive'
  BY <1>2, <1>4, <1>5 DEF ResetInv, Exclusive
<1>11. ReadsHold'
  <2> SUFFICES ASSUME NEW d \in Call, call'[d].no \notin raced' PROVE ReadsHold!(d)'
    BY DEF ReadsHold
  <2>1. CASE d = c
    <3>1. n \notin raced /\ ~Changing(n)
      BY <2>1, <1>2, <1>4, <1>5 DEF Changing
    <3>2. row[n].status # "completed" => changes[n] <= faults
      BY <3>1 DEF ResetInv, CountsHold
    <3>3. QED
      BY <2>1, <3>2, <1>2, <1>3, <1>4
  <2>2. CASE d # c
    BY <2>2, <1>3, <1>4, <1>5 DEF ResetInv, ReadsHold
  <2>3. QED
    BY <2>1, <2>2
<1>12. CountsHold'
  <2> SUFFICES ASSUME NEW k \in Number, Stored(k), k \notin raced' PROVE CountsHold!(k)'
    BY <1>3 DEF CountsHold, Stored
  <2>1. Changing(k) => Changing(k)'
    BY <1>4 DEF Changing
  <2>2. QED
    BY <2>1, <1>3, <1>5 DEF ResetInv, CountsHold
<1>13. CompletedMeansChanged'
  BY <1>3 DEF ResetInv, CompletedMeansChanged, Stored
<1>14. QED
  BY <1>6, <1>7, <1>8, <1>9, <1>10, <1>11, <1>12, <1>13 DEF ResetInv

LEMMA VerifySelectInv ==
  ASSUME ResetInv, NEW c \in Call, NEW u \in User, NEW right \in BOOLEAN,
         VerifySelect(c, u, right)
  PROVE  ResetInv'
<1> DEFINE stage(n) == CASE ~row[n].fresh -> "expire"
                         [] row[n].fresh /\ Exhausted(n) -> "lock"
                         [] row[n].fresh /\ ~Exhausted(n) -> IF right THEN "verify" ELSE "count"
<1>1. PICK n \in Number : IsNewest(n, u) /\ row[n].status # "verified" /\ Take(c, n, stage(n))
  BY DEF VerifySelect
<1>2. Stored(n) /\ row[n].status = "pending"
  BY <1>1 DEF IsNewest, OpenRows, RowsOf
<1>3. row[n] \in Row
  BY <1>2 DEF Stored, ResetInv, TypeOK
<1>4. /\ stage(n) \in {"expire", "lock", "verify", "count"}
      /\ stage(n) \in {"count", "verify"} => ~Exhausted(n)
  BY <1>3 DEF Row
<1>5. ~Exhausted(n) => row[n].attempts < MaxAttempts
  BY <1>3, ResetAssumption DEF Row, Exhausted
<1>6. call[c].at = "idle"
  BY DEF VerifySelect
<1> HIDE DEF stage
<1>7. QED
  BY <1>1, <1>2, <1>4, <1>5, <1>6, TakeInv DEF Stage

LEMMA CompleteSelectInv ==
  ASSUME ResetInv, NEW c \in Call, NEW n \in Number, CompleteSelect(c, n)
  PROVE  ResetInv'
<1>1. CASE row[n].fresh
  BY <1>1, TakeInv DEF CompleteSelect, Completable, Stage
<1>2. CASE ~row[n].fresh
  BY <1>2, TakeInv DEF CompleteSelect, Completable, Stage
<1>3. QED
  BY <1>1, <1>2

\* The insert of a call becomes visible.
LEMMA RequestCommitInv ==
  ASSUME ResetInv, NEW c \in Call, RequestCommit(c)
  PROVE  ResetInv'
<1> DEFINE n == call[c].no
           r == [user |-> call[c].user, status |-> "pending", attempts |-> 0,
                 recent |-> TRUE, fresh |-> TRUE]
<1>1. /\ call[c].at = "insert" /\ row' = [row EXCEPT ![n] = r] /\ End(c)
      /\ UNCHANGED <<issued, changes, together, raced, answered, faults>>
  BY DEF RequestCommit, history
<1>2. call[c] \in CallState
  BY DEF ResetInv, TypeOK
<1>3. n # 0 /\ n <= issued /\ ~Stored(n) /\ call[c].user \in User
  BY <1>1 DEF ResetInv, CallsHaveRows
<1>4. n \in Number
  BY <1>2, <1>3, ResetAssumption DEF CallState, Number
<1>5. r \in Row /\ r.status = "pending" /\ r.attempts = 0
  BY <1>3, ResetAssumption DEF Row, Status
<1>6. answered[n] = 0 /\ changes[n] = 0 /\ n \notin raced
  BY <1>3, <1>4 DEF ResetInv, UnusedRows
<1> HIDE DEF r
<1>7. \A k \in Number : row'[k] = IF k = n THEN r ELSE row[k]
  BY <1>1, <1>4 DEF ResetInv, TypeOK
<1>8. \A k \in Number : Stored(k)' <=> Stored(k) \/ k = n
  BY <1>5, <1>7, NullIsNoRow DEF Stored
<1>9. \A d \in Call : call'[d] = IF d = c THEN Idle ELSE call[d]
  BY <1>1 DEF ResetInv, TypeOK, End
<1>10. \A d \in Call : d # c => call[d].no # n
  BY <1>3, <1>6 DEF ResetInv, Exclusive
<1>11. TypeOK'
  BY <1>1, <1>5, IdleFacts DEF ResetInv, TypeOK, End
<1>12. UnusedRows'
  BY <1>1, <1>8 DEF ResetInv, UnusedRows
<1>13. CallsHaveRows'
  <2> SUFFICES ASSUME NEW d \in Call PROVE CallsHaveRows!(d)'
    BY DEF CallsHaveRows
  <2>1. CASE d = c
    BY <2>1, <1>9, IdleFacts
  <2>2. CASE d # c
    <3>1. call'[d] = call[d] /\ call[d].no # n /\ call[d] \in CallState /\ CallsHaveRows!(d)
      BY <2>2, <1>9, <1>10 DEF ResetInv, TypeOK, CallsHaveRows
    <3>2. call[d].no # 0 => call[d].no \in Number
      BY <3>1, ResetAssumption DEF CallState, Number
    <3>3. QED
      BY <3>1, <3>2, <1>1, <1>8
  <2>3. QED
    BY <2>1, <2>2
<1>14. RowsAreIssued'
  BY <1>1, <1>3, <1>8 DEF ResetInv, RowsAreIssued
<1>15. Exclusive'
  BY <1>1, <1>9, IdleFacts DEF ResetInv, Exclusive
<1>16. ReadsHold'
  <2> SUFFICES ASSUME NEW d \in Call, d # c, call[d].no \notin raced, call[d].no # 0
               PROVE  ReadsHold!(d)'
    BY <1>1, <1>9, IdleFacts DEF ReadsHold, ResetInv, CallsHaveRows
  <2>1. call'[d] = call[d] /\ call[d].no # n /\ call[d] \in CallState
    BY <1>9, <1>10 DEF ResetInv, TypeOK
  <2>2. row'[call[d].no] = row[call[d].no]
    BY <2>1, <1>7, ResetAssumption DEF CallState, Number
  <2>3. QED
    BY <2>1, <2>2, <1>1 DEF ResetInv, ReadsHold
<1>17. CountsHold'
  <2> SUFFICES ASSUME NEW k \in Number, Stored(k) \/ k = n, k \notin raced PROVE CountsHold!(k)'
    BY <1>1, <1>8 DEF CountsHold
  <2>1. CASE k = n
    BY <2>1, <1>1, <1>5, <1>6, <1>7 DEF ResetInv, TypeOK
  <2>2. CASE k # n
    <3>1. row'[k] = row[k] /\ (Changing(k)' <=> Changing(k))
      BY <2>2, <1>7, <1>9, IdleFacts DEF Changing
    <3>2. QED
      BY <2>2, <3>1, <1>1 DEF ResetInv, CountsHold
  <2>3. QED
    BY <2>1, <2>2
<1>18. CompletedMeansChanged'
  BY <1>1, <1>5, <1>7, <1>8 DEF ResetInv, CompletedMeansChanged
<1>19. QED
  BY <1>11, <1>12, <1>13, <1>14, <1>15, <1>16, <1>17, <1>18 DEF ResetInv

LEMMA RequestSelectInv ==
  ASSUME ResetInv, NEW c \in Call, NEW u \in User, RequestSelect(c, u)
  PROVE  ResetInv'
<1> DEFINE s == [at |-> "insert", user |-> u, no |-> issued + 1, seen |-> 0]
<1>1. /\ call[c].at = "idle" /\ issued < MaxRows /\ issued' = issued + 1
      /\ call' = [call EXCEPT ![c] = s]
      /\ UNCHANGED <<row, changes, raced, answered, faults>>
  BY DEF RequestSelect
<1>2. issued \in 0..MaxRows /\ issued + 1 \in Number /\ issued' \in 0..MaxRows
  BY <1>1, ResetAssumption DEF ResetInv, TypeOK, Number
<1>3. s \in CallState /\ s.at = "insert" /\ s.no = issued + 1 /\ s.user = u
  BY <1>2, ResetAssumption DEF CallState, Stage, Number
<1> HIDE DEF s
<1>4. \A d \in Call : call'[d] = IF d = c THEN s ELSE call[d]
  BY <1>1 DEF ResetInv, TypeOK
<1>5. ~Stored(issued + 1)
  BY <1>2 DEF ResetInv, RowsAreIssued
<1>6. issued + 1 \notin raced
  BY <1>2, <1>5 DEF ResetInv, UnusedRows
<1>7. \A d \in Call : call[d].no \in 0..MaxRows /\ call[d].no <= issued
  <2> TAKE d \in Call
  <2>1. call[d] \in CallState
    BY DEF ResetInv, TypeOK
  <2>2. CASE call[d].at = "idle"
    BY <2>1, <2>2, <1>2 DEF ResetInv, CallsHaveRows, CallState
  <2>3. CASE call[d].at = "insert"
    BY <2>1, <2>3 DEF ResetInv, CallsHaveRows, CallState
  <2>4. CASE call[d].at \notin {"idle", "insert"}
    BY <2>1, <2>4, RowAtHand DEF ResetInv, RowsAreIssued, CallState
  <2>5. QED
    BY <2>2, <2>3, <2>4
<1>8. together' \subseteq Number
  <2>1. Issuing(u) \subseteq Number
    <3> SUFFICES ASSUME NEW d \in Call, call[d].at = "insert" PROVE call[d].no \in Number
      BY DEF Issuing
    <3>1. call[d].no # 0
      BY DEF ResetInv, CallsHaveRows
    <3>2. QED
      BY <3>1, <1>7, ResetAssumption DEF Number
  <2>2. QED
    BY <2>1, <1>2 DEF RequestSelect, ResetInv, TypeOK
<1>9. TypeOK'
  BY <1>1, <1>2, <1>3, <1>8 DEF ResetInv, TypeOK
<1>10. UnusedRows' /\ CompletedMeansChanged'
  BY <1>1 DEF ResetInv, UnusedRows, CompletedMeansChanged, Stored
<1>11. CallsHaveRows'
  <2> SUFFICES ASSUME NEW d \in Call PROVE CallsHaveRows!(d)'
    BY DEF CallsHaveRows
  <2>1. CASE d = c
    BY <2>1, <1>1, <1>2, <1>3, <1>4, <1>5, ResetAssumption DEF Stored, Number
  <2>2. CASE d # c
    BY <2>2, <1>1, <1>2, <1>4, <1>7 DEF Stored, ResetInv, CallsHaveRows
  <2>3. QED
    BY <2>1, <2>2
<1>12. RowsAreIssued'
  BY <1>1, <1>2 DEF ResetInv, RowsAreIssued, Stored, Number
<1>13. Exclusive'
  <2>1. \A d \in Call : call[d].no # issued + 1
    BY <1>2, <1>7
  <2>2. QED
    BY <2>1, <1>1, <1>3, <1>4 DEF ResetInv, Exclusive
<1>14. ReadsHold'
  BY <1>1, <1>3, <1>4 DEF ResetInv, ReadsHold
<1>15. CountsHold'
  <2>1. \A n \in Number : Changing(n) => Changing(n)'
    BY <1>1, <1>4 DEF Changing
  <2>2. QED
    BY <2>1, <1>1 DEF ResetInv, CountsHold, Stored
<1>16. QED
  BY <1>9, <1>10, <1>11, <1>12, <1>13, <1>14, <1>15 DEF ResetInv

\* LDAP has changed the password; the row follows with the commit.
LEMMA CompleteModifyInv ==
  ASSUME ResetInv, NEW c \in Call, CompleteModify(c)
  PROVE  ResetInv'
<1> DEFINE n == call[c].no
<1>1. /\ call[c].at = "modify" /\ changes' = [changes EXCEPT ![n] = @ + 1]
      /\ call' = [call EXCEPT ![c] = Committing(call[c])]
      /\ UNCHANGED <<row, issued, together, raced, answered, faults>>
  BY DEF CompleteModify, history
<1>2. n \in Number /\ n # 0 /\ Stored(n) /\ call[c] \in CallState
  BY <1>1, RowAtHand
<1>3. /\ Committing(call[c]) \in CallState /\ Committing(call[c]).at = "complete"
      /\ Committing(call[c]).no = n
  BY <1>2, CommittingFacts
<1>4. \A d \in Call : call'[d] = IF d = c THEN Committing(call[c]) ELSE call[d]
  BY <1>1 DEF ResetInv, TypeOK
<1>5. /\ changes[n] \in Nat /\ changes'[n] = changes[n] + 1
      /\ \A k \in Number : k # n => changes'[k] = changes[k]
      /\ \A k \in Number : changes[k] \in Nat /\ changes'[k] \in Nat
      /\ faults \in Nat
  BY <1>1, <1>2 DEF ResetInv, TypeOK
<1>6. n \notin raced => changes[n] <= faults /\ row[n].status = "verified"
  BY <1>1 DEF ResetInv, ReadsHold
<1>7. \A d \in Call : d # c /\ call[d].no = n => n \in raced
  BY <1>2 DEF ResetInv, Exclusive
<1>8. TypeOK'
  BY <1>1, <1>3, <1>5 DEF ResetInv, TypeOK
<1>9. UnusedRows'
  BY <1>1, <1>2, <1>5 DEF ResetInv, UnusedRows, Stored
<1>10. CallsHaveRows'
  <2> SUFFICES ASSUME NEW d \in Call PROVE CallsHaveRows!(d)'
    BY DEF CallsHaveRows
  <2>1. CASE d = c
    BY <2>1, <1>1, <1>2, <1>3, <1>4, <1>5 DEF Stored
  <2>2. CASE d # c
    <3>1. call[d].at = "complete" => call[d].no \in Number
      BY RowAtHand
    <3>2. call[d].at = "complete" => changes'[call[d].no] > 0
      BY <3>1, <1>5 DEF ResetInv, CallsHaveRows
    <3>3. QED
      BY <2>2, <3>2, <1>1, <1>4 DEF Stored, ResetInv, CallsHaveRows
  <2>3. QED
    BY <2>1, <2>2
<1>11. RowsAreIssued'
  BY <1>1 DEF ResetInv, RowsAreIssued, Stored
<1>12. Exclusive'
  BY <1>1, <1>3, <1>4 DEF ResetInv, Exclusive
<1>13. ReadsHold'
  <2> SUFFICES ASSUME NEW d \in Call, call'[d].no \notin raced PROVE ReadsHold!(d)'
    BY <1>1 DEF ReadsHold
  <2>1. CASE d = c
    BY <2>1, <1>1, <1>3, <1>4, <1>6
  <2>2. CASE d # c
    <3>1. call'[d] = call[d] /\ call[d].no # n
      BY <2>2, <1>4, <1>7
    <3>2. call[d].at = "modify" => changes'[call[d].no] = changes[call[d].no]
      BY <3>1, <1>5, RowAtHand
    <3>3. QED
      BY <3>1, <3>2, <1>1 DEF ResetInv, ReadsHold
  <2>3. QED
    BY <2>1, <2>2
<1>14. CountsHold'
  <2> SUFFICES ASSUME NEW k \in Number, Stored(k), k \notin raced PROVE CountsHold!(k)'
    BY <1>1 DEF CountsHold, Stored
  <2>1. CASE k = n
    <3>1. Changing(k)'
      BY <2>1, <1>3, <1>4 DEF Changing
    <3>2. QED
      BY <2>1, <3>1, <1>1, <1>5, <1>6 DEF ResetInv, CountsHold
  <2>2. CASE k # n
    <3>1. Changing(k) => Changing(k)'
      BY <2>2, <1>1, <1>4 DEF Changing
    <3>2. QED
      BY <2>2, <3>1, <1>1, <1>5 DEF ResetInv, CountsHold
  <2>3. QED
    BY <2>1, <2>2
<1>15. CompletedMeansChanged'
  BY <1>1, <1>2, <1>5 DEF ResetInv, CompletedMeansChanged, Stored
<1>16. QED
  BY <1>8, <1>9, <1>10, <1>11, <1>12, <1>13, <1>14, <1>15 DEF ResetInv

LEMMA CallFailsInv ==
  ASSUME ResetInv, NEW c \in Call, CallFails(c)
  PROVE  ResetInv'
<1>1. /\ UNCHANGED <<row, issued, changes, together, raced, answered>>
      /\ faults' = faults + 1 /\ faults \in Nat /\ End(c)
      /\ \A n \in Number : changes[n] \in Nat
  BY DEF CallFails, Fault, history, ResetInv, TypeOK
<1>2. \A d \in Call : call'[d] = IF d = c THEN Idle ELSE call[d]
  BY <1>1 DEF ResetInv, TypeOK, End
<1>3. TypeOK'
  BY <1>1, IdleFacts DEF ResetInv, TypeOK, End
<1>4. UnusedRows' /\ RowsAreIssued' /\ CompletedMeansChanged'
  BY <1>1 DEF ResetInv, UnusedRows, RowsAreIssued, CompletedMeansChanged, Stored
<1>5. CallsHaveRows'
  BY <1>1, <1>2, IdleFacts DEF ResetInv, CallsHaveRows, Stored
<1>6. Exclusive'
  BY <1>1, <1>2, IdleFacts DEF ResetInv, Exclusive
<1>7. ReadsHold'
  <2> SUFFICES ASSUME NEW d \in Call, d # c, call[d].no \notin raced PROVE ReadsHold!(d)'
    BY <1>1, <1>2, IdleFacts DEF ReadsHold
  <2>1. call'[d] = call[d]
    BY <1>2
  <2>2. call[d].at = "modify" => changes[call[d].no] \in Nat
    BY <1>1, RowAtHand
  <2>3. QED
    BY <2>1, <2>2, <1>1 DEF ResetInv, ReadsHold
<1>8. CountsHold'
  BY <1>1 DEF ResetInv, CountsHold, Stored
<1>9. QED
  BY <1>3, <1>4, <1>5, <1>6, <1>7, <1>8 DEF ResetInv

\* The clock changes neither status nor attempts.
LEMMA ClockInv ==
  ASSUME ResetInv, NEW n \in Number, WindowPasses(n) \/ Expires(n)
  PROVE  ResetInv'
<1>1. PICK r \in Row : /\ row' = [row EXCEPT ![n] = r]
                       /\ r.status = row[n].status /\ r.attempts = row[n].attempts
  <2>1. row[n] \in Row
    BY DEF WindowPasses, Expires, Stored, ResetInv, TypeOK
  <2>2. CASE WindowPasses(n)
    BY <2>1, <2>2, ClockFacts DEF WindowPasses
  <2>3. CASE Expires(n)
    BY <2>1, <2>3, ClockFacts DEF Expires
  <2>4. QED
    BY <2>2, <2>3
<1>2. Stored(n) /\ UNCHANGED <<issued, changes, call, together, raced, answered, faults>>
  BY DEF WindowPasses, Expires, history
<1>3. \A k \in Number : /\ Stored(k)' <=> Stored(k)
                        /\ row'[k].status = row[k].status
                        /\ row'[k].attempts = row[k].attempts
  BY <1>1, <1>2, NullIsNoRow DEF ResetInv, TypeOK, Stored
<1>4. TypeOK'
  BY <1>1, <1>2 DEF ResetInv, TypeOK
<1>5. UnusedRows' /\ RowsAreIssued' /\ CompletedMeansChanged' /\ Exclusive'
  BY <1>2, <1>3 DEF ResetInv, UnusedRows, RowsAreIssued, CompletedMeansChanged, Exclusive
<1>6. CallsHaveRows'
  <2> SUFFICES ASSUME NEW d \in Call PROVE CallsHaveRows!(d)'
    BY DEF CallsHaveRows
  <2>1. call[d] \in CallState /\ CallsHaveRows!(d)
    BY DEF ResetInv, TypeOK, CallsHaveRows
  <2>2. call[d].no # 0 => call[d].no \in Number
    BY <2>1, ResetAssumption DEF CallState, Number
  <2>3. QED
    BY <2>1, <2>2, <1>2, <1>3
<1>7. ReadsHold'
  <2> SUFFICES ASSUME NEW d \in Call, call[d].no \notin raced PROVE ReadsHold!(d)'
    BY <1>2 DEF ReadsHold
  <2>1. call[d].at \notin {"idle", "insert"} => call[d].no \in Number
    BY RowAtHand
  <2>2. QED
    BY <2>1, <1>2, <1>3 DEF ResetInv, ReadsHold
<1>8. CountsHold'
  <2>1. \A k \in Number : Changing(k)' <=> Changing(k)
    BY <1>2 DEF Changing
  <2>2. QED
    BY <2>1, <1>2, <1>3 DEF ResetInv, CountsHold
<1>9. QED
  BY <1>4, <1>5, <1>6, <1>7, <1>8 DEF ResetInv

LEMMA InitInv == Init => ResetInv
<1> SUFFICES ASSUME Init PROVE ResetInv
  OBVIOUS
<1>1. TypeOK
  BY IdleFacts, ResetAssumption DEF Init, TypeOK
<1>2. \A n \in Number : ~Stored(n)
  BY DEF Init, Stored
<1>3. QED
  BY <1>1, <1>2, IdleFacts
     DEF Init, ResetInv, UnusedRows, CallsHaveRows, RowsAreIssued, Exclusive, ReadsHold,
         CountsHold, CompletedMeansChanged

LEMMA NextInv == ResetInv /\ [Next]_vars => ResetInv'
<1> SUFFICES ASSUME ResetInv, [Next]_vars PROVE ResetInv'
  OBVIOUS
<1>1. ASSUME NEW c \in Call, CallStep(c) PROVE ResetInv'
  BY <1>1, RequestSelectInv, RequestCommitInv, VerifySelectInv, ExpireCommitInv, LockCommitInv,
     VerifyWrongInv, VerifyRightInv, CompleteSelectInv, CompleteModifyInv, CompleteCommitInv,
     CallFailsInv DEF CallStep
<1>2. CASE UNCHANGED vars
  BY <1>2 DEF vars, ResetInv, TypeOK, UnusedRows, CallsHaveRows, RowsAreIssued, Exclusive,
              ReadsHold, CountsHold, CompletedMeansChanged, Stored, Changing
<1>3. QED
  BY <1>1, <1>2, ClockInv DEF Next

\* The inductive invariant of the reset service.
THEOREM ResetInvariant == Spec => []ResetInv
  BY InitInv, NextInv, PTL DEF Spec

\* Type correctness of rows and calls.
THEOREM TypeCorrect == Spec => []TypeOK
<1>1. ResetInv => TypeOK
  BY DEF ResetInv
<1>2. QED
  BY <1>1, ResetInvariant, PTL

\* verify_otp answers at most max_attempts codes of a request no calls raced on.
THEOREM AttemptsAreBounded == Spec => []AttemptsBounded
<1>1. ResetInv => AttemptsBounded
  <2> SUFFICES ASSUME ResetInv, NEW n \in Number, n \notin raced
               PROVE  answered[n] <= MaxAttempts
    BY DEF AttemptsBounded
  <2>1. CASE Stored(n)
    <3>1. row[n] \in Row
      BY <2>1 DEF Stored, ResetInv, TypeOK
    <3>2. answered[n] <= row[n].attempts /\ row[n].attempts \in 0..MaxAttempts
      BY <2>1, <3>1 DEF Row, ResetInv, CountsHold
    <3>3. QED
      BY <3>2, ResetAssumption DEF ResetInv, TypeOK
  <2>2. CASE ~Stored(n)
    BY <2>2, ResetAssumption DEF ResetInv, UnusedRows
  <2>3. QED
    BY <2>1, <2>2
<1>2. QED
  BY <1>1, ResetInvariant, PTL

\* complete_reset changes the password once per request, apart from faults.
THEOREM OneChangePerRequest == Spec => []ChangedOnce
<1>1. ResetInv => ChangedOnce
  <2> SUFFICES ASSUME ResetInv, NEW n \in Number, n \notin raced
               PROVE  changes[n] <= 1 + faults
    BY DEF ChangedOnce
  <2>1. faults \in Nat
    BY DEF ResetInv, TypeOK
  <2>2. QED
    BY <2>1 DEF ResetInv, CountsHold, UnusedRows
<1>2. QED
  BY <1>1, ResetInvariant, PTL

\* A completed request has changed the password, even when calls race or fail.
THEOREM CompletionIsReal == Spec => []CompletedMeansChanged
<1>1. ResetInv => CompletedMeansChanged
  BY DEF ResetInv
<1>2. QED
  BY <1>1, ResetInvariant, PTL

-----------------------------------------------------------------------------
(* The throttle.  Recent(u) grows only when a request commits, and the     *)
(* calls about to insert only when one is selected; every other step can   *)
(* only take away from both.                                               *)

\* The columns that decide whether a row is recent: no commit after the first
\* changes the user or moves the window.
LEMMA ColumnsKept ==
  ASSUME NEW r \in Row
  PROVE  /\ \A s \in Status : WithStatus(r, s).user = r.user /\ (WithStatus(r, s).recent => r.recent)
         /\ \A seen : WithAttempt(r, seen).user = r.user /\ (WithAttempt(r, seen).recent => r.recent)
         /\ \A seen : Verified(r, seen).user = r.user /\ (Verified(r, seen).recent => r.recent)
         /\ OutOfTime(r).user = r.user /\ (OutOfTime(r).recent => r.recent)
         /\ OutOfWindow(r).user = r.user /\ ~OutOfWindow(r).recent
  BY DEF Row, WithStatus, WithAttempt, Verified, OutOfTime, OutOfWindow

LEMMA ThrottleKept ==
  ASSUME ThrottleInv, together \subseteq together',
         \A u : Recent(u)' \subseteq Recent(u),
         \A d \in Call : call'[d].at = "insert" => call'[d] = call[d]
  PROVE  ThrottleInv'
<1>1. ThrottleHolds'
  BY DEF ThrottleInv, ThrottleHolds
<1>2. InsertsBesideRecent'
  <2> SUFFICES ASSUME NEW c \in Call, NEW u \in User, call'[c].at = "insert",
                      call'[c].user = u, NEW n \in Recent(u)
               PROVE  n \in together /\ call[c].no \in together
    BY DEF InsertsBesideRecent
  <2>1. call[c].at = "insert" /\ call[c].user = u
    OBVIOUS
  <2>2. QED
    BY <2>1 DEF ThrottleInv, InsertsBesideRecent
<1>3. InsertsBesideInserts'
  BY DEF ThrottleInv, InsertsBesideInserts
<1>4. QED
  BY <1>1, <1>2, <1>3 DEF ThrottleInv

\* A step that replaces a row n by a version of the same user, in the window
\* only if the row was.
LEMMA RecentShrinks ==
  ASSUME TypeOK, NEW n \in Number, Stored(n), NEW r \in Row, row' = [row EXCEPT ![n] = r],
         r.user = row[n].user, r.recent => row[n].recent
  PROVE  \A u : Recent(u)' \subseteq Recent(u)
<1> SUFFICES ASSUME NEW u, NEW k \in Number, Stored(k)', row'[k].user = u, row'[k].recent
             PROVE  Stored(k) /\ row[k].user = u /\ row[k].recent
  BY DEF Recent, RowsOf
<1>1. CASE k = n
  <2>1. row'[k] = r
    BY <1>1 DEF TypeOK
  <2>2. QED
    BY <1>1, <2>1
<1>2. CASE k # n
  <2>1. row'[k] = row[k]
    BY <1>2 DEF TypeOK
  <2>2. QED
    BY <2>1 DEF Stored
<1>3. QED
  BY <1>1, <1>2

LEMMA RecentSame == ASSUME UNCHANGED row PROVE \A u : Recent(u)' = Recent(u)
  BY DEF Recent, RowsOf, Stored

LEMMA EndKeepsInserts ==
  ASSUME TypeOK, NEW c \in Call, End(c)
  PROVE  \A d \in Call : call'[d].at = "insert" => call'[d] = call[d]
  BY IdleFacts DEF End, TypeOK

\* A call finds no recent request of the user: whoever is about to insert one
\* is handled at the same time.
LEMMA RequestSelectThrottle ==
  ASSUME ResetInv, ThrottleInv, NEW c \in Call, NEW u \in User, RequestSelect(c, u)
  PROVE  ThrottleInv'
<1> DEFINE s == [at |-> "insert", user |-> u, no |-> issued + 1, seen |-> 0]
<1>1. /\ call[c].at = "idle" /\ Recent(u) = {} /\ UNCHANGED row
      /\ call' = [call EXCEPT ![c] = s]
  BY DEF RequestSelect, Throttled
<1>2. \A d \in Call : call'[d] = IF d = c THEN s ELSE call[d]
  BY <1>1 DEF ResetInv, TypeOK
<1>3. s.at = "insert" /\ s.user = u /\ s.no = issued + 1
  OBVIOUS
<1> HIDE DEF s
<1>4. together \subseteq together'
  BY DEF RequestSelect
<1>5. \A d \in Call : call[d].at = "insert" /\ call[d].user = u
                          => issued + 1 \in together' /\ call[d].no \in together'
  BY DEF RequestSelect, Issuing
<1>6. \A v : Recent(v)' = Recent(v)
  BY <1>1, RecentSame
<1>7. ThrottleHolds'
  BY <1>4, <1>6 DEF ThrottleInv, ThrottleHolds
<1>8. InsertsBesideRecent'
  <2> SUFFICES ASSUME NEW d \in Call, NEW v \in User, call'[d].at = "insert",
                      call'[d].user = v, NEW n \in Recent(v)
               PROVE  n \in together' /\ call'[d].no \in together'
    BY <1>6 DEF InsertsBesideRecent
  <2>1. CASE d = c
    BY <2>1, <1>1, <1>2, <1>3
  <2>2. CASE d # c
    BY <2>2, <1>2, <1>4 DEF ThrottleInv, InsertsBesideRecent
  <2>3. QED
    BY <2>1, <2>2
<1>9. InsertsBesideInserts'
  <2> SUFFICES ASSUME NEW d \in Call, NEW e \in Call, d # e, call'[d].at = "insert",
                      call'[e].at = "insert", call'[d].user = call'[e].user
               PROVE  call'[d].no \in together'
    BY DEF InsertsBesideInserts
  <2>1. CASE d = c
    BY <2>1, <1>2, <1>3, <1>5
  <2>2. CASE e = c
    BY <2>2, <1>2, <1>3, <1>5
  <2>3. CASE d # c /\ e # c
    BY <2>3, <1>2, <1>4 DEF ThrottleInv, InsertsBesideInserts
  <2>4. QED
    BY <2>1, <2>2, <2>3
<1>10. QED
  BY <1>7, <1>8, <1>9 DEF ThrottleInv

\* The inserted request joins the recent ones of its user.
LEMMA RequestCommitThrottle ==
  ASSUME ResetInv, ThrottleInv, NEW c \in Call, RequestCommit(c)
  PROVE  ThrottleInv'
<1> DEFINE n == call[c].no
           r == [user |-> call[c].user, status |-> "pending", attempts |-> 0,
                 recent |-> TRUE, fresh |-> TRUE]
<1>1. /\ call[c].at = "insert" /\ row' = [row EXCEPT ![n] = r] /\ End(c) /\ UNCHANGED together
      /\ r.user = call[c].user
  BY DEF RequestCommit, history
<1> HIDE DEF r
<1>2. \A d \in Call : call'[d] = IF d = c THEN Idle ELSE call[d]
  BY <1>1 DEF ResetInv, TypeOK, End
<1>3. \A k \in Number : k # n => row'[k] = row[k]
  BY <1>1 DEF ResetInv, TypeOK
<1>4. \A u : \A k \in Recent(u)' : k \in Recent(u) \/ (k = n /\ u = call[c].user)
  <2> SUFFICES ASSUME NEW u, NEW k \in Number, Stored(k)', row'[k].user = u, row'[k].recent
               PROVE  \/ Stored(k) /\ row[k].user = u /\ row[k].recent
                      \/ k = n /\ u = call[c].user
    BY DEF Recent, RowsOf
  <2>1. CASE k = n
    BY <2>1, <1>1 DEF ResetInv, TypeOK
  <2>2. CASE k # n
    BY <2>2, <1>3 DEF Stored
  <2>3. QED
    BY <2>1, <2>2
<1>5. ThrottleHolds'
  <2> SUFFICES ASSUME NEW u \in User, NEW m \in Recent(u)', NEW k \in Recent(u)', m # k
               PROVE  m \in together
    BY <1>1 DEF ThrottleHolds
  <2>1. CASE m \in Recent(u) /\ k \in Recent(u)
    BY <2>1 DEF ThrottleInv, ThrottleHolds
  <2>2. CASE m = n /\ u = call[c].user /\ k \in Recent(u)
    BY <2>2, <1>1 DEF ThrottleInv, InsertsBesideRecent
  <2>3. CASE k = n /\ u = call[c].user /\ m \in Recent(u)
    BY <2>3, <1>1 DEF ThrottleInv, InsertsBesideRecent
  <2>4. QED
    BY <2>1, <2>2, <2>3, <1>4
<1>6. InsertsBesideRecent'
  <2> SUFFICES ASSUME NEW d \in Call, NEW v \in User, call'[d].at = "insert",
                      call'[d].user = v, NEW k \in Recent(v)'
               PROVE  k \in together /\ call'[d].no \in together
    BY <1>1 DEF InsertsBesideRecent
  <2>1. d # c /\ call'[d] = call[d] /\ call[d].at = "insert"
    BY <1>2, IdleFacts
  <2>2. CASE k \in Recent(v)
    BY <2>1, <2>2 DEF ThrottleInv, InsertsBesideRecent
  <2>3. CASE k = n /\ v = call[c].user
    BY <2>1, <2>3, <1>1 DEF ThrottleInv, InsertsBesideInserts
  <2>4. QED
    BY <2>2, <2>3, <1>4
<1>7. InsertsBesideInserts'
  BY <1>1, <1>2, IdleFacts DEF ThrottleInv, InsertsBesideInserts
<1>8. QED
  BY <1>5, <1>6, <1>7 DEF ThrottleInv

\* Any other commit rewrites a row of a call at work and ends the call.
LEMMA CommitThrottle ==
  ASSUME ResetInv, ThrottleInv, NEW c \in Call,
         ExpireCommit(c) \/ LockCommit(c) \/ VerifyWrong(c) \/ VerifyRight(c) \/ CompleteCommit(c)
  PROVE  ThrottleInv'
<1> DEFINE n == call[c].no
<1>1. call[c].at \notin {"idle", "insert"} /\ End(c) /\ UNCHANGED together
  BY DEF ExpireCommit, LockCommit, VerifyWrong, VerifyRight, CompleteCommit, history
<1>2. n \in Number /\ Stored(n) /\ row[n] \in Row /\ call[c] \in CallState
  BY <1>1, RowAtHand
<1>3. PICK r \in Row : /\ row' = [row EXCEPT ![n] = r]
                       /\ r.user = row[n].user /\ (r.recent => row[n].recent)
  <2>1. CASE ExpireCommit(c) \/ LockCommit(c) \/ CompleteCommit(c)
    <3>1. PICK s \in Status : row' = [row EXCEPT ![n] = WithStatus(row[n], s)]
      BY <2>1 DEF ExpireCommit, LockCommit, CompleteCommit, Status
    <3> DEFINE v == WithStatus(row[n], s)
    <3>2. v \in Row /\ row' = [row EXCEPT ![n] = v]
      BY <1>2, <3>1, WithStatusFacts
    <3>3. v.user = row[n].user /\ (v.recent => row[n].recent)
      BY <1>2, ColumnsKept
    <3> HIDE DEF v
    <3>4. QED
      BY <3>2, <3>3
  <2>2. CASE VerifyWrong(c) \/ VerifyRight(c)
    <3>1. call[c].seen \in 0..MaxAttempts /\ call[c].seen < MaxAttempts
      BY <2>2, <1>2 DEF VerifyWrong, VerifyRight, CallState, ResetInv, CallsHaveRows
    <3> DEFINE v == WithAttempt(row[n], call[c].seen)
               w == Verified(row[n], call[c].seen)
    <3>2. row' = [row EXCEPT ![n] = v] \/ row' = [row EXCEPT ![n] = w]
      BY <2>2 DEF VerifyWrong, VerifyRight
    <3>3. v \in Row /\ w \in Row
      BY <1>2, <3>1, WithAttemptFacts, VerifiedFacts
    <3>4. /\ v.user = row[n].user /\ (v.recent => row[n].recent)
          /\ w.user = row[n].user /\ (w.recent => row[n].recent)
      BY <1>2, ColumnsKept
    <3> HIDE DEF v, w
    <3>5. QED
      BY <3>2, <3>3, <3>4
  <2>3. QED
    BY <2>1, <2>2
<1>4. \A u : Recent(u)' \subseteq Recent(u)
  BY <1>2, <1>3, RecentShrinks DEF ResetInv
<1>5. QED
  BY <1>1, <1>4, ThrottleKept, EndKeepsInserts DEF ResetInv

LEMMA ThrottleNext == ResetInv /\ ThrottleInv /\ [Next]_vars => ThrottleInv'
<1> SUFFICES ASSUME ResetInv, ThrottleInv, [Next]_vars PROVE ThrottleInv'
  OBVIOUS
<1>1. ASSUME NEW c \in Call, NEW n \in Number, NEW stage \in Stage \ {"insert"}, Take(c, n, stage)
      PROVE  ThrottleInv'
  <2>1. \A d \in Call : call'[d].at = "insert" => call'[d] = call[d]
    BY <1>1 DEF Take, ResetInv, TypeOK
  <2>2. QED
    BY <1>1, <2>1, RecentSame, ThrottleKept DEF Take
<1>2. ASSUME NEW c \in Call, CompleteModify(c) \/ CallFails(c) PROVE ThrottleInv'
  <2>1. \A d \in Call : call'[d].at = "insert" => call'[d] = call[d]
    <3>1. call[c] \in CallState
      BY DEF ResetInv, TypeOK
    <3>2. QED
      BY <1>2, <3>1, CommittingFacts, EndKeepsInserts DEF CompleteModify, CallFails, ResetInv, TypeOK
  <2>2. QED
    BY <1>2, <2>1, RecentSame, ThrottleKept DEF CompleteModify, CallFails, history
<1>3. ASSUME NEW c \in Call, NEW u \in User, NEW right \in BOOLEAN, VerifySelect(c, u, right)
      PROVE  ThrottleInv'
  <2>1. PICK n \in Number, stage \in {"expire", "lock", "verify", "count"} : Take(c, n, stage)
    <3> DEFINE stage(n) == CASE ~row[n].fresh -> "expire"
                             [] row[n].fresh /\ Exhausted(n) -> "lock"
                             [] row[n].fresh /\ ~Exhausted(n) -> IF right THEN "verify" ELSE "count"
    <3>1. PICK n \in Number : IsNewest(n, u) /\ Take(c, n, stage(n))
      BY <1>3 DEF VerifySelect
    <3>2. row[n] \in Row
      BY <3>1 DEF IsNewest, OpenRows, RowsOf, Stored, ResetInv, TypeOK
    <3>3. stage(n) \in {"expire", "lock", "verify", "count"}
      BY <3>2 DEF Row
    <3> HIDE DEF stage
    <3>4. QED
      BY <3>1, <3>3
  <2>2. QED
    BY <2>1, <1>1 DEF Stage
<1>4. ASSUME NEW c \in Call, NEW n \in Number, CompleteSelect(c, n) PROVE ThrottleInv'
  <2>1. PICK stage \in {"modify", "expire"} : Take(c, n, stage)
    BY <1>4 DEF CompleteSelect
  <2>2. QED
    BY <2>1, <1>1 DEF Stage
<1>5. ASSUME NEW n \in Number, WindowPasses(n) \/ Expires(n) PROVE ThrottleInv'
  <2>1. Stored(n) /\ row[n] \in Row /\ UNCHANGED <<call, together>>
    BY <1>5 DEF WindowPasses, Expires, Stored, ResetInv, TypeOK, history
  <2>2. PICK r \in Row : /\ row' = [row EXCEPT ![n] = r]
                         /\ r.user = row[n].user /\ (r.recent => row[n].recent)
    <3>1. CASE WindowPasses(n)
      BY <3>1, <2>1, ClockFacts, ColumnsKept DEF WindowPasses
    <3>2. CASE Expires(n)
      BY <3>2, <2>1, ClockFacts, ColumnsKept DEF Expires
    <3>3. QED
      BY <1>5, <3>1, <3>2
  <2>3. QED
    BY <2>1, <2>2, RecentShrinks, ThrottleKept DEF ResetInv
<1>6. CASE UNCHANGED vars
  BY <1>6, RecentSame, ThrottleKept DEF vars
<1>7. QED
  BY <1>2, <1>3, <1>4, <1>5, <1>6, RequestSelectThrottle, RequestCommitThrottle, CommitThrottle
     DEF Next, CallStep

\* request_reset lets two requests of a user into one throttle window only when
\* it handled them at the same time.
THEOREM ThrottleIsKept == Spec => []ThrottleHolds
<1>1. Init => ThrottleInv
  BY IdleFacts DEF Init, ThrottleInv, ThrottleHolds, InsertsBesideRecent, InsertsBesideInserts,
                   Recent, RowsOf, Stored
<1>2. ThrottleInv => ThrottleHolds
  BY DEF ThrottleInv
<1>3. QED
  BY <1>1, <1>2, ThrottleNext, ResetInvariant, PTL DEF Spec

-----------------------------------------------------------------------------
(* Over is over: of the calls that write a status, each has read one that  *)
(* is not over, and without a race the row still has it.                   *)

Over == {"completed", "expired", "locked"}

LEMMA OverStep ==
  ASSUME ResetInv, [Next]_vars, NEW n \in Number, n \notin raced', Stored(n), row[n].status \in Over
  PROVE  row'[n].status = row[n].status
<1>1. row[n] \in Row /\ raced \subseteq raced'
  <2>1. raced \subseteq raced'
    BY DEF Next, CallStep, RequestSelect, RequestCommit, VerifySelect, CompleteSelect, Take,
           ExpireCommit, LockCommit, VerifyWrong, VerifyRight, CompleteModify, CompleteCommit,
           CallFails, WindowPasses, Expires, vars, history
  <2>2. QED
    BY <2>1 DEF Stored, ResetInv, TypeOK
<1>2. ASSUME NEW c \in Call, call[c].at \in {"expire", "lock", "count", "verify", "complete"}
      PROVE  call[c].no # n
  BY <1>1, <1>2 DEF ResetInv, ReadsHold, Over
<1>3. ASSUME NEW c \in Call, CallStep(c) PROVE row'[n].status = row[n].status
  <2>1. CASE RequestCommit(c)
    <3>1. call[c].no # n
      BY <2>1 DEF RequestCommit, ResetInv, CallsHaveRows
    <3>2. QED
      BY <2>1, <3>1 DEF RequestCommit, ResetInv, TypeOK
  <2>2. CASE ExpireCommit(c) \/ LockCommit(c) \/ VerifyWrong(c) \/ VerifyRight(c) \/ CompleteCommit(c)
    <3>1. call[c].no # n
      BY <2>2, <1>2 DEF ExpireCommit, LockCommit, VerifyWrong, VerifyRight, CompleteCommit
    <3>2. \E r : row' = [row EXCEPT ![call[c].no] = r]
      BY <2>2 DEF ExpireCommit, LockCommit, VerifyWrong, VerifyRight, CompleteCommit
    <3>3. QED
      BY <3>1, <3>2 DEF ResetInv, TypeOK
  <2>3. CASE UNCHANGED row
    BY <2>3
  <2>4. QED
    BY <1>3, <2>1, <2>2, <2>3
       DEF CallStep, RequestSelect, VerifySelect, CompleteSelect, Take, CompleteModify, CallFails
<1>4. ASSUME NEW k \in Number, WindowPasses(k) \/ Expires(k) PROVE row'[n].status = row[n].status
  <2>1. row' = [row EXCEPT ![k] = OutOfWindow(row[k])] \/ row' = [row EXCEPT ![k] = OutOfTime(row[k])]
    BY <1>4 DEF WindowPasses, Expires
  <2>2. CASE k = n
    BY <2>1, <2>2, <1>1, ClockFacts DEF ResetInv, TypeOK
  <2>3. CASE k # n
    BY <2>1, <2>3 DEF ResetInv, TypeOK
  <2>4. QED
    BY <2>2, <2>3
<1>5. QED
  BY <1>3, <1>4 DEF Next, vars

\* A completed, expired or locked request never changes its status again, unless
\* two calls raced on it.
THEOREM OverStaysOver == Spec => OverIsOver
<1> DEFINE A == \A n \in Number \ raced' :
                   Stored(n) /\ row[n].status \in Over => row'[n].status = row[n].status
<1>1. ResetInv /\ [Next]_vars => [A]_vars
  BY OverStep
<1>2. Spec => [][A]_vars
  BY <1>1, ResetInvariant, PTL DEF Spec
<1>3. QED
  BY <1>2 DEF OverIsOver, Over

-----------------------------------------------------------------------------
(* The refinement.  A commit happens at one moment to a request that no    *)
(* two calls raced on, and for the reason the call had when it read.       *)

\* The deadline of a row, as commits and the clock leave it.
LEMMA FreshFacts ==
  ASSUME NEW r \in Row
  PROVE  /\ r.fresh \in BOOLEAN
         /\ \A s \in Status : WithStatus(r, s).fresh = r.fresh
         /\ \A seen : /\ WithAttempt(r, seen).fresh = r.fresh
                      /\ Verified(r, seen).fresh = TRUE
         /\ OutOfWindow(r).fresh = r.fresh /\ OutOfTime(r).fresh = FALSE
  BY DEF Row, WithStatus, WithAttempt, Verified, OutOfTime, OutOfWindow

\* A call at work on a request nobody raced on has it for itself.
LEMMA Alone ==
  ASSUME ResetInv, NEW c \in Call, call[c].no # 0, call[c].no \notin raced
  PROVE  \A d \in Call : d # c => call[d].no # call[c].no
  BY DEF ResetInv, Exclusive

\* What decides how a request looks.
LEMMA SameView ==
  ASSUME NEW k \in Number, k \in raced' <=> k \in raced, Stored(k)' <=> Stored(k),
         Stored(k) => row'[k].status = row[k].status /\ row'[k].fresh = row[k].fresh,
         answered'[k] = answered[k], changes'[k] = changes[k], Changing(k)' <=> Changing(k)
  PROVE  View(k)' = View(k)
<1>1. CASE k \in raced \/ ~Stored(k)
  BY <1>1 DEF View, Bare
<1>2. CASE k \notin raced /\ Stored(k)
  <2>1. Holds(k)' = Holds(k)
    BY <1>2 DEF Holds
  <2>2. QED
    BY <1>2, <2>1 DEF View
<1>3. QED
  BY <1>1, <1>2

LEMMA OpenView ==
  ASSUME NEW k \in Number, k \notin raced, Stored(k)
  PROVE  /\ View(k) = [holds |-> Holds(k), tries |-> answered[k], sets |-> changes[k],
                       fresh |-> row[k].fresh]
         /\ row[k].status = "pending" => Holds(k) = "code"
         /\ row[k].status = "verified" => Holds(k) = IF Changing(k) THEN "spent" ELSE "token"
         /\ row[k].status = "completed" => Holds(k) = "record"
         /\ row[k].status \in {"expired", "locked"} => Holds(k) = "void"
  BY DEF View, Holds, Right

\* A step that changes how one request looks.
Looks == [n \in Number |-> View(n)]

LEMMA OneRequest ==
  ASSUME NEW n \in Number, NEW v, View(n)' = v, \A k \in Number : k # n => View(k)' = View(k)
  PROVE  Looks' = [Looks EXCEPT ![n] = v]
  BY DEF Looks

LEMMA NoRequest ==
  ASSUME \A k \in Number : View(k)' = View(k)
  PROVE  Looks' = Looks
  BY DEF Looks

Atomic == [Requests!AbsNext]_(Requests!absVars)

\* One operation on one request.
LEMMA Operation ==
  ASSUME NEW n \in Number, Requests!Ask(n) \/ Requests!Miss(n) \/ Requests!Hit(n) \/ Requests!Set(n)
           \/ Requests!Settle(n) \/ Requests!GiveBack(n) \/ Requests!TimeIsUp(n)
           \/ Requests!Expire(n) \/ Requests!Lock(n) \/ Requests!Meet(n)
  PROVE  Atomic
  BY DEF Atomic, Requests!AbsNext

LEMMA Nothing ==
  ASSUME \A k \in Number : View(k)' = View(k), faults' \in {faults, faults + 1}
  PROVE  Atomic
<1>1. Looks' = Looks
  BY NoRequest
<1>2. QED
  BY <1>1 DEF Looks, Atomic, Requests!AbsNext, Requests!absVars, Requests!Fail

\* A call that commits a version r of its row n.
LEMMA CommitViews ==
  ASSUME ResetInv, NEW c \in Call, call[c].at \notin {"idle", "insert"}, End(c),
         NEW n \in Number, call[c].no = n, NEW r \in Row, row' = [row EXCEPT ![n] = r],
         UNCHANGED <<changes, raced>>,
         \A k \in Number : k # n => answered'[k] = answered[k]
  PROVE  /\ \A k \in Number : k # n => View(k)' = View(k)
         /\ n \in raced => View(n)' = View(n)
         /\ n \notin raced => /\ Stored(n)' /\ row'[n] = r /\ ~Changing(n)'
                              /\ Changing(n) <=> call[c].at = "complete"
<1>1. Stored(n) /\ n # 0
  BY RowAtHand
<1>2. \A d \in Call : call'[d] = IF d = c THEN Idle ELSE call[d]
  BY DEF ResetInv, TypeOK, End
<1>3. ASSUME NEW k \in Number, k # n PROVE View(k)' = View(k)
  <2>1. row'[k] = row[k]
    BY <1>3 DEF ResetInv, TypeOK
  <2>2. \A d \in Call : (call'[d].at = "complete" /\ call'[d].no = k)
                            <=> (call[d].at = "complete" /\ call[d].no = k)
    BY <1>2, <1>3, IdleFacts
  <2>3. Changing(k)' <=> Changing(k)
    BY <2>2 DEF Changing
  <2>4. QED
    BY <1>3, <2>1, <2>3, SameView DEF Stored
<1>4. n \in raced => View(n)' = View(n)
  BY DEF View, Bare
<1>5. ASSUME n \notin raced
      PROVE  Stored(n)' /\ row'[n] = r /\ ~Changing(n)' /\ (Changing(n) <=> call[c].at = "complete")
  <2>1. row'[n] = r
    BY DEF ResetInv, TypeOK
  <2>2. \A d \in Call : d # c => call[d].no # n
    BY <1>1, <1>5, Alone
  <2>3. ~Changing(n)' /\ (Changing(n) <=> call[c].at = "complete")
    BY <1>1, <1>2, <2>2, IdleFacts DEF Changing
  <2>4. QED
    BY <2>1, <2>3, NullIsNoRow DEF Stored
<1>6. QED
  BY <1>3, <1>4, <1>5

\* How a request looks once no call is about to complete it.
LEMMA ViewAfter ==
  ASSUME NEW n \in Number, n \notin raced', Stored(n)', NEW r \in Row, row'[n] = r, ~Changing(n)'
  PROVE  View(n)' = [holds |-> Right[r.status], tries |-> answered'[n], sets |-> changes'[n],
                     fresh |-> r.fresh]
  BY DEF View, Holds

LEMMA RightFacts ==
  /\ Right["pending"] = "code" /\ Right["verified"] = "token" /\ Right["completed"] = "record"
  /\ Right["expired"] = "void" /\ Right["locked"] = "void"
  BY DEF Right

LEMMA ExpireAtomic == ASSUME ResetInv, ReasonsHold, NEW c \in Call, ExpireCommit(c) PROVE Atomic
<1>1. call[c].at = "expire" /\ End(c) /\ UNCHANGED <<changes, raced, answered, faults>>
  BY DEF ExpireCommit, history
<1>2. PICK n \in Number : call[c].no = n /\ Stored(n) /\ row[n] \in Row
  BY <1>1, RowAtHand
<1>3. PICK r \in Row : /\ row' = [row EXCEPT ![n] = r]
                       /\ r.status = "expired" /\ r.fresh = row[n].fresh
  BY <1>2, WithStatusFacts, FreshFacts DEF Status, ExpireCommit
<1>4. PICK v : v = View(n)'
  OBVIOUS
<1>5. /\ \A k \in Number : k # n => View(k)' = View(k)
      /\ n \in raced => View(n)' = View(n)
      /\ n \notin raced => /\ Stored(n)' /\ row'[n] = r /\ ~Changing(n)'
                           /\ Changing(n) <=> call[c].at = "complete"
  <2>1. call[c].at \notin {"idle", "insert"} /\ UNCHANGED <<changes, raced>>
    BY <1>1
  <2>2. \A k \in Number : k # n => answered'[k] = answered[k]
    BY <1>1
  <2>3. End(c) /\ call[c].no = n /\ row' = [row EXCEPT ![n] = r]
    BY <1>1, <1>2, <1>3
  <2>4. QED
    BY <2>1, <2>2, <2>3, CommitViews
<1>6. CASE n \in raced
  BY <1>1, <1>5, <1>6, Nothing
<1>7. CASE n \notin raced
  <2>1. row[n].status \in {"pending", "verified"} /\ row[n].fresh = FALSE /\ ~Changing(n)
    BY <1>1, <1>2, <1>5, <1>7, FreshFacts DEF ResetInv, ReadsHold, ReasonsHold
  <2>2. /\ View(n).holds \in {"code", "token"} /\ View(n).tries = answered[n]
        /\ View(n).sets = changes[n] /\ View(n).fresh = FALSE
    BY <1>2, <1>7, <2>1, OpenView
  <2>3. v = [holds |-> "void", tries |-> answered[n], sets |-> changes[n], fresh |-> FALSE]
    BY <1>1, <1>3, <1>4, <1>5, <1>7, <2>1, ViewAfter, RightFacts
  <2>4. Looks' = [Looks EXCEPT ![n] = v]
    BY <1>4, <1>5, OneRequest
  <2>5. Requests!Expire(n)
    BY <1>1, <2>2, <2>3, <2>4
    DEF Looks, Requests!Expire, Requests!Is, Requests!Fresh, Requests!Tries, Requests!Sets,
        Requests!Becomes
  <2>6. QED
    BY <2>5, Operation
<1>8. QED
  BY <1>6, <1>7

LEMMA LockAtomic == ASSUME ResetInv, ReasonsHold, NEW c \in Call, LockCommit(c) PROVE Atomic
<1>1. call[c].at = "lock" /\ End(c) /\ UNCHANGED <<changes, raced, answered, faults>>
  BY DEF LockCommit, history
<1>2. PICK n \in Number : call[c].no = n /\ Stored(n) /\ row[n] \in Row
  BY <1>1, RowAtHand
<1>3. PICK r \in Row : /\ row' = [row EXCEPT ![n] = r]
                       /\ r.status = "locked" /\ r.fresh = row[n].fresh
  BY <1>2, WithStatusFacts, FreshFacts DEF Status, LockCommit
<1>4. PICK v : v = View(n)'
  OBVIOUS
<1>5. /\ \A k \in Number : k # n => View(k)' = View(k)
      /\ n \in raced => View(n)' = View(n)
      /\ n \notin raced => /\ Stored(n)' /\ row'[n] = r /\ ~Changing(n)'
                           /\ Changing(n) <=> call[c].at = "complete"
  <2>1. call[c].at \notin {"idle", "insert"} /\ UNCHANGED <<changes, raced>>
    BY <1>1
  <2>2. \A k \in Number : k # n => answered'[k] = answered[k]
    BY <1>1
  <2>3. End(c) /\ call[c].no = n /\ row' = [row EXCEPT ![n] = r]
    BY <1>1, <1>2, <1>3
  <2>4. QED
    BY <2>1, <2>2, <2>3, CommitViews
<1>6. CASE n \in raced
  BY <1>1, <1>5, <1>6, Nothing
<1>7. CASE n \notin raced
  <2>1. row[n].status = "pending" /\ answered[n] = MaxAttempts
    BY <1>1, <1>2, <1>7 DEF ResetInv, ReadsHold, ReasonsHold
  <2>2. /\ View(n).holds = "code" /\ View(n).tries = answered[n]
        /\ View(n).sets = changes[n] /\ View(n).fresh = row[n].fresh
    BY <1>2, <1>7, <2>1, OpenView
  <2>3. v = [holds |-> "void", tries |-> answered[n], sets |-> changes[n], fresh |-> row[n].fresh]
    BY <1>1, <1>3, <1>4, <1>5, <1>7, ViewAfter, RightFacts
  <2>4. Looks' = [Looks EXCEPT ![n] = v]
    BY <1>4, <1>5, OneRequest
  <2>5. Requests!Lock(n)
    BY <1>1, <2>1, <2>2, <2>3, <2>4
    DEF Looks, Requests!Lock, Requests!Is, Requests!Fresh, Requests!Tries, Requests!Sets,
        Requests!Becomes
  <2>6. QED
    BY <2>5, Operation
<1>8. QED
  BY <1>6, <1>7

LEMMA WrongAtomic == ASSUME ResetInv, ReasonsHold, NEW c \in Call, VerifyWrong(c) PROVE Atomic
<1>1. call[c].at = "count" /\ End(c) /\ UNCHANGED <<changes, raced, faults>>
  BY DEF VerifyWrong
<1>2. PICK n \in Number : call[c].no = n /\ Stored(n) /\ row[n] \in Row
  BY <1>1, RowAtHand
<1>3. PICK r \in Row : /\ row' = [row EXCEPT ![n] = r]
                       /\ r.status = row[n].status /\ r.fresh = row[n].fresh
  <2>1. call[c] \in CallState /\ call[c].seen < MaxAttempts
    BY <1>1 DEF ResetInv, TypeOK, CallsHaveRows
  <2>2. call[c].seen \in 0..MaxAttempts
    BY <2>1 DEF CallState
  <2>3. QED
    BY <1>2, <2>1, <2>2, WithAttemptFacts, FreshFacts DEF VerifyWrong
<1>4. PICK v : v = View(n)'
  OBVIOUS
<1>5. /\ \A k \in Number : k # n => View(k)' = View(k)
      /\ n \in raced => View(n)' = View(n)
      /\ n \notin raced => /\ Stored(n)' /\ row'[n] = r /\ ~Changing(n)'
                           /\ Changing(n) <=> call[c].at = "complete"
  <2>1. call[c].at \notin {"idle", "insert"} /\ UNCHANGED <<changes, raced>>
    BY <1>1
  <2>2. \A k \in Number : k # n => answered'[k] = answered[k]
    BY <1>2 DEF VerifyWrong, Answered, ResetInv, TypeOK
  <2>3. End(c) /\ call[c].no = n /\ row' = [row EXCEPT ![n] = r]
    BY <1>1, <1>2, <1>3
  <2>4. QED
    BY <2>1, <2>2, <2>3, CommitViews
<1>6. CASE n \in raced
  BY <1>1, <1>5, <1>6, Nothing
<1>7. CASE n \notin raced
  <2>1. row[n].status = "pending" /\ answered[n] = row[n].attempts /\ row[n].attempts < MaxAttempts
    BY <1>1, <1>2, <1>7 DEF ResetInv, ReadsHold, ReasonsHold, CallsHaveRows
  <2>2. /\ View(n).holds = "code" /\ View(n).tries = answered[n]
        /\ View(n).sets = changes[n] /\ View(n).fresh = row[n].fresh
    BY <1>2, <1>7, <2>1, OpenView
  <2>3. v = [holds |-> "code", tries |-> answered[n] + 1, sets |-> changes[n], fresh |-> row[n].fresh]
    <3>1. answered'[n] = answered[n] + 1
      BY <1>2, <1>7 DEF VerifyWrong, Answered, ResetInv, TypeOK
    <3>2. QED
      BY <1>1, <1>3, <1>4, <1>5, <1>7, <2>1, <3>1, ViewAfter, RightFacts
  <2>4. Looks' = [Looks EXCEPT ![n] = v]
    BY <1>4, <1>5, OneRequest
  <2>5. Requests!Miss(n)
    BY <1>1, <2>1, <2>2, <2>3, <2>4
    DEF Looks, Requests!Miss, Requests!Is, Requests!Fresh, Requests!Tries, Requests!Sets,
        Requests!Becomes
  <2>6. QED
    BY <2>5, Operation
<1>8. QED
  BY <1>6, <1>7

LEMMA RightAtomic == ASSUME ResetInv, ReasonsHold, NEW c \in Call, VerifyRight(c) PROVE Atomic
<1>1. call[c].at = "verify" /\ End(c) /\ UNCHANGED <<changes, raced, faults>>
  BY DEF VerifyRight
<1>2. PICK n \in Number : call[c].no = n /\ Stored(n) /\ row[n] \in Row
  BY <1>1, RowAtHand
<1>3. PICK r \in Row : /\ row' = [row EXCEPT ![n] = r]
                       /\ r.status = "verified" /\ r.fresh = TRUE
  <2>1. call[c] \in CallState /\ call[c].seen < MaxAttempts
    BY <1>1 DEF ResetInv, TypeOK, CallsHaveRows
  <2>2. call[c].seen \in 0..MaxAttempts
    BY <2>1 DEF CallState
  <2>3. QED
    BY <1>2, <2>1, <2>2, VerifiedFacts, FreshFacts DEF VerifyRight
<1>4. PICK v : v = View(n)'
  OBVIOUS
<1>5. /\ \A k \in Number : k # n => View(k)' = View(k)
      /\ n \in raced => View(n)' = View(n)
      /\ n \notin raced => /\ Stored(n)' /\ row'[n] = r /\ ~Changing(n)'
                           /\ Changing(n) <=> call[c].at = "complete"
  <2>1. call[c].at \notin {"idle", "insert"} /\ UNCHANGED <<changes, raced>>
    BY <1>1
  <2>2. \A k \in Number : k # n => answered'[k] = answered[k]
    BY <1>2 DEF VerifyRight, Answered, ResetInv, TypeOK
  <2>3. End(c) /\ call[c].no = n /\ row' = [row EXCEPT ![n] = r]
    BY <1>1, <1>2, <1>3
  <2>4. QED
    BY <2>1, <2>2, <2>3, CommitViews
<1>6. CASE n \in raced
  BY <1>1, <1>5, <1>6, Nothing
<1>7. CASE n \notin raced
  <2>1. row[n].status = "pending" /\ answered[n] = row[n].attempts /\ row[n].attempts < MaxAttempts
    BY <1>1, <1>2, <1>7 DEF ResetInv, ReadsHold, ReasonsHold, CallsHaveRows
  <2>2. /\ View(n).holds = "code" /\ View(n).tries = answered[n]
        /\ View(n).sets = changes[n] /\ View(n).fresh = row[n].fresh
    BY <1>2, <1>7, <2>1, OpenView
  <2>3. v = [holds |-> "token", tries |-> answered[n] + 1, sets |-> changes[n], fresh |-> TRUE]
    <3>1. answered'[n] = answered[n] + 1
      BY <1>2, <1>7 DEF VerifyRight, Answered, ResetInv, TypeOK
    <3>2. QED
      BY <1>1, <1>3, <1>4, <1>5, <1>7, <2>1, <3>1, ViewAfter, RightFacts
  <2>4. Looks' = [Looks EXCEPT ![n] = v]
    BY <1>4, <1>5, OneRequest
  <2>5. Requests!Hit(n)
    BY <1>1, <2>1, <2>2, <2>3, <2>4
    DEF Looks, Requests!Hit, Requests!Is, Requests!Fresh, Requests!Tries, Requests!Sets,
        Requests!Becomes
  <2>6. QED
    BY <2>5, Operation
<1>8. QED
  BY <1>6, <1>7

LEMMA CompleteAtomic == ASSUME ResetInv, ReasonsHold, NEW c \in Call, CompleteCommit(c) PROVE Atomic
<1>1. call[c].at = "complete" /\ End(c) /\ UNCHANGED <<changes, raced, answered, faults>>
  BY DEF CompleteCommit, history
<1>2. PICK n \in Number : call[c].no = n /\ Stored(n) /\ row[n] \in Row
  BY <1>1, RowAtHand
<1>3. PICK r \in Row : /\ row' = [row EXCEPT ![n] = r]
                       /\ r.status = "completed" /\ r.fresh = row[n].fresh
  BY <1>2, WithStatusFacts, FreshFacts DEF Status, CompleteCommit
<1>4. PICK v : v = View(n)'
  OBVIOUS
<1>5. /\ \A k \in Number : k # n => View(k)' = View(k)
      /\ n \in raced => View(n)' = View(n)
      /\ n \notin raced => /\ Stored(n)' /\ row'[n] = r /\ ~Changing(n)'
                           /\ Changing(n) <=> call[c].at = "complete"
  <2>1. call[c].at \notin {"idle", "insert"} /\ UNCHANGED <<changes, raced>>
    BY <1>1
  <2>2. \A k \in Number : k # n => answered'[k] = answered[k]
    BY <1>1
  <2>3. End(c) /\ call[c].no = n /\ row' = [row EXCEPT ![n] = r]
    BY <1>1, <1>2, <1>3
  <2>4. QED
    BY <2>1, <2>2, <2>3, CommitViews
<1>6. CASE n \in raced
  BY <1>1, <1>5, <1>6, Nothing
<1>7. CASE n \notin raced
  <2>1. row[n].status = "verified" /\ Changing(n)
    BY <1>1, <1>2, <1>5, <1>7 DEF ResetInv, ReadsHold
  <2>2. /\ View(n).holds = "spent" /\ View(n).tries = answered[n]
        /\ View(n).sets = changes[n] /\ View(n).fresh = row[n].fresh
    BY <1>2, <1>7, <2>1, OpenView
  <2>3. v = [holds |-> "record", tries |-> answered[n], sets |-> changes[n], fresh |-> row[n].fresh]
    BY <1>1, <1>3, <1>4, <1>5, <1>7, ViewAfter, RightFacts
  <2>4. Looks' = [Looks EXCEPT ![n] = v]
    BY <1>4, <1>5, OneRequest
  <2>5. Requests!Settle(n)
    BY <1>1, <2>1, <2>2, <2>3, <2>4
    DEF Looks, Requests!Settle, Requests!Is, Requests!Fresh, Requests!Tries, Requests!Sets,
        Requests!Becomes
  <2>6. QED
    BY <2>5, Operation
<1>8. QED
  BY <1>6, <1>7

\* Whether a request is about to be completed depends on the calls that are.
LEMMA SameChanging ==
  ASSUME NEW k \in Number, NEW c \in Call, \A d \in Call : d # c => call'[d] = call[d],
         (call'[c].at = "complete" /\ call'[c].no = k) <=> (call[c].at = "complete" /\ call[c].no = k)
  PROVE  Changing(k)' <=> Changing(k)
<1>1. \A d \in Call : (call'[d].at = "complete" /\ call'[d].no = k)
                          <=> (call[d].at = "complete" /\ call[d].no = k)
  OBVIOUS
<1>2. QED
  BY <1>1 DEF Changing

LEMMA RequestSelectAtomic ==
  ASSUME ResetInv, NEW c \in Call, NEW u \in User, RequestSelect(c, u) PROVE Atomic
<1>1. /\ call[c].at = "idle" /\ UNCHANGED <<row, changes, raced, answered, faults>>
      /\ call' = [call EXCEPT ![c] = [at |-> "insert", user |-> u, no |-> issued + 1, seen |-> 0]]
  BY DEF RequestSelect
<1>2. /\ \A d \in Call : d # c => call'[d] = call[d]
      /\ call'[c].at = "insert"
  BY <1>1 DEF ResetInv, TypeOK
<1>3. ASSUME NEW k \in Number PROVE View(k)' = View(k)
  <2>1. Changing(k)' <=> Changing(k)
    BY <1>1, <1>2, SameChanging
  <2>2. QED
    BY <1>1, <2>1, SameView DEF Stored
<1>4. QED
  BY <1>1, <1>3, Nothing

\* The insert is what the user asked for: its number was nothing to anybody.
LEMMA RequestCommitAtomic == ASSUME ResetInv, NEW c \in Call, RequestCommit(c) PROVE Atomic
<1> DEFINE w == [user |-> call[c].user, status |-> "pending", attempts |-> 0,
                 recent |-> TRUE, fresh |-> TRUE]
<1>1. /\ call[c].at = "insert" /\ End(c) /\ UNCHANGED <<changes, raced, answered, faults>>
      /\ row' = [row EXCEPT ![call[c].no] = w]
  BY DEF RequestCommit, history
<1>2. w \in Row /\ w.status = "pending" /\ w.fresh = TRUE
  BY <1>1, ResetAssumption DEF Row, Status, ResetInv, CallsHaveRows
<1> HIDE DEF w
<1>3. PICK n \in Number : call[c].no = n /\ ~Stored(n)
  <2>1. call[c].no # 0 /\ ~Stored(call[c].no) /\ call[c] \in CallState
    BY <1>1 DEF ResetInv, TypeOK, CallsHaveRows
  <2>2. call[c].no \in Number
    BY <2>1, ResetAssumption DEF CallState, Number
  <2>3. QED
    BY <2>1, <2>2
<1>4. /\ \A d \in Call : d # c => call'[d] = call[d]
      /\ call'[c].at = "idle"
  BY <1>1, IdleFacts DEF ResetInv, TypeOK, End
<1>5. ASSUME NEW k \in Number, k # n PROVE View(k)' = View(k)
  <2>1. row'[k] = row[k]
    BY <1>1, <1>3, <1>5 DEF ResetInv, TypeOK
  <2>2. Changing(k)' <=> Changing(k)
    BY <1>1, <1>4, SameChanging
  <2>3. QED
    BY <1>1, <2>1, <2>2, SameView DEF Stored
<1>6. answered[n] = 0 /\ changes[n] = 0 /\ n \notin raced
  BY <1>3 DEF ResetInv, UnusedRows
<1>7. row'[n] = w /\ Stored(n)' /\ ~Changing(n)'
  <2>1. row'[n] = w
    BY <1>1, <1>3 DEF ResetInv, TypeOK
  <2>2. \A d \in Call : call'[d].at = "complete" => call'[d].no # n
    BY <1>3, <1>4 DEF ResetInv, CallsHaveRows
  <2>3. QED
    BY <1>2, <2>1, <2>2, NullIsNoRow DEF Changing, Stored
<1>8. PICK v : v = View(n)'
  OBVIOUS
<1>9. v = [holds |-> "code", tries |-> 0, sets |-> 0, fresh |-> TRUE]
  BY <1>1, <1>2, <1>6, <1>7, <1>8, ViewAfter, RightFacts
<1>10. View(n).holds = "nothing"
  BY <1>3, <1>6 DEF View, Bare
<1>11. Looks' = [Looks EXCEPT ![n] = v]
  BY <1>5, <1>8, OneRequest
<1>12. Requests!Ask(n)
  BY <1>1, <1>9, <1>10, <1>11 DEF Looks, Requests!Ask, Requests!Is, Requests!Plain
<1>13. QED
  BY <1>12, Operation

\* LDAP has the password: the token is spent, before any commit says so.
LEMMA CompleteModifyAtomic == ASSUME ResetInv, NEW c \in Call, CompleteModify(c) PROVE Atomic
<1>1. /\ call[c].at = "modify" /\ UNCHANGED <<row, raced, answered, faults>>
      /\ changes' = [changes EXCEPT ![call[c].no] = @ + 1]
      /\ call' = [call EXCEPT ![c] = Committing(call[c])]
  BY DEF CompleteModify, history
<1>2. PICK n \in Number : call[c].no = n /\ Stored(n) /\ row[n] \in Row /\ n # 0
  BY <1>1, RowAtHand
<1>3. /\ \A d \in Call : d # c => call'[d] = call[d]
      /\ call'[c].at = "complete" /\ call'[c].no = n
  <2>1. call[c] \in CallState
    BY DEF ResetInv, TypeOK
  <2>2. QED
    BY <1>1, <1>2, <2>1, CommittingFacts DEF ResetInv, TypeOK
<1>4. ASSUME NEW k \in Number, k # n PROVE View(k)' = View(k)
  <2>1. changes'[k] = changes[k]
    BY <1>1, <1>2, <1>4 DEF ResetInv, TypeOK
  <2>2. Changing(k)' <=> Changing(k)
    BY <1>1, <1>2, <1>3, <1>4, SameChanging
  <2>3. QED
    BY <1>1, <2>1, <2>2, SameView DEF Stored
<1>5. CASE n \in raced
  <2>1. View(n)' = View(n)
    BY <1>1, <1>5 DEF View, Bare
  <2>2. QED
    BY <1>1, <1>4, <2>1, Nothing
<1>6. CASE n \notin raced
  <2>1. row[n].status = "verified" /\ changes[n] <= faults
    BY <1>1, <1>2, <1>6 DEF ResetInv, ReadsHold
  <2>2. ~Changing(n) /\ Changing(n)'
    BY <1>1, <1>2, <1>3, <1>6, Alone DEF Changing
  <2>3. /\ View(n).holds = "token" /\ View(n).tries = answered[n]
        /\ View(n).sets = changes[n] /\ View(n).fresh = row[n].fresh
    BY <1>2, <1>6, <2>1, <2>2, OpenView
  <2>4. PICK v : v = View(n)'
    OBVIOUS
  <2>5. v = [holds |-> "spent", tries |-> answered[n], sets |-> changes[n] + 1,
             fresh |-> row[n].fresh]
    <3>1. changes'[n] = changes[n] + 1
      BY <1>1, <1>2 DEF ResetInv, TypeOK
    <3>2. Holds(n)' = "spent"
      BY <1>1, <2>1, <2>2 DEF Holds
    <3>3. View(n)' = [holds |-> Holds(n)', tries |-> answered'[n], sets |-> changes'[n],
                      fresh |-> row'[n].fresh]
      BY <1>1, <1>2, <1>6 DEF View, Stored
    <3>4. QED
      BY <1>1, <2>4, <3>1, <3>2, <3>3
  <2>6. Looks' = [Looks EXCEPT ![n] = v]
    BY <1>4, <2>4, OneRequest
  <2>7. Requests!Set(n)
    BY <1>1, <2>1, <2>3, <2>5, <2>6
    DEF Looks, Requests!Set, Requests!Is, Requests!Fresh, Requests!Tries, Requests!Sets,
        Requests!Becomes
  <2>8. QED
    BY <2>7, Operation
<1>7. QED
  BY <1>5, <1>6

\* A failure between the LDAP write and its commit gives the token back.
LEMMA CallFailsAtomic == ASSUME ResetInv, NEW c \in Call, CallFails(c) PROVE Atomic
<1>1. /\ call[c].at # "idle" /\ End(c) /\ faults' = faults + 1
      /\ UNCHANGED <<row, changes, raced, answered>>
  BY DEF CallFails, Fault, history
<1>2. /\ \A d \in Call : d # c => call'[d] = call[d]
      /\ call'[c].at = "idle"
  BY <1>1, IdleFacts DEF ResetInv, TypeOK, End
<1>3. ASSUME NEW k \in Number, ~(call[c].at = "complete" /\ call[c].no = k) PROVE View(k)' = View(k)
  <2>1. Changing(k)' <=> Changing(k)
    BY <1>2, <1>3, SameChanging
  <2>2. QED
    BY <1>1, <2>1, SameView DEF Stored
<1>4. CASE call[c].at # "complete"
  BY <1>1, <1>3, <1>4, Nothing
<1>5. CASE call[c].at = "complete"
  <2>1. PICK n \in Number : call[c].no = n /\ Stored(n) /\ row[n] \in Row /\ n # 0
    BY <1>5, RowAtHand
  <2>2. \A k \in Number : k # n => View(k)' = View(k)
    BY <1>3, <2>1
  <2>3. CASE n \in raced
    <3>1. View(n)' = View(n)
      BY <1>1, <2>3 DEF View, Bare
    <3>2. QED
      BY <1>1, <2>2, <3>1, Nothing
  <2>4. CASE n \notin raced
    <3>1. row[n].status = "verified" /\ Changing(n)
      BY <1>5, <2>1, <2>4 DEF ResetInv, ReadsHold, Changing
    <3>2. ~Changing(n)'
      <4>1. \A d \in Call : d # c => call[d].no # n
        BY <2>1, <2>4, Alone
      <4>2. QED
        BY <1>2, <4>1 DEF Changing
    <3>3. /\ View(n).holds = "spent" /\ View(n).tries = answered[n]
          /\ View(n).sets = changes[n] /\ View(n).fresh = row[n].fresh
      BY <2>1, <2>4, <3>1, OpenView
    <3>4. PICK v : v = View(n)'
      OBVIOUS
    <3>5. v = [holds |-> "token", tries |-> answered[n], sets |-> changes[n],
               fresh |-> row[n].fresh]
      <4>1. row'[n] = row[n] /\ Stored(n)' /\ n \notin raced'
        BY <1>1, <2>1, <2>4 DEF Stored
      <4>2. PICK r \in Row : r = row[n]
        BY <2>1
      <4>3. View(n)' = [holds |-> Right[r.status], tries |-> answered'[n], sets |-> changes'[n],
                        fresh |-> r.fresh]
        BY <3>2, <4>1, <4>2, ViewAfter
      <4>4. QED
        BY <1>1, <3>1, <3>4, <4>2, <4>3, RightFacts
    <3>6. Looks' = [Looks EXCEPT ![n] = v]
      BY <2>2, <3>4, OneRequest
    <3>7. Requests!GiveBack(n)
      BY <1>1, <3>3, <3>5, <3>6
      DEF Looks, Requests!GiveBack, Requests!Is, Requests!Fresh, Requests!Tries, Requests!Sets,
          Requests!Becomes
    <3>8. QED
      BY <3>7, Operation
  <2>5. QED
    BY <2>3, <2>4
<1>6. QED
  BY <1>4, <1>5

\* A call that reads changes nothing, unless it meets another one on an open request.
LEMMA TakeAtomic ==
  ASSUME ResetInv, NEW c \in Call, NEW n \in Number, NEW stage \in Stage, stage # "complete",
         call[c].at = "idle", Stored(n), row[n].status \in {"pending", "verified"},
         Take(c, n, stage)
  PROVE  Atomic
<1> DEFINE s == [at |-> stage, user |-> row[n].user, no |-> n, seen |-> row[n].attempts]
<1>1. /\ call' = [call EXCEPT ![c] = s] /\ UNCHANGED <<row, changes, answered, faults>>
      /\ s.at = stage
      /\ \A k : k # n => (k \in raced' <=> k \in raced)
      /\ n \in raced => n \in raced'
  BY DEF Take
<1> HIDE DEF s
<1>2. /\ \A d \in Call : d # c => call'[d] = call[d]
      /\ call'[c].at # "complete"
  BY <1>1 DEF ResetInv, TypeOK
<1>3. ASSUME NEW k \in Number, k \in raced' <=> k \in raced PROVE View(k)' = View(k)
  <2>1. Changing(k)' <=> Changing(k)
    BY <1>2, SameChanging
  <2>2. QED
    BY <1>1, <1>3, <2>1, SameView DEF Stored
<1>4. CASE n \in raced' <=> n \in raced
  BY <1>1, <1>3, <1>4, Nothing
<1>5. CASE n \in raced' /\ n \notin raced
  <2>1. View(n).holds \in {"code", "token", "spent"}
    BY <1>5, OpenView
  <2>2. PICK v : v = View(n)'
    OBVIOUS
  <2>3. v = [holds |-> "contested", tries |-> 0, sets |-> 0, fresh |-> TRUE]
    BY <1>5, <2>2 DEF View, Bare
  <2>4. Looks' = [Looks EXCEPT ![n] = v]
    BY <1>1, <1>3, <2>2, OneRequest
  <2>5. Requests!Meet(n)
    BY <1>1, <2>1, <2>3, <2>4 DEF Looks, Requests!Meet, Requests!Is, Requests!Plain
  <2>6. QED
    BY <2>5, Operation
<1>6. QED
  BY <1>1, <1>4, <1>5

LEMMA VerifySelectAtomic ==
  ASSUME ResetInv, NEW c \in Call, NEW u \in User, NEW right \in BOOLEAN, VerifySelect(c, u, right)
  PROVE  Atomic
<1> DEFINE stage(n) == CASE ~row[n].fresh -> "expire"
                         [] row[n].fresh /\ Exhausted(n) -> "lock"
                         [] row[n].fresh /\ ~Exhausted(n) -> IF right THEN "verify" ELSE "count"
<1>1. PICK n \in Number : IsNewest(n, u) /\ Take(c, n, stage(n)) /\ call[c].at = "idle"
  BY DEF VerifySelect
<1>2. Stored(n) /\ row[n].status \in {"pending", "verified"} /\ row[n] \in Row
  BY <1>1 DEF IsNewest, OpenRows, RowsOf, Stored, ResetInv, TypeOK
<1>3. stage(n) \in {"expire", "lock", "verify", "count"}
  BY <1>2 DEF Row
<1> HIDE DEF stage
<1>4. QED
  BY <1>1, <1>2, <1>3, TakeAtomic DEF Stage

LEMMA CompleteSelectAtomic ==
  ASSUME ResetInv, NEW c \in Call, NEW n \in Number, CompleteSelect(c, n) PROVE Atomic
<1>1. PICK stage \in {"modify", "expire"} : Take(c, n, stage)
  BY DEF CompleteSelect
<1>2. QED
  BY <1>1, TakeAtomic DEF CompleteSelect, Completable, Stage

LEMMA WindowPassesAtomic == ASSUME ResetInv, NEW n \in Number, WindowPasses(n) PROVE Atomic
<1>1. /\ UNCHANGED <<changes, call, raced, answered, faults>> /\ Stored(n) /\ row[n] \in Row
      /\ row' = [row EXCEPT ![n] = OutOfWindow(row[n])]
  BY DEF WindowPasses, Stored, history, ResetInv, TypeOK
<1>2. PICK r \in Row : /\ row' = [row EXCEPT ![n] = r]
                       /\ r.status = row[n].status /\ r.fresh = row[n].fresh
  BY <1>1, ClockFacts, FreshFacts
<1>3. ASSUME NEW k \in Number PROVE View(k)' = View(k)
  <2>1. /\ Stored(k)' <=> Stored(k)
        /\ row'[k].status = row[k].status /\ row'[k].fresh = row[k].fresh
    BY <1>1, <1>2, NullIsNoRow DEF ResetInv, TypeOK, Stored
  <2>2. Changing(k)' <=> Changing(k)
    BY <1>1 DEF Changing
  <2>3. QED
    BY <1>1, <2>1, <2>2, SameView
<1>4. QED
  BY <1>1, <1>3, Nothing

LEMMA ExpiresAtomic == ASSUME ResetInv, NEW n \in Number, Expires(n) PROVE Atomic
<1>1. /\ UNCHANGED <<changes, call, raced, answered, faults>> /\ Stored(n) /\ row[n] \in Row
      /\ row' = [row EXCEPT ![n] = OutOfTime(row[n])]
      /\ row[n].status \in {"pending", "verified"}
  BY DEF Expires, Stored, history, ResetInv, TypeOK
<1>2. PICK r \in Row : /\ row' = [row EXCEPT ![n] = r]
                       /\ r.status = row[n].status /\ r.fresh = FALSE
  BY <1>1, ClockFacts, FreshFacts
<1>3. \A k \in Number : Changing(k)' <=> Changing(k)
  BY <1>1 DEF Changing
<1>4. ASSUME NEW k \in Number, k # n PROVE View(k)' = View(k)
  <2>1. row'[k] = row[k]
    BY <1>2, <1>4 DEF ResetInv, TypeOK
  <2>2. QED
    BY <1>1, <1>3, <2>1, SameView DEF Stored
<1>5. CASE n \in raced
  <2>1. View(n)' = View(n)
    BY <1>1, <1>5 DEF View, Bare
  <2>2. QED
    BY <1>1, <1>4, <2>1, Nothing
<1>6. CASE n \notin raced
  <2>1. row'[n] = r /\ Stored(n)'
    BY <1>1, <1>2, NullIsNoRow DEF ResetInv, TypeOK, Stored
  <2>2. Holds(n)' = Holds(n)
    BY <1>2, <1>3, <2>1 DEF Holds
  <2>3. /\ View(n).holds = Holds(n) /\ Holds(n) \in {"code", "token", "spent"}
        /\ View(n).tries = answered[n] /\ View(n).sets = changes[n]
    BY <1>1, <1>6, OpenView
  <2>4. PICK v : v = View(n)'
    OBVIOUS
  <2>5. v = [holds |-> Holds(n), tries |-> answered[n], sets |-> changes[n], fresh |-> FALSE]
    <3>1. View(n)' = [holds |-> Holds(n)', tries |-> answered'[n], sets |-> changes'[n],
                      fresh |-> row'[n].fresh]
      BY <1>1, <1>6, <2>1 DEF View
    <3>2. QED
      BY <1>1, <1>2, <2>1, <2>2, <2>4, <3>1
  <2>6. Looks' = [Looks EXCEPT ![n] = v]
    BY <1>4, <2>4, OneRequest
  <2>7. Requests!TimeIsUp(n)
    BY <1>1, <2>3, <2>5, <2>6
    DEF Looks, Requests!TimeIsUp, Requests!Is, Requests!Tries, Requests!Sets, Requests!Becomes
  <2>8. QED
    BY <2>7, Operation
<1>7. QED
  BY <1>5, <1>6

\* The reasons: a commit rewrites the row of its own call.
LEMMA CommitReasons ==
  ASSUME ResetInv, ReasonsHold, NEW c \in Call, call[c].at \notin {"idle", "insert"}, End(c),
         NEW n \in Number, call[c].no = n, NEW r \in Row, row' = [row EXCEPT ![n] = r],
         UNCHANGED raced, \A k \in Number : k # n => answered'[k] = answered[k],
         n \notin raced => answered'[n] = r.attempts
  PROVE  ReasonsHold'
<1>1. \A d \in Call : call'[d] = IF d = c THEN Idle ELSE call[d]
  BY DEF ResetInv, TypeOK, End
<1>2. /\ row'[n] = r
      /\ \A k \in Number : k # n => row'[k] = row[k]
  BY DEF ResetInv, TypeOK
<1>3. ASSUME NEW d \in Call, call'[d].no \notin raced, call'[d].at \in {"expire", "lock"}
      PROVE  row'[call'[d].no] = row[call'[d].no] /\ call'[d] = call[d]
  <2>1. d # c /\ call'[d] = call[d]
    BY <1>1, <1>3, IdleFacts
  <2>2. call[d].no \in Number /\ n # 0
    BY <1>3, <2>1, RowAtHand
  <2>3. call[d].no # n
    BY <1>3, <2>1, <2>2, Alone
  <2>4. QED
    BY <1>2, <2>1, <2>2, <2>3
<1>4. ASSUME NEW k \in Number, Stored(k)', k \notin raced PROVE answered'[k] = row'[k].attempts
  <2>1. CASE k = n
    BY <1>2, <1>4, <2>1
  <2>2. CASE k # n
    BY <1>2, <1>4, <2>2 DEF Stored, ReasonsHold
  <2>3. QED
    BY <2>1, <2>2
<1>5. QED
  BY <1>3, <1>4 DEF ReasonsHold

\* A step that rewrites no row, and puts no call before an end but c, with its reason.
LEMMA ReadingReasons ==
  ASSUME ResetInv, ReasonsHold, NEW c \in Call, \A d \in Call : d # c => call'[d] = call[d],
         UNCHANGED <<row, answered>>, raced \subseteq raced',
         call'[c].at = "expire" => ~row[call'[c].no].fresh,
         call'[c].at = "lock" => row[call'[c].no].attempts = MaxAttempts
  PROVE  ReasonsHold'
<1>1. ASSUME NEW d \in Call, call'[d].no \notin raced'
      PROVE  /\ call'[d].at = "expire" => ~row'[call'[d].no].fresh
             /\ call'[d].at = "lock" => row'[call'[d].no].attempts = MaxAttempts
  <2>1. CASE d = c
    BY <2>1
  <2>2. CASE d # c
    BY <1>1, <2>2 DEF ReasonsHold
  <2>3. QED
    BY <2>1, <2>2
<1>2. \A k \in Number : Stored(k)' /\ k \notin raced' => answered'[k] = row'[k].attempts
  BY DEF Stored, ReasonsHold
<1>3. QED
  BY <1>1, <1>2 DEF ReasonsHold

LEMMA StatusReasons ==
  ASSUME ResetInv, ReasonsHold, NEW c \in Call, ExpireCommit(c) \/ LockCommit(c) \/ CompleteCommit(c)
  PROVE  ReasonsHold'
<1>1. /\ call[c].at \notin {"idle", "insert"} /\ End(c) /\ UNCHANGED <<raced, answered>>
      /\ \E s \in Status : row' = [row EXCEPT ![call[c].no] = WithStatus(row[call[c].no], s)]
  BY DEF ExpireCommit, LockCommit, CompleteCommit, Status, history
<1>2. PICK n \in Number : call[c].no = n /\ Stored(n) /\ row[n] \in Row
  BY <1>1, RowAtHand
<1>3. PICK r \in Row : row' = [row EXCEPT ![n] = r] /\ r.attempts = row[n].attempts
  <2>1. PICK s \in Status : row' = [row EXCEPT ![n] = WithStatus(row[n], s)]
    BY <1>1, <1>2
  <2>2. WithStatus(row[n], s) \in Row /\ WithStatus(row[n], s).attempts = row[n].attempts
    BY <1>2, WithStatusFacts
  <2>3. QED
    BY <2>1, <2>2
<1>4. n \notin raced => answered'[n] = r.attempts
  BY <1>1, <1>2, <1>3 DEF ReasonsHold
<1>5. \A k \in Number : k # n => answered'[k] = answered[k]
  BY <1>1
<1>6. QED
  BY <1>1, <1>2, <1>3, <1>4, <1>5, CommitReasons

LEMMA AnswerReasons ==
  ASSUME ResetInv, ReasonsHold, NEW c \in Call, VerifyWrong(c) \/ VerifyRight(c)
  PROVE  ReasonsHold'
<1>1. /\ call[c].at \in {"count", "verify"} /\ End(c) /\ UNCHANGED raced
      /\ answered' = Answered(call[c].no)
  BY DEF VerifyWrong, VerifyRight
<1>2. PICK n \in Number : call[c].no = n /\ Stored(n) /\ row[n] \in Row
  BY <1>1, RowAtHand
<1>3. PICK r \in Row : row' = [row EXCEPT ![n] = r] /\ r.attempts = call[c].seen + 1
  <2>1. call[c] \in CallState /\ call[c].seen < MaxAttempts
    BY <1>1 DEF ResetInv, TypeOK, CallsHaveRows
  <2>2. call[c].seen \in 0..MaxAttempts
    BY <2>1 DEF CallState
  <2>3. QED
    BY <1>2, <2>1, <2>2, WithAttemptFacts, VerifiedFacts DEF VerifyWrong, VerifyRight
<1>4. ASSUME n \notin raced PROVE answered'[n] = r.attempts
  <2>1. call[c].seen = row[n].attempts /\ answered[n] = row[n].attempts
    BY <1>1, <1>2, <1>4 DEF ReasonsHold, ResetInv, ReadsHold
  <2>2. answered'[n] = answered[n] + 1
    BY <1>1, <1>2, <1>4 DEF Answered, ResetInv, TypeOK
  <2>3. QED
    BY <1>3, <2>1, <2>2
<1>5. \A k \in Number : k # n => answered'[k] = answered[k]
  BY <1>1, <1>2 DEF Answered, ResetInv, TypeOK
<1>6. QED
  BY <1>1, <1>2, <1>3, <1>4, <1>5, CommitReasons

LEMMA TakeReasons ==
  ASSUME ResetInv, ReasonsHold, NEW c \in Call, NEW n \in Number, NEW stage, Take(c, n, stage),
         stage = "expire" => ~row[n].fresh, stage = "lock" => row[n].attempts = MaxAttempts
  PROVE  ReasonsHold'
<1> DEFINE s == [at |-> stage, user |-> row[n].user, no |-> n, seen |-> row[n].attempts]
<1>1. /\ call' = [call EXCEPT ![c] = s] /\ UNCHANGED <<row, answered>> /\ raced \subseteq raced'
      /\ s.at = stage /\ s.no = n
  BY DEF Take
<1> HIDE DEF s
<1>2. /\ \A d \in Call : d # c => call'[d] = call[d]
      /\ call'[c] = s
  BY <1>1 DEF ResetInv, TypeOK
<1>3. /\ call'[c].at = "expire" => ~row[call'[c].no].fresh
      /\ call'[c].at = "lock" => row[call'[c].no].attempts = MaxAttempts
  BY <1>1, <1>2
<1>4. QED
  BY <1>1, <1>2, <1>3, ReadingReasons

LEMMA SelectReasons ==
  ASSUME ResetInv, ReasonsHold, NEW c \in Call,
         \/ \E u \in User, right \in BOOLEAN : VerifySelect(c, u, right)
         \/ \E n \in Number : CompleteSelect(c, n)
  PROVE  ReasonsHold'
<1>1. ASSUME NEW u \in User, NEW right \in BOOLEAN, VerifySelect(c, u, right) PROVE ReasonsHold'
  <2> DEFINE stage(n) == CASE ~row[n].fresh -> "expire"
                           [] row[n].fresh /\ Exhausted(n) -> "lock"
                           [] row[n].fresh /\ ~Exhausted(n) -> IF right THEN "verify" ELSE "count"
  <2>1. PICK n \in Number : IsNewest(n, u) /\ Take(c, n, stage(n))
    BY <1>1 DEF VerifySelect
  <2>2. row[n] \in Row
    BY <2>1 DEF IsNewest, OpenRows, RowsOf, Stored, ResetInv, TypeOK
  <2>3. Exhausted(n) => row[n].attempts = MaxAttempts
    BY <2>2, ResetAssumption DEF Row, Exhausted
  <2>4. /\ stage(n) = "expire" => ~row[n].fresh
        /\ stage(n) = "lock" => row[n].attempts = MaxAttempts
    BY <2>2, <2>3 DEF Row
  <2> HIDE DEF stage
  <2>5. QED
    BY <2>1, <2>4, TakeReasons
<1>2. ASSUME NEW n \in Number, CompleteSelect(c, n) PROVE ReasonsHold'
  <2>1. PICK stage : Take(c, n, stage) /\ stage = IF row[n].fresh THEN "modify" ELSE "expire"
    BY <1>2 DEF CompleteSelect
  <2>2. stage = "expire" => ~row[n].fresh
    BY <2>1
  <2>3. stage # "lock"
    BY <2>1
  <2>4. QED
    BY <2>1, <2>2, <2>3, TakeReasons
<1>3. QED
  BY <1>1, <1>2

LEMMA RequestReasons ==
  ASSUME ResetInv, ReasonsHold, NEW c \in Call,
         (\E u \in User : RequestSelect(c, u)) \/ CompleteModify(c) \/ CallFails(c)
  PROVE  ReasonsHold'
<1>1. /\ UNCHANGED <<row, answered, raced>>
      /\ \E s : call' = [call EXCEPT ![c] = s] /\ s.at \in {"idle", "insert", "complete"}
  <2>1. CASE \E u \in User : RequestSelect(c, u)
    BY <2>1 DEF RequestSelect
  <2>2. CASE CompleteModify(c)
    <3>1. Committing(call[c]).at = "complete"
      BY CommittingFacts DEF ResetInv, TypeOK
    <3>2. QED
      BY <2>2, <3>1 DEF CompleteModify, history
  <2>3. CASE CallFails(c)
    BY <2>3, IdleFacts DEF CallFails, End, history
  <2>4. QED
    BY <2>1, <2>2, <2>3
<1>2. /\ \A d \in Call : d # c => call'[d] = call[d]
      /\ call'[c].at \notin {"expire", "lock"}
  BY <1>1 DEF ResetInv, TypeOK
<1>3. QED
  BY <1>1, <1>2, ReadingReasons

\* A new row has no answers, and no call at work on it.
LEMMA InsertReasons ==
  ASSUME ResetInv, ReasonsHold, NEW c \in Call, RequestCommit(c) PROVE ReasonsHold'
<1> DEFINE w == [user |-> call[c].user, status |-> "pending", attempts |-> 0,
                 recent |-> TRUE, fresh |-> TRUE]
<1>1. /\ call[c].at = "insert" /\ End(c) /\ UNCHANGED <<raced, answered>>
      /\ row' = [row EXCEPT ![call[c].no] = w] /\ w.attempts = 0
  BY DEF RequestCommit, history
<1> HIDE DEF w
<1>2. ~Stored(call[c].no)
  BY <1>1 DEF ResetInv, CallsHaveRows
<1>3. ASSUME NEW d \in Call, call'[d].no \notin raced', call'[d].at \in {"expire", "lock"}
      PROVE  row'[call'[d].no] = row[call'[d].no] /\ call'[d] = call[d]
  <2>1. call'[d] = call[d]
    BY <1>1, <1>3, IdleFacts DEF ResetInv, TypeOK, End
  <2>2. call[d].no \in Number /\ Stored(call[d].no)
    BY <1>3, <2>1, RowAtHand
  <2>3. call[d].no # call[c].no
    BY <1>2, <2>2
  <2>4. QED
    BY <1>1, <2>1, <2>2, <2>3 DEF ResetInv, TypeOK
<1>4. ASSUME NEW k \in Number, Stored(k)', k \notin raced PROVE answered'[k] = row'[k].attempts
  <2>1. CASE k = call[c].no
    <3>1. answered[k] = 0
      BY <1>2, <2>1 DEF ResetInv, UnusedRows
    <3>2. QED
      BY <1>1, <2>1, <3>1 DEF ResetInv, TypeOK
  <2>2. CASE k # call[c].no
    BY <1>1, <1>4, <2>2 DEF Stored, ReasonsHold, ResetInv, TypeOK
  <2>3. QED
    BY <2>1, <2>2
<1>5. QED
  BY <1>1, <1>3, <1>4 DEF ReasonsHold

\* The clock only takes time away.
LEMMA ClockReasons ==
  ASSUME ResetInv, ReasonsHold, NEW n \in Number, WindowPasses(n) \/ Expires(n) PROVE ReasonsHold'
<1>1. /\ UNCHANGED <<call, raced, answered>> /\ Stored(n) /\ row[n] \in Row
      /\ row' = [row EXCEPT ![n] = OutOfWindow(row[n])] \/ row' = [row EXCEPT ![n] = OutOfTime(row[n])]
  BY DEF WindowPasses, Expires, Stored, history, ResetInv, TypeOK
<1>2. PICK r \in Row : /\ row' = [row EXCEPT ![n] = r] /\ r.attempts = row[n].attempts
                       /\ r.fresh => row[n].fresh
  <2>1. CASE row' = [row EXCEPT ![n] = OutOfWindow(row[n])]
    <3>1. /\ OutOfWindow(row[n]) \in Row /\ OutOfWindow(row[n]).attempts = row[n].attempts
          /\ OutOfWindow(row[n]).fresh = row[n].fresh
      BY <1>1, ClockFacts, FreshFacts
    <3>2. QED
      BY <2>1, <3>1
  <2>2. CASE row' = [row EXCEPT ![n] = OutOfTime(row[n])]
    <3>1. /\ OutOfTime(row[n]) \in Row /\ OutOfTime(row[n]).attempts = row[n].attempts
          /\ OutOfTime(row[n]).fresh = FALSE
      BY <1>1, ClockFacts, FreshFacts
    <3>2. QED
      BY <2>2, <3>1
  <2>3. QED
    BY <1>1, <2>1, <2>2
<1>3. \A k \in Number : /\ Stored(k)' <=> Stored(k)
                        /\ row'[k].attempts = row[k].attempts
                        /\ row'[k].fresh => row[k].fresh
  BY <1>1, <1>2, NullIsNoRow DEF Stored, ResetInv, TypeOK
<1>4. \A d \in Call : call[d].at \in {"expire", "lock"} => call[d].no \in Number
  BY RowAtHand
<1>5. QED
  BY <1>1, <1>3, <1>4 DEF ReasonsHold

LEMMA ReasonsNext == ResetInv /\ ReasonsHold /\ [Next]_vars => ReasonsHold'
<1> SUFFICES ASSUME ResetInv, ReasonsHold, [Next]_vars PROVE ReasonsHold'
  OBVIOUS
<1>1. ASSUME NEW c \in Call, CallStep(c) PROVE ReasonsHold'
  BY <1>1, RequestReasons, InsertReasons, SelectReasons, StatusReasons, AnswerReasons DEF CallStep
<1>2. CASE UNCHANGED vars
  BY <1>2 DEF vars, ReasonsHold, Stored
<1>3. QED
  BY <1>1, <1>2, ClockReasons DEF Next

LEMMA StepAtomic == ResetInv /\ ReasonsHold /\ [Next]_vars => Atomic
<1> SUFFICES ASSUME ResetInv, ReasonsHold, [Next]_vars PROVE Atomic
  OBVIOUS
<1>1. ASSUME NEW c \in Call, CallStep(c) PROVE Atomic
  BY <1>1, RequestSelectAtomic, RequestCommitAtomic, VerifySelectAtomic, ExpireAtomic, LockAtomic,
     WrongAtomic, RightAtomic, CompleteSelectAtomic, CompleteModifyAtomic, CompleteAtomic,
     CallFailsAtomic DEF CallStep
<1>2. CASE UNCHANGED vars
  <2>1. \A k \in Number : View(k)' = View(k)
    BY <1>2, SameView DEF vars, Stored, Changing
  <2>2. QED
    BY <1>2, <2>1, Nothing DEF vars
<1>3. QED
  BY <1>1, <1>2, WindowPassesAtomic, ExpiresAtomic DEF Next

\* What a call read before it decided still holds when it commits, unless two calls
\* raced: an expired request is past its time, a locked one out of attempts, and
\* attempts counts every answer.
THEOREM ReasonsStillHold == Spec => []ReasonsHold
<1>1. Init => ReasonsHold
  BY IdleFacts DEF Init, ReasonsHold, Stored
<1>2. QED
  BY <1>1, ReasonsNext, ResetInvariant, PTL DEF Spec

\* Calls that read in one step and commit in another treat a request as if each
\* did its work at one moment: what request_reset, verify_otp and complete_reset
\* promise of a request, they keep unless two of them work on it at a time.
THEOREM RequestsAreAtomic == Spec => ImplementsRequests
<1>1. Init => Requests!AbsInit
  <2>1. Init => \A n \in Number : View(n) = [holds |-> "nothing", tries |-> 0, sets |-> 0, fresh |-> TRUE]
    BY DEF Init, View, Bare, Stored
  <2>2. QED
    BY <2>1 DEF Init, Requests!AbsInit, Requests!Plain
<1>2. Spec => [][Requests!AbsNext]_(Requests!absVars)
  <2>1. ResetInv /\ ReasonsHold /\ [Next]_vars => [Requests!AbsNext]_(Requests!absVars)
    BY StepAtomic DEF Atomic
  <2>2. QED
    BY <2>1, ResetInvariant, ReasonsStillHold, PTL DEF Spec
<1>3. QED
  BY <1>1, <1>2, PTL DEF Spec, ImplementsRequests, Requests!AbsSpec

\* The abstract requests by themselves: one operation on the table q of them.
Promised(q, f) ==
  /\ q \in [Number -> [holds : Requests!Holdings, tries : 0..MaxAttempts, sets : Nat,
                      fresh : BOOLEAN]]
  /\ f \in Nat
  /\ \A n \in Number : q[n].sets <= 1 + f /\ (q[n].holds \in {"spent", "record"} => q[n].sets > 0)

LEMMA PromisedStep ==
  ASSUME NEW q, NEW f, Promised(q, f), NEW n \in Number, NEW g \in {f, f + 1},
         NEW holds \in Requests!Holdings, NEW tries \in 0..MaxAttempts, NEW sets \in Nat,
         NEW fresh \in BOOLEAN, sets <= 1 + g, holds \in {"spent", "record"} => sets > 0,
         NEW r, r = [holds |-> holds, tries |-> tries, sets |-> sets, fresh |-> fresh]
  PROVE  Promised([q EXCEPT ![n] = r], g)
<1> DEFINE p == [q EXCEPT ![n] = r]
<1>1. /\ r \in [holds : Requests!Holdings, tries : 0..MaxAttempts, sets : Nat, fresh : BOOLEAN]
      /\ r.sets = sets /\ r.holds = holds
  OBVIOUS
<1>2. p[n] = r /\ \A m \in Number : m # n => p[m] = q[m]
  BY DEF Promised
<1>3. p \in [Number -> [holds : Requests!Holdings, tries : 0..MaxAttempts, sets : Nat,
                      fresh : BOOLEAN]]
  BY <1>1 DEF Promised
<1>4. g \in Nat /\ f <= g
  BY DEF Promised
<1>5. \A m \in Number : q[m].sets \in Nat
  BY DEF Promised
<1> HIDE DEF p
<1>6. ASSUME NEW m \in Number
      PROVE  p[m].sets <= 1 + g /\ (p[m].holds \in {"spent", "record"} => p[m].sets > 0)
  <2>1. CASE m = n
    BY <1>1, <1>2, <2>1
  <2>2. CASE m # n
    <3>1. p[m] = q[m] /\ q[m].sets \in Nat /\ f \in Nat
      BY <1>2, <1>5, <2>2 DEF Promised
    <3>2. q[m].sets <= 1 + f /\ (q[m].holds \in {"spent", "record"} => q[m].sets > 0)
      BY DEF Promised
    <3>3. QED
      BY <1>4, <3>1, <3>2
  <2>3. QED
    BY <2>1, <2>2
<1>7. Promised(p, g)
  BY <1>3, <1>4, <1>6 DEF Promised
<1>8. QED
  BY <1>7 DEF p

\* An operation on request n, by what it makes of it.
Turns(n, holds, tries, sets, fresh) ==
  Looks' = [Looks EXCEPT ![n] = [holds |-> holds, tries |-> tries, sets |-> sets, fresh |-> fresh]]

LEMMA TurnsPromised ==
  ASSUME Promised(Looks, faults), NEW n \in Number, faults' \in {faults, faults + 1},
         NEW holds \in Requests!Holdings, NEW tries \in 0..MaxAttempts, NEW sets \in Nat,
         NEW fresh \in BOOLEAN, sets <= 1 + faults', holds \in {"spent", "record"} => sets > 0,
         Turns(n, holds, tries, sets, fresh)
  PROVE  Promised(Looks', faults')
<1>1. PICK q, f, g : q = Looks /\ f = faults /\ g = faults'
  OBVIOUS
<1>2. PICK r : r = [holds |-> holds, tries |-> tries, sets |-> sets, fresh |-> fresh]
  OBVIOUS
<1>3. Promised(q, f) /\ g \in {f, f + 1} /\ sets <= 1 + g
  BY <1>1
<1>4. Promised([q EXCEPT ![n] = r], g)
  BY <1>2, <1>3, PromisedStep
<1>5. Looks' = [q EXCEPT ![n] = r]
  BY <1>1, <1>2 DEF Turns
<1>6. QED
  BY <1>1, <1>4, <1>5

LEMMA OperationPromised ==
  ASSUME Promised(Looks, faults), NEW n \in Number,
         Requests!Ask(n) \/ Requests!Miss(n) \/ Requests!Hit(n) \/ Requests!Set(n)
           \/ Requests!Settle(n) \/ Requests!GiveBack(n) \/ Requests!TimeIsUp(n)
           \/ Requests!Expire(n) \/ Requests!Lock(n) \/ Requests!Meet(n)
  PROVE  Promised(Looks', faults')
<1>1. PICK s : s = Looks[n]
  OBVIOUS
<1>2. /\ s.holds \in Requests!Holdings /\ s.tries \in 0..MaxAttempts /\ s.sets \in Nat
      /\ s.fresh \in BOOLEAN /\ s.sets <= 1 + faults /\ faults \in Nat
      /\ s.holds \in {"spent", "record"} => s.sets > 0
  BY <1>1 DEF Promised
<1>3. /\ Requests!Tries(n) = s.tries /\ Requests!Sets(n) = s.sets /\ Requests!Fresh(n) = s.fresh
      /\ \A holds : Requests!Is(n, holds) <=> s.holds \in holds
      /\ [m \in Number |-> View(m)][n] = s
  BY <1>1 DEF Looks, Requests!Tries, Requests!Sets, Requests!Fresh, Requests!Is
<1>4. \A holds, tries, sets, fresh :
        Requests!Becomes(n, holds, tries, sets, fresh) => Turns(n, holds, tries, sets, fresh)
  BY DEF Requests!Becomes, Turns, Looks
<1>5. /\ {"nothing", "code", "token", "spent", "record", "void", "contested"} = Requests!Holdings
      /\ 0 \in 0..MaxAttempts
      /\ s.tries < MaxAttempts => s.tries + 1 \in 0..MaxAttempts
  BY <1>2, ResetAssumption DEF Requests!Holdings
<1>6. CASE Requests!Ask(n)
  <2>1. Turns(n, "code", 0, 0, TRUE) /\ faults' = faults
    BY <1>6 DEF Requests!Ask, Requests!Plain, Turns, Looks
  <2>2. "code" \in Requests!Holdings \ {"spent", "record"} /\ 0 \in Nat /\ 0 <= 1 + faults'
    BY <2>1, <1>2, <1>5
  <2>3. QED
    BY <2>1, <2>2, <1>5, TurnsPromised
<1>7. CASE Requests!Miss(n)
  <2>1. Turns(n, "code", s.tries + 1, s.sets, s.fresh) /\ faults' = faults /\ s.tries < MaxAttempts
    BY <1>3, <1>4, <1>7 DEF Requests!Miss
  <2>2. QED
    BY <2>1, <1>2, <1>5, TurnsPromised
<1>8. CASE Requests!Hit(n)
  <2>1. Turns(n, "token", s.tries + 1, s.sets, TRUE) /\ faults' = faults /\ s.tries < MaxAttempts
    BY <1>3, <1>4, <1>8 DEF Requests!Hit
  <2>2. QED
    BY <2>1, <1>2, <1>5, TurnsPromised
<1>9. CASE Requests!Set(n)
  <2>1. Turns(n, "spent", s.tries, s.sets + 1, s.fresh) /\ faults' = faults /\ s.sets <= faults
    BY <1>3, <1>4, <1>9 DEF Requests!Set
  <2>2. s.sets + 1 \in Nat /\ s.sets + 1 > 0 /\ s.sets + 1 <= 1 + faults'
    BY <1>2, <2>1
  <2>3. QED
    BY <2>1, <2>2, <1>2, <1>5, TurnsPromised
<1>10. CASE Requests!Settle(n)
  <2>1. Turns(n, "record", s.tries, s.sets, s.fresh) /\ faults' = faults /\ s.holds = "spent"
    BY <1>3, <1>4, <1>10 DEF Requests!Settle
  <2>2. QED
    BY <2>1, <1>2, <1>5, TurnsPromised
<1>11. CASE Requests!GiveBack(n)
  <2>1. Turns(n, "token", s.tries, s.sets, s.fresh) /\ faults' = faults + 1
    BY <1>3, <1>4, <1>11 DEF Requests!GiveBack
  <2>2. s.sets <= 1 + faults'
    BY <1>2, <2>1
  <2>3. QED
    BY <2>1, <2>2, <1>2, <1>5, TurnsPromised
<1>12. CASE Requests!TimeIsUp(n)
  <2>1. Turns(n, s.holds, s.tries, s.sets, FALSE) /\ faults' = faults
    BY <1>3, <1>4, <1>12 DEF Requests!TimeIsUp
  <2>2. QED
    BY <2>1, <1>2, <1>5, TurnsPromised
<1>13. CASE Requests!Expire(n) \/ Requests!Lock(n)
  <2>1. Turns(n, "void", s.tries, s.sets, s.fresh) /\ faults' = faults
    BY <1>3, <1>4, <1>13 DEF Requests!Expire, Requests!Lock
  <2>2. QED
    BY <2>1, <1>2, <1>5, TurnsPromised
<1>14. CASE Requests!Meet(n)
  <2>1. Turns(n, "contested", 0, 0, TRUE) /\ faults' = faults
    BY <1>14 DEF Requests!Meet, Requests!Plain, Turns, Looks
  <2>2. "contested" \in Requests!Holdings \ {"spent", "record"} /\ 0 \in Nat /\ 0 <= 1 + faults'
    BY <2>1, <1>2, <1>5
  <2>3. QED
    BY <2>1, <2>2, <1>5, TurnsPromised
<1>15. QED
  BY <1>6, <1>7, <1>8, <1>9, <1>10, <1>11, <1>12, <1>13, <1>14

\* A code is tried MaxAttempts times at most, the password set once and once more per
\* failure, and set where the request is a record of it.
LEMMA ReliableMeans == Promised(Looks, faults) => Requests!Reliable
<1> SUFFICES ASSUME Promised(Looks, faults) PROVE Requests!Reliable
  OBVIOUS
<1>1. /\ Looks \in [Number -> [holds : Requests!Holdings, tries : 0..MaxAttempts, sets : Nat,
                             fresh : BOOLEAN]]
      /\ faults \in Nat
  BY DEF Promised
<1>2. ASSUME NEW n \in Number
      PROVE  /\ Requests!Sets(n) <= 1 + faults
             /\ Requests!Is(n, {"spent", "record"}) => Requests!Sets(n) > 0
  <2>1. Requests!Sets(n) = Looks[n].sets /\ (Requests!Is(n, {"spent", "record"})
                                               <=> Looks[n].holds \in {"spent", "record"})
    BY DEF Looks, Requests!Sets, Requests!Is
  <2>2. QED
    BY <2>1 DEF Promised
<1>3. QED
  BY <1>1, <1>2 DEF Looks, Requests!Reliable

\* What ResetRequests promises is enough for the users of whatever implements it.
THEOREM PromiseIsReliable == Requests!AbsSpec => []Requests!Reliable
<1> DEFINE I == Promised(Looks, faults)
<1>1. Requests!AbsInit => I
  <2> SUFFICES ASSUME Requests!AbsInit PROVE Promised(Looks, faults)
    OBVIOUS
  <2>1. /\ Looks = [n \in Number |-> [holds |-> "nothing", tries |-> 0, sets |-> 0, fresh |-> TRUE]]
        /\ faults = 0
    BY DEF Looks, Requests!AbsInit, Requests!Plain
  <2>2. QED
    BY <2>1, ResetAssumption DEF Promised, Requests!Holdings
<1>2. I /\ [Requests!AbsNext]_(Requests!absVars) => I'
  <2> SUFFICES ASSUME Promised(Looks, faults), [Requests!AbsNext]_(Requests!absVars)
               PROVE  Promised(Looks', faults')
    OBVIOUS
  <2>1. CASE Requests!Fail
    <3>1. Looks' = Looks /\ faults' = faults + 1
      BY <2>1 DEF Looks, Requests!Fail
    <3>2. /\ \A n \in Number : Looks[n].sets \in Nat /\ Looks[n].sets <= 1 + faults
          /\ faults \in Nat
      BY DEF Promised
    <3>3. \A n \in Number : Looks[n].sets <= 1 + faults'
      BY <3>1, <3>2
    <3>4. QED
      BY <3>1, <3>2, <3>3 DEF Promised
  <2>2. CASE UNCHANGED Requests!absVars
    BY <2>2 DEF Looks, Requests!absVars
  <2>3. QED
    BY <2>1, <2>2, OperationPromised DEF Requests!AbsNext
<1>3. I => Requests!Reliable
  BY ReliableMeans
<1> HIDE DEF I
<1>4. QED
  BY <1>1, <1>2, <1>3, PTL DEF Requests!AbsSpec
=============================================================================
