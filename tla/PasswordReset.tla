--------------------------- MODULE PasswordReset ---------------------------
(***************************************************************************)
(* The self-service password reset of a slave                              *)
(* (backend/app/services/password_reset_service.py behind api/v1/reset.py, *)
(* rows of models/password_reset.py).  A call of the API reads, decides    *)
(* and commits in separate steps, with an LDAP write in the last stage     *)
(* before its commit; calls interleave, and any of them may fail before    *)
(* its commit.  Codes and tokens are named by the request they belong to.  *)
(***************************************************************************)
EXTENDS Naturals

CONSTANTS
    User,         \* LDAP uids
    Call,         \* API calls that may be handled at the same time
    MaxAttempts,  \* max_attempts of every row
    MaxRows,      \* bound: reset requests
    MaxFaults,    \* bound: calls that fail before their commit
    Null          \* no row

ASSUME ResetAssumption ==
    MaxAttempts \in Nat \ {0} /\ MaxRows \in Nat /\ MaxFaults \in Nat

\* Requests are numbered by issued_at, the start of their transaction.
Number == 1..MaxRows

VARIABLES
    row,       \* the committed rows of password_reset_request
    issued,    \* numbers handed out so far
    changes,   \* per request: how often LDAP set userPassword on its behalf
    call,      \* the calls in progress
    together,  \* history: requests issued while another of the user was handled
    raced,     \* history: requests two calls worked on at the same time
    answered,  \* history: codes compared and answered, per request not raced
    faults

history == <<together, raced, answered>>
vars == <<row, issued, changes, call, together, raced, answered, faults>>

Status == {"pending", "verified", "completed", "expired", "locked"}
\* recent: within the throttle window; fresh: before expires_at, or, of a
\* verified row, completion_expires_at.  A verified row holds the hash of the
\* token last issued for it, so no other token finds it.
Row == [user : User, status : Status, attempts : 0..MaxAttempts,
        recent : BOOLEAN, fresh : BOOLEAN]
ASSUME NullIsNoRow == Null \notin Row

Stage == {"idle", "insert", "expire", "lock", "count", "verify", "modify", "complete"}
\* seen is the attempts column as the call read it.
CallState == [at : Stage, user : User \cup {Null}, no : 0..MaxRows, seen : 0..MaxAttempts]
Idle == [at |-> "idle", user |-> Null, no |-> 0, seen |-> 0]

TypeOK ==
    /\ row \in [Number -> Row \cup {Null}]
    /\ issued \in 0..MaxRows
    /\ changes \in [Number -> Nat]
    /\ call \in [Call -> CallState]
    /\ together \subseteq Number /\ raced \subseteq Number
    /\ answered \in [Number -> Nat]
    /\ faults \in Nat

Init ==
    /\ row = [n \in Number |-> Null]
    /\ issued = 0
    /\ changes = [n \in Number |-> 0]
    /\ call = [c \in Call |-> Idle]
    /\ together = {} /\ raced = {}
    /\ answered = [n \in Number |-> 0]
    /\ faults = 0

Stored(n) == row[n] # Null
RowsOf(u) == {n \in Number : Stored(n) /\ row[n].user = u}
Recent(u) == {n \in RowsOf(u) : row[n].recent}
Fault == faults < MaxFaults /\ faults' = faults + 1
End(c) == call' = [call EXCEPT ![c] = Idle]

\* Call c has read row n and goes on to a stage; whether another call is
\* at work on n is noted for the properties only.
Take(c, n, stage) ==
    /\ call' = [call EXCEPT ![c] = [at |-> stage, user |-> row[n].user, no |-> n,
                                    seen |-> row[n].attempts]]
    /\ raced' = IF \E d \in Call : call[d].no = n THEN raced \cup {n} ELSE raced
    /\ UNCHANGED <<row, issued, changes, together, answered, faults>>

-----------------------------------------------------------------------------
(* POST /reset/request.  A call that is refused changes nothing.           *)

ThrottledByPending(u) == \E n \in Recent(u) : row[n].status = "pending"
Throttled(u) == Recent(u) # {}
Issuing(u) == {call[c].no : c \in {d \in Call : call[d].at = "insert" /\ call[d].user = u}}

\* The user exists; no request of the last THROTTLE_WINDOW_SECONDS is found.
RequestSelect(c, u) ==
    /\ call[c].at = "idle"
    /\ issued < MaxRows
    /\ ~Throttled(u)
    /\ issued' = issued + 1
    /\ call' = [call EXCEPT ![c] = [at |-> "insert", user |-> u, no |-> issued + 1, seen |-> 0]]
    /\ together' = IF Issuing(u) = {} THEN together ELSE together \cup Issuing(u) \cup {issued + 1}
    /\ UNCHANGED <<row, changes, raced, answered, faults>>

\* The code was sent before this commit.
RequestCommit(c) ==
    /\ call[c].at = "insert"
    /\ row' = [row EXCEPT ![call[c].no] =
                  [user |-> call[c].user, status |-> "pending", attempts |-> 0,
                   recent |-> TRUE, fresh |-> TRUE]]
    /\ End(c)
    /\ UNCHANGED <<issued, changes, history, faults>>

-----------------------------------------------------------------------------
(* POST /reset/verify.                                                     *)

AnyRows(u) == RowsOf(u)
OpenRows(u) == {n \in RowsOf(u) : row[n].status \in {"pending", "verified"}}
IsNewest(n, u) == n \in OpenRows(u) /\ \A k \in OpenRows(u) : k <= n
ExhaustedLate(n) == row[n].attempts > MaxAttempts
Exhausted(n) == row[n].attempts >= MaxAttempts

\* A verified row answers ALREADY_VERIFIED, no row RESET_REQUEST_NOT_FOUND.
VerifySelect(c, u, right) ==
    /\ call[c].at = "idle"
    /\ \E n \in Number :
          /\ IsNewest(n, u) /\ row[n].status # "verified"
          /\ Take(c, n, CASE ~row[n].fresh -> "expire"
                          [] row[n].fresh /\ Exhausted(n) -> "lock"
                          [] row[n].fresh /\ ~Exhausted(n) -> IF right THEN "verify" ELSE "count")

WithStatus(r, status) == [r EXCEPT !.status = status]

\* Commits write the changed columns only.  An expired token ends here, too.
ExpireCommit(c) ==
    /\ call[c].at = "expire"
    /\ row' = [row EXCEPT ![call[c].no] = WithStatus(row[call[c].no], "expired")]
    /\ End(c)
    /\ UNCHANGED <<issued, changes, history, faults>>

LockCommit(c) ==
    /\ call[c].at = "lock"
    /\ row' = [row EXCEPT ![call[c].no] = WithStatus(row[call[c].no], "locked")]
    /\ End(c)
    /\ UNCHANGED <<issued, changes, history, faults>>

\* attempts becomes what the call read plus one.
WithoutAttempt(r, seen) == r
WithAttempt(r, seen) == [r EXCEPT !.attempts = seen + 1]
Answered(n) == IF n \in raced THEN answered ELSE [answered EXCEPT ![n] = @ + 1]

VerifyWrong(c) ==
    /\ call[c].at = "count"
    /\ row' = [row EXCEPT ![call[c].no] = WithAttempt(row[call[c].no], call[c].seen)]
    /\ answered' = Answered(call[c].no)
    /\ End(c)
    /\ UNCHANGED <<issued, changes, together, raced, faults>>

\* A new token, with a time of its own, replaces the one of an earlier verification.
VerifiedInTime(r, seen) == [user |-> r.user, status |-> "verified", attempts |-> seen + 1,
                            recent |-> r.recent, fresh |-> r.fresh]
Verified(r, seen) == [user |-> r.user, status |-> "verified", attempts |-> seen + 1,
                      recent |-> r.recent, fresh |-> TRUE]

VerifyRight(c) ==
    /\ call[c].at = "verify"
    /\ answered' = Answered(call[c].no)
    /\ row' = [row EXCEPT ![call[c].no] = Verified(row[call[c].no], call[c].seen)]
    /\ End(c)
    /\ UNCHANGED <<issued, changes, together, raced, faults>>

-----------------------------------------------------------------------------
(* POST /reset/complete, with the token of a request.                      *)

CompletableAgain(n) == Stored(n) /\ row[n].status \in {"verified", "completed"}
Completable(n) == Stored(n) /\ row[n].status = "verified"

CompleteSelect(c, n) ==
    /\ call[c].at = "idle"
    /\ Completable(n)
    /\ Take(c, n, IF row[n].fresh THEN "modify" ELSE "expire")

Committing(s) == [s EXCEPT !.at = "complete"]
ModifyUnchecked(c) ==
    /\ call[c].at = "modify"
    /\ changes' \in {changes, [changes EXCEPT ![call[c].no] = @ + 1]}
    /\ call' = [call EXCEPT ![c] = Committing(call[c])]
    /\ UNCHANGED <<row, issued, history, faults>>

\* conn.modify has set userPassword (and cleared the lock, as far as it could).
CompleteModify(c) ==
    /\ call[c].at = "modify"
    /\ changes' = [changes EXCEPT ![call[c].no] = @ + 1]
    /\ call' = [call EXCEPT ![c] = Committing(call[c])]
    /\ UNCHANGED <<row, issued, history, faults>>

CompleteCommit(c) ==
    /\ call[c].at = "complete"
    /\ row' = [row EXCEPT ![call[c].no] = WithStatus(row[call[c].no], "completed")]
    /\ End(c)
    /\ UNCHANGED <<issued, changes, history, faults>>

-----------------------------------------------------------------------------
\* An exception, an LDAP error or a lost connection: what was not committed is
\* rolled back, what LDAP has done stays.
CallFails(c) ==
    /\ call[c].at # "idle"
    /\ Fault
    /\ End(c)
    /\ UNCHANGED <<row, issued, changes, history>>

OutOfWindow(r) == [r EXCEPT !.recent = FALSE]
OutOfTime(r) == [r EXCEPT !.fresh = FALSE]

(* Time: the throttle window (60 s) ends before a code (5 min) or a token  *)
(* (10 min) expires.                                                       *)
WindowPasses(n) ==
    /\ Stored(n) /\ row[n].recent
    /\ row' = [row EXCEPT ![n] = OutOfWindow(row[n])]
    /\ UNCHANGED <<issued, changes, call, history, faults>>

\* Nothing reads the expiry times of a row that is over.
Expires(n) ==
    /\ Stored(n) /\ row[n].fresh /\ ~row[n].recent
    /\ row[n].status \in {"pending", "verified"}
    /\ row' = [row EXCEPT ![n] = OutOfTime(row[n])]
    /\ UNCHANGED <<issued, changes, call, history, faults>>

-----------------------------------------------------------------------------
CallStep(c) ==
    \/ \E u \in User : RequestSelect(c, u)
    \/ RequestCommit(c)
    \/ \E u \in User, right \in BOOLEAN : VerifySelect(c, u, right)
    \/ ExpireCommit(c) \/ LockCommit(c) \/ VerifyWrong(c) \/ VerifyRight(c)
    \/ \E n \in Number : CompleteSelect(c, n)
    \/ CompleteModify(c) \/ CompleteCommit(c)
    \/ CallFails(c)

Next ==
    \/ \E c \in Call : CallStep(c)
    \/ \E n \in Number : WindowPasses(n) \/ Expires(n)

Spec == Init /\ [][Next]_vars

-----------------------------------------------------------------------------
(* Properties.                                                             *)

\* No code of a request is compared more often than max_attempts, as long as
\* no two calls worked on the request at the same time.
AttemptsBounded == \A n \in Number \ raced : answered[n] <= MaxAttempts

\* Why it holds.  A number without a row is untouched and not raced on.
UnusedRows ==
    \A n \in Number : ~Stored(n) => answered[n] = 0 /\ changes[n] = 0 /\ n \notin raced

\* A call that inserts has its number for itself; any other has a row.
CallsHaveRows ==
    \A c \in Call :
        /\ call[c].at = "idle" <=> call[c].no = 0
        /\ call[c].at = "insert" =>
               call[c].user \in User /\ call[c].no <= issued /\ ~Stored(call[c].no)
        /\ call[c].at \notin {"idle", "insert"} => Stored(call[c].no)
        /\ call[c].at \in {"count", "verify"} => call[c].seen < MaxAttempts
        /\ call[c].at = "complete" => changes[call[c].no] > 0
RowsAreIssued == \A n \in Number : Stored(n) => n <= issued

\* Two calls at work on one request have raced on it.
Exclusive ==
    \A c, d \in Call : c # d /\ call[c].no = call[d].no /\ call[c].no # 0 => call[c].no \in raced

\* What a call has read still holds, as long as nobody raced.
ReadsHold ==
    \A c \in Call : call[c].no \notin raced =>
        /\ call[c].at \in {"count", "verify"} => call[c].seen = row[call[c].no].attempts
        /\ call[c].at \in {"lock", "count", "verify"} => row[call[c].no].status = "pending"
        /\ call[c].at = "expire" => row[call[c].no].status \in {"pending", "verified"}
        /\ call[c].at \in {"modify", "complete"} => row[call[c].no].status = "verified"
        /\ call[c].at = "modify" => changes[call[c].no] <= faults

\* attempts counts the answers; a password change is committed, about to be, or
\* one of the faults.
Changing(n) == \E c \in Call : call[c].at = "complete" /\ call[c].no = n
CountsHold ==
    \A n \in Number : Stored(n) /\ n \notin raced =>
        /\ answered[n] <= row[n].attempts
        /\ changes[n] <= 1 + faults
        /\ row[n].status # "completed" /\ ~Changing(n) => changes[n] <= faults

\* Two requests of a user fall into one throttle window only if they were
\* handled at the same time.
ThrottleHolds ==
    \A u \in User : \A m, n \in Recent(u) : m # n => m \in together

\* Why it holds.  What a call is about to insert is known to be handled together
\* with every request of the window it cannot have seen: a committed one, or one
\* that another call is about to insert.
InsertsBesideRecent ==
    \A c \in Call, u \in User : call[c].at = "insert" /\ call[c].user = u =>
        \A n \in Recent(u) : n \in together /\ call[c].no \in together
InsertsBesideInserts ==
    \A c, d \in Call :
        c # d /\ call[c].at = "insert" /\ call[d].at = "insert" /\ call[c].user = call[d].user
            => call[c].no \in together
ThrottleInv == ThrottleHolds /\ InsertsBesideRecent /\ InsertsBesideInserts

\* A request changes the password once, and once more only when a call failed
\* between its LDAP write and its commit or two calls raced.
ChangedOnce == \A n \in Number \ raced : changes[n] <= 1 + faults

\* A completed request has changed the password, whatever failed on the way.
CompletedMeansChanged ==
    \A n \in Number : Stored(n) /\ row[n].status = "completed" => changes[n] > 0

\* A call that ends a request still has its reason, and attempts is exact.
ReasonsHold ==
    /\ \A c \in Call : call[c].no \notin raced =>
          /\ call[c].at = "expire" => ~row[call[c].no].fresh
          /\ call[c].at = "lock" => row[call[c].no].attempts = MaxAttempts
    /\ \A n \in Number : Stored(n) /\ n \notin raced => answered[n] = row[n].attempts

ResetInv ==
    /\ TypeOK /\ UnusedRows /\ CallsHaveRows /\ RowsAreIssued /\ Exclusive
    /\ ReadsHold /\ CountsHold /\ CompletedMeansChanged

\* A request that is over stays over, unless two calls raced.
OverIsOver ==
    [][\A n \in Number \ raced' :
        Stored(n) /\ row[n].status \in {"completed", "expired", "locked"}
            => row'[n].status = row[n].status]_vars

-----------------------------------------------------------------------------
\* The refinement: a request as its row tells it, spent once LDAP has the new
\* password, and contested once two calls have raced on it.
Right == [pending |-> "code", verified |-> "token", completed |-> "record",
          expired |-> "void", locked |-> "void"]
Holds(n) == IF row[n].status = "verified" /\ Changing(n) THEN "spent" ELSE Right[row[n].status]

Bare(holds) == [holds |-> holds, tries |-> 0, sets |-> 0, fresh |-> TRUE]
View(n) ==
    IF n \in raced THEN Bare("contested")
    ELSE IF ~Stored(n) THEN Bare("nothing")
    ELSE [holds |-> Holds(n), tries |-> answered[n], sets |-> changes[n], fresh |-> row[n].fresh]

Requests == INSTANCE ResetRequests WITH
    Request <- Number,
    request <- [n \in Number |-> View(n)]

\* The calls do to a request what its promise says, each at one moment, as long as
\* no two of them work on it at the same time.
ImplementsRequests == Requests!AbsSpec
=============================================================================
