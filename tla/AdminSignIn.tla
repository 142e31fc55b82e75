---------------------------- MODULE AdminSignIn ----------------------------
(***************************************************************************)
(* Signing in to the administration console                                *)
(* (backend/app/services/auth_service.py, admin_service.py, jwt_service.py *)
(* and mfa.py behind api/v1/auth.py; the changes another administrator     *)
(* makes are those of admin_management_service.py).                        *)
(*                                                                         *)
(* One admin_account row, read by every call and written back at its       *)
(* commit; challenges, code marks and the token blacklist in Redis, where  *)
(* each command takes effect at once; a password kept in the row and in    *)
(* LDAP.  The first UPDATE of a call locks the row until its commit.       *)
(***************************************************************************)
EXTENDS Naturals

CONSTANTS
    Call,         \* API calls that may be handled at the same time
    Challenge,    \* MFA challenges
    Code,         \* valid TOTP codes
    Token,        \* refresh tokens, by jti
    Change,       \* password change tokens
    Threshold,    \* LOCKOUT_THRESHOLD
    MaxFailed,    \* bound: failed_login_count
    MaxChanges,   \* bound: password changes
    MaxBegun,     \* bound: API calls
    MaxFaults,    \* bound: failing calls and LDAP writes
    Null          \* nothing, or a wrong code

ASSUME SignInAssumption ==
    /\ Threshold \in Nat \ {0} /\ MaxFailed \in Nat
    /\ MaxChanges \in Nat /\ MaxBegun \in Nat /\ MaxFaults \in Nat
    /\ Null \notin Challenge \cup Code \cup Token \cup Change
    /\ Challenge \cap Code = {}

VARIABLES
    account,       \* the committed admin_account row
    challenge,     \* Redis: challenges by state
    used,          \* Redis: codes marked as used
    family,        \* refresh tokens issued, with the first token of their sign-in
    blacklist,     \* Redis: refresh tokens rotated or logged out
    change,        \* the committed password_change_token rows
    dbPassword,    \* which password the row's hash is of
    ldapPassword,  \* which password the LDAP entry holds
    made,          \* passwords chosen so far
    call,          \* the calls in progress
    misses,        \* history: wrong passwords since the counter was last reset
    lapses,        \* history: locks that ran out since then
    granted,       \* history: sign-ins a challenge or a code has led to
    raced,         \* history: what two calls worked on at the same time
    begun,         \* API calls so far
    faults

redis == <<challenge, used, blacklist>>
passwords == <<dbPassword, ldapPassword, made>>
history == <<misses, lapses, granted, raced>>
vars == <<account, redis, family, change, passwords, call, history, begun, faults>>

Password == 0..MaxChanges
\* lock: locked_until is NULL, in the future, or in the past.
Lock == {"none", "on", "over"}
Account == [active : BOOLEAN, mfa : BOOLEAN, must : BOOLEAN, failed : 0..MaxFailed, lock : Lock]

Stage == {"idle", "miss", "challenge", "got", "mark", "grant", "rotate",
          "consume", "flush", "ldap", "store"}
\* What a call has read (failed, lock, must) and what it works on.  For a
\* password: demand is the must_change_password it will store, wrote whether
\* LDAP took the new one, reset whether another administrator sets it.
CallState == [at : Stage, failed : 0..MaxFailed, lock : Lock,
              must : BOOLEAN, challenge : Challenge \cup {Null}, code : Code \cup {Null},
              token : Token \cup {Null}, change : Change \cup {Null},
              new : Password, demand : BOOLEAN, reset : BOOLEAN, wrote : BOOLEAN]
Idle == [at |-> "idle", failed |-> 0, lock |-> "none", must |-> FALSE,
         challenge |-> Null, code |-> Null, token |-> Null, change |-> Null,
         new |-> 0, demand |-> FALSE, reset |-> FALSE, wrote |-> FALSE]

TypeOK ==
    /\ account \in Account
    /\ challenge \in [Challenge -> {"unissued", "stored", "gone"}]
    /\ used \subseteq Code
    /\ family \in [Token -> Token \cup {Null}]
    /\ blacklist \subseteq Token
    /\ change \in [Change -> {"unissued", "open", "consumed"}]
    /\ dbPassword \in Password /\ ldapPassword \in Password /\ made \in Password
    /\ call \in [Call -> CallState]
    /\ misses \in Nat /\ lapses \in Nat
    /\ granted \in [Challenge \cup Code -> Nat]
    /\ raced \subseteq {"counter"} \cup Challenge \cup Code \cup Token
    /\ begun \in Nat /\ faults \in Nat

Init ==
    /\ account \in [active : {TRUE}, mfa : BOOLEAN, must : BOOLEAN, failed : {0},
                    lock : {"none"}]
    /\ challenge = [k \in Challenge |-> "unissued"]
    /\ used = {}
    /\ family = [t \in Token |-> Null]
    /\ blacklist = {}
    /\ change = [k \in Change |-> "unissued"]
    /\ dbPassword = 0 /\ ldapPassword = 0 /\ made = 0
    /\ call = [c \in Call |-> Idle]
    /\ misses = 0 /\ lapses = 0
    /\ granted = [x \in Challenge \cup Code |-> 0]
    /\ raced = {}
    /\ begun = 0 /\ faults = 0

End(c) == call' = [call EXCEPT ![c] = Idle]
Begin == begun < MaxBegun /\ begun' = begun + 1
Fault == faults < MaxFaults /\ faults' = faults + 1

\* Call state s goes on to a stage, with what it has read for it.
Moved(s, stage) == [s EXCEPT !.at = stage]
Missing(s) == [s EXCEPT !.at = "miss", !.failed = account.failed]
Changing(s) == [s EXCEPT !.at = "flush", !.must = account.must]
Reading(s, stage) ==
    [s EXCEPT !.at = stage, !.failed = account.failed, !.lock = account.lock,
              !.must = account.must]

\* A call that has read the counter and will write it back.
Counting(d) ==
    \/ call[d].at \in {"miss", "mark", "grant"}
    \/ call[d].at \in {"flush", "ldap", "store"} /\ call[d].reset
NoteCounter == IF \E d \in Call : Counting(d) THEN {"counter"} ELSE {}
Count(n) == IF "counter" \in raced THEN n ELSE n + 1

\* No password change has flushed its UPDATE of the row and not committed yet.
AlwaysFree == TRUE
RowFree == \A d \in Call : call[d].at \notin {"ldap", "store"}

-----------------------------------------------------------------------------
(* POST /auth/login.                                                       *)

\* Inactive and locked accounts are refused.  After a right password an account
\* with MFA gets a challenge; one whose role requires MFA but that has not set it
\* up gets a setup token, which changes nothing here.
LoginRefused(c) ==
    /\ Begin
    /\ call[c].at = "idle"
    /\ account.active /\ account.lock # "on"
    /\ account.failed < MaxFailed
    /\ call' = [call EXCEPT ![c] = Missing(Idle)]
    /\ raced' = raced \cup NoteCounter
    /\ UNCHANGED <<account, redis, family, change, passwords, misses, lapses, granted, faults>>

LoginAccepted(c) ==
    /\ Begin
    /\ call[c].at = "idle"
    /\ account.active /\ account.lock # "on"
    /\ IF account.mfa
       THEN /\ call' = [call EXCEPT ![c] = Moved(Idle, "challenge")]
            /\ UNCHANGED raced
       ELSE /\ call' = [call EXCEPT ![c] = Reading(Idle, "grant")]
            /\ raced' = raced \cup NoteCounter
    /\ UNCHANGED <<account, redis, family, change, passwords, misses, lapses, granted, faults>>

LoginChallenge(c) ==
    /\ call[c].at = "challenge"
    /\ \E k \in Challenge :
          /\ challenge[k] = "unissued"
          /\ challenge' = [challenge EXCEPT ![k] = "stored"]
    /\ End(c)
    /\ UNCHANGED <<account, used, blacklist, family, change, passwords, history, begun, faults>>

\* register_failed_login: the count read plus one, and a lock at the threshold,
\* again at every later miss.
LockOnceOnly(a, s) == IF s.failed + 1 = Threshold THEN "on" ELSE a.lock
LockAtThreshold(a, s) == IF s.failed + 1 >= Threshold THEN "on" ELSE a.lock
MissCountedTwice(a, s) ==
    [a EXCEPT !.failed = s.failed + 2, !.lock = LockAtThreshold(a, s)]
MissRecorded(a, s) ==
    [a EXCEPT !.failed = s.failed + 1, !.lock = LockAtThreshold(a, s)]

Miss(c) ==
    /\ call[c].at = "miss"
    /\ RowFree
    /\ account' = MissRecorded(account, call[c])
    /\ misses' = IF call[c].challenge = Null THEN Count(misses) ELSE misses
    /\ End(c)
    /\ UNCHANGED <<redis, family, change, passwords, lapses, granted, raced, begun, faults>>

-----------------------------------------------------------------------------
(* POST /auth/mfa/challenge.  The lock is not looked at again.             *)

Answering(k) == [Idle EXCEPT !.at = "got", !.challenge = k]
ChallengeGet(c, k) ==
    /\ Begin
    /\ call[c].at = "idle"
    /\ challenge[k] = "stored"
    /\ call' = [call EXCEPT ![c] = Answering(k)]
    /\ raced' = IF \E d \in Call : call[d].challenge = k THEN raced \cup {k} ELSE raced
    /\ UNCHANGED <<account, redis, family, change, passwords, misses, lapses, granted, faults>>

Kept(k) == challenge
Spent(k) == [challenge EXCEPT ![k] = "gone"]
\* The challenge is deleted before anything is checked.
ChallengeRefused(c) ==
    /\ call[c].at = "got"
    /\ ~account.active \/ ~account.mfa
    /\ challenge' = Spent(call[c].challenge)
    /\ End(c)
    /\ UNCHANGED <<account, used, blacklist, family, change, passwords, history, begun, faults>>

CodeReused(c, k) ==
    /\ call[c].at = "got"
    /\ account.active /\ account.mfa
    /\ k \in used
    /\ challenge' = Spent(call[c].challenge)
    /\ End(c)
    /\ UNCHANGED <<account, used, blacklist, family, change, passwords, history, begun, faults>>

CodeWrong(c) ==
    /\ call[c].at = "got"
    /\ account.active /\ account.mfa
    /\ account.failed < MaxFailed
    /\ challenge' = Spent(call[c].challenge)
    /\ call' = [call EXCEPT ![c] = Missing(call[c])]
    /\ raced' = raced \cup NoteCounter
    /\ UNCHANGED <<account, used, blacklist, family, change, passwords, misses, lapses,
                   granted, begun, faults>>

WithCode(s, k) == [s EXCEPT !.code = k]
CodeRight(c, k) ==
    /\ call[c].at = "got"
    /\ account.active /\ account.mfa
    /\ k \notin used
    /\ challenge' = Spent(call[c].challenge)
    /\ call' = [call EXCEPT ![c] = Reading(WithCode(call[c], k), "mark")]
    /\ raced' = raced \cup NoteCounter
                  \cup IF \E d \in Call : call[d].at = "mark" /\ call[d].code = k THEN {k} ELSE {}
    /\ UNCHANGED <<account, used, blacklist, family, change, passwords, misses, lapses,
                   granted, begun, faults>>

MarkUsed(c) ==
    /\ call[c].at = "mark"
    /\ used' = used \cup {call[c].code}
    /\ call' = [call EXCEPT ![c] = Moved(call[c], "grant")]
    /\ UNCHANGED <<account, challenge, blacklist, family, change, passwords, history, begun, faults>>

\* register_successful_login; a column is written only if it changes.
CounterCleared(a, s) ==
    [a EXCEPT !.failed = IF s.failed = 0 THEN a.failed ELSE 0,
              !.lock = IF s.lock = "none" THEN a.lock ELSE "none"]

\* _finalize_login: a token to change the password with, when must_change_password
\* or max_age_days asks for it, or else a refresh token.
Grant(c) ==
    /\ call[c].at = "grant"
    /\ RowFree
    /\ account' = CounterCleared(account, call[c])
    /\ \/ /\ \E k \in Change :
                 change[k] = "unissued" /\ change' = [change EXCEPT ![k] = "open"]
          /\ UNCHANGED family
       \/ /\ ~call[c].must
          /\ \E t \in Token : family[t] = Null /\ family' = [family EXCEPT ![t] = t]
          /\ UNCHANGED change
    /\ granted' = [x \in Challenge \cup Code |->
                      IF x \in {call[c].challenge, call[c].code} \ raced
                      THEN granted[x] + 1 ELSE granted[x]]
    /\ misses' = 0 /\ lapses' = 0
    /\ End(c)
    /\ UNCHANGED <<redis, passwords, raced, begun, faults>>

-----------------------------------------------------------------------------
(* POST /auth/refresh and /auth/logout.                                    *)

NeverRevoked(t) == TRUE
NotRevoked(t) == t \notin blacklist

Rotating(t) == [Idle EXCEPT !.at = "rotate", !.token = t]
RefreshCheck(c, t) ==
    /\ Begin
    /\ call[c].at = "idle"
    /\ family[t] # Null /\ NotRevoked(t)
    /\ account.active
    /\ call' = [call EXCEPT ![c] = Rotating(t)]
    /\ raced' = IF \E d \in Call : call[d].token = t THEN raced \cup {family[t]} ELSE raced
    /\ UNCHANGED <<account, redis, family, change, passwords, misses, lapses, granted, faults>>

\* The old token is blacklisted, the new one answered.
RefreshRotate(c) ==
    /\ call[c].at = "rotate"
    /\ blacklist' = blacklist \cup {call[c].token}
    /\ \E t \in Token :
          /\ family[t] = Null
          /\ family' = [family EXCEPT ![t] = family[call[c].token]]
    /\ End(c)
    /\ UNCHANGED <<account, challenge, used, change, passwords, history, begun, faults>>

Logout(t) ==
    /\ Begin
    /\ family[t] # Null
    /\ blacklist' = blacklist \cup {t}
    /\ UNCHANGED <<account, challenge, used, family, change, passwords, call, history, faults>>

-----------------------------------------------------------------------------
(* Passwords: /auth/change-password, /auth/change-password-with-token and  *)
(* the reset of another administrator.  A refusal rolls everything back.   *)

\* consume_password_change_token reads the row, ...
Redeeming(k) == [Idle EXCEPT !.at = "consume", !.change = k]
ChangeWithToken(c, k) ==
    /\ Begin
    /\ call[c].at = "idle"
    /\ change[k] = "open"
    /\ call' = [call EXCEPT ![c] = Redeeming(k)]
    /\ UNCHANGED <<account, redis, family, change, passwords, history, faults>>

\* ... and flushes consumed_at: a second call with the token waits here, and goes
\* on when the first has committed.  Then the account is read.
Consume(c) ==
    /\ call[c].at = "consume"
    /\ \A d \in Call : call[d].change = call[c].change => call[d].at = "consume"
    /\ call' = [call EXCEPT ![c] = Changing(call[c])]
    /\ UNCHANGED <<account, redis, family, change, passwords, history, begun, faults>>

ChangeOwn(c) ==
    /\ Begin
    /\ call[c].at = "idle"
    /\ account.active
    /\ call' = [call EXCEPT ![c] = Changing(Idle)]
    /\ UNCHANGED <<account, redis, family, change, passwords, history, faults>>

Resetting(demand) == [Idle EXCEPT !.demand = demand, !.reset = TRUE]
AdminReset(c, demand) ==
    /\ Begin
    /\ call[c].at = "idle"
    /\ call' = [call EXCEPT ![c] = Reading(Resetting(demand), "flush")]
    /\ raced' = raced \cup NoteCounter
    /\ UNCHANGED <<account, redis, family, change, passwords, misses, lapses, granted, faults>>

Holding(s, n) == [s EXCEPT !.at = "ldap", !.new = n]
\* The UPDATE waits for the one of any other call.
Flush(c) ==
    /\ call[c].at = "flush"
    /\ RowFree
    /\ made < MaxChanges
    /\ made' = made + 1
    /\ call' = [call EXCEPT ![c] = Holding(call[c], made + 1)]
    /\ UNCHANGED <<account, redis, family, change, dbPassword, ldapPassword, history, begun, faults>>

Wrote(s) == [s EXCEPT !.at = "store", !.wrote = TRUE]
LdapModify(c) ==
    /\ call[c].at = "ldap"
    /\ ldapPassword' = call[c].new
    /\ call' = [call EXCEPT ![c] = Wrote(call[c])]
    /\ UNCHANGED <<account, redis, family, change, dbPassword, made, history, begun, faults>>

\* An LDAP error is logged and the change goes on.
LdapError(c) ==
    /\ call[c].at = "ldap"
    /\ Fault
    /\ call' = [call EXCEPT ![c] = Moved(call[c], "store")]
    /\ UNCHANGED <<account, redis, family, change, passwords, history, begun>>

\* Only columns that change are written: must_change_password is compared with
\* what the call read.
MustStored(a, s) == [a EXCEPT !.must = IF s.must = s.demand THEN a.must ELSE s.demand]
Consumed(s) == IF s.change = Null THEN change ELSE [change EXCEPT ![s.change] = "consumed"]

Store(c) ==
    /\ call[c].at = "store"
    /\ dbPassword' = call[c].new
    /\ change' = Consumed(call[c])
    /\ IF call[c].reset
       THEN /\ account' = CounterCleared(MustStored(account, call[c]), call[c])
            /\ misses' = 0 /\ lapses' = 0
       ELSE /\ account' = MustStored(account, call[c])
            /\ UNCHANGED <<misses, lapses>>
    /\ End(c)
    /\ UNCHANGED <<redis, family, ldapPassword, made, granted, raced, begun, faults>>

-----------------------------------------------------------------------------
(* Other changes of the row, each of one column to a fixed value.          *)

WithActive(a, active) == [a EXCEPT !.active = active]
WithMust(a, must) == [a EXCEPT !.must = must]
WithMfa(a, mfa) == [a EXCEPT !.mfa = mfa]

\* update_admin; a request that changes both columns is two of these.
SetActive(active) ==
    /\ Begin
    /\ RowFree
    /\ account' = WithActive(account, active)
    /\ UNCHANGED <<redis, family, change, passwords, call, history, faults>>

SetMust(must) ==
    /\ Begin
    /\ RowFree
    /\ account' = WithMust(account, must)
    /\ UNCHANGED <<redis, family, change, passwords, call, history, faults>>

\* verify_and_enable_mfa, and disable_mfa_for_admin or admin_reset_mfa.
SetMfa(enabled) ==
    /\ Begin
    /\ RowFree
    /\ account' = WithMfa(account, enabled)
    /\ UNCHANGED <<redis, family, change, passwords, call, history, faults>>

(* Time and failures.                                                      *)

RunOut(a) == [a EXCEPT !.lock = "over"]
LockRunsOut ==
    /\ account.lock = "on"
    /\ account' = RunOut(account)
    /\ lapses' = Count(lapses)
    /\ UNCHANGED <<redis, family, change, passwords, call, misses, granted, raced, begun, faults>>

\* The mark of a code has a lifetime of its own (65 s, the code up to 90 s).
MarkRunsOut(k) ==
    /\ k \in used
    /\ used' = used \ {k}
    /\ raced' = raced \cup {k}
    /\ UNCHANGED <<account, challenge, blacklist, family, change, passwords, call, misses,
                   lapses, granted, begun, faults>>

\* What was not committed is rolled back; what Redis and LDAP did stays, and so
\* do the deletion of a challenge and the blacklisting of a token.
CallFails(c) ==
    /\ call[c].at # "idle"
    /\ Fault
    /\ challenge' \in {challenge} \cup
           IF call[c].at = "got" THEN {Spent(call[c].challenge)} ELSE {}
    /\ blacklist' \in {blacklist} \cup
           IF call[c].at = "rotate" THEN {blacklist \cup {call[c].token}} ELSE {}
    /\ End(c)
    /\ UNCHANGED <<account, used, family, change, passwords, history, begun>>

-----------------------------------------------------------------------------
CallStep(c) ==
    \/ LoginRefused(c) \/ LoginAccepted(c) \/ LoginChallenge(c) \/ Miss(c)
    \/ \E k \in Challenge : ChallengeGet(c, k)
    \/ ChallengeRefused(c)
    \/ \E k \in Code : CodeReused(c, k) \/ CodeRight(c, k)
    \/ CodeWrong(c)
    \/ MarkUsed(c) \/ Grant(c)
    \/ \E t \in Token : RefreshCheck(c, t)
    \/ RefreshRotate(c)
    \/ \E k \in Change : ChangeWithToken(c, k)
    \/ ChangeOwn(c) \/ Consume(c)
    \/ \E demand \in BOOLEAN : AdminReset(c, demand)
    \/ Flush(c) \/ LdapModify(c) \/ LdapError(c) \/ Store(c)
    \/ CallFails(c)

Next ==
    \/ \E c \in Call : CallStep(c)
    \/ \E t \in Token : Logout(t)
    \/ \E b \in BOOLEAN : SetActive(b) \/ SetMust(b) \/ SetMfa(b)
    \/ LockRunsOut
    \/ \E k \in Code : MarkRunsOut(k)

Spec == Init /\ [][Next]_vars

-----------------------------------------------------------------------------
(* Properties.                                                             *)

\* An account lets Threshold wrong passwords pass, and one more after each lock
\* that ran out, until a sign-in or a reset clears the counter; unless calls
\* that read and write the counter overlapped.
GuessesBounded == "counter" \notin raced => misses <= Threshold + lapses

\* A challenge, and a code, leads to one sign-in, unless two calls worked on it
\* at the same time or the mark of the code ran out before the code did.
SignsInOnce == \A x \in (Challenge \cup Code) \ raced : granted[x] <= 1

\* Of the refresh tokens that go back to one sign-in, one is usable at most,
\* unless one of them was presented twice at the same time.
OneTokenPerSignIn ==
    \A s, t \in Token \ blacklist :
        family[s] = family[t] /\ family[s] # Null /\ s # t => family[s] \in raced

\* A change that met no LDAP error is about to commit the password LDAP holds,
\* whatever other changes run.
PasswordsAgree ==
    \A c \in Call : call[c].at = "store" /\ call[c].wrote => ldapPassword = call[c].new

\* Why it holds: one call at a time is between its flush and its commit, and none
\* has written LDAP before.
Writing(c) == call[c].at \in {"ldap", "store"}
PasswordInv ==
    /\ \A c, d \in Call : Writing(c) /\ Writing(d) => c = d
    /\ \A c \in Call : call[c].wrote => call[c].at = "store"
    /\ PasswordsAgree

\* Why GuessesBounded holds.  As long as no two calls overlapped, a call that will
\* write the counter is alone, and what it read of the counter still holds.
CounterRead(c) ==
    /\ call[c].failed = account.failed
    /\ call[c].at = "miss" /\ call[c].challenge = Null => account.lock # "on"
    /\ call[c].at # "miss" /\ call[c].lock = "none" => account.lock # "on"

\* failed_login_count counts the wrong passwords and the wrong codes, and an account
\* that is not locked has a guess left.
CounterInv ==
    "counter" \notin raced =>
        /\ \A c, d \in Call : Counting(c) /\ Counting(d) => c = d
        /\ \A c \in Call : Counting(c) => CounterRead(c)
        /\ misses <= account.failed
        /\ misses <= Threshold + lapses
        /\ account.lock # "on" => misses < Threshold + lapses

\* Why SignsInOnce holds.  A challenge no two calls worked on has at most one call,
\* is gone once the call has answered it, and when it has led to a sign-in no call
\* has it any more.
ChallengeInv ==
    \A k \in Challenge \ raced :
        /\ \A c, d \in Call : call[c].challenge = k /\ call[d].challenge = k => c = d
        /\ \A c \in Call : call[c].challenge = k /\ call[c].at # "got" => challenge[k] = "gone"
        /\ granted[k] <= 1
        /\ granted[k] > 0 => challenge[k] = "gone" /\ \A c \in Call : call[c].challenge # k

\* So it is with a code, from its comparison to the sign-in; between them it is marked.
CodeInv ==
    /\ \A c \in Call : call[c].code # Null => call[c].at \in {"mark", "grant"}
    /\ \A q \in Code \ raced :
          /\ \A c, d \in Call : call[c].code = q /\ call[d].code = q => c = d
          /\ \A c \in Call : call[c].code = q /\ call[c].at = "grant" => q \in used
          /\ granted[q] <= 1
          /\ granted[q] > 0 => q \in used /\ \A c \in Call : call[c].code # q

\* Why OneTokenPerSignIn holds.  A sign-in is named by a token that is issued; a
\* call that rotates is alone with its sign-in, and every other token of it is revoked.
RotationInv ==
    /\ \A t \in Token : family[t] # Null => family[family[t]] # Null
    /\ \A c \in Call : call[c].at = "rotate" =>
          LET f == family[call[c].token]
          IN  /\ f # Null
              /\ f \notin raced =>
                    /\ \A t \in Token \ {call[c].token} : family[t] = f => t \in blacklist
                    /\ \A d \in Call : call[d].at = "rotate" /\ family[call[d].token] = f => d = c
    /\ OneTokenPerSignIn

\* Why TypeOK holds: a call carries what its stage needs.
Fits(s) ==
    /\ s.at = "miss" => s.failed < MaxFailed
    /\ s.at = "mark" => s.code # Null
    /\ s.at = "got" => s.challenge # Null
    /\ s.at = "consume" => ~s.reset
    /\ s.at = "rotate" => s.token # Null
TypeInv == TypeOK /\ \A c \in Call : Fits(call[c])

SignInInv == TypeInv /\ PasswordInv /\ CounterInv
=============================================================================
