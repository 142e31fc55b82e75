-------------------------- MODULE AdminSignInProofs --------------------------
(***************************************************************************)
(* Proofs about AdminSignIn, for any number of calls, challenges, codes    *)
(* and tokens, whatever fails: types, the agreement of the two password    *)
(* stores, the bound on the guesses that the failure counter allows, one   *)
(* sign-in per challenge and per code, and one refresh token per sign-in.  *)
(***************************************************************************)
EXTENDS AdminSignIn, TLAPS

\* What the operators that move a call on return.
LEMMA IdleFacts ==
  /\ Idle \in CallState /\ Idle.at = "idle" /\ ~Idle.wrote /\ ~Idle.reset
  /\ Idle.failed = 0 /\ Idle.challenge = Null
  BY SignInAssumption DEF Idle, CallState, Stage, Lock, Password

LEMMA MovedFacts ==
  ASSUME NEW s \in CallState, NEW stage \in Stage
  PROVE  /\ Moved(s, stage) \in CallState /\ Moved(s, stage).at = stage
         /\ Moved(s, stage).failed = s.failed /\ Moved(s, stage).lock = s.lock
         /\ Moved(s, stage).challenge = s.challenge /\ Moved(s, stage).code = s.code
         /\ Moved(s, stage).token = s.token /\ Moved(s, stage).new = s.new
         /\ Moved(s, stage).reset = s.reset /\ Moved(s, stage).wrote = s.wrote
  BY DEF Moved, CallState

LEMMA ReadFacts ==
  ASSUME NEW s \in CallState, account \in Account
  PROVE  /\ Missing(s) \in CallState /\ Missing(s).at = "miss"
         /\ Missing(s).failed = account.failed /\ Missing(s).challenge = s.challenge
         /\ Missing(s).reset = s.reset /\ Missing(s).wrote = s.wrote
         /\ Changing(s) \in CallState /\ Changing(s).at = "flush"
         /\ Changing(s).reset = s.reset /\ Changing(s).wrote = s.wrote
<1>1. "miss" \in Stage /\ "flush" \in Stage
  BY DEF Stage
<1>2. account.failed \in 0..MaxFailed /\ account.must \in BOOLEAN
  BY DEF Account
<1>3. QED
  BY <1>1, <1>2 DEF Missing, Changing, CallState

LEMMA ReadingFacts ==
  ASSUME NEW s \in CallState, account \in Account, NEW stage \in Stage
  PROVE  /\ Reading(s, stage) \in CallState /\ Reading(s, stage).at = stage
         /\ Reading(s, stage).failed = account.failed
         /\ Reading(s, stage).lock = account.lock
         /\ Reading(s, stage).code = s.code
         /\ Reading(s, stage).challenge = s.challenge
         /\ Reading(s, stage).reset = s.reset /\ Reading(s, stage).wrote = s.wrote
<1>1. account.failed \in 0..MaxFailed /\ account.lock \in Lock /\ account.must \in BOOLEAN
  BY DEF Account
<1>2. QED
  BY <1>1 DEF Reading, CallState

LEMMA CodeFacts ==
  ASSUME NEW s \in CallState, NEW k \in Code
  PROVE  /\ WithCode(s, k) \in CallState /\ WithCode(s, k).code = k
         /\ WithCode(s, k).at = s.at /\ WithCode(s, k).challenge = s.challenge
         /\ WithCode(s, k).reset = s.reset /\ WithCode(s, k).wrote = s.wrote
  BY DEF WithCode, CallState

\* A call that has a right code reads the row.
LEMMA MarkFacts ==
  ASSUME NEW s \in CallState, NEW k \in Code, account \in Account
  PROVE  LET r == Reading(WithCode(s, k), "mark")
         IN  /\ r \in CallState /\ r.at = "mark" /\ r.code = k
             /\ r.failed = account.failed /\ r.lock = account.lock
             /\ r.reset = s.reset /\ r.wrote = s.wrote
<1>1. "mark" \in Stage
  BY DEF Stage
<1>2. WithCode(s, k) \in CallState
  BY CodeFacts
<1>3. QED
  BY <1>1, <1>2, CodeFacts, ReadingFacts

\* A reset by another administrator reads the row.
LEMMA ResetFacts ==
  ASSUME NEW b \in BOOLEAN, account \in Account
  PROVE  LET r == Reading(Resetting(b), "flush")
         IN  /\ r \in CallState /\ r.at = "flush"
             /\ r.failed = account.failed /\ r.lock = account.lock
             /\ r.reset = TRUE /\ r.wrote = FALSE
<1>1. "flush" \in Stage
  BY DEF Stage
<1>2. Resetting(b) \in CallState /\ Resetting(b).reset = TRUE /\ Resetting(b).wrote = FALSE
  BY IdleFacts DEF Idle, Resetting, CallState
<1>3. QED
  BY <1>1, <1>2, ReadingFacts

LEMMA BegunFacts ==
  /\ \A k \in Challenge : /\ Answering(k) \in CallState /\ Answering(k).at = "got"
                           /\ Answering(k).challenge = k
                           /\ ~Answering(k).wrote /\ ~Answering(k).reset
  /\ \A t \in Token : /\ Rotating(t) \in CallState /\ Rotating(t).at = "rotate"
                       /\ Rotating(t).token = t
                       /\ ~Rotating(t).wrote /\ ~Rotating(t).reset
  /\ \A k \in Change : /\ Redeeming(k) \in CallState /\ Redeeming(k).at = "consume"
                        /\ ~Redeeming(k).wrote /\ ~Redeeming(k).reset
<1>1. {"got", "rotate", "consume"} \subseteq Stage
  BY DEF Stage
<1>2. QED
  BY <1>1, IdleFacts DEF Idle, Answering, Rotating, Redeeming, CallState

LEMMA ChangeFacts ==
  ASSUME NEW s \in CallState
  PROVE  /\ \A n \in Password : /\ Holding(s, n) \in CallState /\ Holding(s, n).at = "ldap"
                                /\ Holding(s, n).new = n
                                /\ Holding(s, n).failed = s.failed
                                /\ Holding(s, n).lock = s.lock
                                /\ Holding(s, n).reset = s.reset
                                /\ Holding(s, n).wrote = s.wrote
         /\ Wrote(s) \in CallState /\ Wrote(s).at = "store" /\ Wrote(s).wrote
         /\ Wrote(s).new = s.new /\ Wrote(s).failed = s.failed /\ Wrote(s).lock = s.lock
         /\ Wrote(s).reset = s.reset
<1>1. "ldap" \in Stage /\ "store" \in Stage
  BY DEF Stage
<1>2. QED
  BY <1>1 DEF Holding, Wrote, CallState

\* What the operators on the row return.
LEMMA RowFacts ==
  ASSUME NEW a \in Account
  PROVE  /\ \A b \in BOOLEAN :
               /\ WithActive(a, b) \in Account /\ WithActive(a, b).failed = a.failed
               /\ WithActive(a, b).lock = a.lock
               /\ WithMust(a, b) \in Account /\ WithMust(a, b).failed = a.failed
               /\ WithMust(a, b).lock = a.lock
               /\ WithMfa(a, b) \in Account /\ WithMfa(a, b).failed = a.failed
               /\ WithMfa(a, b).lock = a.lock
         /\ RunOut(a) \in Account /\ RunOut(a).failed = a.failed /\ RunOut(a).lock = "over"
<1>1. "over" \in Lock
  BY DEF Lock
<1>2. QED
  BY <1>1 DEF Account, WithActive, WithMust, WithMfa, RunOut

LEMMA CallFacts ==
  ASSUME NEW a \in Account, NEW s \in CallState
  PROVE  /\ MustStored(a, s) \in Account /\ MustStored(a, s).failed = a.failed
         /\ MustStored(a, s).lock = a.lock
         /\ CounterCleared(a, s) \in Account
         /\ CounterCleared(a, s).failed = (IF s.failed = 0 THEN a.failed ELSE 0)
         /\ CounterCleared(a, s).lock = (IF s.lock = "none" THEN a.lock ELSE "none")
         /\ s.failed < MaxFailed =>
               /\ MissRecorded(a, s) \in Account
               /\ MissRecorded(a, s).failed = s.failed + 1
               /\ MissRecorded(a, s).lock = (IF s.failed + 1 >= Threshold THEN "on" ELSE a.lock)
<1>1. "none" \in Lock /\ "on" \in Lock
  BY DEF Lock
<1>2. 0 \in 0..MaxFailed /\ s.failed \in 0..MaxFailed /\ s.must \in BOOLEAN /\ s.demand \in BOOLEAN
  BY SignInAssumption DEF CallState
<1>3. MustStored(a, s) \in Account /\ MustStored(a, s).failed = a.failed
      /\ MustStored(a, s).lock = a.lock
  BY <1>2 DEF Account, MustStored
<1>4. /\ CounterCleared(a, s) \in Account
      /\ CounterCleared(a, s).failed = (IF s.failed = 0 THEN a.failed ELSE 0)
      /\ CounterCleared(a, s).lock = (IF s.lock = "none" THEN a.lock ELSE "none")
  BY <1>1, <1>2 DEF Account, CounterCleared
<1>5. ASSUME s.failed < MaxFailed
      PROVE  /\ MissRecorded(a, s) \in Account
             /\ MissRecorded(a, s).failed = s.failed + 1
             /\ MissRecorded(a, s).lock = LockAtThreshold(a, s)
  <2>1. s.failed + 1 \in 0..MaxFailed
    BY <1>2, <1>5, SignInAssumption
  <2>2. LockAtThreshold(a, s) \in Lock
    BY <1>1 DEF Account, LockAtThreshold
  <2>3. QED
    BY <2>1, <2>2 DEF Account, MissRecorded
<1>6. QED
  BY <1>3, <1>4, <1>5 DEF LockAtThreshold

-----------------------------------------------------------------------------
(* Types.                                                                  *)

\* Call c goes on to s.
LEMMA CallTyped ==
  ASSUME TypeInv, NEW c \in Call, NEW s \in CallState, Fits(s),
         call' = [call EXCEPT ![c] = s]
  PROVE  call' \in [Call -> CallState] /\ \A d \in Call : Fits(call'[d])
  BY DEF TypeInv, TypeOK

\* NoteCounter, Begin and Fault add nothing ill-typed.
LEMMA NotesTyped ==
  ASSUME TypeInv
  PROVE  /\ NoteCounter \subseteq {"counter"}
         /\ Begin => begun' \in Nat
         /\ Fault => faults' \in Nat
         /\ \A n \in Nat : Count(n) \in Nat
  BY DEF TypeInv, TypeOK, NoteCounter, Begin, Fault, Count

\* What the stage of a call says of the call.
LEMMA AtHand ==
  ASSUME TypeInv, NEW c \in Call
  PROVE  /\ call[c] \in CallState /\ Fits(call[c]) /\ account \in Account
         /\ call[c].at = "mark" => call[c].code \in Code
         /\ call[c].at = "rotate" => call[c].token \in Token
<1>1. call[c] \in CallState /\ Fits(call[c]) /\ account \in Account
  BY DEF TypeInv, TypeOK
<1>2. QED
  BY <1>1 DEF CallState, Fits

LEMMA LoginTyped ==
  ASSUME TypeInv, NEW c \in Call,
         LoginRefused(c) \/ LoginAccepted(c) \/ LoginChallenge(c) \/ Miss(c)
  PROVE  TypeInv'
<1> USE AtHand, NotesTyped
<1>1. CASE LoginRefused(c)
  <2>1. Missing(Idle) \in CallState /\ Fits(Missing(Idle))
    BY <1>1, ReadFacts, IdleFacts DEF LoginRefused, Fits
  <2>2. call' \in [Call -> CallState] /\ \A d \in Call : Fits(call'[d])
    BY <1>1, <2>1, CallTyped DEF LoginRefused
  <2>3. QED
    BY <1>1, <2>2 DEF LoginRefused, TypeInv, TypeOK, redis, passwords
<1>2. CASE LoginAccepted(c)
  <2>1. /\ Moved(Idle, "challenge") \in CallState /\ Fits(Moved(Idle, "challenge"))
        /\ Reading(Idle, "grant") \in CallState /\ Fits(Reading(Idle, "grant"))
    <3>1. "challenge" \in Stage /\ "grant" \in Stage
      BY DEF Stage
    <3>2. /\ Moved(Idle, "challenge") \in CallState
          /\ Moved(Idle, "challenge").at = "challenge"
      BY <3>1, MovedFacts, IdleFacts
    <3>3. Reading(Idle, "grant") \in CallState /\ Reading(Idle, "grant").at = "grant"
      BY <3>1, ReadingFacts, IdleFacts
    <3>4. QED
      BY <3>2, <3>3 DEF Fits
  <2>2. call' \in [Call -> CallState] /\ \A d \in Call : Fits(call'[d])
    BY <1>2, <2>1, CallTyped DEF LoginAccepted
  <2>3. raced' \subseteq raced \cup {"counter"}
    BY <1>2 DEF LoginAccepted
  <2>4. QED
    BY <1>2, <2>2, <2>3 DEF LoginAccepted, TypeInv, TypeOK, redis, passwords
<1>3. Fits(Idle)
  BY IdleFacts DEF Fits
<1>4. CASE LoginChallenge(c)
  <2>1. call' \in [Call -> CallState] /\ \A d \in Call : Fits(call'[d])
    BY <1>3, <1>4, CallTyped, IdleFacts DEF LoginChallenge, End
  <2>2. QED
    BY <1>4, <2>1 DEF LoginChallenge, TypeInv, TypeOK, passwords, history
<1>5. CASE Miss(c)
  <2>1. call' \in [Call -> CallState] /\ \A d \in Call : Fits(call'[d])
    BY <1>3, <1>5, CallTyped, IdleFacts DEF Miss, End
  <2>2. account' \in Account
    BY <1>5, CallFacts DEF Miss, Fits
  <2>3. misses' \in Nat
    BY <1>5 DEF Miss, TypeInv, TypeOK
  <2>4. QED
    BY <1>5, <2>1, <2>2, <2>3 DEF Miss, TypeInv, TypeOK, redis, passwords
<1>6. QED
  BY <1>1, <1>2, <1>4, <1>5

LEMMA ChallengeTyped ==
  ASSUME TypeInv, NEW c \in Call,
         \/ \E k \in Challenge : ChallengeGet(c, k)
         \/ ChallengeRefused(c) \/ CodeWrong(c) \/ MarkUsed(c) \/ CallFails(c)
         \/ \E k \in Code : CodeReused(c, k) \/ CodeRight(c, k)
  PROVE  TypeInv'
<1> USE AtHand, NotesTyped
<1>1. CASE \E k \in Challenge : ChallengeGet(c, k)
  <2>1. PICK k \in Challenge : ChallengeGet(c, k)
    BY <1>1
  <2>2. Answering(k) \in CallState /\ Answering(k).at = "got" /\ Answering(k).challenge = k
    BY BegunFacts
  <2>3. Fits(Answering(k))
    BY <2>2, SignInAssumption DEF Fits
  <2>4. call' \in [Call -> CallState] /\ \A d \in Call : Fits(call'[d])
    BY <2>1, <2>2, <2>3, CallTyped DEF ChallengeGet
  <2>5. raced' \subseteq raced \cup {k}
    BY <2>1 DEF ChallengeGet
  <2>6. QED
    BY <2>1, <2>4, <2>5 DEF ChallengeGet, TypeInv, TypeOK, redis, passwords
<1>2. \A k \in Challenge \cup {Null} :
         Spent(k) \in [Challenge -> {"unissued", "stored", "gone"}]
  BY DEF Spent, TypeInv, TypeOK
<1>3. Spent(call[c].challenge) \in [Challenge -> {"unissued", "stored", "gone"}]
  BY <1>2 DEF CallState
<1>4. Fits(Idle)
  BY IdleFacts DEF Fits
<1>5. CASE ChallengeRefused(c) \/ \E k \in Code : CodeReused(c, k)
  <2>1. call' \in [Call -> CallState] /\ \A d \in Call : Fits(call'[d])
    BY <1>4, <1>5, CallTyped, IdleFacts DEF ChallengeRefused, CodeReused, End
  <2>2. QED
    BY <1>3, <1>5, <2>1 DEF ChallengeRefused, CodeReused, TypeInv, TypeOK, passwords, history
<1>6. CASE CodeWrong(c)
  <2>1. Missing(call[c]) \in CallState /\ Fits(Missing(call[c]))
    BY <1>6, ReadFacts DEF CodeWrong, Fits
  <2>2. call' \in [Call -> CallState] /\ \A d \in Call : Fits(call'[d])
    BY <1>6, <2>1, CallTyped DEF CodeWrong
  <2>3. QED
    BY <1>3, <1>6, <2>2 DEF CodeWrong, TypeInv, TypeOK, passwords
<1>7. CASE \E k \in Code : CodeRight(c, k)
  <2>1. PICK k \in Code : CodeRight(c, k)
    BY <1>7
  <2> DEFINE s == Reading(WithCode(call[c], k), "mark")
  <2>2. s \in CallState /\ s.at = "mark" /\ s.code = k
    BY MarkFacts
  <2>3. Fits(s)
    BY <2>2, SignInAssumption DEF Fits
  <2>4. call' = [call EXCEPT ![c] = s]
    BY <2>1 DEF CodeRight
  <2>5. call' \in [Call -> CallState] /\ \A d \in Call : Fits(call'[d])
    BY <2>2, <2>3, <2>4, CallTyped
  <2>6. raced' \subseteq raced \cup {"counter", k}
    BY <2>1 DEF CodeRight
  <2>7. QED
    BY <1>3, <2>1, <2>5, <2>6 DEF CodeRight, TypeInv, TypeOK, passwords
<1>8. CASE MarkUsed(c)
  <2>1. Moved(call[c], "grant") \in CallState /\ Fits(Moved(call[c], "grant"))
    BY MovedFacts DEF Fits, Stage
  <2>2. call' \in [Call -> CallState] /\ \A d \in Call : Fits(call'[d])
    BY <1>8, <2>1, CallTyped DEF MarkUsed
  <2>3. QED
    BY <1>8, <2>2 DEF MarkUsed, TypeInv, TypeOK, passwords, history
<1>9. CASE CallFails(c)
  <2>1. call' \in [Call -> CallState] /\ \A d \in Call : Fits(call'[d])
    BY <1>4, <1>9, CallTyped, IdleFacts DEF CallFails, End
  <2>2. challenge' \in [Challenge -> {"unissued", "stored", "gone"}]
    BY <1>3, <1>9 DEF CallFails, TypeInv, TypeOK
  <2>3. blacklist' \subseteq Token
    BY <1>9, AtHand DEF CallFails, TypeInv, TypeOK
  <2>4. QED
    BY <1>9, <2>1, <2>2, <2>3 DEF CallFails, TypeInv, TypeOK, passwords, history
<1>10. QED
  BY <1>1, <1>5, <1>6, <1>7, <1>8, <1>9

LEMMA SessionTyped ==
  ASSUME TypeInv, NEW c \in Call,
         \/ Grant(c) \/ RefreshRotate(c)
         \/ \E t \in Token : RefreshCheck(c, t)
  PROVE  TypeInv'
<1> USE AtHand, NotesTyped
<1>1. Fits(Idle)
  BY IdleFacts DEF Fits
<1>2. \A t \in Token : family[t] \in Token \cup {Null}
  BY DEF TypeInv, TypeOK
<1>3. CASE Grant(c)
  <2>1. call' \in [Call -> CallState] /\ \A d \in Call : Fits(call'[d])
    BY <1>1, <1>3, CallTyped, IdleFacts DEF Grant, End
  <2>2. account' \in Account
    BY <1>3, CallFacts DEF Grant
  <2>3. granted' \in [Challenge \cup Code -> Nat]
    BY <1>3 DEF Grant, TypeInv, TypeOK
  <2>4. family' \in [Token -> Token \cup {Null}]
    BY <1>3 DEF Grant, TypeInv, TypeOK
  <2>5. change' \in [Change -> {"unissued", "open", "consumed"}]
    BY <1>3 DEF Grant, TypeInv, TypeOK
  <2>6. QED
    BY <1>3, <2>1, <2>2, <2>3, <2>4, <2>5 DEF Grant, TypeInv, TypeOK, redis, passwords
<1>4. CASE \E t \in Token : RefreshCheck(c, t)
  <2>1. PICK t \in Token : RefreshCheck(c, t)
    BY <1>4
  <2>2. Rotating(t) \in CallState /\ Fits(Rotating(t))
    BY BegunFacts, SignInAssumption DEF Fits
  <2>3. call' \in [Call -> CallState] /\ \A d \in Call : Fits(call'[d])
    BY <2>1, <2>2, CallTyped DEF RefreshCheck
  <2>4. raced' \subseteq raced \cup Token
    BY <1>2, <2>1 DEF RefreshCheck
  <2>5. QED
    BY <2>1, <2>3, <2>4 DEF RefreshCheck, TypeInv, TypeOK, redis, passwords
<1>5. CASE RefreshRotate(c)
  <2>1. call' \in [Call -> CallState] /\ \A d \in Call : Fits(call'[d])
    BY <1>1, <1>5, CallTyped, IdleFacts DEF RefreshRotate, End
  <2>2. call[c].token \in Token
    BY <1>5 DEF RefreshRotate
  <2>3. family' \in [Token -> Token \cup {Null}]
    BY <1>2, <1>5, <2>2 DEF RefreshRotate, TypeInv, TypeOK
  <2>4. QED
    BY <1>5, <2>1, <2>2, <2>3 DEF RefreshRotate, TypeInv, TypeOK, passwords, history
<1>6. QED
  BY <1>3, <1>4, <1>5

LEMMA ChangeTyped ==
  ASSUME TypeInv, NEW c \in Call,
         \/ \E k \in Change : ChangeWithToken(c, k)
         \/ ChangeOwn(c) \/ Consume(c)
         \/ \E demand \in BOOLEAN : AdminReset(c, demand)
         \/ Flush(c) \/ LdapModify(c) \/ LdapError(c) \/ Store(c)
  PROVE  TypeInv'
<1> USE AtHand, NotesTyped
<1>1. CASE \E k \in Change : ChangeWithToken(c, k)
  <2>1. PICK k \in Change : ChangeWithToken(c, k)
    BY <1>1
  <2>2. Redeeming(k) \in CallState /\ Fits(Redeeming(k))
    BY BegunFacts DEF Fits
  <2>3. call' \in [Call -> CallState] /\ \A d \in Call : Fits(call'[d])
    BY <2>1, <2>2, CallTyped DEF ChangeWithToken
  <2>4. QED
    BY <2>1, <2>3 DEF ChangeWithToken, TypeInv, TypeOK, redis, passwords, history
<1>2. CASE ChangeOwn(c) \/ Consume(c)
  <2>1. /\ Changing(Idle) \in CallState /\ Fits(Changing(Idle))
        /\ Changing(call[c]) \in CallState /\ Fits(Changing(call[c]))
    BY ReadFacts, IdleFacts DEF Fits
  <2>2. call' \in [Call -> CallState] /\ \A d \in Call : Fits(call'[d])
    BY <1>2, <2>1, CallTyped DEF ChangeOwn, Consume
  <2>3. QED
    BY <1>2, <2>2 DEF ChangeOwn, Consume, TypeInv, TypeOK, redis, passwords, history
<1>3. CASE \E demand \in BOOLEAN : AdminReset(c, demand)
  <2>1. PICK demand \in BOOLEAN : AdminReset(c, demand)
    BY <1>3
  <2>2. /\ Reading(Resetting(demand), "flush") \in CallState
        /\ Reading(Resetting(demand), "flush").at = "flush"
    BY ResetFacts
  <2>3. Fits(Reading(Resetting(demand), "flush"))
    BY <2>2 DEF Fits
  <2>4. call' \in [Call -> CallState] /\ \A d \in Call : Fits(call'[d])
    BY <2>1, <2>2, <2>3, CallTyped DEF AdminReset
  <2>5. raced' \subseteq raced \cup {"counter"}
    BY <2>1 DEF AdminReset
  <2>6. QED
    BY <2>1, <2>4, <2>5 DEF AdminReset, TypeInv, TypeOK, redis, passwords
<1>4. CASE Flush(c)
  <2>1. made' \in Password /\ made + 1 \in Password
    BY <1>4, SignInAssumption DEF Flush, Password, TypeInv, TypeOK
  <2>2. Holding(call[c], made + 1) \in CallState /\ Fits(Holding(call[c], made + 1))
    BY <2>1, ChangeFacts DEF Fits
  <2>3. call' \in [Call -> CallState] /\ \A d \in Call : Fits(call'[d])
    BY <1>4, <2>2, CallTyped DEF Flush
  <2>4. QED
    BY <1>4, <2>1, <2>3 DEF Flush, TypeInv, TypeOK, redis, history
<1>5. call[c].new \in Password
  BY DEF CallState
<1>6. CASE LdapModify(c)
  <2>1. Wrote(call[c]) \in CallState /\ Fits(Wrote(call[c]))
    BY ChangeFacts DEF Fits
  <2>2. call' \in [Call -> CallState] /\ \A d \in Call : Fits(call'[d])
    BY <1>6, <2>1, CallTyped DEF LdapModify
  <2>3. QED
    BY <1>5, <1>6, <2>2 DEF LdapModify, TypeInv, TypeOK, redis, history
<1>7. CASE LdapError(c)
  <2>1. Moved(call[c], "store") \in CallState /\ Fits(Moved(call[c], "store"))
    BY MovedFacts DEF Fits, Stage
  <2>2. call' \in [Call -> CallState] /\ \A d \in Call : Fits(call'[d])
    BY <1>7, <2>1, CallTyped DEF LdapError
  <2>3. QED
    BY <1>7, <2>2 DEF LdapError, TypeInv, TypeOK, redis, passwords, history
<1>8. CASE Store(c)
  <2>1. call' \in [Call -> CallState] /\ \A d \in Call : Fits(call'[d])
    BY <1>8, CallTyped, IdleFacts DEF Store, End, Fits
  <2>2. account' \in Account
    BY <1>8, CallFacts DEF Store
  <2>3. change' \in [Change -> {"unissued", "open", "consumed"}]
    BY <1>8 DEF Store, Consumed, TypeInv, TypeOK
  <2>4. misses' \in Nat /\ lapses' \in Nat
    BY <1>8 DEF Store, TypeInv, TypeOK
  <2>5. QED
    BY <1>5, <1>8, <2>1, <2>2, <2>3, <2>4 DEF Store, TypeInv, TypeOK, redis
<1>9. QED
  BY <1>1, <1>2, <1>3, <1>4, <1>6, <1>7, <1>8

\* The steps that are not of a call.
Elsewhere ==
  \/ \E t \in Token : Logout(t)
  \/ \E b \in BOOLEAN : SetActive(b) \/ SetMust(b) \/ SetMfa(b)
  \/ LockRunsOut
  \/ \E k \in Code : MarkRunsOut(k)

LEMMA ElsewhereTyped == TypeInv /\ Elsewhere => TypeInv'
<1> SUFFICES ASSUME TypeInv, Elsewhere PROVE TypeInv'
  OBVIOUS
<1> USE NotesTyped
<1>1. account \in Account
  BY DEF TypeInv, TypeOK
<1>2. CASE \E t \in Token : Logout(t)
  BY <1>2 DEF Logout, TypeInv, TypeOK, passwords, history
<1>3. CASE \E b \in BOOLEAN : SetActive(b) \/ SetMust(b) \/ SetMfa(b)
  <2>1. account' \in Account
    BY <1>1, <1>3, RowFacts DEF SetActive, SetMust, SetMfa
  <2>2. QED
    BY <1>3, <2>1 DEF SetActive, SetMust, SetMfa, TypeInv, TypeOK, redis, passwords, history
<1>4. CASE LockRunsOut
  <2>1. account' \in Account
    BY <1>1, <1>4, RowFacts DEF LockRunsOut
  <2>2. lapses' \in Nat
    BY <1>4 DEF LockRunsOut, TypeInv, TypeOK
  <2>3. QED
    BY <1>4, <2>1, <2>2 DEF LockRunsOut, TypeInv, TypeOK, redis, passwords
<1>5. CASE \E k \in Code : MarkRunsOut(k)
  BY <1>5 DEF MarkRunsOut, TypeInv, TypeOK, passwords
<1>6. QED
  BY <1>2, <1>3, <1>4, <1>5 DEF Elsewhere

LEMMA TypeInit == Init => TypeInv
<1> SUFFICES ASSUME Init PROVE TypeInv
  OBVIOUS
<1>1. account \in Account
  <2>1. 0 \in 0..MaxFailed /\ "none" \in Lock /\ TRUE \in BOOLEAN
    BY SignInAssumption DEF Lock
  <2>2. /\ account = [active |-> account.active, mfa |-> account.mfa, must |-> account.must,
                     failed |-> account.failed, lock |-> account.lock]
        /\ account.active = TRUE /\ account.mfa \in BOOLEAN /\ account.must \in BOOLEAN
        /\ account.failed = 0 /\ account.lock = "none"
    BY DEF Init
  <2>3. QED
    BY <2>1, <2>2 DEF Account
<1>2. \A c \in Call : call[c] = Idle /\ Fits(call[c])
  BY IdleFacts DEF Init, Fits
<1>3. QED
  BY <1>1, <1>2, IdleFacts, SignInAssumption DEF Init, TypeInv, TypeOK, Password

LEMMA TypeStep == TypeInv /\ [Next]_vars => TypeInv'
<1> SUFFICES ASSUME TypeInv, [Next]_vars PROVE TypeInv'
  OBVIOUS
<1>1. CASE Elsewhere
  BY <1>1, ElsewhereTyped
<1>2. CASE \E c \in Call : CallStep(c)
  <2>1. PICK c \in Call : CallStep(c)
    BY <1>2
  <2>2. QED
    BY <2>1, LoginTyped, ChallengeTyped, SessionTyped, ChangeTyped DEF CallStep
<1>3. CASE UNCHANGED vars
  BY <1>3 DEF vars, redis, passwords, history, TypeInv, TypeOK
<1>4. QED
  BY <1>1, <1>2, <1>3 DEF Next, Elsewhere

\* Every variable keeps its type: whatever overlaps or fails, the counter stays
\* within its column and every call holds what its stage needs.
THEOREM TypeCorrect == Spec => []TypeOK
<1>1. TypeInv => TypeOK
  BY DEF TypeInv
<1>2. QED
  BY <1>1, TypeInit, TypeStep, PTL DEF Spec

-----------------------------------------------------------------------------
(* The two password stores.                                                *)

\* Call c goes on to a stage before its flush or ends.
LEMMA PasswordAside ==
  ASSUME TypeInv, PasswordInv, NEW c \in Call, NEW s \in CallState,
         s.at \notin {"ldap", "store"}, ~s.wrote,
         call' = [call EXCEPT ![c] = s], UNCHANGED ldapPassword
  PROVE  PasswordInv'
  BY DEF TypeInv, TypeOK, PasswordInv, Writing, PasswordsAgree

\* Nothing but a call's stage lets it write a password.
LEMMA PasswordUnchanged ==
  ASSUME PasswordInv, UNCHANGED <<call, ldapPassword>>
  PROVE  PasswordInv'
  BY DEF PasswordInv, Writing, PasswordsAgree

LEMMA NotWrote ==
  ASSUME PasswordInv, NEW c \in Call, call[c].at # "store"
  PROVE  ~call[c].wrote
  BY DEF PasswordInv

LEMMA PasswordLogin ==
  ASSUME TypeInv, PasswordInv, NEW c \in Call,
         \/ LoginRefused(c) \/ LoginAccepted(c) \/ LoginChallenge(c) \/ Miss(c)
         \/ Grant(c) \/ RefreshRotate(c) \/ CallFails(c) \/ ChallengeRefused(c)
         \/ \E k \in Code : CodeReused(c, k)
         \/ \E k \in Challenge : ChallengeGet(c, k)
         \/ \E t \in Token : RefreshCheck(c, t)
         \/ \E k \in Change : ChangeWithToken(c, k)
         \/ ChangeOwn(c)
         \/ \E demand \in BOOLEAN : AdminReset(c, demand)
  PROVE  PasswordInv'
<1> USE AtHand
<1> DEFINE begun_ == {Missing(Idle), Moved(Idle, "challenge"), Reading(Idle, "grant"),
                      Changing(Idle), Idle}
                     \cup {Answering(k) : k \in Challenge} \cup {Rotating(t) : t \in Token}
                     \cup {Redeeming(k) : k \in Change}
                     \cup {Reading(Resetting(b), "flush") : b \in BOOLEAN}
<1>1. {"challenge", "grant", "flush"} \subseteq Stage
  BY DEF Stage
<1>2. \A b \in BOOLEAN : /\ Reading(Resetting(b), "flush") \in CallState
                         /\ Reading(Resetting(b), "flush").at = "flush"
                         /\ ~Reading(Resetting(b), "flush").wrote
  BY ResetFacts
<1>3. /\ Missing(Idle) \in CallState /\ Missing(Idle).at = "miss" /\ ~Missing(Idle).wrote
      /\ Moved(Idle, "challenge") \in CallState /\ Moved(Idle, "challenge").at = "challenge"
      /\ ~Moved(Idle, "challenge").wrote
      /\ Reading(Idle, "grant") \in CallState /\ Reading(Idle, "grant").at = "grant"
      /\ ~Reading(Idle, "grant").wrote
      /\ Changing(Idle) \in CallState /\ Changing(Idle).at = "flush" /\ ~Changing(Idle).wrote
  <2>1. Idle \in CallState /\ ~Idle.wrote
    BY IdleFacts
  <2>2. /\ Missing(Idle) \in CallState /\ Missing(Idle).at = "miss" /\ ~Missing(Idle).wrote
        /\ Changing(Idle) \in CallState /\ Changing(Idle).at = "flush"
        /\ ~Changing(Idle).wrote
    BY <2>1, ReadFacts
  <2>3. /\ Reading(Idle, "grant") \in CallState /\ Reading(Idle, "grant").at = "grant"
        /\ ~Reading(Idle, "grant").wrote
    <3>1. "grant" \in Stage
      BY DEF Stage
    <3>2. QED
      BY <2>1, <3>1, ReadingFacts
  <2>4. /\ Moved(Idle, "challenge") \in CallState
        /\ Moved(Idle, "challenge").at = "challenge" /\ ~Moved(Idle, "challenge").wrote
    BY <1>1, <2>1, MovedFacts
  <2>5. QED
    BY <2>2, <2>3, <2>4
<1>4. \A s \in begun_ : s \in CallState /\ s.at \notin {"ldap", "store"} /\ ~s.wrote
  BY <1>2, <1>3, IdleFacts, BegunFacts
<1>5. UNCHANGED ldapPassword
  BY DEF LoginRefused, LoginAccepted, LoginChallenge, Miss, Grant, RefreshRotate, CallFails,
         ChallengeRefused, CodeReused, ChallengeGet, RefreshCheck, ChangeWithToken, ChangeOwn,
         AdminReset, passwords
<1>6. \E s \in begun_ : call' = [call EXCEPT ![c] = s]
  BY DEF LoginRefused, LoginAccepted, LoginChallenge, Miss, Grant, RefreshRotate, CallFails,
         ChallengeRefused, CodeReused, ChallengeGet, RefreshCheck, ChangeWithToken, ChangeOwn,
         AdminReset, End
<1>7. QED
  BY <1>4, <1>5, <1>6, PasswordAside

LEMMA PasswordMoves ==
  ASSUME TypeInv, PasswordInv, NEW c \in Call,
         \/ CodeWrong(c) \/ MarkUsed(c) \/ Consume(c)
         \/ \E k \in Code : CodeRight(c, k)
  PROVE  PasswordInv'
<1> USE AtHand
<1>1. ~call[c].wrote
  BY NotWrote DEF CodeWrong, MarkUsed, Consume, CodeRight
<1>2. /\ Missing(call[c]) \in CallState /\ Missing(call[c]).at = "miss"
      /\ ~Missing(call[c]).wrote
      /\ Changing(call[c]) \in CallState /\ Changing(call[c]).at = "flush"
      /\ ~Changing(call[c]).wrote
  BY <1>1, ReadFacts
<1>3. /\ Moved(call[c], "grant") \in CallState /\ Moved(call[c], "grant").at = "grant"
      /\ ~Moved(call[c], "grant").wrote
  BY <1>1, MovedFacts DEF Stage
<1>4. \A k \in Code : /\ Reading(WithCode(call[c], k), "mark") \in CallState
                     /\ Reading(WithCode(call[c], k), "mark").at = "mark"
                     /\ ~Reading(WithCode(call[c], k), "mark").wrote
  BY <1>1, MarkFacts
<1>5. UNCHANGED ldapPassword
  BY DEF CodeWrong, MarkUsed, Consume, CodeRight, passwords
<1>6. CASE CodeWrong(c)
  BY <1>2, <1>5, <1>6, PasswordAside DEF CodeWrong
<1>7. CASE MarkUsed(c)
  BY <1>3, <1>5, <1>7, PasswordAside DEF MarkUsed
<1>8. CASE Consume(c)
  BY <1>2, <1>5, <1>8, PasswordAside DEF Consume
<1>9. CASE \E k \in Code : CodeRight(c, k)
  <2>1. PICK k \in Code : CodeRight(c, k)
    BY <1>9
  <2>2. call' = [call EXCEPT ![c] = Reading(WithCode(call[c], k), "mark")]
    BY <2>1 DEF CodeRight
  <2>3. QED
    BY <1>4, <1>5, <2>2, PasswordAside
<1>10. QED
  BY <1>6, <1>7, <1>8, <1>9

\* The steps between the flush and the commit of a change.
LEMMA PasswordWrites ==
  ASSUME TypeInv, PasswordInv, NEW c \in Call,
         Flush(c) \/ LdapModify(c) \/ LdapError(c) \/ Store(c)
  PROVE  PasswordInv'
<1> USE AtHand
<1>1. call \in [Call -> CallState]
  BY DEF TypeInv, TypeOK
<1>2. CASE Flush(c)
  <2>1. made + 1 \in Password
    BY <1>2, SignInAssumption DEF Flush, Password, TypeInv, TypeOK
  <2>2. /\ Holding(call[c], made + 1).at = "ldap"
        /\ Holding(call[c], made + 1).wrote = call[c].wrote
    BY <2>1, ChangeFacts
  <2>3. ~call[c].wrote
    BY <1>2, NotWrote DEF Flush
  <2>4. \A d \in Call : ~Writing(d)
    BY <1>2 DEF Flush, RowFree, Writing
  <2>5. /\ call'[c].at = "ldap" /\ ~call'[c].wrote
        /\ \A d \in Call : d # c => call'[d] = call[d]
    BY <1>1, <1>2, <2>2, <2>3 DEF Flush
  <2>6. QED
    BY <2>4, <2>5 DEF PasswordInv, Writing, PasswordsAgree
<1>3. CASE LdapModify(c)
  <2>1. call'[c] = Wrote(call[c]) /\ \A d \in Call : d # c => call'[d] = call[d]
    BY <1>1, <1>3 DEF LdapModify
  <2>2. call'[c].at = "store" /\ call'[c].new = call[c].new
    BY <2>1, ChangeFacts
  <2>3. \A d \in Call : d # c => ~Writing(d)
    BY <1>3 DEF LdapModify, PasswordInv, Writing
  <2>4. QED
    BY <1>3, <2>1, <2>2, <2>3 DEF LdapModify, PasswordInv, Writing, PasswordsAgree
<1>4. CASE LdapError(c)
  <2>1. call'[c] = Moved(call[c], "store") /\ \A d \in Call : d # c => call'[d] = call[d]
    BY <1>1, <1>4 DEF LdapError
  <2>2. ~call[c].wrote
    BY <1>4, NotWrote DEF LdapError
  <2>3. call'[c].at = "store" /\ ~call'[c].wrote
    BY <2>1, <2>2, MovedFacts DEF Stage
  <2>4. \A d \in Call : d # c => ~Writing(d)
    BY <1>4 DEF LdapError, PasswordInv, Writing
  <2>5. UNCHANGED ldapPassword
    BY <1>4 DEF LdapError, passwords
  <2>6. QED
    BY <2>1, <2>3, <2>4, <2>5 DEF PasswordInv, Writing, PasswordsAgree
<1>5. CASE Store(c)
  BY <1>5, PasswordAside, IdleFacts DEF Store, End
<1>6. QED
  BY <1>2, <1>3, <1>4, <1>5

LEMMA PasswordStep == TypeInv /\ PasswordInv /\ [Next]_vars => PasswordInv'
<1> SUFFICES ASSUME TypeInv, PasswordInv, [Next]_vars PROVE PasswordInv'
  OBVIOUS
<1>1. CASE Elsewhere
  BY <1>1, PasswordUnchanged DEF Elsewhere, Logout, SetActive, SetMust, SetMfa, LockRunsOut,
                                 MarkRunsOut, passwords
<1>2. CASE \E c \in Call : CallStep(c)
  <2>1. PICK c \in Call : CallStep(c)
    BY <1>2
  <2>2. QED
    BY <2>1, PasswordLogin, PasswordMoves, PasswordWrites DEF CallStep
<1>3. CASE UNCHANGED vars
  BY <1>3, PasswordUnchanged DEF vars, passwords
<1>4. QED
  BY <1>1, <1>2, <1>3 DEF Next, Elsewhere

\* However many password changes run at once, each that met no LDAP error commits
\* the password LDAP holds at that moment.
THEOREM StoresAgree == Spec => []PasswordsAgree
<1>1. Init => PasswordInv
  BY IdleFacts DEF Init, PasswordInv, Writing, PasswordsAgree
<1>2. PasswordInv => PasswordsAgree
  BY DEF PasswordInv
<1>3. QED
  BY <1>1, <1>2, TypeInit, TypeStep, PasswordStep, PTL DEF Spec

-----------------------------------------------------------------------------
(* The failure counter.                                                    *)

\* Call state s will write the counter back.
CountingState(s) ==
  s.at \in {"miss", "mark", "grant"} \/ (s.at \in {"flush", "ldap", "store"} /\ s.reset)

\* The numbers that CounterInv relates.
LEMMA CounterNumbers ==
  ASSUME TypeInv
  PROVE  /\ misses \in Nat /\ lapses \in Nat /\ account.failed \in Nat
         /\ account \in Account /\ Threshold \in Nat \ {0}
  BY SignInAssumption DEF TypeInv, TypeOK, Account

\* Call c goes on to a state that will not write the counter.
LEMMA CounterAside ==
  ASSUME TypeInv, CounterInv, NEW c \in Call, NEW s \in CallState, ~CountingState(s),
         call' = [call EXCEPT ![c] = s], raced \subseteq raced',
         account'.failed = account.failed, account'.lock = account.lock,
         UNCHANGED <<misses, lapses>>
  PROVE  CounterInv'
<1>1. call'[c] = s /\ \A d \in Call : d # c => call'[d] = call[d]
  BY DEF TypeInv, TypeOK
<1>2. ~Counting(c)'
  BY <1>1 DEF Counting, CountingState
<1>3. \A d \in Call : Counting(d)' => Counting(d) /\ d # c
  BY <1>1, <1>2 DEF Counting
<1>4. \A d \in Call : d # c /\ CounterRead(d) => CounterRead(d)'
  BY <1>1 DEF CounterRead
<1>5. QED
  BY <1>3, <1>4 DEF CounterInv

\* Call c reads the counter: either it is alone, or the overlap is noted.
LEMMA CounterReadBy ==
  ASSUME TypeInv, CounterInv, NEW c \in Call, NEW s \in CallState,
         s.failed = account.failed,
         s.at = "miss" /\ s.challenge = Null => account.lock # "on",
         s.at # "miss" => s.lock = account.lock,
         call' = [call EXCEPT ![c] = s], raced \cup NoteCounter \subseteq raced',
         UNCHANGED <<account, misses, lapses>>
  PROVE  CounterInv'
<1>1. call'[c] = s /\ \A d \in Call : d # c => call'[d] = call[d]
  BY DEF TypeInv, TypeOK
<1>2. CASE \E d \in Call : Counting(d)
  BY <1>2 DEF NoteCounter, CounterInv
<1>3. CASE \A d \in Call : ~Counting(d)
  <2>1. \A d \in Call : Counting(d)' => d = c
    BY <1>1, <1>3 DEF Counting
  <2>2. CounterRead(c)'
    BY <1>1 DEF CounterRead
  <2>3. QED
    BY <2>1, <2>2 DEF CounterInv
<1>4. QED
  BY <1>2, <1>3

\* Call c goes on with what it has read.
LEMMA CounterKept ==
  ASSUME TypeInv, CounterInv, NEW c \in Call, NEW s \in CallState,
         CountingState(s) => Counting(c), s.at # "miss", call[c].at # "miss",
         s.failed = call[c].failed, s.lock = call[c].lock,
         call' = [call EXCEPT ![c] = s],
         UNCHANGED <<account, misses, lapses, raced>>
  PROVE  CounterInv'
<1>1. call'[c] = s /\ \A d \in Call : d # c => call'[d] = call[d]
  BY DEF TypeInv, TypeOK
<1>2. \A d \in Call : Counting(d)' => Counting(d)
  BY <1>1 DEF Counting, CountingState
<1>3. \A d \in Call : CounterRead(d) => CounterRead(d)'
  BY <1>1 DEF CounterRead
<1>4. QED
  BY <1>2, <1>3 DEF CounterInv

\* Call c writes the counter and ends: no other call had read it, or the overlap
\* was noted.
LEMMA CounterWritten ==
  ASSUME TypeInv, CounterInv, NEW c \in Call, Counting(c), End(c), UNCHANGED raced,
         "counter" \notin raced =>
             /\ misses' <= account'.failed
             /\ misses' <= Threshold + lapses'
             /\ account'.lock # "on" => misses' < Threshold + lapses'
  PROVE  CounterInv'
<1>1. call'[c] = Idle /\ \A d \in Call : d # c => call'[d] = call[d]
  BY DEF TypeInv, TypeOK, End
<1>2. ~Counting(c)'
  BY <1>1, IdleFacts DEF Counting
<1>3. ASSUME "counter" \notin raced PROVE \A d \in Call : ~Counting(d)'
  <2>1. \A d \in Call : d # c => ~Counting(d)
    BY <1>3 DEF CounterInv
  <2>2. QED
    BY <1>1, <1>2, <2>1 DEF Counting
<1>4. QED
  BY <1>3 DEF CounterInv

LEMMA MissCounter ==
  ASSUME TypeInv, CounterInv, NEW c \in Call, Miss(c)
  PROVE  CounterInv'
<1> USE AtHand, CounterNumbers
<1>1. Counting(c) /\ End(c) /\ UNCHANGED <<raced, lapses>>
  BY DEF Miss, Counting
<1>2. /\ account'.failed = call[c].failed + 1
      /\ account'.lock = IF call[c].failed + 1 >= Threshold THEN "on" ELSE account.lock
  BY CallFacts DEF Miss, Fits
<1>3. ASSUME "counter" \notin raced
      PROVE  /\ misses' <= account'.failed
             /\ misses' <= Threshold + lapses'
             /\ account'.lock # "on" => misses' < Threshold + lapses'
  <2>1. call[c].failed = account.failed
    BY <1>1, <1>3 DEF CounterInv, CounterRead
  <2>2. misses <= account.failed /\ misses <= Threshold + lapses
    BY <1>3 DEF CounterInv
  <2>3. account'.lock # "on" => account.failed + 1 < Threshold
    BY <1>2, <2>1
  <2>4. CASE call[c].challenge = Null
    <3>1. account.lock # "on"
      BY <1>1, <1>3, <2>4 DEF CounterInv, CounterRead, Miss
    <3>2. misses < Threshold + lapses
      BY <1>3, <3>1 DEF CounterInv
    <3>3. misses' = misses + 1
      BY <1>3, <2>4 DEF Miss, Count
    <3>4. QED
      BY <1>1, <1>2, <2>1, <2>2, <2>3, <3>2, <3>3
  <2>5. CASE call[c].challenge # Null
    <3>1. misses' = misses
      BY <2>5 DEF Miss
    <3>2. QED
      BY <1>1, <1>2, <2>1, <2>2, <2>3, <3>1
  <2>6. QED
    BY <2>4, <2>5
<1>4. QED
  BY <1>1, <1>3, CounterWritten

\* A sign-in and a reset clear the counter, and with it what the properties count.
LEMMA ClearCounter ==
  ASSUME TypeInv, CounterInv, NEW c \in Call, Grant(c) \/ (Store(c) /\ call[c].reset)
  PROVE  CounterInv'
<1> USE AtHand, CounterNumbers
<1>1. Counting(c) /\ call[c].at # "miss"
  BY DEF Grant, Store, Counting
<1>2. End(c) /\ UNCHANGED raced /\ misses' = 0 /\ lapses' = 0
  BY DEF Grant, Store
<1>3. /\ account'.failed = (IF call[c].failed = 0 THEN account.failed ELSE 0)
      /\ account'.lock = (IF call[c].lock = "none" THEN account.lock ELSE "none")
  BY CallFacts DEF Grant, Store
<1>4. "counter" \notin raced =>
          /\ misses' <= account'.failed
          /\ misses' <= Threshold + lapses'
          /\ account'.lock # "on" => misses' < Threshold + lapses'
  BY <1>2, <1>3
<1>5. QED
  BY <1>1, <1>2, <1>4, CounterWritten

LEMMA CounterBegins ==
  ASSUME TypeInv, CounterInv, NEW c \in Call,
         \/ LoginRefused(c) \/ LoginAccepted(c) \/ CodeWrong(c)
         \/ \E k \in Code : CodeRight(c, k)
         \/ \E demand \in BOOLEAN : AdminReset(c, demand)
  PROVE  CounterInv'
<1> USE AtHand, CounterNumbers
<1>1. CASE LoginRefused(c)
  <2>1. /\ Missing(Idle) \in CallState /\ Missing(Idle).at = "miss"
        /\ Missing(Idle).failed = account.failed
    BY ReadFacts, IdleFacts
  <2>2. QED
    BY <1>1, <2>1, CounterReadBy DEF LoginRefused
<1>2. CASE LoginAccepted(c)
  <2>1. "challenge" \in Stage /\ "grant" \in Stage
    BY DEF Stage
  <2>2. CASE account.mfa
    <3>1. Moved(Idle, "challenge") \in CallState /\ Moved(Idle, "challenge").at = "challenge"
      BY <2>1, MovedFacts, IdleFacts
    <3>2. ~CountingState(Moved(Idle, "challenge"))
      BY <3>1 DEF CountingState
    <3>3. QED
      BY <1>2, <2>2, <3>1, <3>2, CounterAside DEF LoginAccepted
  <2>3. CASE ~account.mfa
    <3>1. /\ Reading(Idle, "grant") \in CallState /\ Reading(Idle, "grant").at = "grant"
          /\ Reading(Idle, "grant").failed = account.failed
          /\ Reading(Idle, "grant").lock = account.lock
      BY <2>1, ReadingFacts, IdleFacts
    <3>2. QED
      BY <1>2, <2>3, <3>1, CounterReadBy DEF LoginAccepted
  <2>4. QED
    BY <2>2, <2>3
<1>3. CASE CodeWrong(c)
  <2>1. /\ Missing(call[c]) \in CallState /\ Missing(call[c]).at = "miss"
        /\ Missing(call[c]).failed = account.failed
        /\ Missing(call[c]).challenge = call[c].challenge
    BY ReadFacts
  <2>2. call[c].challenge # Null
    BY <1>3 DEF CodeWrong, Fits
  <2>3. QED
    BY <1>3, <2>1, <2>2, CounterReadBy DEF CodeWrong
<1>4. CASE \E k \in Code : CodeRight(c, k)
  <2>1. PICK k \in Code : CodeRight(c, k)
    BY <1>4
  <2> DEFINE s == Reading(WithCode(call[c], k), "mark")
  <2>2. s \in CallState /\ s.at = "mark" /\ s.failed = account.failed /\ s.lock = account.lock
    BY MarkFacts
  <2>3. call' = [call EXCEPT ![c] = s] /\ raced \cup NoteCounter \subseteq raced'
    BY <2>1 DEF CodeRight
  <2>4. UNCHANGED <<account, misses, lapses>>
    BY <2>1 DEF CodeRight
  <2> HIDE DEF s
  <2>5. QED
    BY <2>2, <2>3, <2>4, CounterReadBy
<1>5. CASE \E demand \in BOOLEAN : AdminReset(c, demand)
  <2>1. PICK demand \in BOOLEAN : AdminReset(c, demand)
    BY <1>5
  <2> DEFINE s == Reading(Resetting(demand), "flush")
  <2>2. s \in CallState /\ s.at = "flush" /\ s.failed = account.failed /\ s.lock = account.lock
    BY ResetFacts
  <2>3. call' = [call EXCEPT ![c] = s] /\ raced \cup NoteCounter \subseteq raced'
    BY <2>1 DEF AdminReset
  <2>4. UNCHANGED <<account, misses, lapses>>
    BY <2>1 DEF AdminReset
  <2> HIDE DEF s
  <2>5. QED
    BY <2>2, <2>3, <2>4, CounterReadBy
<1>6. QED
  BY <1>1, <1>2, <1>3, <1>4, <1>5

\* Calls that have nothing to do with the counter, or end without writing it.
LEMMA CounterApart ==
  ASSUME TypeInv, CounterInv, NEW c \in Call,
         \/ LoginChallenge(c) \/ ChallengeRefused(c) \/ CallFails(c) \/ RefreshRotate(c)
         \/ \E k \in Challenge : ChallengeGet(c, k)
         \/ \E k \in Code : CodeReused(c, k)
         \/ \E t \in Token : RefreshCheck(c, t)
         \/ \E k \in Change : ChangeWithToken(c, k)
         \/ ChangeOwn(c) \/ (Store(c) /\ ~call[c].reset)
  PROVE  CounterInv'
<1> USE AtHand
<1> DEFINE next == {Idle, Changing(Idle)} \cup {Answering(k) : k \in Challenge}
                   \cup {Rotating(t) : t \in Token} \cup {Redeeming(k) : k \in Change}
<1>1. Changing(Idle) \in CallState /\ Changing(Idle).at = "flush" /\ ~Changing(Idle).reset
  BY ReadFacts, IdleFacts
<1>2. \A s \in next : s \in CallState /\ ~CountingState(s)
  BY <1>1, IdleFacts, BegunFacts DEF CountingState
<1>3. \E s \in next : call' = [call EXCEPT ![c] = s]
  BY DEF LoginChallenge, ChallengeRefused, CallFails, RefreshRotate, ChallengeGet, CodeReused,
         RefreshCheck, ChangeWithToken, ChangeOwn, Store, End
<1>4. raced \subseteq raced' /\ UNCHANGED <<misses, lapses>>
  BY DEF LoginChallenge, ChallengeRefused, CallFails, RefreshRotate, ChallengeGet, CodeReused,
         RefreshCheck, ChangeWithToken, ChangeOwn, Store, history
<1>5. account'.failed = account.failed /\ account'.lock = account.lock
  BY CallFacts DEF LoginChallenge, ChallengeRefused, CallFails, RefreshRotate, ChallengeGet,
         CodeReused, RefreshCheck, ChangeWithToken, ChangeOwn, Store
<1>6. QED
  BY <1>2, <1>3, <1>4, <1>5, CounterAside

LEMMA CounterMoves ==
  ASSUME TypeInv, CounterInv, NEW c \in Call,
         MarkUsed(c) \/ Consume(c) \/ Flush(c) \/ LdapModify(c) \/ LdapError(c)
  PROVE  CounterInv'
<1> USE AtHand
<1>1. CASE MarkUsed(c)
  <2>1. /\ Moved(call[c], "grant") \in CallState /\ Moved(call[c], "grant").at = "grant"
        /\ Moved(call[c], "grant").failed = call[c].failed
        /\ Moved(call[c], "grant").lock = call[c].lock
    BY MovedFacts DEF Stage
  <2>2. Counting(c)
    BY <1>1 DEF MarkUsed, Counting
  <2>3. QED
    BY <1>1, <2>1, <2>2, CounterKept DEF MarkUsed, history
<1>2. CASE Consume(c)
  <2>1. ~call[c].reset
    BY <1>2 DEF Consume, Fits
  <2>2. Changing(call[c]) \in CallState /\ ~CountingState(Changing(call[c]))
    BY <2>1, ReadFacts DEF CountingState
  <2>3. QED
    BY <1>2, <2>2, CounterAside DEF Consume, history
<1>3. CASE Flush(c)
  <2>1. made + 1 \in Password
    BY <1>3, SignInAssumption DEF Flush, Password, TypeInv, TypeOK
  <2> DEFINE s == Holding(call[c], made + 1)
  <2>2. /\ s \in CallState /\ s.at = "ldap" /\ s.failed = call[c].failed
        /\ s.lock = call[c].lock /\ s.reset = call[c].reset
    BY <2>1, ChangeFacts
  <2>3. call' = [call EXCEPT ![c] = s] /\ UNCHANGED <<account, misses, lapses, raced>>
    BY <1>3 DEF Flush, history
  <2> HIDE DEF s
  <2>4. CountingState(s) => Counting(c)
    BY <1>3, <2>2 DEF Flush, Counting, CountingState
  <2>5. QED
    BY <1>3, <2>2, <2>3, <2>4, CounterKept DEF Flush
<1>4. CASE LdapModify(c)
  <2> DEFINE s == Wrote(call[c])
  <2>1. /\ s \in CallState /\ s.at = "store" /\ s.failed = call[c].failed
        /\ s.lock = call[c].lock /\ s.reset = call[c].reset
    BY ChangeFacts
  <2>2. call' = [call EXCEPT ![c] = s] /\ UNCHANGED <<account, misses, lapses, raced>>
    BY <1>4 DEF LdapModify, history
  <2> HIDE DEF s
  <2>3. CountingState(s) => Counting(c)
    BY <1>4, <2>1 DEF LdapModify, Counting, CountingState
  <2>4. QED
    BY <1>4, <2>1, <2>2, <2>3, CounterKept DEF LdapModify
<1>5. CASE LdapError(c)
  <2> DEFINE s == Moved(call[c], "store")
  <2>1. /\ s \in CallState /\ s.at = "store" /\ s.failed = call[c].failed
        /\ s.lock = call[c].lock /\ s.reset = call[c].reset
    BY MovedFacts DEF Stage
  <2>2. call' = [call EXCEPT ![c] = s] /\ UNCHANGED <<account, misses, lapses, raced>>
    BY <1>5 DEF LdapError, history
  <2> HIDE DEF s
  <2>3. CountingState(s) => Counting(c)
    BY <1>5, <2>1 DEF LdapError, Counting, CountingState
  <2>4. QED
    BY <1>5, <2>1, <2>2, <2>3, CounterKept DEF LdapError
<1>6. QED
  BY <1>1, <1>2, <1>3, <1>4, <1>5

\* What a call has read of an unlocked account stays true when a lock runs out.
LEMMA CounterElsewhere ==
  ASSUME TypeInv, CounterInv, Elsewhere
  PROVE  CounterInv'
<1> USE CounterNumbers
<1>1. CASE ~LockRunsOut
  <2>1. account'.failed = account.failed /\ account'.lock = account.lock
    BY <1>1, RowFacts DEF Elsewhere, Logout, SetActive, SetMust, SetMfa, MarkRunsOut
  <2>2. UNCHANGED <<call, misses, lapses>> /\ raced \subseteq raced'
    BY <1>1 DEF Elsewhere, Logout, SetActive, SetMust, SetMfa, MarkRunsOut, history
  <2>3. \A d \in Call : (Counting(d)' => Counting(d)) /\ (CounterRead(d) => CounterRead(d)')
    BY <2>1, <2>2 DEF Counting, CounterRead
  <2>4. QED
    BY <2>1, <2>2, <2>3 DEF CounterInv
<1>2. CASE LockRunsOut
  <2>1. account'.failed = account.failed /\ account'.lock = "over"
    BY <1>2, RowFacts DEF LockRunsOut
  <2>2. UNCHANGED <<call, misses, raced>>
    BY <1>2 DEF LockRunsOut
  <2>3. \A d \in Call : (Counting(d)' => Counting(d)) /\ (CounterRead(d) => CounterRead(d)')
    BY <2>1, <2>2 DEF Counting, CounterRead
  <2>4. "counter" \notin raced => lapses' = lapses + 1
    BY <1>2 DEF LockRunsOut, Count
  <2>5. QED
    BY <2>1, <2>2, <2>3, <2>4 DEF CounterInv
<1>3. QED
  BY <1>1, <1>2

LEMMA CounterStep == TypeInv /\ CounterInv /\ [Next]_vars => CounterInv'
<1> SUFFICES ASSUME TypeInv, CounterInv, [Next]_vars PROVE CounterInv'
  OBVIOUS
<1>1. CASE Elsewhere
  BY <1>1, CounterElsewhere
<1>2. CASE \E c \in Call : CallStep(c)
  <2>1. PICK c \in Call : CallStep(c)
    BY <1>2
  <2>2. CASE Store(c)
    BY <2>2, CounterApart, ClearCounter
  <2>3. CASE ~Store(c)
    BY <2>1, <2>3, CounterBegins, CounterApart, CounterMoves, MissCounter, ClearCounter
       DEF CallStep
  <2>4. QED
    BY <2>2, <2>3
<1>3. CASE UNCHANGED vars
  BY <1>3 DEF vars, history, CounterInv, Counting, CounterRead
<1>4. QED
  BY <1>1, <1>2, <1>3 DEF Next, Elsewhere

LEMMA CounterInit == Init => CounterInv
<1> SUFFICES ASSUME Init PROVE CounterInv
  OBVIOUS
<1>1. \A c \in Call : ~Counting(c)
  BY IdleFacts DEF Init, Counting
<1>2. misses = 0 /\ lapses = 0 /\ account.failed = 0
  BY DEF Init
<1>3. QED
  BY <1>1, <1>2, SignInAssumption DEF CounterInv

\* The lock works for any threshold and any number of calls, challenges and codes:
\* without overlaps, an account answers Threshold wrong passwords, and one more for
\* each lock that ran out, before a sign-in or a reset clears the counter.
THEOREM GuessesAreBounded == Spec => []GuessesBounded
<1>1. CounterInv => GuessesBounded
  BY DEF CounterInv, GuessesBounded
<1>2. QED
  BY <1>1, TypeInit, TypeStep, CounterInit, CounterStep, PTL DEF Spec
-----------------------------------------------------------------------------
(* One sign-in per challenge and code.  A call takes up a challenge, then  *)
(* a code, and carries both to the sign-in; every other step carries them  *)
(* on, or drops them.                                                      *)

\* A call goes on with what it works on.
LEMMA CarriedFacts ==
  ASSUME NEW s \in CallState
  PROVE  /\ Missing(s).challenge = s.challenge /\ Missing(s).code = s.code
         /\ Changing(s).challenge = s.challenge /\ Changing(s).code = s.code
         /\ Wrote(s).challenge = s.challenge /\ Wrote(s).code = s.code
         /\ \A n : Holding(s, n).challenge = s.challenge /\ Holding(s, n).code = s.code
  BY DEF Missing, Changing, Wrote, Holding, CallState

\* A call that begins has no challenge, unless it answers one, and no code.
LEMMA BlankFacts ==
  /\ Idle.challenge = Null /\ Idle.code = Null
  /\ \A k : Answering(k).code = Null
  /\ \A t : Rotating(t).challenge = Null /\ Rotating(t).code = Null
  /\ \A k : Redeeming(k).challenge = Null /\ Redeeming(k).code = Null
  /\ \A b : Resetting(b).challenge = Null /\ Resetting(b).code = Null
            /\ (b \in BOOLEAN => Resetting(b) \in CallState)
  BY IdleFacts DEF Idle, Answering, Rotating, Redeeming, Resetting, CallState

\* How call c goes on to s: with nothing, or with its challenge and its code, which
\* is right of a call past the answer and, at the answer, only if the challenge goes.
Carries(c, s) ==
  \/ s.challenge = Null /\ s.code = Null
  \/ /\ s.challenge = call[c].challenge /\ s.code = call[c].code
     /\ \/ call[c].at \notin {"got", "mark"}
        \/ /\ call[c].at = "got"
           /\ call[c].challenge \in Challenge => challenge'[call[c].challenge] = "gone"
        \/ call[c].at = "mark" /\ s.at = "grant" /\ s.code \in used'

\* The steps that grant nothing and keep what was noted.
Quiet ==
  /\ UNCHANGED granted /\ raced \subseteq raced' /\ used \subseteq used'
  /\ \A k \in Challenge : challenge[k] = "gone" => challenge'[k] = "gone"

Special(c) ==
  \/ \E k \in Challenge : ChallengeGet(c, k)
  \/ \E k \in Code : CodeRight(c, k)
  \/ \E t \in Token : RefreshCheck(c, t)
  \/ RefreshRotate(c) \/ Grant(c)

LEMMA StepEnds ==
  ASSUME TypeInv, NEW c \in Call,
         \/ LoginChallenge(c) \/ Miss(c) \/ ChallengeRefused(c) \/ CallFails(c) \/ Store(c)
         \/ \E k \in Code : CodeReused(c, k)
  PROVE  Quiet /\ UNCHANGED family /\ blacklist \subseteq blacklist' /\ End(c)
<1>1. challenge \in [Challenge -> {"unissued", "stored", "gone"}]
  BY DEF TypeInv, TypeOK
<1>2. \A k \in Challenge : challenge[k] = "gone" => challenge'[k] = "gone"
  BY <1>1 DEF LoginChallenge, Miss, ChallengeRefused, CallFails, Store, CodeReused, Spent, redis
<1>3. QED
  BY <1>2 DEF Quiet, LoginChallenge, Miss, ChallengeRefused, CallFails, Store, CodeReused,
              redis, history

LEMMA StepLogin ==
  ASSUME TypeInv, NEW c \in Call,
         \/ LoginRefused(c) \/ LoginAccepted(c) \/ ChangeOwn(c)
         \/ \E k \in Change : ChangeWithToken(c, k)
         \/ \E demand \in BOOLEAN : AdminReset(c, demand)
  PROVE  /\ Quiet /\ UNCHANGED <<family, blacklist>>
         /\ \E s \in CallState : /\ call' = [call EXCEPT ![c] = s]
                                 /\ s.at \notin {"rotate", "got"}
                                 /\ s.challenge = Null /\ s.code = Null
<1> USE AtHand, IdleFacts, BlankFacts
<1>1. Quiet /\ UNCHANGED <<family, blacklist>>
  BY DEF Quiet, LoginRefused, LoginAccepted, ChangeOwn, ChangeWithToken, AdminReset, redis, history
<1>2. CASE LoginRefused(c)
  <2> DEFINE s == Missing(Idle)
  <2>1. /\ call' = [call EXCEPT ![c] = s] /\ s \in CallState /\ s.at = "miss"
        /\ s.challenge = Null /\ s.code = Null
    BY <1>2, ReadFacts, CarriedFacts DEF LoginRefused
  <2> HIDE DEF s
  <2>2. QED
    BY <1>1, <2>1
<1>3. CASE LoginAccepted(c)
  <2>1. "challenge" \in Stage /\ "grant" \in Stage
    BY DEF Stage
  <2> DEFINE s == Moved(Idle, "challenge")
             r == Reading(Idle, "grant")
  <2>2. call' = [call EXCEPT ![c] = s] \/ call' = [call EXCEPT ![c] = r]
    BY <1>3 DEF LoginAccepted
  <2>3. /\ s \in CallState /\ s.at = "challenge" /\ s.challenge = Null /\ s.code = Null
        /\ r \in CallState /\ r.at = "grant" /\ r.challenge = Null /\ r.code = Null
    BY <2>1, MovedFacts, ReadingFacts
  <2> HIDE DEF s, r
  <2>4. QED
    BY <1>1, <2>2, <2>3
<1>4. CASE ChangeOwn(c)
  <2> DEFINE s == Changing(Idle)
  <2>1. /\ call' = [call EXCEPT ![c] = s] /\ s \in CallState /\ s.at = "flush"
        /\ s.challenge = Null /\ s.code = Null
    BY <1>4, ReadFacts, CarriedFacts DEF ChangeOwn
  <2> HIDE DEF s
  <2>2. QED
    BY <1>1, <2>1
<1>5. ASSUME NEW k \in Change, ChangeWithToken(c, k)
      PROVE  \E s \in CallState : /\ call' = [call EXCEPT ![c] = s]
                                  /\ s.at \notin {"rotate", "got"}
                                  /\ s.challenge = Null /\ s.code = Null
  <2> DEFINE s == Redeeming(k)
  <2>1. call' = [call EXCEPT ![c] = s]
    BY <1>5 DEF ChangeWithToken
  <2>2. s \in CallState /\ s.at = "consume"
    BY BegunFacts
  <2>3. s.challenge = Null /\ s.code = Null
    OBVIOUS
  <2> HIDE DEF s
  <2>4. QED
    BY <2>1, <2>2, <2>3
<1>6. ASSUME NEW b \in BOOLEAN, AdminReset(c, b)
      PROVE  \E s \in CallState : /\ call' = [call EXCEPT ![c] = s]
                                  /\ s.at \notin {"rotate", "got"}
                                  /\ s.challenge = Null /\ s.code = Null
  <2> DEFINE s == Reading(Resetting(b), "flush")
  <2>1. "flush" \in Stage
    BY DEF Stage
  <2>2. /\ call' = [call EXCEPT ![c] = s] /\ s \in CallState /\ s.at = "flush"
        /\ s.challenge = Null /\ s.code = Null
    BY <1>6, <2>1, ReadingFacts DEF AdminReset
  <2> HIDE DEF s
  <2>3. QED
    BY <2>2
<1>7. QED
  BY <1>1, <1>2, <1>3, <1>4, <1>5, <1>6

LEMMA StepCarries ==
  ASSUME TypeInv, NEW c \in Call,
         CodeWrong(c) \/ MarkUsed(c) \/ Consume(c) \/ Flush(c) \/ LdapModify(c) \/ LdapError(c)
  PROVE  /\ Quiet /\ UNCHANGED <<family, blacklist>>
         /\ \E s \in CallState : /\ call' = [call EXCEPT ![c] = s]
                                 /\ s.at \notin {"rotate", "got"}
                                 /\ Carries(c, s)
<1> USE AtHand, CarriedFacts
<1>1. {"grant", "store"} \subseteq Stage
  BY DEF Stage
<1>2. challenge \in [Challenge -> {"unissued", "stored", "gone"}]
  BY DEF TypeInv, TypeOK
<1>3. \A k \in Challenge : challenge[k] = "gone" => challenge'[k] = "gone"
  BY <1>2 DEF CodeWrong, MarkUsed, Consume, Flush, LdapModify, LdapError, Spent, redis
<1>4. Quiet /\ UNCHANGED <<family, blacklist>>
  BY <1>3 DEF Quiet, CodeWrong, MarkUsed, Consume, Flush, LdapModify, LdapError, redis, history
<1>5. CASE CodeWrong(c)
  <2> DEFINE s == Missing(call[c])
  <2>1. /\ call' = [call EXCEPT ![c] = s] /\ s \in CallState /\ s.at = "miss"
        /\ s.challenge = call[c].challenge /\ s.code = call[c].code
    BY <1>5, ReadFacts DEF CodeWrong
  <2>2. call[c].at = "got" /\ (call[c].challenge \in Challenge => challenge'[call[c].challenge] = "gone")
    BY <1>2, <1>5 DEF CodeWrong, Spent
  <2> HIDE DEF s
  <2>3. QED
    BY <1>4, <2>1, <2>2 DEF Carries
<1>6. CASE MarkUsed(c)
  <2> DEFINE s == Moved(call[c], "grant")
  <2>1. /\ call' = [call EXCEPT ![c] = s] /\ s \in CallState /\ s.at = "grant"
        /\ s.challenge = call[c].challenge /\ s.code = call[c].code
    BY <1>1, <1>6, MovedFacts DEF MarkUsed
  <2>2. call[c].at = "mark" /\ s.code \in used'
    BY <1>6, <2>1 DEF MarkUsed
  <2> HIDE DEF s
  <2>3. QED
    BY <1>4, <2>1, <2>2 DEF Carries
<1>7. CASE Consume(c) \/ Flush(c) \/ LdapModify(c) \/ LdapError(c)
  <2>1. call[c].at \notin {"got", "mark"}
    BY <1>7 DEF Consume, Flush, LdapModify, LdapError
  <2>2. PICK s \in CallState : /\ call' = [call EXCEPT ![c] = s]
                               /\ s.at \notin {"rotate", "got"}
                               /\ s.challenge = call[c].challenge /\ s.code = call[c].code
    <3>1. CASE Consume(c)
      BY <3>1, ReadFacts DEF Consume
    <3>2. CASE Flush(c)
      <4>1. made + 1 \in Password
        BY <3>2, SignInAssumption DEF Flush, Password, TypeInv, TypeOK
      <4> DEFINE s == Holding(call[c], made + 1)
      <4>2. call' = [call EXCEPT ![c] = s]
        BY <3>2 DEF Flush
      <4>3. s \in CallState /\ s.at = "ldap"
        BY <4>1, ChangeFacts
      <4>4. s.challenge = call[c].challenge /\ s.code = call[c].code
        OBVIOUS
      <4> HIDE DEF s
      <4>5. QED
        BY <4>2, <4>3, <4>4
    <3>3. CASE LdapModify(c)
      BY <3>3, ChangeFacts DEF LdapModify
    <3>4. CASE LdapError(c)
      BY <1>1, <3>4, MovedFacts DEF LdapError
    <3>5. QED
      BY <1>7, <3>1, <3>2, <3>3, <3>4
  <2>3. QED
    BY <1>4, <2>1, <2>2 DEF Carries
<1>8. QED
  BY <1>5, <1>6, <1>7

\* A step of a call that neither takes up something nor grants.
LEMMA PlainStep ==
  ASSUME TypeInv, NEW c \in Call, CallStep(c), ~Special(c)
  PROVE  /\ Quiet /\ UNCHANGED family /\ blacklist \subseteq blacklist'
         /\ \E s \in CallState : /\ call' = [call EXCEPT ![c] = s]
                                 /\ s.at \notin {"rotate", "got"}
                                 /\ Carries(c, s)
<1>1. CASE \/ LoginChallenge(c) \/ Miss(c) \/ ChallengeRefused(c) \/ CallFails(c) \/ Store(c)
           \/ \E k \in Code : CodeReused(c, k)
  BY <1>1, StepEnds, IdleFacts, BlankFacts DEF End, Carries
<1>2. CASE \/ LoginRefused(c) \/ LoginAccepted(c) \/ ChangeOwn(c)
           \/ \E k \in Change : ChangeWithToken(c, k)
           \/ \E demand \in BOOLEAN : AdminReset(c, demand)
  BY <1>2, StepLogin DEF Carries
<1>3. CASE CodeWrong(c) \/ MarkUsed(c) \/ Consume(c) \/ Flush(c) \/ LdapModify(c) \/ LdapError(c)
  BY <1>3, StepCarries
<1>4. QED
  BY <1>1, <1>2, <1>3 DEF CallStep, Special

\* Call c goes on to s, with its challenge only if that is gone, or drops it.
LEMMA ChallengeAside ==
  ASSUME TypeInv, ChallengeInv, Quiet, NEW c \in Call, NEW s \in CallState,
         call' = [call EXCEPT ![c] = s], s.at # "got",
         \/ s.challenge = Null
         \/ /\ s.challenge = call[c].challenge
            /\ \/ call[c].at # "got"
               \/ call[c].challenge \in Challenge => challenge'[call[c].challenge] = "gone"
  PROVE  ChallengeInv'
<1>1. \A d \in Call : call'[d] = IF d = c THEN s ELSE call[d]
  BY DEF TypeInv, TypeOK
<1> SUFFICES ASSUME NEW k \in Challenge, k \notin raced'
             PROVE  ChallengeInv!(k)'
  BY DEF ChallengeInv
<1>2. k \notin raced /\ k # Null
  BY SignInAssumption DEF Quiet
<1>3. \A d \in Call : call'[d].challenge = k => call[d].challenge = k
  BY <1>1, <1>2
<1>4. \A d \in Call : call'[d].challenge = k /\ call'[d].at # "got" => challenge'[k] = "gone"
  BY <1>1, <1>2 DEF ChallengeInv, Quiet
<1>5. QED
  BY <1>2, <1>3, <1>4 DEF ChallengeInv, Quiet

\* Call c goes on to s, with its code as far as the stage allows.
LEMMA CodeAside ==
  ASSUME TypeInv, CodeInv, UNCHANGED granted, raced \subseteq raced', used \subseteq used',
         NEW c \in Call, NEW s \in CallState,
         call' = [call EXCEPT ![c] = s],
         \/ s.code = Null
         \/ /\ s.code = call[c].code
            /\ call[c].at = "mark" /\ s.at = "grant" /\ s.code \in used'
  PROVE  CodeInv'
<1>1. \A d \in Call : call'[d] = IF d = c THEN s ELSE call[d]
  BY DEF TypeInv, TypeOK
<1>2. \A d \in Call : call'[d].code # Null => call'[d].at \in {"mark", "grant"}
  BY <1>1 DEF CodeInv
<1>3. ASSUME NEW q \in Code, q \notin raced'
      PROVE  /\ \A d, e \in Call : call'[d].code = q /\ call'[e].code = q => d = e
             /\ \A d \in Call : call'[d].code = q /\ call'[d].at = "grant" => q \in used'
             /\ granted'[q] <= 1
             /\ granted'[q] > 0 => q \in used' /\ \A d \in Call : call'[d].code # q
  <2>1. q \notin raced /\ q # Null
    BY <1>3, SignInAssumption
  <2>2. \A d \in Call : call'[d].code = q => call[d].code = q
    BY <1>1, <2>1
  <2>3. \A d \in Call : call'[d].code = q /\ call'[d].at = "grant" => q \in used'
    BY <1>1, <2>1 DEF CodeInv
  <2>4. QED
    BY <2>1, <2>2, <2>3 DEF CodeInv
<1>4. QED
  BY <1>2, <1>3 DEF CodeInv

LEMMA OnceSame ==
  ASSUME UNCHANGED <<call, challenge, granted>>, raced \subseteq raced',
         \A q \in Code : q \in used => q \in used' \/ q \in raced'
  PROVE  (ChallengeInv => ChallengeInv') /\ (CodeInv => CodeInv')
<1>1. ASSUME ChallengeInv PROVE ChallengeInv'
  BY <1>1 DEF ChallengeInv
<1>2. ASSUME CodeInv PROVE CodeInv'
  BY <1>2 DEF CodeInv
<1>3. QED
  BY <1>1, <1>2

\* A call reads a challenge that is stored: no call has answered it, and if one is
\* about to, they race.
LEMMA GetOnce ==
  ASSUME TypeInv, ChallengeInv, CodeInv, NEW c \in Call, NEW h \in Challenge, ChallengeGet(c, h)
  PROVE  ChallengeInv' /\ CodeInv'
<1>1. /\ call' = [call EXCEPT ![c] = Answering(h)] /\ Answering(h) \in CallState
      /\ Answering(h).challenge = h /\ Answering(h).at = "got" /\ Answering(h).code = Null
      /\ challenge[h] = "stored" /\ UNCHANGED <<challenge, used, granted>>
      /\ raced \subseteq raced'
  BY BegunFacts, BlankFacts DEF ChallengeGet, redis
<1>2. \A d \in Call : call'[d] = IF d = c THEN Answering(h) ELSE call[d]
  BY <1>1 DEF TypeInv, TypeOK
<1>3. h \notin raced' => \A d \in Call : call[d].challenge # h
  BY DEF ChallengeGet
<1>4. ASSUME NEW k \in Challenge, k \notin raced'
      PROVE  ChallengeInv!(k)'
  <2>1. k \notin raced
    BY <1>1, <1>4
  <2>2. CASE k = h
    <3>1. \A d \in Call : call'[d].challenge = h => d = c
      BY <1>2, <1>3, <1>4, <2>2
    <3>2. granted[h] <= 1 /\ ~(granted[h] > 0)
      BY <1>1, <2>1, <2>2 DEF ChallengeInv
    <3>3. QED
      BY <1>1, <1>2, <2>2, <3>1, <3>2
  <2>3. CASE k # h
    BY <1>1, <1>2, <2>1, <2>3 DEF ChallengeInv
  <2>4. QED
    BY <2>2, <2>3
<1>5. ChallengeInv'
  BY <1>4 DEF ChallengeInv
<1>6. CodeInv'
  BY <1>1, CodeAside
<1>7. QED
  BY <1>5, <1>6

\* A right code that is not marked: no call has granted with it or is about to, and
\* if one is about to mark it, they race.
LEMMA RightOnce ==
  ASSUME TypeInv, ChallengeInv, CodeInv, NEW c \in Call, NEW k \in Code, CodeRight(c, k)
  PROVE  ChallengeInv' /\ CodeInv'
<1> DEFINE s == Reading(WithCode(call[c], k), "mark")
<1>1. /\ call' = [call EXCEPT ![c] = s] /\ UNCHANGED <<used, granted>> /\ raced \subseteq raced'
      /\ k \notin used /\ call[c].at = "got"
  BY DEF CodeRight
<1>2. s \in CallState /\ s.at = "mark" /\ s.code = k
  BY AtHand, MarkFacts
<1>3. s.challenge = call[c].challenge
  <2>1. "mark" \in Stage
    BY DEF Stage
  <2>2. QED
    BY <2>1, AtHand, CodeFacts, ReadingFacts
<1> HIDE DEF s
<1>4. challenge \in [Challenge -> {"unissued", "stored", "gone"}]
  BY DEF TypeInv, TypeOK
<1>5. /\ \A h \in Challenge : challenge[h] = "gone" => challenge'[h] = "gone"
      /\ call[c].challenge \in Challenge => challenge'[call[c].challenge] = "gone"
  BY <1>4 DEF CodeRight, Spent
<1>6. ChallengeInv'
  BY <1>1, <1>2, <1>3, <1>5, ChallengeAside DEF Quiet
<1>7. \A d \in Call : call'[d] = IF d = c THEN s ELSE call[d]
  BY <1>1 DEF TypeInv, TypeOK
<1>8. k \notin raced' => \A d \in Call : ~(call[d].at = "mark" /\ call[d].code = k)
  BY DEF CodeRight
<1>9. ASSUME NEW q \in Code, q \notin raced'
      PROVE  /\ \A d, e \in Call : call'[d].code = q /\ call'[e].code = q => d = e
             /\ \A d \in Call : call'[d].code = q /\ call'[d].at = "grant" => q \in used'
             /\ granted'[q] <= 1
             /\ granted'[q] > 0 => q \in used' /\ \A d \in Call : call'[d].code # q
  <2>1. q \notin raced
    BY <1>1, <1>9
  <2>2. CASE q = k
    <3>1. \A d \in Call : call[d].code # k
      BY <1>1, <1>8, <1>9, <2>1, <2>2, SignInAssumption DEF CodeInv
    <3>2. granted[k] <= 1 /\ ~(granted[k] > 0)
      BY <1>1, <2>1, <2>2 DEF CodeInv
    <3>3. QED
      BY <1>1, <1>2, <1>7, <2>2, <3>1, <3>2
  <2>3. CASE q # k
    BY <1>1, <1>2, <1>7, <2>1, <2>3 DEF CodeInv
  <2>4. QED
    BY <2>2, <2>3
<1>10. \A d \in Call : call'[d].code # Null => call'[d].at \in {"mark", "grant"}
  BY <1>2, <1>7 DEF CodeInv
<1>11. CodeInv'
  BY <1>9, <1>10 DEF CodeInv
<1>12. QED
  BY <1>6, <1>11

\* The sign-in: it ends the only call with the challenge and the code, and both are
\* spent.
LEMMA GrantOnce ==
  ASSUME TypeInv, ChallengeInv, CodeInv, NEW c \in Call, Grant(c)
  PROVE  ChallengeInv' /\ CodeInv'
<1>1. call[c].at = "grant" /\ End(c) /\ UNCHANGED <<challenge, used, raced>>
  BY DEF Grant, redis
<1>2. \A d \in Call : call'[d] = IF d = c THEN Idle ELSE call[d]
  BY <1>1 DEF TypeInv, TypeOK, End
<1>3. \A x \in Challenge \cup Code :
         /\ granted[x] \in Nat
         /\ granted'[x] = IF x \in {call[c].challenge, call[c].code} \ raced
                          THEN granted[x] + 1 ELSE granted[x]
  BY DEF Grant, TypeInv, TypeOK
<1>4. Idle.challenge = Null /\ Idle.code = Null
  BY BlankFacts
<1>5. call[c].challenge \in Challenge \cup {Null} /\ call[c].code \in Code \cup {Null}
  BY AtHand DEF CallState
<1>6. ASSUME NEW k \in Challenge, k \notin raced
      PROVE  ChallengeInv!(k)'
  <2>1. k # Null /\ k # call[c].code /\ k \notin raced' /\ ChallengeInv!(k)
    BY <1>1, <1>5, <1>6, SignInAssumption DEF ChallengeInv
  <2>2. CASE call[c].challenge = k
    <3>1. challenge[k] = "gone" /\ \A d \in Call : d # c => call[d].challenge # k
      BY <1>1, <2>1, <2>2
    <3>2. granted[k] = 0 /\ granted'[k] = 1
      BY <1>3, <1>6, <2>1, <2>2
    <3>3. QED
      BY <1>1, <1>2, <1>4, <2>1, <3>1, <3>2
  <2>3. CASE call[c].challenge # k
    <3>1. granted'[k] = granted[k]
      BY <1>3, <2>1, <2>3
    <3>2. QED
      BY <1>1, <1>2, <1>4, <2>1, <2>3, <3>1
  <2>4. QED
    BY <2>2, <2>3
<1>7. ASSUME NEW q \in Code, q \notin raced
      PROVE  /\ \A d, e \in Call : call'[d].code = q /\ call'[e].code = q => d = e
             /\ \A d \in Call : call'[d].code = q /\ call'[d].at = "grant" => q \in used'
             /\ granted'[q] <= 1
             /\ granted'[q] > 0 => q \in used' /\ \A d \in Call : call'[d].code # q
  <2>1. q # Null /\ q # call[c].challenge
    BY <1>5, SignInAssumption
  <2>2. /\ \A d, e \in Call : call[d].code = q /\ call[e].code = q => d = e
        /\ \A d \in Call : call[d].code = q /\ call[d].at = "grant" => q \in used
        /\ granted[q] <= 1
        /\ granted[q] > 0 => q \in used /\ \A d \in Call : call[d].code # q
    BY <1>7 DEF CodeInv
  <2>3. CASE call[c].code = q
    <3>1. q \in used /\ \A d \in Call : d # c => call[d].code # q
      BY <1>1, <2>2, <2>3
    <3>2. granted[q] = 0 /\ granted'[q] = 1
      BY <1>3, <1>7, <2>2, <2>3
    <3>3. QED
      BY <1>1, <1>2, <1>4, <2>1, <3>1, <3>2
  <2>4. CASE call[c].code # q
    <3>1. granted'[q] = granted[q]
      BY <1>3, <2>1, <2>4
    <3>2. QED
      BY <1>1, <1>2, <1>4, <2>1, <2>2, <2>4, <3>1
  <2>5. QED
    BY <2>3, <2>4
<1>8. ChallengeInv'
  BY <1>1, <1>6 DEF ChallengeInv
<1>9. \A d \in Call : call'[d].code # Null => call'[d].at \in {"mark", "grant"}
  BY <1>2, <1>4 DEF CodeInv
<1>10. CodeInv'
  BY <1>1, <1>7, <1>9 DEF CodeInv
<1>11. QED
  BY <1>8, <1>10

LEMMA OnceStep ==
  TypeInv /\ ChallengeInv /\ CodeInv /\ [Next]_vars => ChallengeInv' /\ CodeInv'
<1> SUFFICES ASSUME TypeInv, ChallengeInv, CodeInv, [Next]_vars PROVE ChallengeInv' /\ CodeInv'
  OBVIOUS
<1>1. ASSUME NEW c \in Call, CallStep(c), ~Special(c) PROVE ChallengeInv' /\ CodeInv'
  <2>1. PICK s \in CallState : /\ call' = [call EXCEPT ![c] = s]
                               /\ s.at \notin {"rotate", "got"}
                               /\ Carries(c, s)
    BY <1>1, PlainStep
  <2>2. Quiet
    BY <1>1, PlainStep
  <2>3. ChallengeInv'
    BY <2>1, <2>2, ChallengeAside DEF Carries
  <2>4. \/ s.code = Null
        \/ s.code = call[c].code /\ call[c].at = "mark" /\ s.at = "grant" /\ s.code \in used'
    <3>1. call[c].code # Null => call[c].at \in {"mark", "grant"}
      BY DEF CodeInv
    <3>2. CASE call[c].at = "grant"
      BY <1>1, <2>1, <3>2, <3>1, IdleFacts, BlankFacts
         DEF CallStep, Special, LoginRefused, LoginAccepted, LoginChallenge, Miss, ChallengeRefused,
             CodeReused, CodeWrong, MarkUsed, ChangeWithToken, ChangeOwn, Consume, AdminReset, Flush,
             LdapModify, LdapError, Store, CallFails, End, TypeInv, TypeOK
    <3>3. CASE call[c].at # "grant"
      BY <2>1, <3>1, <3>3 DEF Carries
    <3>4. QED
      BY <3>2, <3>3
  <2>5. CodeInv'
    BY <2>1, <2>2, <2>4, CodeAside DEF Quiet
  <2>6. QED
    BY <2>3, <2>5
<1>2. ASSUME NEW c \in Call, Special(c) PROVE ChallengeInv' /\ CodeInv'
  <2>1. CASE (\E t \in Token : RefreshCheck(c, t)) \/ RefreshRotate(c)
    <3>1. PICK s \in CallState : /\ call' = [call EXCEPT ![c] = s] /\ s.at # "got"
                                 /\ s.challenge = Null /\ s.code = Null
      BY <2>1, IdleFacts, BegunFacts, BlankFacts DEF RefreshCheck, RefreshRotate, End
    <3>2. Quiet
      BY <2>1 DEF Quiet, RefreshCheck, RefreshRotate, redis, history
    <3>3. QED
      BY <3>1, <3>2, ChallengeAside, CodeAside DEF Quiet
  <2>2. QED
    BY <1>2, <2>1, GetOnce, RightOnce, GrantOnce DEF Special
<1>3. CASE Elsewhere
  <2>1. /\ UNCHANGED <<call, challenge, granted>> /\ raced \subseteq raced'
        /\ \A q \in Code : q \in used => q \in used' \/ q \in raced'
    BY <1>3 DEF Elsewhere, Logout, SetActive, SetMust, SetMfa, LockRunsOut, MarkRunsOut, redis, history
  <2>2. QED
    BY <2>1, OnceSame
<1>4. CASE UNCHANGED vars
  BY <1>4, OnceSame DEF vars, redis, history
<1>5. QED
  BY <1>1, <1>2, <1>3, <1>4 DEF Next, Elsewhere

\* complete_mfa_challenge signs in once for a challenge and once for a code, unless
\* two calls overlapped on it or the mark of the code ran out before the code.
THEOREM OneSignInEach == Spec => []SignsInOnce
<1>1. Init => ChallengeInv /\ CodeInv
  <2> SUFFICES ASSUME Init PROVE ChallengeInv /\ CodeInv
    OBVIOUS
  <2>1. \A c \in Call : call[c].challenge = Null /\ call[c].code = Null
    BY BlankFacts DEF Init
  <2>2. \A x \in Challenge \cup Code : granted[x] = 0 /\ x # Null
    BY SignInAssumption DEF Init
  <2>3. QED
    BY <2>1, <2>2 DEF ChallengeInv, CodeInv
<1>2. ChallengeInv /\ CodeInv => SignsInOnce
  BY DEF ChallengeInv, CodeInv, SignsInOnce
<1>3. QED
  BY <1>1, <1>2, TypeInit, TypeStep, OnceStep, PTL DEF Spec

-----------------------------------------------------------------------------
(* One usable refresh token per sign-in.                                   *)

\* Steps that issue no token and start no rotation: tokens can only be revoked.
LEMMA RotationAside ==
  ASSUME RotationInv, UNCHANGED family, blacklist \subseteq blacklist', raced \subseteq raced',
         \A d \in Call : call'[d].at = "rotate" => call'[d] = call[d]
  PROVE  RotationInv'
<1>1. \A t \in Token : family'[t] # Null => family'[family'[t]] # Null
  BY DEF RotationInv
<1>2. ASSUME NEW c \in Call, call'[c].at = "rotate"
      PROVE  RotationInv!2!(c)'
  <2>1. call'[c] = call[c] /\ call[c].at = "rotate"
    BY <1>2
  <2>2. RotationInv!2!(c)
    BY DEF RotationInv
  <2>3. QED
    BY <2>1, <2>2
<1>3. OneTokenPerSignIn'
  BY DEF RotationInv, OneTokenPerSignIn
<1>4. QED
  BY <1>1, <1>2, <1>3 DEF RotationInv

LEMMA CheckRotation ==
  ASSUME TypeInv, RotationInv, NEW c \in Call, NEW t \in Token, RefreshCheck(c, t)
  PROVE  RotationInv'
<1> DEFINE s == Rotating(t)
           f == family[t]
<1>1. /\ call' = [call EXCEPT ![c] = s] /\ s.at = "rotate" /\ s.token = t
      /\ UNCHANGED <<family, blacklist>> /\ raced \subseteq raced' /\ f # Null /\ t \notin blacklist
      /\ f \notin raced' => \A d \in Call : call[d].token # t
  BY BegunFacts DEF RefreshCheck, NotRevoked, redis
<1> HIDE DEF s
<1>2. \A d \in Call : call'[d] = IF d = c THEN s ELSE call[d]
  BY <1>1 DEF TypeInv, TypeOK
<1>3. f \notin raced' => \A u \in Token \ {t} : family[u] = f => u \in blacklist
  BY <1>1 DEF RotationInv, OneTokenPerSignIn
<1>4. f \notin raced' => \A d \in Call : call[d].at = "rotate" => family[call[d].token] # f
  <2> SUFFICES ASSUME f \notin raced', NEW d \in Call, call[d].at = "rotate",
                      family[call[d].token] = f
               PROVE  FALSE
    OBVIOUS
  <2>1. call[d].token \in Token /\ call[d].token # t /\ f \notin raced
    BY <1>1, AtHand
  <2>2. t \in blacklist
    BY <2>1 DEF RotationInv
  <2>3. QED
    BY <1>1, <2>2
<1>5. ASSUME NEW d \in Call, call'[d].at = "rotate"
      PROVE  RotationInv!2!(d)'
  <2>1. CASE d = c
    <3>1. call'[d].token = t
      BY <1>1, <1>2, <2>1
    <3>2. \A e \in Call : call'[e].at = "rotate" /\ family[call'[e].token] = f /\ f \notin raced' => e = c
      BY <1>2, <1>4
    <3>3. QED
      BY <1>1, <1>3, <2>1, <3>1, <3>2
  <2>2. CASE d # c
    <3>1. call'[d] = call[d] /\ RotationInv!2!(d)
      BY <1>2, <2>2 DEF RotationInv
    <3>2. family[call[d].token] = f /\ f \notin raced' => FALSE
      BY <1>4, <1>5, <3>1
    <3>3. \A e \in Call : call'[e].at = "rotate" /\ e # c => call[e].at = "rotate" /\ call'[e] = call[e]
      BY <1>2
    <3>4. call'[c].token = t
      BY <1>1, <1>2
    <3>5. QED
      BY <1>1, <1>5, <3>1, <3>2, <3>3, <3>4
  <2>3. QED
    BY <2>1, <2>2
<1>6. OneTokenPerSignIn'
  BY <1>1 DEF RotationInv, OneTokenPerSignIn
<1>7. \A u \in Token : family'[u] # Null => family'[family'[u]] # Null
  BY <1>1 DEF RotationInv
<1>8. QED
  BY <1>5, <1>6, <1>7 DEF RotationInv

\* Call c ends and issues a token of family f: a new sign-in, or the one whose
\* tokens are now all revoked and that no other call rotates.
LEMMA IssueRotation ==
  ASSUME TypeInv, RotationInv, NEW c \in Call, End(c), UNCHANGED raced,
         NEW t \in Token, family[t] = Null, NEW f \in Token, family' = [family EXCEPT ![t] = f],
         f = t \/ family[f] # Null,
         blacklist \subseteq blacklist',
         f \notin raced =>
             /\ \A u \in Token : family[u] = f => u \in blacklist'
             /\ \A d \in Call : d # c /\ call[d].at = "rotate" => family[call[d].token] # f
  PROVE  RotationInv'
<1>1. \A d \in Call : call'[d] = IF d = c THEN Idle ELSE call[d]
  BY DEF TypeInv, TypeOK, End
<1>2. f # Null /\ \A u \in Token : family'[u] = IF u = t THEN f ELSE family[u]
  BY SignInAssumption DEF TypeInv, TypeOK
<1>3. \A u \in Token : family[u] \in Token \cup {Null} /\ (family[u] # Null => family[u] \in Token)
  BY DEF TypeInv, TypeOK
<1>4. \A u \in Token : family'[u] # Null => family'[family'[u]] # Null
  BY <1>2, <1>3 DEF RotationInv
<1>5. ASSUME NEW d \in Call, call'[d].at = "rotate"
      PROVE  RotationInv!2!(d)'
  <2>1. d # c /\ call'[d] = call[d] /\ call[d].at = "rotate" /\ call[d].token \in Token
    BY <1>1, <1>5, IdleFacts, AtHand
  <2>2. RotationInv!2!(d)
    BY DEF RotationInv
  <2>3. family'[call[d].token] = family[call[d].token] /\ family[call[d].token] # Null
    BY <1>2, <2>1, <2>2
  <2>4. \A e \in Call : call'[e].at = "rotate" =>
            /\ call'[e] = call[e] /\ call[e].at = "rotate" /\ call[e].token \in Token
            /\ family[call[e].token] # Null
            /\ family'[call[e].token] = family[call[e].token]
    <3> SUFFICES ASSUME NEW e \in Call, call'[e].at = "rotate"
                 PROVE  /\ call'[e] = call[e] /\ call[e].at = "rotate" /\ call[e].token \in Token
                        /\ family[call[e].token] # Null
                        /\ family'[call[e].token] = family[call[e].token]
      OBVIOUS
    <3>1. call'[e] = call[e] /\ call[e].at = "rotate" /\ call[e].token \in Token
      BY <1>1, IdleFacts, AtHand
    <3>2. family[call[e].token] # Null
      BY <3>1 DEF RotationInv
    <3>3. QED
      BY <1>2, <3>1, <3>2
  <2>5. family[call[d].token] \notin raced => family[call[d].token] # f
    BY <2>1
  <2>6. QED
    BY <1>2, <2>1, <2>2, <2>3, <2>4, <2>5
<1>6. OneTokenPerSignIn'
  <2> SUFFICES ASSUME NEW u \in Token, NEW v \in Token, u \notin blacklist', v \notin blacklist',
                      family'[u] = family'[v], family'[u] # Null, u # v, family'[u] \notin raced
               PROVE  FALSE
    BY DEF OneTokenPerSignIn
  <2>1. CASE u = t
    BY <1>2, <2>1
  <2>2. CASE v = t
    BY <1>2, <2>2
  <2>3. CASE u # t /\ v # t
    BY <1>2, <2>3 DEF RotationInv, OneTokenPerSignIn
  <2>4. QED
    BY <2>1, <2>2, <2>3
<1>7. QED
  BY <1>4, <1>5, <1>6 DEF RotationInv

LEMMA RotateRotation ==
  ASSUME TypeInv, RotationInv, NEW c \in Call, RefreshRotate(c)
  PROVE  RotationInv'
<1> DEFINE f == family[call[c].token]
<1>1. call[c].at = "rotate" /\ call[c].token \in Token /\ f # Null
  BY AtHand DEF RefreshRotate, RotationInv
<1>2. f \in Token /\ family[f] # Null
  BY <1>1 DEF TypeInv, TypeOK, RotationInv
<1>3. PICK t \in Token : family[t] = Null /\ family' = [family EXCEPT ![t] = f]
  BY DEF RefreshRotate
<1>4. End(c) /\ UNCHANGED raced /\ blacklist' = blacklist \cup {call[c].token}
  BY DEF RefreshRotate, history
<1>5. f \notin raced =>
         /\ \A u \in Token : family[u] = f => u \in blacklist'
         /\ \A d \in Call : d # c /\ call[d].at = "rotate" => family[call[d].token] # f
  BY <1>1, <1>4 DEF RotationInv
<1>6. QED
  BY <1>2, <1>3, <1>4, <1>5, IssueRotation

LEMMA GrantRotation ==
  ASSUME TypeInv, RotationInv, NEW c \in Call, Grant(c)
  PROVE  RotationInv'
<1>1. call[c].at = "grant" /\ End(c) /\ UNCHANGED <<blacklist, raced>>
  BY DEF Grant, redis
<1>2. CASE UNCHANGED family
  BY <1>1, <1>2, IdleFacts, RotationAside DEF End, TypeInv, TypeOK
<1>3. ASSUME NEW t \in Token, family[t] = Null, family' = [family EXCEPT ![t] = t]
      PROVE  RotationInv'
  <2>1. \A u \in Token : family[u] # t
    BY <1>3, SignInAssumption DEF RotationInv
  <2>2. \A d \in Call : call[d].at = "rotate" => family[call[d].token] # t
    BY <2>1, AtHand
  <2>3. QED
    BY <1>1, <1>3, <2>1, <2>2, IssueRotation
<1>4. QED
  BY <1>2, <1>3 DEF Grant

LEMMA RotationStep == TypeInv /\ RotationInv /\ [Next]_vars => RotationInv'
<1> SUFFICES ASSUME TypeInv, RotationInv, [Next]_vars PROVE RotationInv'
  OBVIOUS
<1>1. ASSUME NEW c \in Call, CallStep(c) PROVE RotationInv'
  <2>1. ASSUME NEW s \in CallState, call' = [call EXCEPT ![c] = s], s.at # "rotate"
        PROVE  \A d \in Call : call'[d].at = "rotate" => call'[d] = call[d]
    BY <2>1 DEF TypeInv, TypeOK
  <2>2. CASE ~Special(c)
    BY <1>1, <2>1, <2>2, PlainStep, RotationAside DEF Quiet
  <2>3. ASSUME NEW k \in Challenge, ChallengeGet(c, k) PROVE RotationInv'
    <3>1. /\ call' = [call EXCEPT ![c] = Answering(k)] /\ UNCHANGED <<family, blacklist>>
          /\ raced \subseteq raced'
      BY <2>3 DEF ChallengeGet, redis
    <3>2. QED
      BY <3>1, <2>1, BegunFacts, RotationAside
  <2>4. ASSUME NEW k \in Code, CodeRight(c, k) PROVE RotationInv'
    <3> DEFINE s == Reading(WithCode(call[c], k), "mark")
    <3>1. /\ call' = [call EXCEPT ![c] = s] /\ UNCHANGED <<family, blacklist>>
          /\ raced \subseteq raced' /\ s \in CallState /\ s.at = "mark"
      BY <2>4, AtHand, MarkFacts DEF CodeRight
    <3> HIDE DEF s
    <3>2. QED
      BY <3>1, <2>1, RotationAside
  <2>5. QED
    BY <2>2, <2>3, <2>4, CheckRotation, RotateRotation, GrantRotation DEF Special
<1>2. CASE Elsewhere
  BY <1>2, RotationAside
     DEF Elsewhere, Logout, SetActive, SetMust, SetMfa, LockRunsOut, MarkRunsOut, redis, history
<1>3. CASE UNCHANGED vars
  BY <1>3, RotationAside DEF vars, redis, history
<1>4. QED
  BY <1>1, <1>2, <1>3 DEF Next, Elsewhere

\* refresh leaves one usable refresh token per sign-in, unless a token of it was
\* presented twice at the same time.
THEOREM RotationRevokes == Spec => []OneTokenPerSignIn
<1>1. Init => RotationInv
  BY IdleFacts DEF Init, RotationInv, OneTokenPerSignIn
<1>2. RotationInv => OneTokenPerSignIn
  BY DEF RotationInv
<1>3. QED
  BY <1>1, <1>2, TypeInit, TypeStep, RotationStep, PTL DEF Spec
=============================================================================
