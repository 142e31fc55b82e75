---------------------------- MODULE BrowserProofs ----------------------------
(***************************************************************************)
(* The session of the console, the portal, and the browser that composes    *)
(* both with the pages, for any number of administrators, people, requests, *)
(* sign-ins, tokens, calls and faults.  Session: a refresh token is          *)
(* presented once, and the store holds the tokens of its user.  Portal:     *)
(* nobody who has to change the password gets to another page, and the      *)
(* second factor shown is the server's.  Browser: every step of it is a     *)
(* step of one component or leaves that component alone, so that the        *)
(* invariants of all three hold in it.                                      *)
(***************************************************************************)
EXTENDS MCBrowser, ConsolePagesProofs, TLAPS

(***************************************************************************)
(* The session of the console.                                             *)
(***************************************************************************)
\* The tokens of a session are its user's.
Owned(stored) ==
  /\ stored.pair = 0 <=> stored.user = NoAdmin
  /\ stored.pair # 0 => owner[stored.pair] = stored.user

\* Whatever the tab holds was issued.
OnlyIssued ==
  /\ store.pair <= issued /\ disk.pair <= issued
  /\ renewal.phase # "none" => renewal.pair \in 1 .. issued
  /\ renewal.phase = "rotated" => renewal.new \in 1 .. issued

\* A token the tab may still present was not presented yet.
Unspent ==
  /\ \A n \in Pairs : n > issued => presented[n] = 0
  /\ (renewal.phase = "none" /\ store.pair # 0) => presented[store.pair] = 0
  /\ renewal.phase = "rotated" => presented[renewal.new] = 0

OpenPhases == {"sent", "queued", "refreshing"}

\* A refresh keeps its owner, a sign-in has one, and what is stored is the user's.
OwnersKept ==
  /\ renewal.phase = "rotated" => owner[renewal.new] = owner[renewal.pair]
  /\ \A a \in Attempts : attempt[a].phase \in OpenPhases => attempt[a].user \in Admins
  /\ ~crossed => Owned(store) /\ Owned(disk)

TokensSound == OnlyIssued /\ Unspent /\ RefreshTokenSpentOnce /\ OwnersKept

SessionInv == SessionTypeOK /\ TokensSound

(***************************************************************************)
(* The records the actions build.                                           *)
(***************************************************************************)
RequestType ==
  [phase : {"unused", "sent", "queued", "refreshing", "over", "stranded"},
   pair : 0 .. MaxPairs, retried : BOOLEAN, about : {"page", "me"}]
AttemptType ==
  [phase : {"unused", "sent", "queued", "refreshing", "over", "stranded"}, kind : Kinds,
   user : Admins \cup {NoAdmin}, retried : BOOLEAN, here : BOOLEAN]
Views  == {"login", "console", "profile", "change", "left"}
Stages == [stage : Kinds, user : Admins \cup {NoAdmin}]

LEMMA RequestFacts ==
  ASSUME NEW q \in RequestType
  PROVE  /\ NewRequest \in RequestType
         /\ \A p \in {"over", "stranded"} : Settled(p) \in RequestType
         /\ \A n \in 0 .. MaxPairs, b \in {"page", "me"} :
              [NewRequest EXCEPT !.phase = "sent", !.pair = n, !.about = b] \in RequestType
         /\ \A p \in {"queued", "refreshing"} :
              [q EXCEPT !.phase = p, !.retried = TRUE] \in RequestType
         /\ \A n \in 0 .. MaxPairs : [q EXCEPT !.phase = "sent", !.pair = n] \in RequestType
<1>1. NewRequest \in RequestType
  BY SessionAssumption DEF RequestType, NewRequest
<1>2. ASSUME NEW p \in {"over", "stranded"}  PROVE  Settled(p) \in RequestType
  BY <1>1 DEF RequestType, Settled
<1>3. ASSUME NEW n \in 0 .. MaxPairs, NEW b \in {"page", "me"}
      PROVE  [NewRequest EXCEPT !.phase = "sent", !.pair = n, !.about = b] \in RequestType
  BY <1>1 DEF RequestType
<1>4. ASSUME NEW p \in {"queued", "refreshing"}
      PROVE  [q EXCEPT !.phase = p, !.retried = TRUE] \in RequestType
  BY DEF RequestType
<1>5. ASSUME NEW n \in 0 .. MaxPairs
      PROVE  [q EXCEPT !.phase = "sent", !.pair = n] \in RequestType
  BY DEF RequestType
<1> QED  BY <1>1, <1>2, <1>3, <1>4, <1>5

LEMMA AttemptFacts ==
  ASSUME NEW kind \in Kinds, NEW user \in Admins
  PROVE  /\ NewAttempt \in AttemptType /\ NewAttempt.phase = "unused"
         /\ [NewAttempt EXCEPT !.phase = "over"] \in AttemptType
         /\ [NewAttempt EXCEPT !.phase = "over"].phase = "over"
         /\ [NewAttempt EXCEPT !.phase = "sent", !.kind = kind, !.user = user, !.here = TRUE]
              \in AttemptType
         /\ [NewAttempt EXCEPT !.phase = "sent", !.kind = kind, !.user = user,
                              !.here = TRUE].user = user
BY DEF AttemptType, NewAttempt, Kinds

\* A call that waits for a refresh, is sent again or is given up is still the same call.
LEMMA WaitingFacts ==
  ASSUME NEW x \in AttemptType, NEW p \in {"sent", "queued", "refreshing", "stranded"}
  PROVE  /\ [x EXCEPT !.phase = p] \in AttemptType
         /\ [x EXCEPT !.phase = p].phase = p /\ [x EXCEPT !.phase = p].user = x.user
         /\ [x EXCEPT !.phase = p, !.retried = TRUE] \in AttemptType
         /\ [x EXCEPT !.phase = p, !.retried = TRUE].phase = p
         /\ [x EXCEPT !.phase = p, !.retried = TRUE].user = x.user
BY DEF AttemptType

\* A page that is left changes nothing of its calls but who listens.
LEMMA LeftFacts ==
  ASSUME NEW calls \in [Attempts -> AttemptType], NEW to
  PROVE  /\ Left(calls, to) \in [Attempts -> AttemptType]
         /\ \A a \in Attempts : /\ Left(calls, to)[a].phase = calls[a].phase
                               /\ Left(calls, to)[a].user = calls[a].user
<1>1. ASSUME NEW a \in Attempts
      PROVE  /\ [calls[a] EXCEPT !.here = @ /\ to = view] \in AttemptType
             /\ [calls[a] EXCEPT !.here = @ /\ to = view].phase = calls[a].phase
             /\ [calls[a] EXCEPT !.here = @ /\ to = view].user = calls[a].user
  BY DEF AttemptType
<1> QED  BY <1>1 DEF Left

\* A set of the store leaves the tab with that session, in the store and on the disk.
LEMMA PutFacts ==
  ASSUME NEW stored \in Sessions, NEW to \in Views,
         NEW calls \in [Attempts -> AttemptType],
         login \in Stages, Put(stored, to, calls)
  PROVE  /\ store' = stored /\ disk' = stored
         /\ view' \in Views /\ login' \in Stages
         /\ attempt' \in [Attempts -> AttemptType]
         /\ \A a \in Attempts : /\ attempt'[a].phase = calls[a].phase
                               /\ attempt'[a].user = calls[a].user
<1>1. Routed(to, stored.pair) \in Views
  BY DEF Routed, Views
<1>2. FirstStage \in Stages
  BY DEF FirstStage, Stages, Kinds
<1>3. attempt' = Left(calls, Routed(to, stored.pair))
  BY DEF Put, Show
<1> QED  BY <1>1, <1>2, <1>3, LeftFacts DEF Put, Show

LEMMA EndedFacts ==
  ASSUME SessionTypeOK, NEW a \in Attempts
  PROVE  /\ Ended(a) \in [Attempts -> AttemptType]
         /\ Ended(a)[a].phase = "over"
         /\ \A b \in Attempts \ {a} : Ended(a)[b] = attempt[b]
<1>1. attempt \in [Attempts -> AttemptType]
  BY DEF SessionTypeOK, AttemptType
<1>2. /\ [NewAttempt EXCEPT !.phase = "over"] \in AttemptType
      /\ [NewAttempt EXCEPT !.phase = "over"].phase = "over"
  BY DEF AttemptType, NewAttempt, Kinds
<1> QED  BY <1>1, <1>2 DEF Ended

\* Calls that go on are calls that were under way, of the same user.
GoesOn(calls) ==
  \A a \in Attempts : calls[a].phase \in OpenPhases =>
                       attempt[a].phase \in OpenPhases /\ calls[a].user = attempt[a].user

\* No sign-in call begins but for an administrator.
AttemptsKept ==
  \A a \in Attempts : attempt'[a].phase \in OpenPhases =>
                       \/ /\ attempt[a].phase \in OpenPhases
                          /\ attempt'[a].user = attempt[a].user
                       \/ attempt'[a].user \in Admins

LEMMA RefreshedAttempts ==
  ASSUME SessionTypeOK
  PROVE  /\ TriedAgain \in [Attempts -> AttemptType] /\ GoesOn(TriedAgain)
         /\ GivenUp \in [Attempts -> AttemptType] /\ GoesOn(GivenUp)
<1>1. attempt \in [Attempts -> AttemptType]
  BY DEF SessionTypeOK, AttemptType
<1>2. ASSUME NEW a \in Attempts, attempt[a].phase \in {"queued", "refreshing"}
      PROVE  /\ [attempt[a] EXCEPT !.phase = "sent"] \in AttemptType
             /\ [attempt[a] EXCEPT !.phase = "sent"].user = attempt[a].user
             /\ attempt[a].phase \in OpenPhases
  BY <1>1, <1>2, WaitingFacts DEF OpenPhases
<1>3. /\ [NewAttempt EXCEPT !.phase = "over"] \in AttemptType
      /\ [NewAttempt EXCEPT !.phase = "over"].phase \notin OpenPhases
  BY DEF AttemptType, NewAttempt, Kinds, OpenPhases
<1>4. ASSUME NEW a \in Attempts
      PROVE  /\ [attempt[a] EXCEPT !.phase = "stranded"] \in AttemptType
             /\ [attempt[a] EXCEPT !.phase = "stranded"].phase \notin OpenPhases
  <2>1. attempt[a] \in AttemptType /\ "stranded" \notin OpenPhases
    BY <1>1 DEF OpenPhases
  <2>2. QED
    BY <2>1, WaitingFacts
<1>5. TriedAgain \in [Attempts -> AttemptType] /\ GoesOn(TriedAgain)
  BY <1>1, <1>2 DEF TriedAgain, GoesOn
<1>6. GivenUp \in [Attempts -> AttemptType] /\ GoesOn(GivenUp)
  BY <1>1, <1>3, <1>4 DEF GivenUp, GoesOn
<1>7. QED
  BY <1>5, <1>6

\* A call of a sign-in page that waits for a refresh.
LEMMA WaitingAttempt ==
  ASSUME SessionTypeOK, NEW a \in Attempts, attempt[a].phase = "sent",
         NEW p \in {"queued", "refreshing"},
         attempt' = [attempt EXCEPT ![a] = Waiting(a, p)]
  PROVE  attempt' \in [Attempts -> AttemptType] /\ AttemptsKept
<1>1. attempt \in [Attempts -> AttemptType]
  BY DEF SessionTypeOK, AttemptType
<1>2. /\ Waiting(a, p) \in AttemptType
      /\ Waiting(a, p).user = attempt[a].user /\ Waiting(a, p).phase = p
  <2>1. PICK x : x = attempt[a]
    OBVIOUS
  <2>2. x \in AttemptType /\ p \in {"sent", "queued", "refreshing", "stranded"}
    BY <1>1, <2>1
  <2>3. /\ [x EXCEPT !.phase = p, !.retried = TRUE] \in AttemptType
        /\ [x EXCEPT !.phase = p, !.retried = TRUE].phase = p
        /\ [x EXCEPT !.phase = p, !.retried = TRUE].user = x.user
    BY <2>2, WaitingFacts
  <2>4. Waiting(a, p) = [x EXCEPT !.phase = p, !.retried = TRUE]
    BY <2>1 DEF Waiting
  <2>5. QED
    BY <2>1, <2>3, <2>4
<1>3. attempt' \in [Attempts -> AttemptType]
  BY <1>1, <1>2
<1>4. \A b \in Attempts : attempt'[b] = IF b = a THEN Waiting(a, p) ELSE attempt[b]
  BY <1>1
<1>5. AttemptsKept
  BY <1>2, <1>4 DEF AttemptsKept, OpenPhases
<1>6. QED
  BY <1>3, <1>5

(***************************************************************************)
(* The types.  Each lemma is about the actions that change the same parts.  *)
(***************************************************************************)
LEMMA SessionTypeFacts ==
  ASSUME SessionTypeOK
  PROVE  /\ request \in [ApiCalls -> RequestType] /\ attempt \in [Attempts -> AttemptType]
         /\ view \in Views /\ login \in Stages /\ store \in Sessions
         /\ SignedOut \in Sessions /\ NoRefresh \in [phase : {"none", "sent", "rotated"},
                                                    pair : 0 .. MaxPairs, new : 0 .. MaxPairs]
         /\ NoLogout \in [phase : {"none", "sent"}, pair : 0 .. MaxPairs, clears : BOOLEAN]
         /\ FirstStage \in Stages /\ MaxPairs \in Nat \ {0}
BY SessionAssumption DEF SessionTypeOK, RequestType, AttemptType, Views, Stages, Sessions, SignedOut,
   NoRefresh, NoLogout, FirstStage, Kinds

LEMMA SessionTypeInit == SessionInit => SessionTypeOK
<1> SUFFICES ASSUME SessionInit  PROVE SessionTypeOK
  OBVIOUS
<1>1. PICK first \in Admins \cup {NoAdmin} :
        owner = [n \in Pairs |-> IF n = 1 THEN first ELSE NoAdmin]
  BY DEF SessionInit
<1>2. issued \in {0, 1} /\ 1 \in Pairs /\ owner[1] = first
  BY <1>1, SessionAssumption DEF SessionInit, Pairs
<1>3. store \in Sessions /\ disk \in Sessions
  BY <1>1, <1>2, SessionAssumption DEF SessionInit, Sessions
<1>4. live \in SUBSET Pairs /\ fresh \in SUBSET Pairs
  BY <1>2, SessionAssumption DEF SessionInit, Pairs
<1>5. presented \in [Pairs -> Nat] /\ owner \in [Pairs -> Admins \cup {NoAdmin}]
  BY <1>1 DEF SessionInit
<1>6. request \in [ApiCalls -> RequestType] /\ attempt \in [Attempts -> AttemptType]
  BY SessionAssumption DEF SessionInit, RequestType, AttemptType, NewRequest, NewAttempt, Kinds
<1>7. /\ renewal = NoRefresh /\ logout = NoLogout /\ login = FirstStage /\ faults = 0
      /\ me = NoAdmin /\ crossed = FALSE /\ view \in {"login", "console"}
      /\ issued \in 0 .. MaxPairs
  BY <1>2, SessionAssumption DEF SessionInit
<1>8. /\ renewal \in [phase : {"none", "sent", "rotated"}, pair : 0 .. MaxPairs,
                     new : 0 .. MaxPairs]
      /\ logout \in [phase : {"none", "sent"}, pair : 0 .. MaxPairs, clears : BOOLEAN]
      /\ login \in [stage : Kinds, user : Admins \cup {NoAdmin}]
      /\ faults \in 0 .. MaxFaults
  BY <1>7, SessionAssumption DEF NoRefresh, NoLogout, FirstStage, Kinds
<1> QED  BY <1>3, <1>4, <1>5, <1>6, <1>7, <1>8 DEF SessionTypeOK, RequestType, AttemptType

\* The store is set to a session.
LEMMA PutType ==
  ASSUME SessionTypeOK, NEW stored \in Sessions, NEW to \in Views,
         NEW calls \in [Attempts -> AttemptType], Put(stored, to, calls)
  PROVE  /\ store' \in Sessions /\ disk' \in Sessions
         /\ view' \in Views /\ login' \in Stages
         /\ attempt' \in [Attempts -> AttemptType]
BY SessionTypeFacts, PutFacts

\* A refresh token is presented.
LEMMA PresentType ==
  ASSUME SessionTypeOK, store.pair # 0, Present(store.pair)
  PROVE  /\ presented' \in [Pairs -> Nat]
         /\ renewal' \in [phase : {"none", "sent", "rotated"}, pair : 0 .. MaxPairs,
                          new : 0 .. MaxPairs]
<1>1. store.pair \in 0 .. MaxPairs /\ store.pair \in Pairs
  BY SessionAssumption DEF SessionTypeOK, Sessions, Pairs
<1>2. QED
  BY <1>1, SessionAssumption DEF Present, SessionTypeOK

\* The requests of the pages.
LEMMA RequestStepType ==
  ASSUME SessionTypeOK, NEW r \in ApiCalls,
         Send(r) \/ RequestFails(r) \/ Rejected(r) \/ Enqueue(r) \/ StartRefresh(r)
           \/ NothingToRefresh(r) \/ Accepted(r)
  PROVE  SessionTypeOK'
<1>1. request[r] \in RequestType /\ store.pair \in 0 .. MaxPairs
  BY SessionTypeFacts DEF Sessions
<1>2. CASE Send(r)
  <2>1. request' \in [ApiCalls -> RequestType]
    BY <1>1, <1>2, RequestFacts, SessionTypeFacts DEF Send
  <2> QED  BY <1>2, <2>1 DEF Send, SessionTypeOK, RequestType
<1>3. ASSUME End(r)  PROVE request' \in [ApiCalls -> RequestType]
  BY <1>1, <1>3, RequestFacts, SessionTypeFacts DEF End
<1>4. CASE RequestFails(r) \/ Rejected(r)
  <2>1. request' \in [ApiCalls -> RequestType]
    BY <1>3, <1>4 DEF RequestFails, Rejected
  <2> QED  BY <1>4, <2>1 DEF RequestFails, Rejected, SessionTypeOK, RequestType
<1>5. CASE Enqueue(r)
  <2>1. request' \in [ApiCalls -> RequestType]
    BY <1>1, <1>5, RequestFacts, SessionTypeFacts DEF Enqueue, Retried
  <2> QED  BY <1>5, <2>1 DEF Enqueue, SessionTypeOK, RequestType
<1>6. CASE StartRefresh(r)
  <2>1. request' \in [ApiCalls -> RequestType]
    BY <1>1, <1>6, RequestFacts, SessionTypeFacts DEF StartRefresh, Retried
  <2>2. presented' \in [Pairs -> Nat]
    BY <1>1, <1>6, PresentType DEF StartRefresh
  <2>3. renewal' \in [phase : {"none", "sent", "rotated"}, pair : 0 .. MaxPairs,
                     new : 0 .. MaxPairs]
    BY <1>1, <1>6, PresentType DEF StartRefresh
  <2> QED  BY <1>6, <2>1, <2>2, <2>3 DEF StartRefresh, SessionTypeOK, RequestType
<1>7. CASE NothingToRefresh(r)
  <2>1. request' \in [ApiCalls -> RequestType]
    BY <1>3, <1>7 DEF NothingToRefresh
  <2>2. /\ store' \in Sessions /\ disk' \in Sessions
        /\ view' \in Views /\ login' \in Stages /\ attempt' \in [Attempts -> AttemptType]
    BY <1>7, PutType, SessionTypeFacts DEF NothingToRefresh, ClearSession
  <2> QED
    BY <1>7, <2>1, <2>2
    DEF NothingToRefresh, SessionTypeOK, RequestType, Views, Stages, AttemptType
<1>8. CASE Accepted(r)
  <2>1. request' \in [ApiCalls -> RequestType]
    BY <1>3, <1>8 DEF Accepted
  <2>2. owner[request[r].pair] \in Admins \cup {NoAdmin}
    BY <1>8 DEF Accepted, SessionTypeOK
  <2>3. [store EXCEPT !.user = owner[request[r].pair]] \in Sessions
    BY <2>2, SessionTypeFacts DEF Sessions
  <2>4. /\ store' \in Sessions /\ disk' \in Sessions /\ me' \in Admins \cup {NoAdmin}
        /\ crossed' \in BOOLEAN
    BY <1>8, <2>2, <2>3 DEF Accepted, Profile, SessionTypeOK
  <2> QED  BY <1>8, <2>1, <2>4 DEF Accepted, SessionTypeOK, RequestType
<1> QED  BY <1>2, <1>4, <1>5, <1>6, <1>7, <1>8

\* A pair is issued.
LEMMA IssueType ==
  ASSUME SessionTypeOK, NEW user \in Admins \cup {NoAdmin}, Issue(user)
  PROVE  /\ issued' \in 0 .. MaxPairs /\ issued + 1 \in Pairs /\ issued + 1 \in 0 .. MaxPairs
         /\ owner' \in [Pairs -> Admins \cup {NoAdmin}] /\ fresh' \in SUBSET Pairs
BY SessionAssumption DEF Issue, SessionTypeOK, Pairs

LEMMA RefreshType ==
  ASSUME SessionTypeOK, RefreshStep
  PROVE  SessionTypeOK'
<1>1. renewal.pair \in 0 .. MaxPairs /\ renewal.new \in 0 .. MaxPairs
  BY DEF SessionTypeOK
<1>2. CASE Rotate
  <2>1. owner[renewal.pair] \in Admins \cup {NoAdmin}
    BY <1>2 DEF Rotate, SessionTypeOK
  <2>2. /\ issued' \in 0 .. MaxPairs /\ issued + 1 \in Pairs /\ issued + 1 \in 0 .. MaxPairs
        /\ owner' \in [Pairs -> Admins \cup {NoAdmin}] /\ fresh' \in SUBSET Pairs
    BY <1>2, <2>1, IssueType DEF Rotate
  <2>3. live' \in SUBSET Pairs
    BY <1>2, <2>2 DEF Rotate, SessionTypeOK
  <2>4. renewal' \in [phase : {"none", "sent", "rotated"}, pair : 0 .. MaxPairs,
                     new : 0 .. MaxPairs]
    BY <1>2, <2>2 DEF Rotate, SessionTypeOK
  <2> QED  BY <1>2, <2>2, <2>3, <2>4 DEF Rotate, SessionTypeOK
<1>3. CASE RefreshDone
  <2>1. [pair |-> renewal.new, user |-> store.user] \in Sessions
    BY <1>1, SessionTypeFacts DEF Sessions
  <2>2. /\ store' \in Sessions /\ disk' \in Sessions
        /\ view' \in Views /\ login' \in Stages /\ attempt' \in [Attempts -> AttemptType]
    BY <1>3, <2>1, PutType, SessionTypeFacts, RefreshedAttempts DEF RefreshDone
  <2>3. ASSUME NEW r \in ApiCalls  PROVE Resent(r, renewal.new) \in RequestType
    BY <1>1, RequestFacts, SessionTypeFacts DEF Resent
  <2>4. request' \in [ApiCalls -> RequestType]
    BY <1>3, <2>3 DEF RefreshDone
  <2>5. crossed' \in BOOLEAN /\ renewal' = NoRefresh
    BY <1>3 DEF RefreshDone, SessionTypeOK
  <2> QED
    BY <1>3, <2>2, <2>4, <2>5, SessionTypeFacts
    DEF RefreshDone, SessionTypeOK, RequestType, Views, Stages, AttemptType
<1>4. CASE RefreshFailed
  <2>2. /\ store' \in Sessions /\ disk' \in Sessions
        /\ view' \in Views /\ login' \in Stages /\ attempt' \in [Attempts -> AttemptType]
    BY <1>4, PutType, SessionTypeFacts, RefreshedAttempts DEF RefreshFailed, ClearSession
  <2>3. ASSUME NEW r \in ApiCalls  PROVE Abandoned(r) \in RequestType
    BY RequestFacts, SessionTypeFacts DEF Abandoned
  <2>4. request' \in [ApiCalls -> RequestType]
    BY <1>4, <2>3 DEF RefreshFailed
  <2>5. renewal' = NoRefresh
    BY <1>4 DEF RefreshFailed
  <2> QED
    BY <1>4, <2>2, <2>4, <2>5, SessionTypeFacts
    DEF RefreshFailed, SessionTypeOK, RequestType, Views, Stages, AttemptType
<1> QED  BY <1>2, <1>3, <1>4 DEF RefreshStep

LEMMA ShowType ==
  ASSUME NEW to \in Views, NEW calls \in [Attempts -> AttemptType], Show(to, calls)
  PROVE  /\ view' \in Views /\ attempt' \in [Attempts -> AttemptType]
         /\ \A a \in Attempts : /\ attempt'[a].phase = calls[a].phase
                               /\ attempt'[a].user = calls[a].user
BY LeftFacts DEF Show

\* What a sign-in can be answered with.
LEMMA HearType ==
  ASSUME SessionTypeOK, NEW a \in Attempts, Hear(a), OwnersKept
  PROVE  SessionTypeOK'
<1>1. /\ Ended(a) \in [Attempts -> AttemptType] /\ attempt[a] \in AttemptType
      /\ attempt[a].user \in Admins \cup {NoAdmin}
  BY EndedFacts, SessionTypeFacts DEF AttemptType
<1>2. SessionTypeOK' <=> /\ store' \in Sessions /\ disk' \in Sessions
                         /\ issued' \in 0 .. MaxPairs
                         /\ owner' \in [Pairs -> Admins \cup {NoAdmin}]
                         /\ live' \in SUBSET Pairs /\ fresh' \in SUBSET Pairs
                         /\ view' \in Views /\ login' \in Stages
                         /\ attempt' \in [Attempts -> AttemptType]
  BY DEF Hear, SessionTypeOK, AttemptType, Views, Stages
<1>3. CASE NextStage(a)
  <2>1. login' \in Stages
    BY <1>1, <1>3, SessionTypeFacts DEF NextStage, Stages, Kinds
  <2> QED  BY <1>1, <1>2, <1>3, <2>1, SessionTypeFacts DEF NextStage, SessionTypeOK
<1>4. CASE MustChange(a)
  <2>1. login' \in Stages
    BY <1>1, <1>4 DEF MustChange, Stages, Kinds
  <2>2. "change" \in Views
    BY DEF Views
  <2>3. view' \in Views /\ attempt' \in [Attempts -> AttemptType]
    BY <1>1, <1>4, <2>2, ShowType DEF MustChange
  <2> QED  BY <1>2, <1>4, <2>1, <2>3 DEF MustChange, SessionTypeOK
<1>5. CASE SignedIn(a)
  <2>1. /\ issued' \in 0 .. MaxPairs /\ issued + 1 \in Pairs /\ issued + 1 \in 0 .. MaxPairs
        /\ owner' \in [Pairs -> Admins \cup {NoAdmin}] /\ fresh' \in SUBSET Pairs
    BY <1>1, <1>5, IssueType DEF SignedIn
  <2>2. [pair |-> issued + 1, user |-> attempt[a].user] \in Sessions /\ "console" \in Views
    BY <1>1, <2>1 DEF Sessions, Views
  <2>3. /\ store' \in Sessions /\ disk' \in Sessions
        /\ view' \in Views /\ login' \in Stages /\ attempt' \in [Attempts -> AttemptType]
    BY <1>1, <1>5, <2>2, PutType DEF SignedIn
  <2>4. live' \in SUBSET Pairs
    BY <1>5, <2>1 DEF SignedIn, SessionTypeOK
  <2> QED  BY <1>2, <2>1, <2>3, <2>4
<1>6. CASE SetupDone(a)
  <2>1. login' \in Stages
    BY <1>6, SessionTypeFacts DEF SetupDone
  <2> QED  BY <1>1, <1>2, <1>6, <2>1, SessionTypeFacts DEF SetupDone, SessionTypeOK
<1>7. CASE PasswordChanged(a)
  <2>1. "left" \in Views
    BY DEF Views
  <2>2. view' \in Views /\ attempt' \in [Attempts -> AttemptType]
    BY <1>1, <1>7, <2>1, ShowType DEF PasswordChanged
  <2> QED  BY <1>2, <1>7, <2>2, SessionTypeFacts DEF PasswordChanged, SessionTypeOK
<1>8. CASE Refused(a)
  BY <1>1, <1>2, <1>8, SessionTypeFacts DEF Refused, SessionTypeOK
<1> QED  BY <1>3, <1>4, <1>5, <1>6, <1>7, <1>8 DEF Hear

LEMMA UnauthorizedType ==
  ASSUME SessionTypeOK, NEW a \in Attempts, SignInUnauthorized(a)
  PROVE  SessionTypeOK'
<1>1. /\ attempt[a].phase = "sent"
      /\ UNCHANGED <<issued, owner, live, fresh, request, logout, faults, me, crossed>>
  BY DEF SignInUnauthorized, Sent
<1>2. CASE ClearSession(Ended(a)) /\ UNCHANGED <<renewal, presented>>
  <2>1. /\ store' \in Sessions /\ disk' \in Sessions
        /\ view' \in Views /\ login' \in Stages /\ attempt' \in [Attempts -> AttemptType]
    BY <1>2, PutType, SessionTypeFacts, EndedFacts DEF ClearSession
  <2>2. QED
    BY <1>1, <1>2, <2>1 DEF SessionTypeOK, AttemptType, Views, Stages
<1>3. CASE /\ attempt' = [attempt EXCEPT ![a] = Waiting(a, "queued")]
           /\ UNCHANGED <<store, disk, view, login, renewal, presented>>
  <2>1. attempt' \in [Attempts -> AttemptType]
    BY <1>1, <1>3, WaitingAttempt
  <2>2. QED
    BY <1>1, <1>3, <2>1 DEF SessionTypeOK, AttemptType
<1>4. CASE /\ attempt' = [attempt EXCEPT ![a] = Waiting(a, "refreshing")]
           /\ store.pair # 0 /\ Present(store.pair) /\ UNCHANGED <<store, disk, view, login>>
  <2>1. attempt' \in [Attempts -> AttemptType]
    BY <1>1, <1>4, WaitingAttempt
  <2>2. /\ presented' \in [Pairs -> Nat]
        /\ renewal' \in [phase : {"none", "sent", "rotated"}, pair : 0 .. MaxPairs,
                         new : 0 .. MaxPairs]
    BY <1>4, PresentType
  <2>3. QED
    BY <1>1, <1>4, <2>1, <2>2 DEF SessionTypeOK, AttemptType
<1>5. QED
  BY <1>2, <1>3, <1>4 DEF SignInUnauthorized

LEMMA SignInType ==
  ASSUME SessionTypeOK, OwnersKept, SignInStep
  PROVE  SessionTypeOK'
<1>1. ASSUME NEW a \in Attempts, NEW kind \in Kinds, NEW user \in Admins, Try(a, kind, user)
      PROVE  SessionTypeOK'
  <2>1. attempt' \in [Attempts -> AttemptType]
    BY <1>1, AttemptFacts, SessionTypeFacts DEF Try
  <2> QED  BY <1>1, <2>1 DEF Try, SessionTypeOK, AttemptType
<1>2. ASSUME NEW a \in Attempts, Hear(a)  PROVE SessionTypeOK'
  BY <1>2, HearType
<1>3. ASSUME NEW a \in Attempts, SignInUnauthorized(a)  PROVE SessionTypeOK'
  BY <1>3, UnauthorizedType
<1>4. CASE BackToCredentials
  BY <1>4, SessionTypeFacts DEF BackToCredentials, SessionTypeOK, Stages
<1>5. CASE LeaveChange
  <2>1. Routed("login", store.pair) \in Views
    BY DEF Routed, Views
  <2>2. view' \in Views /\ attempt' \in [Attempts -> AttemptType] /\ login' \in Stages
    BY <1>5, <2>1, ShowType, SessionTypeFacts DEF LeaveChange
  <2> QED  BY <1>5, <2>2 DEF LeaveChange, SessionTypeOK, AttemptType, Views, Stages
<1> QED  BY <1>1, <1>2, <1>4, <1>5, <1>3 DEF SignInStep

\* Signing out, loading anew, the profile page, and tokens that end.
LEMMA LeaveType ==
  ASSUME SessionTypeOK, Leave
  PROVE  SessionTypeOK'
<1>1. store.pair \in 0 .. MaxPairs /\ disk \in Sessions
  BY SessionTypeFacts DEF Sessions, SessionTypeOK
<1>2. CASE Logout
  <2>1. logout' \in [phase : {"none", "sent"}, pair : 0 .. MaxPairs, clears : BOOLEAN]
    BY <1>1, <1>2 DEF Logout
  <2> QED  BY <1>2, <2>1 DEF Logout, SessionTypeOK
<1>3. CASE IdleLogout
  <2>1. logout' \in [phase : {"none", "sent"}, pair : 0 .. MaxPairs, clears : BOOLEAN]
    BY <1>1, <1>3 DEF IdleLogout
  <2>2. /\ store' \in Sessions /\ disk' \in Sessions
        /\ view' \in Views /\ login' \in Stages /\ attempt' \in [Attempts -> AttemptType]
    BY <1>3, PutType, SessionTypeFacts DEF IdleLogout, ClearSession
  <2> QED  BY <1>3, <2>1, <2>2 DEF IdleLogout, SessionTypeOK, Views, Stages, AttemptType
<1>4. CASE LogoutOver
  <2>1. live' \in SUBSET Pairs
    BY <1>4 DEF LogoutOver, SessionTypeOK
  <2>2. "login" \in Views
    BY DEF Views
  <2>3. /\ store' \in Sessions /\ disk' \in Sessions
        /\ view' \in Views /\ login' \in Stages /\ attempt' \in [Attempts -> AttemptType]
    BY <1>4, <1>1, <2>2, PutType, SessionTypeFacts DEF LogoutOver
  <2> QED
    BY <1>4, <2>1, <2>3, SessionTypeFacts DEF LogoutOver, SessionTypeOK, Views, Stages, AttemptType
<1>5. CASE Reload
  <2>1. ASSUME NEW r \in ApiCalls  PROVE Settled("over") \in RequestType
    BY RequestFacts, SessionTypeFacts
  <2>2. request' \in [ApiCalls -> RequestType]
    BY <1>5, <2>1, SessionTypeFacts DEF Reload
  <2>3. [NewAttempt EXCEPT !.phase = "over"] \in AttemptType
    BY DEF AttemptType, NewAttempt, Kinds
  <2>4. attempt' \in [Attempts -> AttemptType]
    BY <1>5, <2>3, SessionTypeFacts DEF Reload
  <2>5. view' \in Views /\ store' \in Sessions /\ presented' \in [Pairs -> Nat]
    BY <1>1, <1>5 DEF Reload, Views
  <2>6. faults' \in 0 .. MaxFaults
    BY <1>5, SessionAssumption DEF Reload, Fault, SessionTypeOK
  <2> QED
    BY <1>5, <2>2, <2>4, <2>5, <2>6, SessionTypeFacts
    DEF Reload, SessionTypeOK, RequestType, AttemptType, Views, Stages
<1> QED  BY <1>2, <1>3, <1>4, <1>5 DEF Leave

LEMMA OtherType ==
  ASSUME SessionTypeOK,
         (\E n \in Pairs : Expire(n) \/ Revoke(n)) \/ OpenProfile \/ CloseProfile
  PROVE  SessionTypeOK'
<1>1. ASSUME NEW n \in Pairs, Expire(n)  PROVE SessionTypeOK'
  BY <1>1 DEF Expire, SessionTypeOK
<1>2. ASSUME NEW n \in Pairs, Revoke(n)  PROVE SessionTypeOK'
  <2>1. faults' \in 0 .. MaxFaults
    BY <1>2, SessionAssumption DEF Revoke, Fault, SessionTypeOK
  <2> QED  BY <1>2, <2>1 DEF Revoke, SessionTypeOK
<1>3. "profile" \in Views /\ "console" \in Views
  BY DEF Views
<1>4. CASE OpenProfile
  <2>1. view' \in Views /\ attempt' \in [Attempts -> AttemptType]
    BY <1>3, <1>4, ShowType, SessionTypeFacts DEF OpenProfile
  <2>2. me' \in Admins \cup {NoAdmin}
    BY <1>4, SessionTypeFacts DEF OpenProfile, SessionTypeOK, Sessions
  <2>3. [store EXCEPT !.user = me'] \in Sessions
    BY <2>2, SessionTypeFacts DEF Sessions
  <2>4. store' \in Sessions /\ disk' \in Sessions /\ crossed' \in BOOLEAN
    BY <1>4, <2>3 DEF OpenProfile, SessionTypeOK
  <2> QED  BY <1>4, <2>1, <2>2, <2>4 DEF OpenProfile, SessionTypeOK, AttemptType, Views
<1>5. CASE CloseProfile
  <2>1. view' \in Views /\ attempt' \in [Attempts -> AttemptType]
    BY <1>3, <1>5, ShowType, SessionTypeFacts DEF CloseProfile
  <2> QED  BY <1>5, <2>1 DEF CloseProfile, SessionTypeOK, AttemptType, Views
<1> QED  BY <1>1, <1>2, <1>4, <1>5

LEMMA SessionTypeNext ==
  ASSUME SessionTypeOK, OwnersKept, [SessionNext]_sessionVars
  PROVE  SessionTypeOK'
<1>1. CASE UNCHANGED sessionVars
  BY <1>1 DEF sessionVars, SessionTypeOK
<1>2. CASE SessionNext
  BY <1>2, RequestStepType, RefreshType, SignInType, LeaveType, OtherType
  DEF SessionNext, RequestStep
<1> QED  BY <1>1, <1>2

(***************************************************************************)
(* The tokens.                                                              *)
(***************************************************************************)
LEMMA PairFacts ==
  ASSUME SessionTypeOK
  PROVE  /\ store.pair \in 0 .. MaxPairs /\ disk.pair \in 0 .. MaxPairs
         /\ store.user \in Admins \cup {NoAdmin} /\ issued \in 0 .. MaxPairs
         /\ renewal.pair \in 0 .. MaxPairs /\ renewal.new \in 0 .. MaxPairs
         /\ SignedOut.pair = 0 /\ SignedOut.user = NoAdmin
         /\ Pairs = 1 .. MaxPairs /\ MaxPairs \in Nat \ {0}
         /\ presented \in [Pairs -> Nat] /\ owner \in [Pairs -> Admins \cup {NoAdmin}]
         /\ NoRefresh.phase = "none"
         /\ crossed \in BOOLEAN
BY SessionAssumption DEF SessionTypeOK, Sessions, SignedOut, Pairs, NoRefresh

\* A step that issues nothing, and leaves the refresh call alone, at most forgets a session.
LEMMA TokensKept ==
  ASSUME SessionInv, UNCHANGED <<issued, owner, presented, renewal, crossed>>,
         store' \in {store, SignedOut}, disk' \in {disk, store, SignedOut}, AttemptsKept
  PROVE  TokensSound'
<1>1. OnlyIssued'
  BY PairFacts DEF SessionInv, TokensSound, OnlyIssued
<1>2. Unspent' /\ RefreshTokenSpentOnce'
  BY PairFacts DEF SessionInv, TokensSound, Unspent, RefreshTokenSpentOnce
<1>3. ~crossed' => Owned(store)' /\ Owned(disk)'
  BY PairFacts DEF SessionInv, TokensSound, OwnersKept, Owned
<1>4. OwnersKept'
  BY <1>3 DEF SessionInv, TokensSound, OwnersKept, AttemptsKept
<1> QED  BY <1>1, <1>2, <1>4 DEF TokensSound

\* The same for a step that ends with a profile put into another session.
LEMMA TokensCrossed ==
  ASSUME SessionInv, UNCHANGED <<issued, owner, presented, renewal>>, AttemptsKept,
         crossed' = TRUE, NEW user, store' = [store EXCEPT !.user = user], disk' = store'
  PROVE  TokensSound'
<1>1. store'.pair = store.pair /\ disk'.pair = store.pair
  BY DEF SessionInv, SessionTypeOK, Sessions
<1>2. OnlyIssued'
  BY <1>1, PairFacts DEF SessionInv, TokensSound, OnlyIssued
<1>3. Unspent' /\ RefreshTokenSpentOnce'
  BY <1>1, PairFacts DEF SessionInv, TokensSound, Unspent, RefreshTokenSpentOnce
<1>4. OwnersKept'
  BY DEF SessionInv, TokensSound, OwnersKept, AttemptsKept
<1> QED  BY <1>2, <1>3, <1>4 DEF TokensSound

LEMMA PutTokens ==
  ASSUME SessionInv, UNCHANGED <<issued, owner, presented, renewal, crossed>>,
         NEW to \in Views, NEW calls \in [Attempts -> AttemptType], GoesOn(calls),
         Put(SignedOut, to, calls)
  PROVE  TokensSound'
<1>1. store' = SignedOut /\ disk' = SignedOut /\ AttemptsKept
  BY PutFacts, SessionTypeFacts DEF SessionInv, AttemptsKept, GoesOn
<1> QED  BY <1>1, TokensKept

\* A refresh is started with the stored token.
LEMMA PresentTokens ==
  ASSUME SessionInv, store.pair # 0, renewal.phase = "none", Present(store.pair), AttemptsKept,
         UNCHANGED <<store, disk, issued, owner, crossed>>
  PROVE  TokensSound'
<1>1. /\ store.pair \in 1 .. issued /\ store.pair \in Pairs /\ presented[store.pair] = 0
      /\ renewal'.phase = "sent" /\ renewal'.pair = store.pair
      /\ \A n \in Pairs : presented'[n] = IF n = store.pair THEN 1 ELSE presented[n]
  BY PairFacts DEF Present, SessionInv, TokensSound, OnlyIssued, Unspent
<1>2. OnlyIssued'
  BY <1>1 DEF SessionInv, TokensSound, OnlyIssued
<1>3. Unspent' /\ RefreshTokenSpentOnce'
  BY <1>1, PairFacts DEF SessionInv, TokensSound, Unspent, RefreshTokenSpentOnce
<1>4. OwnersKept'
  BY <1>1 DEF SessionInv, TokensSound, OwnersKept, Owned, AttemptsKept
<1>5. QED
  BY <1>2, <1>3, <1>4 DEF TokensSound

LEMMA RequestTokens ==
  ASSUME SessionInv, NEW r \in ApiCalls, Send(r) \/ RequestStep(r)
  PROVE  TokensSound'
<1>1. CASE Send(r) \/ RequestFails(r) \/ Rejected(r) \/ Enqueue(r)
  BY <1>1, TokensKept DEF Send, RequestFails, Rejected, Enqueue, AttemptsKept
<1>2. CASE NothingToRefresh(r)
  BY <1>2, PutTokens, SessionTypeFacts DEF NothingToRefresh, ClearSession, SessionInv, GoesOn
<1>3. CASE Accepted(r)
  <2>1. CASE UNCHANGED <<store, disk, crossed>>
    BY <1>3, <2>1, TokensKept DEF Accepted, AttemptsKept
  <2>2. CASE ~UNCHANGED <<store, disk, crossed>>
    <3>1. /\ store' = [store EXCEPT !.user = owner[request[r].pair]] /\ disk' = store'
          /\ crossed' = TRUE
      BY <1>3, <2>2 DEF Accepted, Profile
    <3> QED  BY <1>3, <3>1, TokensCrossed DEF Accepted, AttemptsKept
  <2> QED  BY <2>1, <2>2
<1>4. CASE StartRefresh(r)
  BY <1>4, PresentTokens DEF StartRefresh, AttemptsKept
<1> QED  BY <1>1, <1>2, <1>3, <1>4 DEF RequestStep

\* A pair that is issued was never presented and never owned, and what was owned stays so.
LEMMA IssueFacts ==
  ASSUME SessionInv, NEW user, Issue(user)
  PROVE  /\ issued' = issued + 1 /\ issued' \in Pairs /\ owner'[issued'] = user
         /\ presented[issued'] = 0
         /\ \A n \in 1 .. issued : owner'[n] = owner[n]
BY PairFacts DEF SessionInv, TokensSound, Unspent, Issue

LEMMA RefreshTokens ==
  ASSUME SessionInv, RefreshStep
  PROVE  TokensSound'
<1>1. CASE Rotate
  <2>1. /\ issued' = issued + 1 /\ issued' \in Pairs /\ owner'[issued'] = owner[renewal.pair]
        /\ presented[issued'] = 0
        /\ \A n \in 1 .. issued : owner'[n] = owner[n]
        /\ renewal'.phase = "rotated" /\ renewal'.new = issued' /\ renewal'.pair = renewal.pair
        /\ renewal.phase = "sent"
        /\ UNCHANGED <<store, disk, attempt, crossed, presented>>
    BY <1>1, IssueFacts, PairFacts DEF Rotate, SessionInv, SessionTypeOK
  <2>2. OnlyIssued'
    BY <2>1, PairFacts DEF SessionInv, TokensSound, OnlyIssued
  <2>3. Unspent' /\ RefreshTokenSpentOnce'
    BY <2>1, PairFacts DEF SessionInv, TokensSound, Unspent, RefreshTokenSpentOnce
  <2>4. ~crossed' => Owned(store)' /\ Owned(disk)'
    BY <2>1, PairFacts DEF SessionInv, TokensSound, OwnersKept, Owned, OnlyIssued
  <2>5. owner'[renewal'.new] = owner'[renewal'.pair]
    BY <2>1 DEF SessionInv, TokensSound, OnlyIssued
  <2>6. OwnersKept'
    BY <2>1, <2>4, <2>5 DEF SessionInv, TokensSound, OwnersKept
  <2> QED  BY <2>2, <2>3, <2>6 DEF TokensSound
<1>2. CASE RefreshDone
  <2> DEFINE stored == [pair |-> renewal.new, user |-> store.user]
  <2>1. stored \in Sessions
    BY PairFacts DEF SessionInv, Sessions
  <2>2. /\ store' = stored /\ disk' = stored
        /\ AttemptsKept
    BY <1>2, <2>1, PutFacts, SessionTypeFacts, RefreshedAttempts
    DEF RefreshDone, SessionInv, AttemptsKept, GoesOn
  <2>3. /\ store'.pair = renewal.new /\ disk'.pair = renewal.new
        /\ store'.user = store.user /\ disk'.user = store.user
        /\ renewal.phase = "rotated" /\ renewal'.phase = "none"
        /\ crossed' = (crossed \/ store.pair # renewal.pair)
        /\ UNCHANGED <<issued, owner, presented>>
    BY <1>2, <2>2, PairFacts DEF RefreshDone, SessionInv
  <2>4. OnlyIssued'
    BY <2>3, PairFacts DEF SessionInv, TokensSound, OnlyIssued
  <2>5. Unspent' /\ RefreshTokenSpentOnce'
    BY <2>3, PairFacts DEF SessionInv, TokensSound, Unspent, RefreshTokenSpentOnce
  <2>6. ASSUME ~crossed'  PROVE Owned(store)' /\ Owned(disk)'
    <3>1. ~crossed /\ store.pair = renewal.pair
      BY <2>3, <2>6
    <3>2. /\ renewal.pair \in 1 .. issued /\ renewal.new \in 1 .. issued
          /\ owner[renewal.new] = owner[renewal.pair]
          /\ store.pair = 0 <=> store.user = NoAdmin
          /\ store.pair # 0 => owner[store.pair] = store.user
      BY <2>3, <3>1 DEF SessionInv, TokensSound, OwnersKept, Owned, OnlyIssued
    <3> HIDE DEF stored
    <3> QED  BY <2>3, <3>1, <3>2, PairFacts DEF Owned, SessionInv
  <2>7. OwnersKept'
    BY <2>2, <2>3, <2>6 DEF SessionInv, TokensSound, OwnersKept, AttemptsKept
  <2> QED  BY <2>4, <2>5, <2>7 DEF TokensSound
<1>3. CASE RefreshFailed
  <2>1. /\ store' = SignedOut /\ disk' = SignedOut /\ AttemptsKept
    BY <1>3, PutFacts, SessionTypeFacts, RefreshedAttempts
    DEF RefreshFailed, ClearSession, SessionInv, AttemptsKept, GoesOn
  <2>2. /\ renewal'.phase = "none" /\ UNCHANGED <<issued, owner, presented, crossed>>
    BY <1>3, PairFacts DEF RefreshFailed, SessionInv
  <2>3. OnlyIssued'
    BY <2>1, <2>2, PairFacts DEF SessionInv, TokensSound, OnlyIssued
  <2>4. Unspent' /\ RefreshTokenSpentOnce'
    BY <2>1, <2>2, PairFacts DEF SessionInv, TokensSound, Unspent, RefreshTokenSpentOnce
  <2>5. ~crossed' => Owned(store)' /\ Owned(disk)'
    BY <2>1, <2>2, PairFacts DEF SessionInv, Owned
  <2>6. OwnersKept'
    BY <2>1, <2>2, <2>5 DEF SessionInv, TokensSound, OwnersKept, AttemptsKept
  <2> QED  BY <2>3, <2>4, <2>6 DEF TokensSound
<1> QED  BY <1>1, <1>2, <1>3 DEF RefreshStep

LEMMA UnauthorizedTokens ==
  ASSUME SessionInv, NEW a \in Attempts, SignInUnauthorized(a)
  PROVE  TokensSound'
<1>1. attempt[a].phase = "sent" /\ UNCHANGED <<issued, owner, crossed>> /\ SessionTypeOK
  BY DEF SignInUnauthorized, Sent, SessionInv
<1>2. CASE ClearSession(Ended(a)) /\ UNCHANGED <<renewal, presented>>
  <2>1. Ended(a) \in [Attempts -> AttemptType] /\ GoesOn(Ended(a))
    BY <1>1, EndedFacts DEF GoesOn, OpenPhases
  <2>2. QED
    BY <1>1, <1>2, <2>1, PutTokens, SessionTypeFacts DEF ClearSession
<1>3. CASE /\ attempt' = [attempt EXCEPT ![a] = Waiting(a, "queued")]
           /\ UNCHANGED <<store, disk, view, login, renewal, presented>>
  <2>1. AttemptsKept
    BY <1>1, <1>3, WaitingAttempt
  <2>2. QED
    BY <1>1, <1>3, <2>1, TokensKept
<1>4. CASE /\ attempt' = [attempt EXCEPT ![a] = Waiting(a, "refreshing")]
           /\ store.pair # 0 /\ renewal.phase = "none"
           /\ Present(store.pair) /\ UNCHANGED <<store, disk, view, login>>
  <2>1. AttemptsKept
    BY <1>1, <1>4, WaitingAttempt
  <2>2. QED
    BY <1>1, <1>4, <2>1, PresentTokens
<1>5. QED
  BY <1>2, <1>3, <1>4 DEF SignInUnauthorized

LEMMA SignInTokens ==
  ASSUME SessionInv, SignInStep
  PROVE  TokensSound'
<1>1. ASSUME NEW a \in Attempts, NEW kind \in Kinds, NEW user \in Admins, Try(a, kind, user)
      PROVE  TokensSound'
  <2>1. attempt'[a].user = user /\ \A b \in Attempts \ {a} : attempt'[b] = attempt[b]
    BY <1>1, AttemptFacts, SessionTypeFacts DEF Try, SessionInv
  <2>2. AttemptsKept
    BY <2>1 DEF AttemptsKept
  <2> QED  BY <1>1, <2>2, TokensKept DEF Try
<1>2. ASSUME NEW a \in Attempts, Hear(a)  PROVE TokensSound'
  <2>1. /\ Ended(a) \in [Attempts -> AttemptType] /\ Ended(a)[a].phase = "over"
        /\ \A b \in Attempts \ {a} : Ended(a)[b] = attempt[b]
    BY EndedFacts DEF SessionInv
  <2>2. UNCHANGED <<renewal, presented, crossed>>
    BY <1>2 DEF Hear
  <2>3. CASE NextStage(a) \/ SetupDone(a) \/ Refused(a)
    <3>1. AttemptsKept
      BY <2>1, <2>3 DEF NextStage, SetupDone, Refused, AttemptsKept, OpenPhases
    <3> QED  BY <2>2, <2>3, <3>1, TokensKept DEF NextStage, SetupDone, Refused
  <2>4. CASE MustChange(a) \/ PasswordChanged(a)
    <3>1. PICK to \in Views : Show(to, Ended(a))
      BY <2>4 DEF MustChange, PasswordChanged, Views
    <3>2. AttemptsKept
      BY <2>1, <3>1, ShowType DEF AttemptsKept, OpenPhases
    <3> QED  BY <2>2, <2>4, <3>2, TokensKept DEF MustChange, PasswordChanged
  <2>5. CASE SignedIn(a)
    <3> DEFINE stored == [pair |-> issued + 1, user |-> attempt[a].user]
    <3>1. attempt[a].user \in Admins
      BY <2>5 DEF SignedIn, Sent, SessionInv, TokensSound, OwnersKept, OpenPhases
    <3>2. /\ issued' = issued + 1 /\ issued' \in Pairs /\ owner'[issued'] = attempt[a].user
          /\ presented[issued'] = 0
          /\ \A n \in 1 .. issued : owner'[n] = owner[n]
      BY <2>5, IssueFacts DEF SignedIn
    <3>3. stored \in Sessions /\ "console" \in Views
      BY <3>1, <3>2, PairFacts DEF SessionInv, Sessions, Views
    <3>4. /\ store' = stored /\ disk' = stored
          /\ \A b \in Attempts : /\ attempt'[b].phase = Ended(a)[b].phase
                                /\ attempt'[b].user = Ended(a)[b].user
      BY <2>1, <2>5, <3>3, PutFacts, SessionTypeFacts DEF SignedIn, SessionInv
    <3>5. /\ store'.pair = issued' /\ disk'.pair = issued'
          /\ store'.user = attempt[a].user /\ disk'.user = attempt[a].user
      BY <3>2, <3>4
    <3>6. OnlyIssued'
      BY <2>2, <3>2, <3>5, PairFacts DEF SessionInv, TokensSound, OnlyIssued
    <3>7. Unspent' /\ RefreshTokenSpentOnce'
      BY <2>2, <3>2, <3>5, PairFacts DEF SessionInv, TokensSound, Unspent, RefreshTokenSpentOnce
    <3>8. Owned(store)' /\ Owned(disk)'
      BY <3>1, <3>2, <3>5, PairFacts, SessionAssumption DEF SessionInv, Owned
    <3>9. renewal'.phase = "rotated" => owner'[renewal'.new] = owner'[renewal'.pair]
      BY <2>2, <3>2 DEF SessionInv, TokensSound, OnlyIssued, OwnersKept
    <3>10. \A b \in Attempts : attempt'[b].phase \in OpenPhases => attempt'[b].user \in Admins
      BY <2>1, <3>4 DEF SessionInv, TokensSound, OwnersKept, OpenPhases
    <3> QED  BY <3>6, <3>7, <3>8, <3>9, <3>10 DEF TokensSound, OwnersKept
  <2> QED  BY <1>2, <2>3, <2>4, <2>5 DEF Hear
<1>3. ASSUME NEW a \in Attempts, SignInUnauthorized(a)  PROVE TokensSound'
  BY <1>3, UnauthorizedTokens
<1>4. CASE BackToCredentials
  BY <1>4, TokensKept DEF BackToCredentials, AttemptsKept
<1>5. CASE LeaveChange
  <2>1. Routed("login", store.pair) \in Views
    BY DEF Routed, Views
  <2>2. AttemptsKept
    BY <1>5, <2>1, ShowType, SessionTypeFacts DEF LeaveChange, AttemptsKept, SessionInv
  <2> QED  BY <1>5, <2>2, TokensKept DEF LeaveChange
<1> QED  BY <1>1, <1>2, <1>4, <1>5, <1>3 DEF SignInStep

LEMMA LeaveTokens ==
  ASSUME SessionInv, Leave
  PROVE  TokensSound'
<1>1. CASE Logout
  BY <1>1, TokensKept DEF Logout, AttemptsKept
<1>2. CASE IdleLogout
  BY <1>2, PutTokens, SessionTypeFacts DEF IdleLogout, ClearSession, SessionInv, GoesOn
<1>3. CASE LogoutOver
  <2>1. CASE logout.clears
    <3>1. "login" \in Views
      BY DEF Views
    <3> QED
      BY <1>3, <2>1, <3>1, PutTokens, SessionTypeFacts DEF LogoutOver, SessionInv, GoesOn
  <2>2. CASE ~logout.clears
    BY <1>3, <2>2, TokensKept DEF LogoutOver, AttemptsKept
  <2> QED  BY <2>1, <2>2
<1>4. CASE Reload
  <2>1. /\ store' = disk /\ UNCHANGED <<disk, issued, owner, crossed>>
        /\ renewal'.phase = "none" /\ \A n \in Pairs : presented'[n] = 0
    BY <1>4, PairFacts DEF Reload, SessionInv
  <2>2. ASSUME NEW a \in Attempts  PROVE attempt'[a].phase \notin OpenPhases
    BY <1>4 DEF Reload, NewAttempt, OpenPhases
  <2>3. OnlyIssued'
    BY <2>1 DEF SessionInv, TokensSound, OnlyIssued
  <2>4. Unspent' /\ RefreshTokenSpentOnce'
    BY <2>1, PairFacts DEF SessionInv, TokensSound, OnlyIssued, Unspent, RefreshTokenSpentOnce
  <2>5. OwnersKept'
    BY <2>1, <2>2 DEF SessionInv, TokensSound, OwnersKept, Owned
  <2> QED  BY <2>3, <2>4, <2>5 DEF TokensSound
<1> QED  BY <1>1, <1>2, <1>3, <1>4 DEF Leave

LEMMA OtherTokens ==
  ASSUME SessionInv,
         (\E n \in Pairs : Expire(n) \/ Revoke(n)) \/ OpenProfile \/ CloseProfile
  PROVE  TokensSound'
<1>1. ASSUME NEW n \in Pairs, Expire(n) \/ Revoke(n)  PROVE TokensSound'
  BY <1>1, TokensKept DEF Expire, Revoke, AttemptsKept
<1>2. "profile" \in Views /\ "console" \in Views
  BY DEF Views
<1>3. CASE OpenProfile
  <2>1. AttemptsKept
    BY <1>2, <1>3, ShowType, SessionTypeFacts DEF OpenProfile, AttemptsKept, SessionInv
  <2>2. CASE me' # store.user
    BY <1>3, <2>1, <2>2, TokensCrossed DEF OpenProfile
  <2>3. CASE me' = store.user
    BY <1>3, <2>1, <2>3, TokensKept DEF OpenProfile
  <2> QED  BY <2>2, <2>3
<1>4. CASE CloseProfile
  <2>1. AttemptsKept
    BY <1>2, <1>4, ShowType, SessionTypeFacts DEF CloseProfile, AttemptsKept, SessionInv
  <2> QED  BY <1>4, <2>1, TokensKept DEF CloseProfile
<1> QED  BY <1>1, <1>3, <1>4

(***************************************************************************)
(* The theorems.                                                            *)
(***************************************************************************)
LEMMA SessionInvInit == SessionInit => SessionInv
<1> SUFFICES ASSUME SessionInit  PROVE SessionInv
  OBVIOUS
<1>1. SessionTypeOK
  BY SessionTypeInit
<1>2. PICK first \in Admins \cup {NoAdmin} :
        owner = [n \in Pairs |-> IF n = 1 THEN first ELSE NoAdmin]
  BY DEF SessionInit
<1>3. /\ 1 \in Pairs /\ owner[1] = first /\ issued = IF first = NoAdmin THEN 0 ELSE 1
      /\ store.pair = issued /\ store.user = first /\ disk = store
      /\ renewal.phase = "none" /\ \A n \in Pairs : presented[n] = 0
  BY <1>1, <1>2, PairFacts DEF SessionInit
<1>4. ASSUME NEW a \in Attempts  PROVE attempt[a].phase \notin OpenPhases
  BY DEF SessionInit, NewAttempt, OpenPhases
<1>5. OnlyIssued /\ Unspent /\ RefreshTokenSpentOnce
  BY <1>1, <1>3, PairFacts DEF OnlyIssued, Unspent, RefreshTokenSpentOnce
<1>6. OwnersKept
  BY <1>3, <1>4 DEF OwnersKept, Owned
<1> QED  BY <1>1, <1>5, <1>6 DEF SessionInv, TokensSound

LEMMA SessionInvNext ==
  ASSUME SessionInv, [SessionNext]_sessionVars
  PROVE  SessionInv'
<1>1. SessionTypeOK'
  BY SessionTypeNext DEF SessionInv, TokensSound
<1>2. CASE UNCHANGED sessionVars
  BY <1>2, TokensKept, <1>1 DEF sessionVars, AttemptsKept, SessionInv
<1>3. CASE SessionNext
  <2>1. TokensSound'
    BY <1>3, RequestTokens, RefreshTokens, SignInTokens, LeaveTokens, OtherTokens
    DEF SessionNext
  <2> QED  BY <1>1, <2>1 DEF SessionInv
<1> QED  BY <1>2, <1>3

LEMMA SessionInvariance == SessionSpec => []SessionInv
BY SessionInvInit, SessionInvNext, PTL DEF SessionSpec

\* The state of the session has its types.
THEOREM SessionTypes == SessionSpec => []SessionTypeOK
<1>1. SessionInv => SessionTypeOK
  BY DEF SessionInv
<1> QED  BY <1>1, SessionInvariance, PTL

\* A refresh token is presented to the server once, however many requests find their access
\* token expired and however refreshes, sign-ins, sign-outs and reloads meet (the interceptors
\* of lib/api.ts).
THEOREM TokenSpentOnce == SessionSpec => []RefreshTokenSpentOnce
<1>1. SessionInv => RefreshTokenSpentOnce
  BY DEF SessionInv, TokensSound
<1> QED  BY <1>1, SessionInvariance, PTL

\* The store holds the tokens of its user, or neither, but for the two late answers (the store
\* of lib/auth.ts, its copy in localStorage and every writer of it).
THEOREM SessionKeepsItsUser == SessionSpec => []SessionOfItsUser
<1>1. SessionInv => SessionOfItsUser
  BY DEF SessionInv, TokensSound, OwnersKept, Owned, SessionOfItsUser
<1> QED  BY <1>1, SessionInvariance, PTL

(***************************************************************************)
(* The portal.                                                             *)
(***************************************************************************)
\* Every token in use was issued, and to somebody; calls that need a token have one.
InUse ==
  /\ session.token <= minted /\ forced \subseteq 1 .. minted /\ valid \subseteq 1 .. minted
  /\ \A t \in 1 .. minted : bearer[t] \in People
  /\ \A j \in Jobs :
       /\ job[j].token <= minted
       /\ job[j].phase = "answered" => job[j].token # 0 /\ job[j].kind \in {"load", "refetch"}
       /\ (job[j].phase = "sent" /\ job[j].kind \in {"login", "code"}) => job[j].user \in People

\* The flag of a forced session stays until a profile is stored, and no profile, nor a code that
\* leads to one, was asked for in a forced session.
FlagKept ==
  /\ session.token \in forced => session.must
  /\ \A j \in Jobs : (Ongoing(j) /\ job[j].kind \in {"load", "verify", "refetch"})
                       => job[j].token \notin forced
  /\ place \in Inner \ {"password"} => session.token \notin forced

\* The factor shown is wrong only until the profile that follows a code is there.
FactorKept ==
  (session.token # 0 /\ \A j \in Jobs : ~(Ongoing(j) /\ job[j].kind = "refetch"))
    => session.mfa = factor[session.user]

Sound     == InUse /\ (~astray => FactorKept) /\ (~astray /\ ~handed => FlagKept)
PortalInv == PortalTypeOK /\ Sound

(***************************************************************************)
(* The records the actions build.                                           *)
(***************************************************************************)
AllKinds    == FormKinds \cup {"load", "refetch", "logout"}
SessionType == [token : 0 .. MaxTokens, user : People \cup {Nobody}, must : BOOLEAN, mfa : BOOLEAN]
FormType    == [stage : {"first", "code", "setup", "verify", "done", "check", "complete"},
                user : People \cup {Nobody}]
JobType     == [phase : {"unused", "sent", "answered", "over"}, kind : AllKinds,
                user : People \cup {Nobody}, token : 0 .. MaxTokens, mfa : BOOLEAN,
                here : BOOLEAN]
PortalPlaces      == Inner \cup {"login", "reset"}

\* The jobs are those of a function, but for who hears of them.
Tracks(calls) ==
  \A k \in Jobs : /\ job'[k].phase = calls[k].phase /\ job'[k].kind = calls[k].kind
                  /\ job'[k].token = calls[k].token /\ job'[k].user = calls[k].user

LEMMA PortalTypeFacts ==
  ASSUME PortalTypeOK
  PROVE  /\ session \in SessionType /\ form \in FormType /\ job \in [Jobs -> JobType]
         /\ place \in PortalPlaces /\ NoSession \in SessionType /\ First \in FormType
         /\ Idle \in JobType /\ MaxTokens \in Nat \ {0} /\ Tokens = 1 .. MaxTokens
         /\ Nobody \notin People /\ NoSession.token = 0 /\ minted \in 0 .. MaxTokens
         /\ bearer \in [Tokens -> People \cup {Nobody}] /\ factor \in [People -> BOOLEAN]
         /\ session.token \in 0 .. MaxTokens /\ astray \in BOOLEAN /\ handed \in BOOLEAN
BY PortalAssumption DEF PortalTypeOK, SessionType, FormType, JobType, AllKinds, FormKinds, PortalPlaces,
   NoSession, First, Idle, Tokens

LEMMA StoppedFacts ==
  ASSUME PortalTypeOK, NEW j \in Jobs
  PROVE  /\ Stopped(j) \in [Jobs -> JobType]
         /\ Stopped(j)[j].phase = "over" /\ Stopped(j)[j].token = 0
         /\ \A k \in Jobs \ {j} : Stopped(j)[k] = job[k]
<1>1. /\ [Idle EXCEPT !.phase = "over"] \in JobType
      /\ [Idle EXCEPT !.phase = "over"].phase = "over"
      /\ [Idle EXCEPT !.phase = "over"].token = 0
  BY PortalTypeFacts DEF JobType, Idle
<1> QED  BY <1>1, PortalTypeFacts DEF Stopped

LEMMA StartedFacts ==
  ASSUME PortalTypeOK, NEW j \in Jobs, NEW kind \in AllKinds, NEW user \in People \cup {Nobody}
  PROVE  /\ Started(j, kind, user) \in [Jobs -> JobType]
         /\ Started(j, kind, user)[j].phase = "sent" /\ Started(j, kind, user)[j].kind = kind
         /\ Started(j, kind, user)[j].user = user
         /\ Started(j, kind, user)[j].token = session.token
         /\ \A k \in Jobs \ {j} : Started(j, kind, user)[k] = job[k]
<1> DEFINE call == [Idle EXCEPT !.phase = "sent", !.kind = kind, !.user = user,
                               !.token = session.token, !.here = TRUE]
<1>1. /\ call \in JobType /\ call.phase = "sent" /\ call.kind = kind /\ call.user = user
      /\ call.token = session.token
  BY PortalTypeFacts DEF JobType, Idle
<1> HIDE DEF call
<1>2. Started(j, kind, user) = [job EXCEPT ![j] = call]
  BY DEF Started, call
<1> QED  BY <1>1, <1>2, PortalTypeFacts

LEMMA UnheardFacts ==
  ASSUME NEW calls \in [Jobs -> JobType], NEW to
  PROVE  /\ Unheard(calls, to) \in [Jobs -> JobType]
         /\ \A k \in Jobs : /\ Unheard(calls, to)[k].phase = calls[k].phase
                            /\ Unheard(calls, to)[k].kind = calls[k].kind
                            /\ Unheard(calls, to)[k].token = calls[k].token
                            /\ Unheard(calls, to)[k].user = calls[k].user
<1>1. ASSUME NEW k \in Jobs
      PROVE  /\ [calls[k] EXCEPT !.here = @ /\ to = place] \in JobType
             /\ [calls[k] EXCEPT !.here = @ /\ to = place].phase = calls[k].phase
             /\ [calls[k] EXCEPT !.here = @ /\ to = place].kind = calls[k].kind
             /\ [calls[k] EXCEPT !.here = @ /\ to = place].token = calls[k].token
             /\ [calls[k] EXCEPT !.here = @ /\ to = place].user = calls[k].user
  BY DEF JobType
<1> QED  BY <1>1 DEF Unheard

LEMMA GotoFacts ==
  ASSUME PortalTypeOK, NEW to, NEW calls \in [Jobs -> JobType], Goto(to, calls)
  PROVE  /\ place' = to /\ form' \in FormType /\ job' \in [Jobs -> JobType] /\ Tracks(calls)
BY PortalTypeFacts, UnheardFacts DEF Goto, Tracks

LEMMA StagedFacts ==
  ASSUME PortalTypeOK, NEW j \in Jobs,
         NEW stage \in {"code", "setup", "done", "check", "complete"}, Staged(j, stage)
  PROVE  /\ place' = place /\ form' \in FormType /\ job' \in [Jobs -> JobType]
         /\ job' = Stopped(j)
<1>1. job[j].user \in People \cup {Nobody}
  BY PortalTypeFacts DEF JobType
<1> QED  BY <1>1, PortalTypeFacts, StoppedFacts DEF Staged, FormType

LEMMA GuardedFacts ==
  ASSUME NEW to \in PortalPlaces, NEW s \in SessionType
  PROVE  /\ Guarded(to, s) \in PortalPlaces
         /\ Guarded(to, s) \in Inner \ {"password"} => s.must = FALSE /\ s.token \in timely
BY DEF Guarded, PortalPlaces, Inner, SessionType

(***************************************************************************)
(* The types, and what each action does to the tokens.                      *)
(***************************************************************************)
LEMMA PortalTypeInit == PortalInit => PortalTypeOK
<1> SUFFICES ASSUME PortalInit  PROVE PortalTypeOK
  OBVIOUS
<1>1. PICK first \in People \cup {Nobody} :
        bearer = [t \in Tokens |-> IF t = 1 THEN first ELSE Nobody]
  BY DEF PortalInit
<1>2. /\ 1 \in Tokens /\ bearer[1] = first /\ minted \in {0, 1} /\ minted \in 0 .. MaxTokens
      /\ bearer \in [Tokens -> People \cup {Nobody}]
      /\ minted = 1 => first \in People
  BY <1>1, PortalAssumption DEF PortalInit, Tokens
<1>3. valid \subseteq Tokens /\ timely \subseteq Tokens /\ forced \subseteq Tokens
  BY <1>2, PortalAssumption DEF PortalInit, Tokens
<1>4. factor \in [People -> BOOLEAN]
  BY DEF PortalInit
<1>5. session \in SessionType
  BY <1>2, <1>4, PortalAssumption DEF PortalInit, SessionType, NoSession
<1>6. place \in PortalPlaces
  BY <1>5, GuardedFacts DEF PortalInit, PortalPlaces, Inner
<1>7. form \in FormType /\ job \in [Jobs -> JobType] /\ astray = FALSE /\ handed = FALSE
  BY PortalAssumption DEF PortalInit, First, Idle, FormType, JobType, AllKinds, FormKinds
<1>8. astray \in BOOLEAN /\ handed \in BOOLEAN
  BY DEF PortalInit
<1>9. place \in Inner \cup {"login", "reset"}
  BY <1>6 DEF PortalPlaces
<1>10. /\ session \in [token : 0 .. MaxTokens, user : People \cup {Nobody}, must : BOOLEAN,
                     mfa : BOOLEAN]
       /\ form \in [stage : {"first", "code", "setup", "verify", "done", "check", "complete"},
                  user : People \cup {Nobody}]
  BY <1>5, <1>7 DEF SessionType, FormType
<1>11. job \in [Jobs -> [phase : {"unused", "sent", "answered", "over"},
                        kind : FormKinds \cup {"load", "refetch", "logout"},
                        user : People \cup {Nobody}, token : 0 .. MaxTokens,
                        mfa : BOOLEAN, here : BOOLEAN]]
  BY <1>7 DEF JobType, AllKinds
<1> QED  BY <1>2, <1>3, <1>4, <1>8, <1>9, <1>10, <1>11 DEF PortalTypeOK

LEMMA UserType ==
  ASSUME PortalTypeOK
  PROVE  /\ \A to \in PortalPlaces : Visit(to) => PortalTypeOK'
         /\ \A stage \in {"first", "setup", "verify"} : Turn(stage) => PortalTypeOK'
         /\ \A j \in Jobs, kind \in FormKinds, user \in People :
              SendForm(j, kind, user) => PortalTypeOK'
         /\ \A j \in Jobs : SignOut(j) => PortalTypeOK'
<1>1. ASSUME NEW to \in PortalPlaces, Visit(to)  PROVE PortalTypeOK'
  <2> DEFINE there == Guarded(to, session)
  <2>1. there \in PortalPlaces
    BY GuardedFacts, PortalTypeFacts
  <2>2. \E calls \in [Jobs -> JobType] : Goto(there, calls)
    BY <1>1, StartedFacts, PortalTypeFacts DEF Visit, AllKinds
  <2>3. place' \in PortalPlaces /\ form' \in FormType /\ job' \in [Jobs -> JobType]
    BY <2>1, <2>2, GotoFacts
  <2> QED  BY <1>1, <2>3 DEF Visit, PortalTypeOK, FormType, JobType, AllKinds, PortalPlaces
<1>2. ASSUME NEW stage \in {"first", "setup", "verify"}, Turn(stage)  PROVE PortalTypeOK'
  <2>1. form' \in FormType
    BY <1>2, PortalTypeFacts DEF Turn, FormType
  <2> QED  BY <1>2, <2>1 DEF Turn, PortalTypeOK, FormType
<1>3. ASSUME NEW j \in Jobs, NEW kind \in FormKinds, NEW user \in People,
             SendForm(j, kind, user)
      PROVE PortalTypeOK'
  <2>1. job' \in [Jobs -> JobType]
    BY <1>3, StartedFacts DEF SendForm, AllKinds
  <2> QED  BY <1>3, <2>1 DEF SendForm, PortalTypeOK, JobType, AllKinds
<1>4. ASSUME NEW j \in Jobs, SignOut(j)  PROVE PortalTypeOK'
  <2>1. Started(j, "logout", Nobody) \in [Jobs -> JobType]
    BY StartedFacts DEF AllKinds
  <2>2. [Started(j, "logout", Nobody)[j] EXCEPT !.here = FALSE] \in JobType
    BY <2>1 DEF JobType
  <2>3. job' \in [Jobs -> JobType]
    BY <1>4, <2>1, <2>2 DEF SignOut
  <2> QED  BY <1>4, <2>3 DEF SignOut, PortalTypeOK, JobType, AllKinds
<1> QED  BY <1>1, <1>2, <1>3, <1>4

\* What an accepted sign-in leaves.
LEMMA SignInFacts ==
  ASSUME PortalTypeOK, NEW j \in Jobs, NEW must \in BOOLEAN, SignIn(j, must),
         job[j].user \in People
  PROVE  /\ minted' = minted + 1 /\ minted' \in Tokens
         /\ session' \in SessionType /\ session'.token = minted' /\ session'.must = must
         /\ session'.user = job[j].user /\ session'.mfa = factor[job[j].user]
         /\ bearer' \in [Tokens -> People \cup {Nobody}]
         /\ forced' = (IF must THEN forced \cup {minted'} ELSE forced)
         /\ valid' \subseteq Tokens /\ timely' \subseteq Tokens /\ forced' \subseteq Tokens
         /\ place' = (IF must THEN "password" ELSE "home")
         /\ form' \in FormType /\ job' \in [Jobs -> JobType] /\ Tracks(Stopped(j))
         /\ UNCHANGED <<factor, astray, handed>>
<1>1. minted' = minted + 1 /\ minted' \in Tokens /\ minted' \in 0 .. MaxTokens
  BY PortalTypeFacts DEF SignIn
<1>2. /\ place' = (IF must THEN "password" ELSE "home")
      /\ form' \in FormType /\ job' \in [Jobs -> JobType] /\ Tracks(Stopped(j))
  <2>1. Goto(IF must THEN "password" ELSE "home", Stopped(j))
    BY DEF SignIn
  <2> QED  BY <2>1, StoppedFacts, GotoFacts
<1>3. session' = [token |-> minted', user |-> job[j].user, must |-> must,
                  mfa |-> factor[job[j].user]]
  BY <1>1 DEF SignIn
<1>4. session' \in SessionType
  BY <1>1, <1>3, PortalTypeFacts DEF SessionType
<1>5. /\ bearer' = [bearer EXCEPT ![minted'] = job[j].user]
      /\ forced' = (IF must THEN forced \cup {minted'} ELSE forced)
      /\ valid' = valid \cup {minted'} /\ timely' = timely \cup {minted'}
      /\ UNCHANGED <<factor, astray, handed>>
  BY <1>1 DEF SignIn
<1> QED  BY <1>1, <1>2, <1>3, <1>4, <1>5, PortalTypeFacts DEF PortalTypeOK

LEMMA JobStepType ==
  ASSUME PortalTypeOK, InUse, NEW j \in Jobs,
         \/ LoginAnswer(j) \/ PasswordChange(j) \/ SignedOutOf(j) \/ ResetAnswer(j)
         \/ SetupAnswer(j) \/ Verified(j) \/ ServeProfile(j) \/ StoreProfile(j)
         \/ CallFails(j) \/ Denied(j)
  PROVE  PortalTypeOK'
<1>1. /\ Stopped(j) \in [Jobs -> JobType] /\ job[j] \in JobType
      /\ session \in SessionType /\ NoSession \in SessionType
  BY StoppedFacts, PortalTypeFacts
<1>2. CASE LoginAnswer(j)
  <2>1. CASE Heard(j, "login") /\ Staged(j, "code")
             /\ UNCHANGED <<session, minted, bearer, forced, valid, timely, factor, astray, handed>>
    <3>1. form' \in FormType /\ job' \in [Jobs -> JobType] /\ place' = place
      BY <2>1, StagedFacts
    <3> QED  BY <2>1, <3>1 DEF PortalTypeOK, FormType, JobType, AllKinds
  <2>2. ASSUME NEW must \in BOOLEAN, Heard(j, "login") \/ Heard(j, "code"), SignIn(j, must)
        PROVE  PortalTypeOK'
    <3>1. job[j].user \in People
      BY <2>2 DEF InUse, Heard
    <3>2. /\ minted' \in Tokens /\ session' \in SessionType
          /\ bearer' \in [Tokens -> People \cup {Nobody}]
          /\ valid' \subseteq Tokens /\ timely' \subseteq Tokens /\ forced' \subseteq Tokens
          /\ place' \in {"password", "home"}
          /\ form' \in FormType /\ job' \in [Jobs -> JobType]
          /\ UNCHANGED <<factor, astray, handed>>
      BY <2>2, <3>1, SignInFacts
    <3>3. minted' \in 0 .. MaxTokens
      BY <3>2, PortalTypeFacts
    <3> QED
      BY <3>2, <3>3
      DEF PortalTypeOK, SessionType, FormType, JobType, AllKinds, Inner
  <2> QED  BY <1>2, <2>1, <2>2 DEF LoginAnswer
<1>3. CASE PasswordChange(j) \/ SignedOutOf(j)
  <2>1. /\ session' = NoSession /\ place' = "login" /\ form' \in FormType
        /\ job' \in [Jobs -> JobType]
    BY <1>1, <1>3, GotoFacts DEF PasswordChange, SignedOutOf, Clear
  <2>2. valid' \subseteq Tokens
    BY <1>3 DEF PasswordChange, SignedOutOf, PortalTypeOK
  <2> QED
    BY <1>1, <1>3, <2>1, <2>2
    DEF PasswordChange, SignedOutOf, PortalTypeOK, SessionType, FormType, JobType, AllKinds
<1>4. CASE ResetAnswer(j) \/ SetupAnswer(j)
  <2>1. form' \in FormType /\ job' \in [Jobs -> JobType] /\ place' \in {place, "login"}
    BY <1>1, <1>4, GotoFacts, StagedFacts DEF ResetAnswer, SetupAnswer
  <2> QED
    BY <1>4, <2>1
    DEF ResetAnswer, SetupAnswer, PortalTypeOK, FormType, JobType, AllKinds
<1>5. CASE Verified(j)
  <2>1. [job[j] EXCEPT !.kind = "refetch", !.token = session.token] \in JobType
    BY <1>1 DEF JobType, AllKinds, SessionType
  <2>2. job' \in [Jobs -> JobType] /\ factor' \in [People -> BOOLEAN]
    BY <1>5, <2>1, PortalTypeFacts DEF Verified
  <2>3. handed' \in BOOLEAN
    BY <1>5 DEF Verified
  <2> QED  BY <1>5, <2>2, <2>3 DEF Verified, PortalTypeOK, JobType, AllKinds
<1>6. CASE ServeProfile(j)
  <2>1. factor[bearer[job[j].token]] \in BOOLEAN
    BY <1>6, PortalTypeFacts DEF ServeProfile, Taken, InUse
  <2>2. [job[j] EXCEPT !.phase = "answered", !.mfa = factor[bearer[job[j].token]]] \in JobType
    BY <1>1, <2>1 DEF JobType, AllKinds
  <2>3. job' \in [Jobs -> JobType]
    BY <1>6, <2>2, PortalTypeFacts DEF ServeProfile
  <2> QED  BY <1>6, <2>3 DEF ServeProfile, PortalTypeOK, JobType, AllKinds
<1>7. CASE StoreProfile(j)
  <2>1. job[j].token \in 1 .. minted /\ bearer[job[j].token] \in People
    BY <1>1, <1>7, PortalTypeFacts DEF StoreProfile, InUse, JobType
  <2>2. session' \in SessionType
    BY <1>1, <1>7, <2>1 DEF StoreProfile, SessionType, JobType
  <2>3. form' \in FormType /\ job' \in [Jobs -> JobType] /\ place' = place
    BY <1>1, <1>7, StagedFacts, PortalTypeFacts DEF StoreProfile
  <2>4. astray' \in BOOLEAN
    BY <1>7 DEF StoreProfile
  <2>5. UNCHANGED <<minted, bearer, forced, valid, timely, factor, handed>>
    BY <1>7 DEF StoreProfile
  <2> QED
    BY <2>2, <2>3, <2>4, <2>5
    DEF PortalTypeOK, SessionType, FormType, JobType, AllKinds
<1>8. CASE CallFails(j)
  <2>1. job' \in [Jobs -> JobType] /\ factor' \in [People -> BOOLEAN]
    BY <1>1, <1>8, PortalTypeFacts DEF CallFails
  <2>2. astray' \in BOOLEAN
    BY <1>8 DEF CallFails
  <2> QED  BY <1>8, <2>1, <2>2 DEF CallFails, PortalTypeOK, JobType, AllKinds
<1>9. CASE Denied(j)
  <2>1. ASSUME NEW k \in Jobs  PROVE Stopped(k)[k] \in JobType
    BY StoppedFacts
  <2>2. job' \in [Jobs -> JobType]
    BY <1>1, <1>9, <2>1, PortalTypeFacts DEF Denied
  <2>3. session' \in SessionType /\ form' \in FormType /\ place' \in {place, "login"}
    BY <1>1, <1>9, PortalTypeFacts DEF Denied
  <2>4. astray' \in BOOLEAN
    BY <1>9 DEF Denied
  <2> QED
    BY <1>9, <2>2, <2>3, <2>4
    DEF Denied, PortalTypeOK, SessionType, FormType, JobType, AllKinds
<1> QED  BY <1>2, <1>3, <1>4, <1>5, <1>6, <1>7, <1>8, <1>9

LEMMA PortalTypeNext ==
  ASSUME PortalTypeOK, InUse, [PortalNext]_portalVars
  PROVE  PortalTypeOK'
<1>1. CASE UNCHANGED portalVars
  BY <1>1 DEF portalVars, PortalTypeOK
<1>2. ASSUME NEW t \in Tokens, TokenEnds(t)  PROVE PortalTypeOK'
  BY <1>2 DEF TokenEnds, PortalTypeOK
<1>3. CASE PortalNext
  BY <1>2, <1>3, UserType, JobStepType DEF PortalNext, JobStep, PortalPlaces
<1> QED  BY <1>1, <1>3

(***************************************************************************)
(* The invariant.  Most steps leave the session alone and keep a call, end  *)
(* it or begin one.                                                         *)
(***************************************************************************)
CallKept(k) ==
  /\ job'[k].phase = job[k].phase /\ job'[k].kind = job[k].kind
  /\ job'[k].token = job[k].token /\ job'[k].user = job[k].user

CallEnded(k) ==
  /\ job'[k].phase = "over" /\ job'[k].token = 0
  /\ ~(Ongoing(k) /\ job[k].kind = "refetch")

CallBegun(k) ==
  /\ job[k].phase = "unused" /\ job'[k].phase = "sent" /\ job'[k].token = session.token
  /\ job'[k].kind # "refetch"
  /\ (~astray /\ ~handed /\ job'[k].kind \in {"load", "verify"}) => session.token \notin forced
  /\ job'[k].kind \in {"login", "code"} => job'[k].user \in People

LEMMA CalmStep ==
  ASSUME PortalInv, UNCHANGED <<session, minted, bearer, forced, factor, astray, handed>>,
         valid' \subseteq valid,
         \A k \in Jobs : CallKept(k) \/ CallEnded(k) \/ CallBegun(k),
         (~astray /\ ~handed /\ place' \in Inner \ {"password"}) =>
           (place \in Inner \ {"password"} \/ session.token \notin forced)
  PROVE  Sound'
<1>1. InUse'
  BY PortalTypeFacts DEF PortalInv, Sound, InUse, CallKept, CallEnded, CallBegun
<1>2. ASSUME ~astray, ~handed  PROVE FlagKept'
  <2>1. 0 \notin forced
    BY DEF PortalInv, Sound, InUse
  <2>2. \A k \in Jobs : (Ongoing(k)' /\ job'[k].kind \in {"load", "verify", "refetch"})
                           => job'[k].token \notin forced'
    BY <1>2, <2>1 DEF PortalInv, Sound, FlagKept, CallKept, CallEnded, CallBegun, Ongoing
  <2> QED  BY <1>2, <2>2 DEF PortalInv, Sound, FlagKept
<1>3. ASSUME ~astray  PROVE FactorKept'
  BY <1>3 DEF PortalInv, Sound, FactorKept, CallKept, CallEnded, CallBegun, Ongoing
<1> QED  BY <1>1, <1>2, <1>3 DEF Sound

LEMMA EndedCalls ==
  ASSUME PortalInv, NEW j \in Jobs, Tracks(Stopped(j)), job[j].kind # "refetch"
  PROVE  \A k \in Jobs : CallKept(k) \/ CallEnded(k)
BY StoppedFacts DEF PortalInv, Tracks, CallKept, CallEnded

\* What the person does, a token that ends, and the answers that only turn a page.
LEMMA UserSound ==
  ASSUME PortalInv
  PROVE  /\ \A to \in PortalPlaces : Visit(to) => Sound'
         /\ \A stage \in {"first", "setup", "verify"} : Turn(stage) => Sound'
         /\ \A j \in Jobs, kind \in FormKinds, user \in People :
              SendForm(j, kind, user) => Sound'
         /\ \A j \in Jobs : SignOut(j) => Sound'
         /\ \A t \in Tokens : TokenEnds(t) => Sound'
<1>1. ASSUME NEW to \in PortalPlaces, Visit(to)  PROVE Sound'
  <2> DEFINE there == Guarded(to, session)
  <2>1. ~astray /\ ~handed => (there \in Inner \ {"password"} => session.token \notin forced)
    BY GuardedFacts, PortalTypeFacts DEF PortalInv, Sound, FlagKept
  <2>2. \A k \in Jobs : CallKept(k) \/ CallBegun(k)
    <3>1. CASE there = "profile"
      <4>1. PICK j \in Jobs : FirstUnused(j) /\ Goto(there, Started(j, "load", Nobody))
        BY <1>1, <3>1 DEF Visit
      <4>2. Tracks(Started(j, "load", Nobody))
        BY <4>1, StartedFacts, GotoFacts DEF PortalInv, AllKinds
      <4>3. /\ \A k \in Jobs \ {j} : Started(j, "load", Nobody)[k] = job[k]
            /\ Started(j, "load", Nobody)[j].phase = "sent"
            /\ Started(j, "load", Nobody)[j].kind = "load"
            /\ Started(j, "load", Nobody)[j].token = session.token
        BY StartedFacts DEF PortalInv, AllKinds
      <4>4. ~astray /\ ~handed => session.token \notin forced
        BY <2>1, <3>1 DEF Inner
      <4>5. CallBegun(j)
        BY <4>1, <4>2, <4>3, <4>4 DEF Tracks, CallBegun, FirstUnused
      <4>6. \A k \in Jobs \ {j} : CallKept(k)
        BY <4>2, <4>3 DEF Tracks, CallKept
      <4> QED  BY <4>5, <4>6
    <3>2. CASE there # "profile"
      <4>1. Tracks(job)
        BY <1>1, <3>2, GotoFacts, PortalTypeFacts DEF Visit, PortalInv
      <4> QED  BY <4>1 DEF Tracks, CallKept
    <3> QED  BY <3>1, <3>2
  <2>3. place' = there
    BY <1>1 DEF Visit, Goto
  <2> HIDE DEF there
  <2> QED  BY <1>1, <2>1, <2>2, <2>3, CalmStep DEF Visit
<1>2. ASSUME NEW stage \in {"first", "setup", "verify"}, Turn(stage)  PROVE Sound'
  BY <1>2, CalmStep DEF Turn, CallKept
<1>3. ASSUME NEW j \in Jobs, NEW kind \in FormKinds, NEW user \in People,
             SendForm(j, kind, user)
      PROVE Sound'
  <2>1. /\ job'[j].phase = "sent" /\ job'[j].kind = kind /\ job'[j].user = user
        /\ job'[j].token = session.token /\ \A k \in Jobs \ {j} : job'[k] = job[k]
    BY <1>3, StartedFacts DEF SendForm, PortalInv, AllKinds
  <2>2. kind \notin {"load", "refetch"} /\ (kind = "verify" => place = "mfa")
    BY <1>3 DEF SendForm, Offered, FormKinds
  <2>3. ~astray /\ ~handed => (kind = "verify" => session.token \notin forced)
    BY <2>2 DEF PortalInv, Sound, FlagKept, Inner
  <2>4. CallBegun(j)
    BY <1>3, <2>1, <2>2, <2>3 DEF CallBegun, SendForm, FirstUnused
  <2>5. \A k \in Jobs : CallKept(k) \/ CallBegun(k)
    BY <2>1, <2>4 DEF CallKept
  <2> QED  BY <1>3, <2>5, CalmStep DEF SendForm
<1>4. ASSUME NEW j \in Jobs, SignOut(j)  PROVE Sound'
  <2> DEFINE call == Started(j, "logout", Nobody)[j]
  <2>1. /\ Started(j, "logout", Nobody) \in [Jobs -> JobType]
        /\ call.phase = "sent" /\ call.kind = "logout" /\ call.token = session.token
        /\ \A k \in Jobs \ {j} : Started(j, "logout", Nobody)[k] = job[k]
    BY StartedFacts DEF PortalInv, AllKinds
  <2>2. call \in JobType
    BY <2>1
  <2> HIDE DEF call
  <2>3. /\ [call EXCEPT !.here = FALSE].phase = "sent"
        /\ [call EXCEPT !.here = FALSE].kind = "logout"
        /\ [call EXCEPT !.here = FALSE].token = session.token
    BY <2>1, <2>2 DEF JobType
  <2>4. job' = [Started(j, "logout", Nobody) EXCEPT ![j] = [call EXCEPT !.here = FALSE]]
    BY <1>4 DEF SignOut, call
  <2>5. /\ job'[j].phase = "sent" /\ job'[j].kind = "logout"
        /\ job'[j].token = session.token /\ \A k \in Jobs \ {j} : job'[k] = job[k]
    BY <2>1, <2>3, <2>4
  <2>6. CallBegun(j)
    BY <1>4, <2>5 DEF CallBegun, SignOut, FirstUnused
  <2>7. \A k \in Jobs : CallKept(k) \/ CallBegun(k)
    BY <2>5, <2>6 DEF CallKept
  <2> QED  BY <1>4, <2>7, CalmStep DEF SignOut
<1>5. ASSUME NEW t \in Tokens, TokenEnds(t)  PROVE Sound'
  BY <1>5, CalmStep DEF TokenEnds, CallKept
<1> QED  BY <1>1, <1>2, <1>3, <1>4, <1>5

\* The answers.
LEMMA SignInSound ==
  ASSUME PortalInv, NEW j \in Jobs, NEW must \in BOOLEAN,
         Heard(j, "login") \/ Heard(j, "code"), SignIn(j, must)
  PROVE  Sound'
<1>1. job[j].user \in People
  BY DEF PortalInv, Sound, InUse, Heard
<1>2. /\ minted' = minted + 1 /\ minted' \in Tokens
      /\ session'.token = minted' /\ session'.must = must
      /\ session'.user = job[j].user /\ session'.mfa = factor[job[j].user]
      /\ forced' = (IF must THEN forced \cup {minted'} ELSE forced)
      /\ place' = (IF must THEN "password" ELSE "home")
      /\ Tracks(Stopped(j))
      /\ UNCHANGED <<factor, astray, handed>>
  BY <1>1, SignInFacts DEF PortalInv
<1>3. \A k \in Jobs : CallKept(k) \/ CallEnded(k)
  BY <1>2, EndedCalls DEF Heard
<1>4. /\ bearer' = [bearer EXCEPT ![minted'] = job[j].user] /\ valid' = valid \cup {minted'}
  BY <1>2 DEF SignIn
<1>5. InUse'
  <2>0. minted' \in 1 .. minted' /\ 1 .. minted \subseteq 1 .. minted'
    BY <1>2, PortalTypeFacts DEF PortalInv
  <2>1. session'.token <= minted' /\ forced' \subseteq 1 .. minted' /\ valid' \subseteq 1 .. minted'
    <3>1. session'.token <= minted'
      BY <1>2, PortalTypeFacts DEF PortalInv
    <3>2. forced \subseteq 1 .. minted /\ valid \subseteq 1 .. minted
      BY DEF PortalInv, Sound, InUse
    <3>3. forced' \subseteq forced \cup {minted'}
      BY <1>2
    <3> QED  BY <1>4, <2>0, <3>1, <3>2, <3>3
  <2>2. \A t \in 1 .. minted' : bearer'[t] \in People
    BY <1>1, <1>2, <1>4, PortalTypeFacts DEF PortalInv, Sound, InUse
  <2>3. ASSUME NEW k \in Jobs
        PROVE  /\ job'[k].token <= minted'
               /\ job'[k].phase = "answered" => job'[k].token # 0 /\ job'[k].kind \in {"load", "refetch"}
               /\ (job'[k].phase = "sent" /\ job'[k].kind \in {"login", "code"})
                    => job'[k].user \in People
    <3>1. job[k].token \in 0 .. MaxTokens
      BY PortalTypeFacts DEF PortalInv, JobType
    <3> QED  BY <1>2, <1>3, <3>1, PortalTypeFacts DEF PortalInv, Sound, InUse, CallKept, CallEnded
  <2> QED  BY <2>1, <2>2, <2>3 DEF InUse
<1>6. ASSUME ~astray, ~handed  PROVE FlagKept'
  <2>1. forced \subseteq 1 .. minted /\ minted' \notin forced /\ 0 \notin forced'
    BY <1>2, PortalTypeFacts DEF PortalInv, Sound, InUse
  <2>2. session'.token \in forced' => session'.must
    BY <1>2, <2>1
  <2>3. ASSUME NEW k \in Jobs, Ongoing(k)', job'[k].kind \in {"load", "verify", "refetch"}
        PROVE  job'[k].token \notin forced'
    <3>1. CallKept(k)
      BY <1>3, <2>3 DEF CallEnded, Ongoing
    <3>2. job[k].token \notin forced /\ job[k].token # minted'
      BY <1>2, <1>6, <2>3, <3>1, PortalTypeFacts
      DEF PortalInv, Sound, InUse, FlagKept, CallKept, Ongoing, JobType
    <3> QED  BY <1>2, <3>1, <3>2 DEF CallKept
  <2>4. place' \in Inner \ {"password"} => session'.token \notin forced'
    BY <1>2, <2>1
  <2> QED  BY <2>2, <2>3, <2>4 DEF FlagKept
<1>7. FactorKept'
  BY <1>2 DEF FactorKept
<1> QED  BY <1>2, <1>5, <1>6, <1>7 DEF Sound

\* A session that is cleared.
LEMMA ClearedSound ==
  ASSUME PortalInv, NEW j \in Jobs, PasswordChange(j) \/ SignedOutOf(j)
  PROVE  Sound'
<1>1. /\ session' = NoSession /\ place' = "login" /\ Tracks(Stopped(j))
      /\ UNCHANGED <<minted, bearer, forced, factor, astray, handed>> /\ valid' \subseteq valid
      /\ job[j].kind # "refetch"
  BY StoppedFacts, GotoFacts DEF PasswordChange, SignedOutOf, Clear, PortalInv, Heard
<1>2. \A k \in Jobs : CallKept(k) \/ CallEnded(k)
  BY <1>1, EndedCalls
<1>3. session'.token = 0 /\ 0 \notin forced
  <2>1. session'.token = 0
    BY <1>1, PortalTypeFacts DEF PortalInv
  <2>2. forced \subseteq 1 .. minted /\ minted \in Nat
    BY PortalTypeFacts DEF PortalInv, Sound, InUse
  <2> QED  BY <2>1, <2>2
<1>4. InUse'
  <2>1. minted \in Nat /\ minted' = minted /\ session'.token <= minted
    BY <1>1, <1>3, PortalTypeFacts DEF PortalInv
  <2>2. ASSUME NEW k \in Jobs
        PROVE  /\ job'[k].token <= minted
               /\ job'[k].phase = "answered"
                    => job'[k].token # 0 /\ job'[k].kind \in {"load", "refetch"}
               /\ (job'[k].phase = "sent" /\ job'[k].kind \in {"login", "code"})
                    => job'[k].user \in People
    BY <1>2, <2>1 DEF PortalInv, Sound, InUse, CallKept, CallEnded
  <2> QED  BY <1>1, <2>1, <2>2 DEF PortalInv, Sound, InUse
<1>5. ASSUME ~astray, ~handed  PROVE FlagKept'
  BY <1>1, <1>2, <1>3, <1>5
  DEF PortalInv, Sound, FlagKept, CallKept, CallEnded, Ongoing, Inner
<1>6. FactorKept'
  BY <1>3 DEF FactorKept
<1> QED  BY <1>1, <1>4, <1>5, <1>6 DEF Sound

\* The profile that follows a code is asked for with the stored token.
LEMMA VerifiedSound ==
  ASSUME PortalInv, NEW j \in Jobs, Verified(j)
  PROVE  Sound'
<1> DEFINE call == [job[j] EXCEPT !.kind = "refetch", !.token = session.token]
<1>1. /\ job[j] \in JobType /\ job[j].phase = "sent" /\ job[j].kind = "verify"
      /\ session.token \in 0 .. MaxTokens
      /\ UNCHANGED <<session, minted, bearer, forced, valid, place, astray>>
      /\ handed' = (handed \/ (session.token # job[j].token /\ session.token \in forced))
  BY PortalTypeFacts DEF Verified, Heard, PortalInv
<1>2. call.phase = "sent" /\ call.kind = "refetch" /\ call.token = session.token
  BY <1>1 DEF JobType
<1>3. job' = [job EXCEPT ![j] = call]
  BY DEF Verified
<1> HIDE DEF call
<1>4. /\ job'[j].phase = "sent" /\ job'[j].kind = "refetch" /\ job'[j].token = session.token
      /\ \A k \in Jobs \ {j} : job'[k] = job[k]
  BY <1>2, <1>3, PortalTypeFacts DEF PortalInv
<1>5. InUse'
  BY <1>1, <1>4 DEF PortalInv, Sound, InUse
<1>6. ASSUME ~astray, ~handed'  PROVE FlagKept'
  <2>1. FlagKept /\ job[j].token \notin forced
    BY <1>1, <1>6 DEF PortalInv, Sound, FlagKept, Ongoing
  <2>2. session.token \notin forced
    BY <1>1, <1>6, <2>1
  <2>3. QED
    BY <1>1, <1>4, <2>1, <2>2 DEF FlagKept, Ongoing
<1>7. FactorKept'
  BY <1>4 DEF FactorKept, Ongoing
<1> QED  BY <1>1, <1>5, <1>6, <1>7 DEF Sound

LEMMA ServedSound ==
  ASSUME PortalInv, NEW j \in Jobs, ServeProfile(j)
  PROVE  Sound'
<1> DEFINE answer == [job[j] EXCEPT !.phase = "answered", !.mfa = factor[bearer[job[j].token]]]
<1>1. job[j] \in JobType /\ job[j].phase = "sent" /\ job[j].kind \in {"load", "refetch"}
  BY PortalTypeFacts DEF ServeProfile, Heard, PortalInv
<1>2. answer.phase = "answered" /\ answer.kind = job[j].kind /\ answer.token = job[j].token
  BY <1>1 DEF JobType
<1> HIDE DEF answer
<1>3. job' = [job EXCEPT ![j] = answer]
  BY DEF ServeProfile, answer
<1>4. /\ job'[j].phase = "answered" /\ job'[j].kind = job[j].kind /\ job'[j].token = job[j].token
      /\ \A k \in Jobs \ {j} : job'[k] = job[k]
      /\ UNCHANGED <<session, minted, bearer, forced, valid, factor, place, astray, handed>>
  BY <1>2, <1>3, PortalTypeFacts DEF PortalInv, ServeProfile
<1>5. job[j].token # 0
  BY DEF ServeProfile, Taken, PortalInv, Sound, InUse
<1>6. InUse'
  BY <1>1, <1>4, <1>5 DEF PortalInv, Sound, InUse
<1>7. ASSUME ~astray, ~handed  PROVE FlagKept'
  BY <1>1, <1>4, <1>7 DEF PortalInv, Sound, FlagKept, Ongoing
<1>8. ASSUME ~astray  PROVE FactorKept'
  BY <1>1, <1>4, <1>8 DEF PortalInv, Sound, FactorKept, Ongoing
<1> QED  BY <1>4, <1>6, <1>7, <1>8 DEF Sound

LEMMA StoredSound ==
  ASSUME PortalInv, NEW j \in Jobs, StoreProfile(j)
  PROVE  Sound'
<1>1. /\ job[j] \in JobType /\ job[j].phase = "answered" /\ job[j].kind \in {"load", "refetch"}
      /\ session \in SessionType /\ job[j].token \in 1 .. minted
  BY PortalTypeFacts DEF StoreProfile, PortalInv, Sound, InUse, JobType
<1> DEFINE user == bearer[job[j].token]
<1>2. /\ session' = [session EXCEPT !.user = user, !.must = FALSE, !.mfa = job[j].mfa]
      /\ astray' = (astray \/ session.token # job[j].token \/ job[j].mfa # factor[user])
      /\ UNCHANGED <<minted, bearer, forced, valid, factor, handed>>
  BY DEF StoreProfile
<1>3. job' = Stopped(j) /\ place' = place
  BY StagedFacts DEF StoreProfile, PortalInv
<1>4. /\ job'[j].phase = "over" /\ job'[j].token = 0
      /\ \A k \in Jobs \ {j} : job'[k] = job[k]
  BY <1>3, StoppedFacts DEF PortalInv
<1> HIDE DEF user
<1>5. session'.token = session.token /\ session'.user = user /\ session'.mfa = job[j].mfa
  BY <1>1, <1>2 DEF SessionType
<1>6. InUse'
  BY <1>2, <1>4, <1>5, PortalTypeFacts DEF PortalInv, Sound, InUse
<1>7. ASSUME ~astray'  PROVE FactorKept'
  <2>1. session.token = job[j].token /\ job[j].mfa = factor[user]
    BY <1>2, <1>7
  <2> QED  BY <1>2, <1>5, <2>1 DEF FactorKept
<1>8. ASSUME ~astray', ~handed'  PROVE FlagKept'
  <2>1. ~astray /\ ~handed /\ session.token = job[j].token
    BY <1>2, <1>8
  <2>2. session.token \notin forced
    BY <1>1, <2>1 DEF PortalInv, Sound, FlagKept, Ongoing
  <2> QED
    BY <1>2, <1>3, <1>4, <1>5, <2>1, <2>2 DEF PortalInv, Sound, FlagKept, Ongoing
<1> QED  BY <1>6, <1>7, <1>8 DEF Sound

LEMMA FailedSound ==
  ASSUME PortalInv, NEW j \in Jobs, CallFails(j)
  PROVE  Sound'
<1>1. /\ UNCHANGED <<session, minted, bearer, forced, valid, place, handed>>
      /\ astray' = (astray \/ job[j].kind = "refetch" \/ factor' # factor)
      /\ job' = Stopped(j)
  BY DEF CallFails
<1>2. /\ job'[j].phase = "over" /\ job'[j].token = 0
      /\ \A k \in Jobs \ {j} : job'[k] = job[k]
  BY <1>1, StoppedFacts DEF PortalInv
<1>3. CASE astray'
  <2>1. InUse'
    BY <1>1, <1>2, PortalTypeFacts DEF PortalInv, Sound, InUse
  <2> QED  BY <1>3, <2>1 DEF Sound
<1>4. CASE ~astray'
  <2>1. ~astray /\ job[j].kind # "refetch" /\ factor' = factor
    BY <1>1, <1>4
  <2>2. UNCHANGED astray
    <3>1. astray = FALSE
      BY <2>1, PortalTypeFacts DEF PortalInv
    <3>2. astray' = FALSE
      BY <1>1, <1>4
    <3> QED  BY <3>1, <3>2
  <2>3. \A k \in Jobs : CallKept(k) \/ CallEnded(k)
    BY <1>2, <2>1 DEF CallKept, CallEnded
  <2> QED  BY <1>1, <2>1, <2>2, <2>3, CalmStep
<1> QED  BY <1>3, <1>4

LEMMA DeniedSound ==
  ASSUME PortalInv, NEW j \in Jobs, Denied(j)
  PROVE  Sound'
<1>1. /\ UNCHANGED <<minted, bearer, forced, valid, factor, handed>>
      /\ astray' = (astray \/ (session.token = 0 /\ job[j].kind = "refetch"))
      /\ job[j].phase = "sent"
  BY DEF Denied
<1>2. CASE session.token # 0
  <2>1. /\ session' = NoSession /\ place' = "login"
        /\ job' = [k \in Jobs |-> IF Ongoing(k) THEN Stopped(k)[k] ELSE job[k]]
    BY <1>2 DEF Denied
  <2>2. \A k \in Jobs : IF Ongoing(k) THEN job'[k].phase = "over" /\ job'[k].token = 0
                        ELSE job'[k] = job[k]
    BY <2>1, StoppedFacts DEF PortalInv
  <2>3. \A k \in Jobs : ~Ongoing(k)'
    BY <2>2 DEF Ongoing
  <2>4. session'.token = 0 /\ 0 \notin forced
    BY <2>1, PortalTypeFacts DEF PortalInv, Sound, InUse
  <2>5. InUse'
    BY <1>1, <2>2, <2>4, PortalTypeFacts DEF PortalInv, Sound, InUse
  <2>6. FlagKept'
    BY <1>1, <2>1, <2>3, <2>4 DEF FlagKept, Inner
  <2>7. FactorKept'
    BY <2>4 DEF FactorKept
  <2> QED  BY <2>5, <2>6, <2>7 DEF Sound
<1>3. CASE session.token = 0
  <2>1. job' = Stopped(j) /\ UNCHANGED <<session, place>>
    BY <1>3 DEF Denied
  <2>2. /\ job'[j].phase = "over" /\ job'[j].token = 0
        /\ \A k \in Jobs \ {j} : job'[k] = job[k]
    BY <2>1, StoppedFacts DEF PortalInv
  <2>3. session.token \notin forced
    BY <1>3 DEF PortalInv, Sound, InUse
  <2>4. InUse'
    BY <1>1, <2>1, <2>2, PortalTypeFacts DEF PortalInv, Sound, InUse
  <2>5. ASSUME ~astray', ~handed'  PROVE FlagKept'
    <3>1. ~astray /\ ~handed
      BY <1>1, <2>5
    <3> QED
      BY <1>1, <2>1, <2>2, <2>3, <3>1 DEF PortalInv, Sound, FlagKept, Ongoing
  <2>6. FactorKept'
    BY <1>3, <2>1 DEF FactorKept
  <2> QED  BY <2>4, <2>5, <2>6 DEF Sound
<1> QED  BY <1>2, <1>3

LEMMA TurnedSound ==
  ASSUME PortalInv, NEW j \in Jobs,
         ResetAnswer(j) \/ SetupAnswer(j)
           \/ (/\ Heard(j, "login") /\ Staged(j, "code")
               /\ UNCHANGED <<session, minted, bearer, forced, valid, timely, factor, astray, handed>>)
  PROVE  Sound'
<1>1. Tracks(Stopped(j)) /\ job[j].kind # "refetch" /\ place' \in {place, "login"}
  BY StoppedFacts, StagedFacts, GotoFacts
  DEF PortalInv, ResetAnswer, SetupAnswer, Heard, Tracks
<1>2. \A k \in Jobs : CallKept(k) \/ CallEnded(k)
  BY <1>1, EndedCalls
<1> QED  BY <1>1, <1>2, CalmStep DEF ResetAnswer, SetupAnswer, Inner

(***************************************************************************)
(* The theorems.                                                            *)
(***************************************************************************)
LEMMA PortalInvInit == PortalInit => PortalInv
<1> SUFFICES ASSUME PortalInit  PROVE PortalInv
  OBVIOUS
<1>1. PortalTypeOK
  BY PortalTypeInit
<1>2. PICK first \in People \cup {Nobody} :
        bearer = [t \in Tokens |-> IF t = 1 THEN first ELSE Nobody]
  BY DEF PortalInit
<1>3. /\ 1 \in Tokens /\ bearer[1] = first /\ minted = IF first = Nobody THEN 0 ELSE 1
      /\ valid = 1 .. minted /\ forced \subseteq 1 .. minted
      /\ \A k \in Jobs : job[k].phase = "unused" /\ job[k].token = 0
  BY <1>1, <1>2, PortalTypeFacts DEF PortalInit, Idle
<1>4. /\ session.token = minted
      /\ minted = 0 => session.must = FALSE
      /\ minted # 0 => /\ session.user = bearer[1] /\ session.mfa = factor[bearer[1]]
                       /\ 1 \in forced => session.must = TRUE
  BY <1>3, PortalTypeFacts DEF PortalInit, NoSession
<1>5. InUse
  BY <1>1, <1>3, <1>4, PortalTypeFacts DEF InUse
<1>6. place \in Inner \ {"password"} => session.must = FALSE
  BY <1>1, GuardedFacts, PortalTypeFacts DEF PortalInit, PortalPlaces, Inner
<1>7. ASSUME session.token \in forced  PROVE session.must
  <2>1. minted # 0 /\ 1 \in forced
    BY <1>3, <1>4, <1>7
  <2>2. session.must = TRUE
    BY <1>4, <2>1
  <2> QED  BY <2>2
<1>8. FlagKept
  BY <1>3, <1>6, <1>7 DEF FlagKept, Ongoing
<1>9. FactorKept
  BY <1>3, <1>4 DEF FactorKept
<1> QED  BY <1>1, <1>5, <1>8, <1>9 DEF PortalInv, Sound

LEMMA PortalInvNext ==
  ASSUME PortalInv, [PortalNext]_portalVars
  PROVE  PortalInv'
<1>1. PortalTypeOK'
  BY PortalTypeNext DEF PortalInv, Sound
<1>2. CASE UNCHANGED portalVars
  BY <1>2, CalmStep, <1>1 DEF portalVars, CallKept, PortalInv
<1>3. CASE PortalNext
  <2>1. ASSUME NEW j \in Jobs, LoginAnswer(j)  PROVE Sound'
    BY <2>1, SignInSound, TurnedSound DEF LoginAnswer
  <2>2. Sound'
    BY <1>3, <2>1, UserSound, ClearedSound, TurnedSound, VerifiedSound, ServedSound, StoredSound,
       FailedSound, DeniedSound
    DEF PortalNext, JobStep, PortalPlaces
  <2> QED  BY <1>1, <2>2 DEF PortalInv
<1> QED  BY <1>2, <1>3

LEMMA PortalInvariance == PortalSpec => []PortalInv
BY PortalInvInit, PortalInvNext, PTL DEF PortalSpec

\* The state of the portal has its types.
THEOREM PortalTypes == PortalSpec => []PortalTypeOK
<1>1. PortalInv => PortalTypeOK
  BY DEF PortalInv
<1> QED  BY <1>1, PortalInvariance, PTL

\* Nobody who has to change the password sees another inner page before it is changed, however
\* answers, sign-ins, sign-outs and links meet, while no profile answer goes astray and the
\* profile after a code is not asked for by a later, forced session (PortalProtectedRoute.tsx
\* and every writer of the session store).
THEOREM ForcedChangeKept == PortalSpec => []ForcedChangeHolds
<1>1. PortalInv => ForcedChangeHolds
  BY DEF PortalInv, Sound, FlagKept, ForcedChangeHolds
<1> QED  BY <1>1, PortalInvariance, PTL

\* The second factor the portal shows is the server's whenever nothing is under way, while no
\* profile answer goes astray (PortalMfa.tsx, PortalProfile.tsx, PortalLogin.tsx).
THEOREM FactorShownKept == PortalSpec => []FactorShown
<1>1. PortalInv => FactorShown
  BY DEF PortalInv, Sound, FactorKept, FactorShown, Ongoing
<1> QED  BY <1>1, PortalInvariance, PTL

(***************************************************************************)
(* The browser.                                                             *)
(***************************************************************************)
\* All that the proofs of the pages rest on.
PagesInv ==
  /\ EntryKinds /\ CallsKnown /\ Current /\ Places /\ DialogsKnown
  /\ AllBehind /\ Counted /\ KeyKnown /\ LocalKnown

LEMMA PagesInvInit == Init => PagesInv
BY KindsInit, KnownInit, CurrentInit, PlacesInit, DialogsInit, BehindInit, CountedInit, KeyInit,
   LocalInit
DEF PagesInv

LEMMA PagesInvNext == PagesInv /\ [Next]_vars => PagesInv'
BY KindsStep, KnownStep, CurrentStep, PlacesStep, DialogsStep, BehindStep, CountedStep, KeyStep,
   LocalStep
DEF PagesInv

LEMMA NowhereShows == PageOf("elsewhere").shows = {}
BY PageNames, PageFields DEF PageOf, Elsewhere

\* Pages nobody uses satisfy it although no slice starts them.
LEMMA PagesInvIdle == PagesIdle => PagesInv
<1> SUFFICES ASSUME PagesIdle  PROVE PagesInv
  OBVIOUS
<1>1. /\ key.name = "sync.status" /\ key.row = NoRow /\ key.uses = {}
      /\ route.page = "elsewhere" /\ route.row = NoRow /\ entry = Empty /\ dialog = Closed
      /\ written = 0 /\ others = 0 /\ gone = FALSE /\ mount = 0 /\ navs = 0
      /\ requests = [r \in RequestIds |-> Unused] /\ due = 0 /\ missed = FALSE
      /\ local = {} /\ orphaned = FALSE
  BY DEF PagesIdle
<1>2. ASSUME NEW r \in RequestIds
      PROVE  /\ requests[r].phase = "unused" /\ requests[r].mount = 0 /\ requests[r].vers = 0
             /\ IsRequest(requests[r]) /\ ~InFlight(r)
  BY <1>1, UnusedFields DEF InFlight
<1>3. EntryKinds
  BY <1>1, <1>2, EmptyFields DEF EntryKinds, KeyKinds, CallsTyped
<1>4. CallsKnown
  BY <1>2 DEF CallsKnown, Known
<1>5. ~Mounted
  BY <1>1, NowhereShows DEF Mounted, ShowsKey
<1>6. Current
  BY <1>1, <1>5, EmptyFields DEF Current, CurrentAt, FetchCurrent, EntryCurrent, ShownCurrent
<1>7. Places
  BY <1>1, ClosedFields DEF Places, OnPage, PageNamed, AnyRow
<1>8. DialogsKnown
  BY <1>1, <1>2
  DEF DialogsKnown, MountsKnown, OwnControls, HeldAreSent, SentAreNamed, HeldOnce, LocalMounted,
      OfMount
<1>9. AllBehind
  BY <1>1, <1>2, EmptyFields DEF AllBehind, Behind, NoData
<1>10. Counted
  <2>1. AcceptedRequests \in SUBSET RequestIds /\ EndedRequests \in SUBSET RequestIds
    BY DEF AcceptedRequests, EndedRequests
  <2>2. Cardinality(AcceptedRequests) \in Nat /\ Cardinality(EndedRequests) \in Nat
    BY <2>1, IdsFinite
  <2> QED  BY <1>1, <2>2, ConsoleAssumption DEF Counted
<1>11. KeyKnown
  BY <1>1 DEF KeyKnown, AnyRow, KeyNames, SyncKeys
<1>12. LocalKnown
  BY <1>1 DEF LocalKnown
<1> QED  BY <1>3, <1>4, <1>6, <1>7, <1>8, <1>9, <1>10, <1>11, <1>12 DEF PagesInv

\* A step of the browser is a step of each component or leaves it alone.
LEMMA StepsApart ==
  [BrowserNext]_browserVars => [Next]_vars /\ [SessionNext]_sessionVars /\ [PortalNext]_portalVars
<1>1. ASSUME UNCHANGED browserVars
      PROVE  UNCHANGED vars /\ UNCHANGED sessionVars /\ UNCHANGED portalVars
  BY <1>1 DEF browserVars
<1> QED  BY <1>1 DEF BrowserNext

LEMMA StartsApart == BrowserInit => PagesInv /\ SessionInit /\ PortalInit
BY PagesInvInit, PagesInvIdle DEF BrowserInit, SessionStart, SessionIdle, PortalStart, PortalIdle

\* The composition adds no behaviour to the session of the console: neither a step of the
\* pages nor one of the portal writes the store of lib/auth.ts or a token.
THEOREM BrowserImplementsSession == BrowserSpec => SessionSpec
BY StepsApart, StartsApart, PTL DEF BrowserSpec, SessionSpec

\* Nor does it add any to the portal, whose store is its own (portalAuthStore.ts).
THEOREM BrowserImplementsPortal == BrowserSpec => PortalSpec
BY StepsApart, StartsApart, PTL DEF BrowserSpec, PortalSpec

\* So what holds of a component alone holds of it in the browser.
LEMMA PagesInBrowser == BrowserSpec => []PagesInv
BY StepsApart, StartsApart, PagesInvNext, PTL DEF BrowserSpec

\* The variables of the pages, of the session and of the portal keep their types, whichever
\* of the three the browser runs (App.tsx has the routes of both).
THEOREM BrowserTypes == BrowserSpec => []BrowserTypeOK
<1>1. PagesInv => TypeOK
  BY TypesFollow DEF PagesInv
<1>2. TypeOK /\ SessionTypeOK /\ PortalTypeOK => BrowserTypeOK
  BY DEF BrowserTypeOK
<1> QED
  BY <1>1, <1>2, PagesInBrowser, BrowserImplementsSession, BrowserImplementsPortal, SessionTypes,
     PortalTypes, PTL

\* The safety properties of the components, all at once.
THEOREM BrowserKeepsComponents ==
  BrowserSpec => [](OwnWritesShown /\ RefreshTokenSpentOnce /\ SessionOfItsUser
                      /\ ForcedChangeHolds /\ FactorShown)
<1>1. PagesInv => OwnWritesShown
  BY DEF PagesInv, Current, CurrentAt, ShownCurrent, OwnWritesShown
<1> QED
  BY <1>1, PagesInBrowser, BrowserImplementsSession, BrowserImplementsPortal, TokenSpentOnce,
     SessionKeepsItsUser, ForcedChangeKept, FactorShownKept, PTL

\* A held dialog of the console waits for its own answer in the browser, too, as long as no page
\* has unmounted one that was pending.
THEOREM BrowserHoldsDialogs == BrowserSpec => HeldDialogsCloseOnTheirAnswer
<1>1. PagesInv /\ [Next]_vars => [\A r \in RequestIds : ClosesOnItsAnswer(r)]_vars
  BY HeldStep DEF PagesInv
<1>2. BrowserSpec => [][\A r \in RequestIds : ClosesOnItsAnswer(r)]_vars
  BY <1>1, StepsApart, PagesInBrowser, PTL DEF BrowserSpec
<1> QED
  BY <1>2 DEF HeldDialogsCloseOnTheirAnswer, ClosesOnItsAnswer
=============================================================================
