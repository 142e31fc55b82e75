---------------------------- MODULE ConsoleSession ----------------------------
(***************************************************************************)
(* The session of an administrator in one tab of the console: the token     *)
(* store and its copy in localStorage, the interceptors of lib/api.ts that  *)
(* refresh an expired access token once for all waiting requests, the       *)
(* sign-in pages, and the ways a session ends.                              *)
(*                                                                         *)
(* A pair stands for an access token and the refresh token issued with it.  *)
(* The server is as much of it as the tab can notice: which access tokens   *)
(* and which refresh tokens it still takes, and whose they are.             *)
(***************************************************************************)
EXTENDS Naturals

CONSTANTS Admins, NoAdmin,
          MaxCalls,     \* the requests a behaviour makes
          MaxAttempts,  \* the calls of the sign-in pages
          MaxPairs,     \* the pairs the server issues
          MaxFaults     \* revoked tokens, lost requests and reloads

ASSUME SessionAssumption ==
  /\ NoAdmin \notin Admins
  /\ MaxCalls \in Nat /\ MaxAttempts \in Nat /\ MaxPairs \in Nat \ {0} /\ MaxFaults \in Nat

VARIABLES
  store,      \* the Zustand store: the pair, 0 for none, and the user
  disk,       \* what localStorage holds of it
  issued,     \* pairs issued so far
  owner,      \* the administrator a pair was issued to
  live,       \* pairs whose refresh token the server takes
  fresh,      \* pairs whose access token it takes
  request,    \* the requests of the pages
  renewal,    \* isRefreshing, and the refresh call under way
  view,       \* where the router is
  login,      \* the stage of the sign-in page and the administrator it is for
  attempt,    \* the calls of the sign-in pages
  logout,     \* the logout call under way
  faults,     \* what went wrong so far
  me,         \* the query cache's answer to GET /me
  presented,  \* how often this load of the page presented a refresh token
  crossed     \* a late answer was put into a session it does not belong to

sessionVars == <<store, disk, issued, owner, live, fresh, request, renewal, view, login, attempt,
                 logout, faults, me, presented, crossed>>

ApiCalls  == 1 .. MaxCalls
Attempts  == 1 .. MaxAttempts
Pairs     == 1 .. MaxPairs
SignedOut == [pair |-> 0, user |-> NoAdmin]
NoRefresh == [phase |-> "none", pair |-> 0, new |-> 0]
NoLogout  == [phase |-> "none", pair |-> 0, clears |-> FALSE]
FirstStage == [stage |-> "credentials", user |-> NoAdmin]

Shell == {"console", "profile"}

\* Calls are numbered as they are made.
NextUnused(calls, n) == calls[n].phase = "unused" /\ (n > 1 => calls[n - 1].phase # "unused")

Fault == faults < MaxFaults /\ faults' = faults + 1

(***************************************************************************)
(* The store and the router.                                                *)
(***************************************************************************)
\* /login leads on when there is a token, and every page of the shell leads to /login when
\* there is none; the change page is open to both.
Routed(to, pair) ==
  IF to \in {"change", "left"} THEN to
  ELSE IF pair = 0 THEN "login" ELSE IF to = "login" THEN "console" ELSE to

\* A page that is left keeps its calls but no longer listens to them.
Left(calls, to) == [a \in Attempts |-> [calls[a] EXCEPT !.here = @ /\ to = view]]

Show(to, calls) ==
  /\ view' = to
  /\ attempt' = Left(calls, to)

\* A set of the store, which is written to localStorage at once.
Put(session, to, calls) ==
  /\ store' = session /\ disk' = session
  /\ Show(Routed(to, session.pair), calls)
  /\ login' = IF view' = view THEN login ELSE FirstStage

\* Mutant: the tokens are cleared and the user is kept.
ClearTokens(calls) == Put([SignedOut EXCEPT !.user = store.user], view, calls)

ClearSession(calls) == Put(SignedOut, view, calls)

(***************************************************************************)
(* The calls of the sign-in pages.                                          *)
(***************************************************************************)
NewAttempt == [phase |-> "unused", kind |-> "credentials", user |-> NoAdmin, retried |-> FALSE,
               here |-> FALSE]
Kinds == {"credentials", "challenge", "setup", "change"}

Ended(a) == [attempt EXCEPT ![a] = [NewAttempt EXCEPT !.phase = "over"]]
Sent(a, kinds) == attempt[a].phase = "sent" /\ attempt[a].kind \in kinds
Waiting(a, phase) == [attempt[a] EXCEPT !.phase = phase, !.retried = TRUE]

(***************************************************************************)
(* A request of a page, and the two interceptors.                           *)
(***************************************************************************)
NewRequest == [phase |-> "unused", pair |-> 0, retried |-> FALSE, about |-> "page"]
OpenRequest(r) == request[r].phase \in {"sent", "queued", "refreshing"}

Settled(phase) == [NewRequest EXCEPT !.phase = phase]
End(r)         == request' = [request EXCEPT ![r] = Settled("over")]

\* The request interceptor adds the access token of the store.
Send(r) ==
  /\ NextUnused(request, r) /\ view \in Shell
  /\ request' = [request EXCEPT ![r] =
       [NewRequest EXCEPT !.phase = "sent", !.pair = store.pair,
                          !.about = IF view = "profile" THEN "me" ELSE "page"]]
  /\ UNCHANGED <<store, disk, issued, owner, live, fresh, renewal, view, login, attempt,
                 logout, faults, me, presented, crossed>>

\* Any other error, and an answer that is lost or late (30 s).
RequestFails(r) ==
  /\ request[r].phase = "sent"
  /\ End(r)
  /\ UNCHANGED <<store, disk, issued, owner, live, fresh, renewal, view, login, attempt,
                 logout, faults, me, presented, crossed>>

\* The profile page puts an answer of another sign-in than the stored user's into the store.
Profile(user) ==
  /\ me' = user
  /\ IF view = "profile" /\ user # store.user
     THEN /\ store' = [store EXCEPT !.user = user] /\ disk' = store'
          /\ crossed' = TRUE
     ELSE UNCHANGED <<store, disk, crossed>>

\* The server takes the token of the request; one it took before the token ran out does the same.
Accepted(r) ==
  /\ request[r].phase = "sent" /\ request[r].pair \in fresh
  /\ End(r)
  /\ IF request[r].about = "me" THEN Profile(owner[request[r].pair])
     ELSE UNCHANGED <<store, disk, me, crossed>>
  /\ UNCHANGED <<issued, owner, live, fresh, renewal, view, login, attempt, logout, faults,
                 presented>>

\* The answer is 401, for the first or for the second time.
Unauthorized(r)      == request[r].phase = "sent" /\ request[r].pair \notin fresh
FirstUnauthorized(r) == Unauthorized(r) /\ ~request[r].retried

Rejected(r) ==
  /\ Unauthorized(r) /\ request[r].retried
  /\ End(r)
  /\ UNCHANGED <<store, disk, issued, owner, live, fresh, renewal, view, login, attempt,
                 logout, faults, me, presented, crossed>>

NothingToRefresh(r) ==
  /\ FirstUnauthorized(r) /\ store.pair = 0
  /\ End(r)
  /\ ClearSession(attempt)
  /\ UNCHANGED <<issued, owner, live, fresh, renewal, logout, faults, me, presented,
                 crossed>>

Retried(r, phase) == [request[r] EXCEPT !.phase = phase, !.retried = TRUE]

Enqueue(r) ==
  /\ FirstUnauthorized(r) /\ store.pair # 0 /\ renewal.phase # "none"
  /\ request' = [request EXCEPT ![r] = Retried(r, "queued")]
  /\ UNCHANGED <<store, disk, issued, owner, live, fresh, renewal, view, login, attempt,
                 logout, faults, me, presented, crossed>>

\* The refresh call is sent with the refresh token of a pair.
Present(pair) ==
  /\ renewal' = [phase |-> "sent", pair |-> pair, new |-> 0]
  /\ presented' = [presented EXCEPT ![pair] = presented[pair] + 1]

\* Mutant: isRefreshing is not looked at.
RefreshAtOnce(r) ==
  /\ FirstUnauthorized(r) /\ store.pair # 0
  /\ request' = [request EXCEPT ![r] = Retried(r, "refreshing")]
  /\ Present(store.pair)
  /\ UNCHANGED <<store, disk, issued, owner, live, fresh, view, login, attempt, logout,
                 faults, me, crossed>>

StartRefresh(r) ==
  /\ FirstUnauthorized(r) /\ store.pair # 0 /\ renewal.phase = "none"
  /\ request' = [request EXCEPT ![r] = Retried(r, "refreshing")]
  /\ Present(store.pair)
  /\ UNCHANGED <<store, disk, issued, owner, live, fresh, view, login, attempt, logout,
                 faults, me, crossed>>

(***************************************************************************)
(* The refresh call.                                                        *)
(***************************************************************************)
\* The server issues a pair to an administrator.
Issue(user) ==
  /\ issued < MaxPairs
  /\ issued' = issued + 1
  /\ owner' = [owner EXCEPT ![issued + 1] = user]
  /\ fresh' = fresh \cup {issued + 1}

\* The server takes a refresh token once and issues a pair for it.
Rotate ==
  /\ renewal.phase = "sent" /\ renewal.pair \in live
  /\ Issue(owner[renewal.pair])
  /\ live' = (live \ {renewal.pair}) \cup {issued + 1}
  /\ renewal' = [renewal EXCEPT !.phase = "rotated", !.new = issued + 1]
  /\ UNCHANGED <<store, disk, request, view, login, attempt, logout, faults, me, presented,
                 crossed>>

\* The waiting requests are sent with the new token, those of the queue and the first one.
Resent(r, pair) ==
  IF request[r].phase \in {"queued", "refreshing"}
  THEN [request[r] EXCEPT !.phase = "sent", !.pair = pair] ELSE request[r]

\* The calls of the sign-in pages among them carry tokens of their own.
TriedAgain ==
  [a \in Attempts |-> IF attempt[a].phase \in {"queued", "refreshing"}
                      THEN [attempt[a] EXCEPT !.phase = "sent"] ELSE attempt[a]]

\* Mutant: the first request is sent again and the queue is only emptied.
RefreshDoneQueueDropped ==
  /\ renewal.phase = "rotated"
  /\ Put([pair |-> renewal.new, user |-> store.user], view, TriedAgain)
  /\ request' = [r \in ApiCalls |->
                   IF request[r].phase = "queued" THEN request[r] ELSE Resent(r, renewal.new)]
  /\ renewal' = NoRefresh
  /\ crossed' = (crossed \/ store.pair # renewal.pair)
  /\ UNCHANGED <<issued, owner, live, fresh, logout, faults, me, presented>>

\* updateTokens does not ask whether the session is still the one that was refreshed.
RefreshDone ==
  /\ renewal.phase = "rotated"
  /\ Put([pair |-> renewal.new, user |-> store.user], view, TriedAgain)
  /\ request' = [r \in ApiCalls |-> Resent(r, renewal.new)]
  /\ renewal' = NoRefresh
  /\ crossed' = (crossed \/ store.pair # renewal.pair)
  /\ UNCHANGED <<issued, owner, live, fresh, logout, faults, me, presented>>

\* The queue is emptied without a word to the requests in it.
Abandoned(r) ==
  IF request[r].phase = "refreshing" THEN Settled("over")
  ELSE IF request[r].phase = "queued" THEN Settled("stranded")
  ELSE request[r]

GivenUp ==
  [a \in Attempts |->
     IF attempt[a].phase = "refreshing" THEN [NewAttempt EXCEPT !.phase = "over"]
     ELSE IF attempt[a].phase = "queued" THEN [attempt[a] EXCEPT !.phase = "stranded"]
     ELSE attempt[a]]

\* Refused, or the answer is lost, also after the server has rotated the token.
RefreshFailed ==
  /\ renewal.phase # "none"
  /\ ClearSession(GivenUp)
  /\ request' = [r \in ApiCalls |-> Abandoned(r)]
  /\ renewal' = NoRefresh
  /\ UNCHANGED <<issued, owner, live, fresh, logout, faults, me, presented, crossed>>

(***************************************************************************)
(* The server's side of time: tokens run out or are revoked.                *)
(***************************************************************************)
Expire(n) ==
  /\ n \in fresh
  /\ fresh' = fresh \ {n}
  /\ UNCHANGED <<store, disk, issued, owner, live, request, renewal, view, login, attempt,
                 logout, faults, me, presented, crossed>>

Revoke(n) ==
  /\ n \in live /\ Fault
  /\ live' = live \ {n}
  /\ UNCHANGED <<store, disk, issued, owner, fresh, request, renewal, view, login, attempt,
                 logout, me, presented, crossed>>

(***************************************************************************)
(* Signing in.                                                              *)
(***************************************************************************)
Busy == \E a \in Attempts : attempt[a].here /\ attempt[a].phase \notin {"unused", "over"}

\* The form that is shown, its button disabled while its call is pending.
FormShown(kind, user) ==
  \/ view = "login" /\ kind = "credentials" /\ login = FirstStage
  \/ view = "login" /\ kind # "credentials" /\ login = [stage |-> kind, user |-> user]
  \/ view = "change" /\ kind = "change" /\ user = login.user

Try(a, kind, user) ==
  /\ NextUnused(attempt, a) /\ FormShown(kind, user) /\ ~Busy
  /\ attempt' = [attempt EXCEPT ![a] =
       [NewAttempt EXCEPT !.phase = "sent", !.kind = kind, !.user = user, !.here = TRUE]]
  /\ UNCHANGED <<store, disk, issued, owner, live, fresh, request, renewal, view, login,
                 logout, faults, me, presented, crossed>>

(***************************************************************************)
(* The answers.  handleLoginResponse: the stages are the page's own, the    *)
(* session and the address are not, so that an answer to a page that was    *)
(* left signs in all the same.                                              *)
(***************************************************************************)
NextStage(a) ==
  /\ Sent(a, {"credentials"})
  /\ \E stage \in {"challenge", "setup"} :
       login' = IF attempt[a].here THEN [stage |-> stage, user |-> attempt[a].user] ELSE login
  /\ attempt' = Ended(a)
  /\ UNCHANGED <<store, disk, issued, owner, live, fresh, view>>

MustChange(a) ==
  /\ Sent(a, {"credentials", "challenge"})
  /\ Show("change", Ended(a))
  /\ login' = [stage |-> "change", user |-> attempt[a].user]
  /\ UNCHANGED <<store, disk, issued, owner, live, fresh>>

SignedIn(a) ==
  /\ Sent(a, {"credentials", "challenge"})
  /\ Issue(attempt[a].user)
  /\ live' = live \cup {issued + 1}
  /\ Put([pair |-> issued + 1, user |-> attempt[a].user], "console", Ended(a))

\* The session in the answer to the set-up is not taken.
SetupDone(a) ==
  /\ Sent(a, {"setup"})
  /\ login' = IF attempt[a].here THEN FirstStage ELSE login
  /\ attempt' = Ended(a)
  /\ UNCHANGED <<store, disk, issued, owner, live, fresh, view>>

\* The keys are taken out of localStorage; the store keeps its session until the redirect.
PasswordChanged(a) ==
  /\ Sent(a, {"change"})
  /\ disk' = SignedOut
  /\ Show("left", Ended(a))
  /\ UNCHANGED <<store, issued, owner, live, fresh, login>>

\* Another error, wrong credentials, or a 401 for the second time.
Refused(a) ==
  /\ Sent(a, Kinds)
  /\ attempt' = Ended(a)
  /\ UNCHANGED <<store, disk, issued, owner, live, fresh, view, login>>

Hear(a) ==
  /\ \/ NextStage(a) \/ MustChange(a) \/ SignedIn(a) \/ SetupDone(a) \/ PasswordChanged(a)
     \/ Refused(a)
  /\ UNCHANGED <<request, renewal, logout, faults, me, presented, crossed>>

\* Only /auth/login is left out of the interceptor: every other sign-in call that is answered
\* 401 ends the session that is stored by then, or waits for a refresh of it.
SignInUnauthorized(a) ==
  /\ Sent(a, Kinds \ {"credentials"}) /\ ~attempt[a].retried
  /\ \/ /\ store.pair = 0
        /\ ClearSession(Ended(a))
        /\ UNCHANGED <<renewal, presented>>
     \/ /\ store.pair # 0 /\ renewal.phase # "none"
        /\ attempt' = [attempt EXCEPT ![a] = Waiting(a, "queued")]
        /\ UNCHANGED <<store, disk, view, login, renewal, presented>>
     \/ /\ store.pair # 0 /\ renewal.phase = "none"
        /\ attempt' = [attempt EXCEPT ![a] = Waiting(a, "refreshing")]
        /\ Present(store.pair)
        /\ UNCHANGED <<store, disk, view, login>>
  /\ UNCHANGED <<issued, owner, live, fresh, request, logout, faults, me, crossed>>

\* Back to the credentials, with a code under way or not.
BackToCredentials ==
  /\ view = "login" /\ login.stage = "challenge"
  /\ login' = FirstStage
  /\ UNCHANGED <<store, disk, issued, owner, live, fresh, request, renewal, view, attempt,
                 logout, faults, me, presented, crossed>>

\* The change page is left by its link or by Back.
LeaveChange ==
  /\ view = "change"
  /\ Show(Routed("login", store.pair), attempt)
  /\ login' = FirstStage
  /\ UNCHANGED <<store, disk, issued, owner, live, fresh, request, renewal, logout, faults,
                 me, presented, crossed>>

(***************************************************************************)
(* The profile page, signing out, and loading the page anew.                *)
(***************************************************************************)
\* The page starts from the cached answer, whoever it was for, or from the stored user.
OpenProfile ==
  /\ view = "console"
  /\ Show("profile", attempt)
  /\ me' = IF me = NoAdmin THEN store.user ELSE me
  /\ IF me' # store.user
     THEN /\ store' = [store EXCEPT !.user = me'] /\ disk' = store'
          /\ crossed' = TRUE
     ELSE UNCHANGED <<store, disk, crossed>>
  /\ UNCHANGED <<issued, owner, live, fresh, request, renewal, login, logout, faults,
                 presented>>

CloseProfile ==
  /\ view = "profile"
  /\ Show("console", attempt)
  /\ UNCHANGED <<store, disk, issued, owner, live, fresh, request, renewal, login, logout,
                 faults, me, presented, crossed>>

\* The menu's sign-out waits for the answer and then clears the store.
Logout ==
  /\ view \in Shell /\ logout = NoLogout
  /\ logout' = [phase |-> "sent", pair |-> store.pair, clears |-> TRUE]
  /\ UNCHANGED <<store, disk, issued, owner, live, fresh, request, renewal, view, login,
                 attempt, faults, me, presented, crossed>>

\* The idle timer clears first and tells the server afterwards.
IdleLogout ==
  /\ view \in Shell /\ store.pair # 0 /\ logout = NoLogout
  /\ logout' = [phase |-> "sent", pair |-> store.pair, clears |-> FALSE]
  /\ ClearSession(attempt)
  /\ UNCHANGED <<issued, owner, live, fresh, request, renewal, faults, me, presented,
                 crossed>>

\* Answered, with the token revoked, or failed, which the handler swallows.
LogoutOver ==
  /\ logout.phase # "none"
  /\ live' \in {live, live \ {logout.pair}}
  /\ logout' = NoLogout
  /\ IF logout.clears THEN Put(SignedOut, "login", attempt)
     ELSE UNCHANGED <<store, disk, view, login, attempt>>
  /\ UNCHANGED <<issued, owner, fresh, request, renewal, faults, me, presented, crossed>>

\* Every call of the tab is dropped and the store is what localStorage holds; the page of a
\* changed password ends with a load of /login.
Reload ==
  /\ \/ Fault
     \/ view = "left" /\ UNCHANGED faults
  /\ store' = disk
  /\ view' = IF disk.pair = 0 THEN "login" ELSE "console"
  /\ login' = FirstStage
  /\ request' = [r \in ApiCalls |->
                   IF request[r].phase = "unused" THEN request[r]
                   ELSE Settled("over")]
  /\ attempt' = [a \in Attempts |->
                   IF attempt[a].phase = "unused" THEN attempt[a]
                   ELSE [NewAttempt EXCEPT !.phase = "over"]]
  /\ renewal' = NoRefresh /\ logout' = NoLogout /\ me' = NoAdmin
  /\ presented' = [n \in Pairs |-> 0]
  /\ UNCHANGED <<disk, issued, owner, live, fresh, crossed>>

(***************************************************************************)
(* The specification.  The tab is loaded with or without a session.         *)
(***************************************************************************)
SessionInit ==
  /\ \E first \in Admins \cup {NoAdmin} :
       owner = [n \in Pairs |-> IF n = 1 THEN first ELSE NoAdmin]
  /\ issued = IF owner[1] = NoAdmin THEN 0 ELSE 1
  /\ store = [pair |-> issued, user |-> owner[1]] /\ disk = store
  /\ live = 1 .. issued /\ fresh = live
  /\ request = [r \in ApiCalls |-> NewRequest]
  /\ renewal = NoRefresh
  /\ view = IF issued = 0 THEN "login" ELSE "console"
  /\ login = FirstStage /\ attempt = [a \in Attempts |-> NewAttempt]
  /\ logout = NoLogout /\ faults = 0 /\ me = NoAdmin
  /\ presented = [n \in Pairs |-> 0] /\ crossed = FALSE

RequestStep(r) ==
  \/ RequestFails(r) \/ Accepted(r) \/ Rejected(r) \/ NothingToRefresh(r) \/ Enqueue(r)
  \/ StartRefresh(r)

RefreshStep == Rotate \/ RefreshDone \/ RefreshFailed

Leave == Logout \/ IdleLogout \/ LogoutOver \/ Reload

SignInStep ==
  \/ \E a \in Attempts : \/ \E kind \in Kinds, user \in Admins : Try(a, kind, user)
                         \/ Hear(a) \/ SignInUnauthorized(a)
  \/ BackToCredentials \/ LeaveChange

SessionNext ==
  \/ \E r \in ApiCalls : Send(r) \/ RequestStep(r)
  \/ RefreshStep
  \/ \E n \in Pairs : Expire(n) \/ Revoke(n)
  \/ SignInStep \/ Leave \/ OpenProfile \/ CloseProfile

SessionSpec == SessionInit /\ [][SessionNext]_sessionVars

\* The browser and the server go on with requests, which are finitely many and sent at most
\* twice, and with the refresh call, which has no timeout of its own.
SessionFairness ==
  /\ WF_sessionVars(\E r \in ApiCalls : RequestStep(r))
  /\ WF_sessionVars(RefreshStep)

(***************************************************************************)
(* Properties.                                                              *)
(***************************************************************************)
Sessions == [pair : 0 .. MaxPairs, user : Admins \cup {NoAdmin}]

\* The types of the variables.
SessionTypeOK ==
  /\ store \in Sessions /\ disk \in Sessions
  /\ issued \in 0 .. MaxPairs
  /\ owner \in [Pairs -> Admins \cup {NoAdmin}]
  /\ live \in SUBSET Pairs /\ fresh \in SUBSET Pairs
  /\ request \in [ApiCalls ->
       [phase : {"unused", "sent", "queued", "refreshing", "over", "stranded"},
        pair : 0 .. MaxPairs, retried : BOOLEAN, about : {"page", "me"}]]
  /\ renewal \in [phase : {"none", "sent", "rotated"}, pair : 0 .. MaxPairs, new : 0 .. MaxPairs]
  /\ view \in {"login", "console", "profile", "change", "left"}
  /\ login \in [stage : Kinds, user : Admins \cup {NoAdmin}]
  /\ attempt \in [Attempts ->
       [phase : {"unused", "sent", "queued", "refreshing", "over", "stranded"}, kind : Kinds,
        user : Admins \cup {NoAdmin}, retried : BOOLEAN, here : BOOLEAN]]
  /\ logout \in [phase : {"none", "sent"}, pair : 0 .. MaxPairs, clears : BOOLEAN]
  /\ faults \in 0 .. MaxFaults
  /\ me \in Admins \cup {NoAdmin}
  /\ presented \in [Pairs -> Nat]
  /\ crossed \in BOOLEAN

\* However many requests find the token expired, at whatever moment, a loaded page presents a
\* refresh token to the server once (isRefreshing and refreshQueue in lib/api.ts); a second
\* time would end the session.
RefreshTokenSpentOnce == \A n \in Pairs : presented[n] <= 1

\* The store has tokens and a user or neither, and the tokens are the user's, whatever refresh,
\* sign-in, sign-out and reload do to each other.  Only two late answers break this, and
\* crossed marks them: a refresh that outlives its session (updateTokens), and a profile that
\* was cached for another administrator (updateUser in Profile.tsx).
SessionOfItsUser ==
  ~crossed => /\ store.pair = 0 <=> store.user = NoAdmin
              /\ store.pair # 0 => owner[store.pair] = store.user

\* Every request that was sent is answered, fails, or is stranded by a failed refresh: none
\* waits in the queue of a refresh that is over (refreshQueue in lib/api.ts).
RequestsSettle == \A r \in ApiCalls : OpenRequest(r) ~> ~OpenRequest(r)
=============================================================================
