------------------------------- MODULE Portal -------------------------------
(***************************************************************************)
(* One tab of the self-service portal: the session store, the guard of the  *)
(* inner pages, the 401 interceptor that signs out, and the forms of the    *)
(* sign-in, reset, password, profile and second-factor pages.               *)
(*                                                                         *)
(* The server is its tokens and the second factor of a person, which is     *)
(* changed from this tab only.  Every write of a profile is refused (PATCH  *)
(* /me does not exist), and so is every request to disable a factor (the    *)
(* page sends a password where a code is wanted).                           *)
(***************************************************************************)
EXTENDS Naturals

CONSTANTS People, Nobody,
          MaxTokens,  \* the tokens the server issues
          MaxJobs     \* the calls a behaviour makes

ASSUME PortalAssumption ==
  Nobody \notin People /\ MaxTokens \in Nat \ {0} /\ MaxJobs \in Nat

VARIABLES
  session,  \* the store: token, 0 for none, user, and the user's two flags
  minted,   \* tokens issued so far
  bearer,   \* the person a token was issued to
  forced,   \* tokens issued to somebody who has to change the password first
  valid,    \* tokens the server takes
  timely,   \* tokens whose expires_at has not passed
  factor,   \* the second factor of a person is enabled
  place,    \* the page that is shown
  form,     \* its stage and the person it is for
  job,      \* the calls of the tab
  astray,   \* a profile answer got lost, or came after a newer one or to another session
  handed    \* the profile after a code was asked for by a later session that has to change

portalVars == <<session, minted, bearer, forced, valid, timely, factor, place, form, job, astray,
                handed>>

Tokens == 1 .. MaxTokens
Jobs   == 1 .. MaxJobs

NoSession == [token |-> 0, user |-> Nobody, must |-> FALSE, mfa |-> FALSE]
First     == [stage |-> "first", user |-> Nobody]
Idle      == [phase |-> "unused", kind |-> "login", user |-> Nobody, token |-> 0,
              mfa |-> FALSE, here |-> FALSE]

Inner == {"home", "profile", "password", "mfa"}

(***************************************************************************)
(* The router and the calls.                                                *)
(***************************************************************************)
\* PortalProtectedRoute: a token that has not timed out, and the password page first for
\* whoever has to change it.
Guarded(to, s) ==
  IF to \notin Inner THEN to
  ELSE IF s.token \notin timely THEN "login"
  ELSE IF s.must THEN "password" ELSE to

\* A page that is left no longer hears of its calls.
Unheard(calls, to) == [j \in Jobs |-> [calls[j] EXCEPT !.here = @ /\ to = place]]

Goto(to, calls) ==
  /\ place' = to
  /\ form' = IF to = place THEN form ELSE First
  /\ job' = Unheard(calls, to)

FirstUnused(j) == job[j].phase = "unused" /\ (j > 1 => job[j - 1].phase # "unused")
Ongoing(j)     == job[j].phase \in {"sent", "answered"}

\* The request interceptor adds the stored token.
Started(j, kind, user) ==
  [job EXCEPT ![j] = [Idle EXCEPT !.phase = "sent", !.kind = kind, !.user = user,
                                  !.token = session.token, !.here = TRUE]]
Stopped(j) == [job EXCEPT ![j] = [Idle EXCEPT !.phase = "over"]]

(***************************************************************************)
(* What the person does.                                                    *)
(***************************************************************************)
\* The profile page asks for the profile as it mounts.
Visit(to) ==
  LET there == Guarded(to, session) IN
  /\ there # place
  /\ IF there = "profile"
     THEN \E j \in Jobs : FirstUnused(j) /\ Goto(there, Started(j, "load", Nobody))
     ELSE Goto(there, job)
  /\ UNCHANGED <<session, minted, bearer, forced, valid, timely, factor, astray, handed>>

\* The forms a page shows.
Offered(kind, user) ==
  \/ place = "login" /\ form = First /\ kind = "login"
  \/ place = "login" /\ form = [stage |-> "code", user |-> user] /\ kind = "code"
  \/ place = "password" /\ kind = "change" /\ user = session.user
  \/ place = "profile" /\ kind = "save" /\ user = session.user
  \/ place = "mfa" /\ user = session.user
       /\ \/ form.stage = "first" /\ kind = (IF session.mfa THEN "disable" ELSE "setup")
          \/ form.stage = "verify" /\ kind = "verify"
  \/ place = "reset" /\ form = First /\ kind = "request"
  \/ place = "reset" /\ form = [stage |-> kind, user |-> user] /\ kind \in {"check", "complete"}

FormKinds == {"login", "code", "change", "save", "setup", "disable", "verify", "request", "check",
          "complete"}

\* Its buttons are disabled while a call of the page is under way.
Loading == \E j \in Jobs : job[j].here /\ Ongoing(j)

SendForm(j, kind, user) ==
  /\ FirstUnused(j) /\ Offered(kind, user) /\ ~Loading
  /\ job' = Started(j, kind, user)
  /\ UNCHANGED <<session, minted, bearer, forced, valid, timely, factor, place, form,
                 astray, handed>>

\* Back to the password, to the code that is shown, to the start, or to another request.
Steps == {<<"login", "code", "first">>, <<"mfa", "setup", "verify">>,
          <<"mfa", "verify", "setup">>, <<"mfa", "done", "first">>, <<"reset", "check", "first">>}

Turn(stage) ==
  /\ <<place, form.stage, stage>> \in Steps
  /\ form' = IF stage = "first" THEN First ELSE [form EXCEPT !.stage = stage]
  /\ UNCHANGED <<session, minted, bearer, forced, valid, timely, factor, place, job,
                 astray, handed>>

SignOut(j) ==
  /\ FirstUnused(j) /\ place \in Inner
  /\ job' = [Started(j, "logout", Nobody) EXCEPT ![j].here = FALSE]
  /\ UNCHANGED <<session, minted, bearer, forced, valid, timely, factor, place, form,
                 astray, handed>>

(***************************************************************************)
(* Answers.                                                                 *)
(***************************************************************************)
Heard(j, kind) == job[j].phase = "sent" /\ job[j].kind = kind
Taken(j)       == job[j].token \in valid

\* The stages are the page's own; the session and the address are not.
Staged(j, stage) ==
  /\ form' = IF job[j].here THEN [stage |-> stage, user |-> job[j].user] ELSE form
  /\ job' = Stopped(j)
  /\ UNCHANGED place

\* Mutant: the user in the answer is stored without the flag.
SignInUnforced(j, must) ==
  LET token == minted + 1
      opened == [token |-> token, user |-> job[j].user, must |-> FALSE,
                 mfa |-> factor[job[j].user]] IN
  /\ minted < MaxTokens /\ minted' = token
  /\ bearer' = [bearer EXCEPT ![token] = job[j].user]
  /\ forced' = IF must THEN forced \cup {token} ELSE forced
  /\ valid' = valid \cup {token} /\ timely' = timely \cup {token}
  /\ session' = opened
  /\ Goto(IF must THEN "password" ELSE "home", Stopped(j))
  /\ UNCHANGED <<factor, astray, handed>>

SignIn(j, must) ==
  LET token == minted + 1
      opened == [token |-> token, user |-> job[j].user, must |-> must,
                 mfa |-> factor[job[j].user]] IN
  /\ minted < MaxTokens /\ minted' = token
  /\ bearer' = [bearer EXCEPT ![token] = job[j].user]
  /\ forced' = IF must THEN forced \cup {token} ELSE forced
  /\ valid' = valid \cup {token} /\ timely' = timely \cup {token}
  /\ session' = opened
  /\ Goto(IF must THEN "password" ELSE "home", Stopped(j))
  /\ UNCHANGED <<factor, astray, handed>>

LoginAnswer(j) ==
  \/ /\ Heard(j, "login") /\ factor[job[j].user]
     /\ Staged(j, "code")
     /\ UNCHANGED <<session, minted, bearer, forced, valid, timely, factor, astray, handed>>
  \/ /\ (Heard(j, "login") /\ ~factor[job[j].user]) \/ Heard(j, "code")
     /\ \E must \in BOOLEAN : SignIn(j, must)

Clear(calls) ==
  /\ session' = NoSession
  /\ Goto("login", calls)

\* The tokens of the person stay valid; this tab forgets its own.
PasswordChange(j) ==
  /\ Heard(j, "change") /\ Taken(j)
  /\ Clear(Stopped(j))
  /\ UNCHANGED <<minted, bearer, forced, valid, timely, factor, astray, handed>>

\* Also when the call fails; it clears whatever session is there by then.
SignedOutOf(j) ==
  /\ Heard(j, "logout")
  /\ valid' \in {valid, valid \ {job[j].token}}
  /\ Clear(Stopped(j))
  /\ UNCHANGED <<minted, bearer, forced, timely, factor, astray, handed>>

ResetAnswer(j) ==
  /\ \/ Heard(j, "request") /\ Staged(j, "check")
     \/ Heard(j, "check") /\ Staged(j, "complete")
     \/ Heard(j, "complete") /\ Goto("login", Stopped(j))
  /\ UNCHANGED <<session, minted, bearer, forced, valid, timely, factor, astray, handed>>

(***************************************************************************)
(* The second factor and the profile.                                       *)
(***************************************************************************)
SetupAnswer(j) ==
  /\ Heard(j, "setup") /\ Taken(j)
  /\ Staged(j, "setup")
  /\ UNCHANGED <<session, minted, bearer, forced, valid, timely, factor, astray, handed>>

\* The code is right: the page asks for the profile, with the token that is stored by then.
Verified(j) ==
  /\ Heard(j, "verify") /\ Taken(j)
  /\ factor' = [factor EXCEPT ![bearer[job[j].token]] = TRUE]
  /\ job' = [job EXCEPT ![j] = [job[j] EXCEPT !.kind = "refetch", !.token = session.token]]
  /\ handed' = (handed \/ (session.token # job[j].token /\ session.token \in forced))
  /\ UNCHANGED <<session, minted, bearer, forced, valid, timely, place, form, astray>>

ServeProfile(j) ==
  /\ Heard(j, "load") \/ Heard(j, "refetch")
  /\ Taken(j)
  /\ job' = [job EXCEPT ![j] = [job[j] EXCEPT !.phase = "answered",
                                              !.mfa = factor[bearer[job[j].token]]]]
  /\ UNCHANGED <<session, minted, bearer, forced, valid, timely, factor, place, form,
                 astray, handed>>

\* Mutant: the page is done before the profile is stored.
DoneWithoutProfile(j) ==
  /\ job[j].phase = "answered"
  /\ UNCHANGED <<session, astray>>
  /\ IF job[j].kind = "refetch" THEN Staged(j, "done")
     ELSE job' = Stopped(j) /\ UNCHANGED <<place, form>>
  /\ UNCHANGED <<minted, bearer, forced, valid, timely, factor, handed>>

\* setUser does not ask whose session it is by now, and GET /me answers without the flag.
StoreProfile(j) ==
  LET user == bearer[job[j].token] IN
  /\ job[j].phase = "answered"
  /\ session' = [session EXCEPT !.user = user, !.must = FALSE, !.mfa = job[j].mfa]
  /\ astray' = (astray \/ session.token # job[j].token \/ job[j].mfa # factor[user])
  /\ IF job[j].kind = "refetch" THEN Staged(j, "done")
     ELSE job' = Stopped(j) /\ UNCHANGED <<place, form>>
  /\ UNCHANGED <<minted, bearer, forced, valid, timely, factor, handed>>

(***************************************************************************)
(* Failures, and tokens that end.                                           *)
(***************************************************************************)
\* Refused otherwise, or no answer.  The profile that should follow a code may be lost with it.
CallFails(j) ==
  /\ Ongoing(j) /\ job[j].kind # "logout"
  /\ job' = Stopped(j)
  /\ \E applied \in {FALSE, job[j].kind = "verify" /\ Taken(j)} :
       factor' = IF applied THEN [factor EXCEPT ![bearer[job[j].token]] = TRUE] ELSE factor
  /\ astray' = (astray \/ job[j].kind = "refetch" \/ factor' # factor)
  /\ UNCHANGED <<session, minted, bearer, forced, valid, timely, place, form, handed>>

\* Every 401, a wrong code or password included, ends the stored session and loads the page
\* anew, which drops the other calls.
Denied(j) ==
  /\ job[j].phase = "sent"
  /\ \/ job[j].kind \in {"login", "code", "verify", "check", "complete"}
     \/ job[j].kind \in {"load", "refetch", "change", "save", "setup", "disable"} /\ ~Taken(j)
  /\ IF session.token # 0
     THEN /\ session' = NoSession /\ place' = "login" /\ form' = First
          /\ job' = [k \in Jobs |-> IF Ongoing(k) THEN Stopped(k)[k] ELSE job[k]]
     ELSE job' = Stopped(j) /\ UNCHANGED <<session, place, form>>
  /\ astray' = (astray \/ (session.token = 0 /\ job[j].kind = "refetch"))
  /\ UNCHANGED <<minted, bearer, forced, valid, timely, factor, handed>>

\* A token runs out on the server when its expires_at passes in the browser.
TokenEnds(t) ==
  /\ t \in timely
  /\ valid' = valid \ {t} /\ timely' = timely \ {t}
  /\ UNCHANGED <<session, minted, bearer, forced, factor, place, form, job, astray, handed>>

(***************************************************************************)
(* The specification.  The tab is loaded with or without a session.         *)
(***************************************************************************)
PortalInit ==
  /\ \E first \in People \cup {Nobody} :
       bearer = [t \in Tokens |-> IF t = 1 THEN first ELSE Nobody]
  /\ minted = IF bearer[1] = Nobody THEN 0 ELSE 1
  /\ valid = 1 .. minted /\ timely = valid /\ forced \in SUBSET valid
  /\ factor \in [People -> BOOLEAN]
  /\ session = IF minted = 0 THEN NoSession
               ELSE [token |-> 1, user |-> bearer[1], must |-> 1 \in forced,
                     mfa |-> factor[bearer[1]]]
  /\ place = Guarded("home", session)
  /\ form = First /\ job = [j \in Jobs |-> Idle] /\ astray = FALSE /\ handed = FALSE

JobStep(j) ==
  \/ \E kind \in FormKinds, user \in People : SendForm(j, kind, user)
  \/ SignOut(j) \/ LoginAnswer(j) \/ PasswordChange(j) \/ SignedOutOf(j) \/ ResetAnswer(j)
  \/ SetupAnswer(j) \/ Verified(j) \/ ServeProfile(j) \/ StoreProfile(j) \/ CallFails(j)
  \/ Denied(j)

PortalNext ==
  \/ \E to \in Inner \cup {"login", "reset"} : Visit(to)
  \/ \E stage \in {"first", "setup", "verify"} : Turn(stage)
  \/ \E j \in Jobs : JobStep(j)
  \/ \E t \in Tokens : TokenEnds(t)

PortalSpec == PortalInit /\ [][PortalNext]_portalVars

(***************************************************************************)
(* Properties.                                                              *)
(***************************************************************************)
\* The types of the variables.
PortalTypeOK ==
  /\ session \in [token : 0 .. MaxTokens, user : People \cup {Nobody}, must : BOOLEAN,
                  mfa : BOOLEAN]
  /\ minted \in 0 .. MaxTokens /\ bearer \in [Tokens -> People \cup {Nobody}]
  /\ forced \subseteq Tokens /\ valid \subseteq Tokens /\ timely \subseteq Tokens
  /\ factor \in [People -> BOOLEAN]
  /\ place \in Inner \cup {"login", "reset"}
  /\ form \in [stage : {"first", "code", "setup", "verify", "done", "check", "complete"},
               user : People \cup {Nobody}]
  /\ job \in [Jobs -> [phase : {"unused", "sent", "answered", "over"},
                        kind : FormKinds \cup {"load", "refetch", "logout"},
                        user : People \cup {Nobody}, token : 0 .. MaxTokens,
                        mfa : BOOLEAN, here : BOOLEAN]]
  /\ astray \in BOOLEAN /\ handed \in BOOLEAN

\* PortalProtectedRoute.tsx:23: no other page is let in before a forced change is over.  It
\* rests on a flag in the browser that every profile answer clears (end_user_auth.py:151-157),
\* so that it holds only while no profile of an earlier session arrives in a later one
\* (astray), and none is asked for by a later session on account of a code that was sent in an
\* earlier one (handed: PortalMfa.tsx:61-64).
ForcedChangeHolds ==
  (~astray /\ ~handed /\ place \in Inner \ {"password"}) => session.token \notin forced

\* The second factor shown is the server's whenever no call is under way (setUser in
\* PortalMfa.tsx and PortalProfile.tsx), unless a profile answer went astray.
FactorShown ==
  (~astray /\ session.token # 0 /\ \A j \in Jobs : ~Ongoing(j))
    => session.mfa = factor[session.user]
=============================================================================
