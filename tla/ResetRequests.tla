--------------------------- MODULE ResetRequests ---------------------------
(***************************************************************************)
(* What the self-service reset promises of each request, without the calls *)
(* that read in one step and commit in another: every operation takes      *)
(* effect at once.  A request stands for one change of the password; a     *)
(* code, tried a limited number of times, turns into a token, a token is   *)
(* spent by setting the password, and a request ends unspent only when its *)
(* time is up or its attempts are.  Nothing is promised of a request that  *)
(* two calls met on.                                                       *)
(***************************************************************************)
EXTENDS Naturals

CONSTANTS
    Request,     \* reset requests
    MaxAttempts  \* codes that may be tried

VARIABLES
    request,  \* per request: what it still gives a right to, and its record
    faults    \* calls that failed before their commit

absVars == <<request, faults>>

\* fresh: the time of the code, or of the token, is not up.
Plain(holds) == [holds |-> holds, tries |-> 0, sets |-> 0, fresh |-> TRUE]

Becomes(n, holds, tries, sets, fresh) ==
    request' = [request EXCEPT ![n] =
                   [holds |-> holds, tries |-> tries, sets |-> sets, fresh |-> fresh]]

Is(n, holds) == request[n].holds \in holds
Tries(n) == request[n].tries
Sets(n) == request[n].sets
Fresh(n) == request[n].fresh

AbsInit ==
    /\ request = [n \in Request |-> Plain("nothing")]
    /\ faults = 0

Ask(n) ==
    /\ Is(n, {"nothing"})
    /\ request' = [request EXCEPT ![n] = Plain("code")]
    /\ UNCHANGED faults

Miss(n) ==
    /\ Is(n, {"code"}) /\ Tries(n) < MaxAttempts
    /\ Becomes(n, "code", Tries(n) + 1, Sets(n), Fresh(n))
    /\ UNCHANGED faults

\* The token has a time of its own.
Hit(n) ==
    /\ Is(n, {"code"}) /\ Tries(n) < MaxAttempts
    /\ Becomes(n, "token", Tries(n) + 1, Sets(n), TRUE)
    /\ UNCHANGED faults

\* The token is spent: nothing but a failure gives it back.
Set(n) ==
    /\ Is(n, {"token"}) /\ Sets(n) <= faults
    /\ Becomes(n, "spent", Tries(n), Sets(n) + 1, Fresh(n))
    /\ UNCHANGED faults

Settle(n) ==
    /\ Is(n, {"spent"})
    /\ Becomes(n, "record", Tries(n), Sets(n), Fresh(n))
    /\ UNCHANGED faults

GiveBack(n) ==
    /\ Is(n, {"spent"})
    /\ Becomes(n, "token", Tries(n), Sets(n), Fresh(n))
    /\ faults' = faults + 1

TimeIsUp(n) ==
    /\ Is(n, {"code", "token", "spent"})
    /\ Becomes(n, request[n].holds, Tries(n), Sets(n), FALSE)
    /\ UNCHANGED faults

Expire(n) ==
    /\ Is(n, {"code", "token"}) /\ ~Fresh(n)
    /\ Becomes(n, "void", Tries(n), Sets(n), Fresh(n))
    /\ UNCHANGED faults

Lock(n) ==
    /\ Is(n, {"code"}) /\ Tries(n) = MaxAttempts
    /\ Becomes(n, "void", Tries(n), Sets(n), Fresh(n))
    /\ UNCHANGED faults

\* Two calls can meet only on a request that is open.
Meet(n) ==
    /\ Is(n, {"code", "token", "spent"})
    /\ request' = [request EXCEPT ![n] = Plain("contested")]
    /\ UNCHANGED faults

Fail == faults' = faults + 1 /\ UNCHANGED request

AbsNext ==
    \/ \E n \in Request :
          \/ Ask(n) \/ Miss(n) \/ Hit(n) \/ Set(n) \/ Settle(n) \/ GiveBack(n)
          \/ TimeIsUp(n) \/ Expire(n) \/ Lock(n) \/ Meet(n)
    \/ Fail

AbsSpec == AbsInit /\ [][AbsNext]_absVars

-----------------------------------------------------------------------------
\* What follows, and what a user relies on (a contested request is back at zero, so
\* nothing is said of it): a code is tried MaxAttempts times at most, the password is
\* set once and once more per failure, and it is set when the request is a record of it.
Holdings == {"nothing", "code", "token", "spent", "record", "void", "contested"}
Reliable ==
    /\ request \in [Request -> [holds : Holdings, tries : 0..MaxAttempts, sets : Nat,
                                fresh : BOOLEAN]]
    /\ faults \in Nat
    /\ \A n \in Request :
          /\ Sets(n) <= 1 + faults
          /\ Is(n, {"spent", "record"}) => Sets(n) > 0
=============================================================================
