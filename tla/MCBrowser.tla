------------------------------ MODULE MCBrowser ------------------------------
(***************************************************************************)
(* The browser's three state machines in one instance for TLC: the pages    *)
(* of the console, the session of the console and the portal.  They share   *)
(* no state but the tokens a request carries, which the pages leave to the  *)
(* session, so that a behaviour runs one of them and keeps the others idle. *)
(***************************************************************************)
EXTENDS MCConsolePages, ConsoleSession, Portal

CONSTANTS Flows, a1, a2, p1, p2

VARIABLE flow

browserVars == <<vars, sessionVars, portalVars, flow>>

MCAdmins == {a1, a2}
MCPeople == {p1, p2}

AllFlows  == {"pages", "session", "portal"}
LiveFlows == {"pages", "session"}

\* Polled keys on the pages that show them, a mutation that waits for its refetch and one
\* that does not, and two that meet in one entry.
MCLiveSlices ==
  {[page |-> "cluster", name |-> "cluster.queue", uses |-> {}],
   [page |-> "bulkJob", name |-> "bulk.job", uses |-> {}],
   [page |-> "users", name |-> "users.list",
    uses |-> {c \in UsersList.controls : c.name = "delete"}],
   [page |-> "user", name |-> "users.detail",
    uses |-> {c \in UserDetail.controls : c.name = "resetMfa"}],
   [page |-> "sync", name |-> "sync.status",
    uses |-> {c \in SyncPage.controls : c.name = "scan"}]}

PagesIdle ==
  /\ key = [name |-> "sync.status", row |-> NoRow, uses |-> {}]
  /\ route = [page |-> "elsewhere", row |-> NoRow] /\ entry = Empty
  /\ written = 0 /\ others = 0 /\ gone = FALSE /\ mount = 0 /\ navs = 0 /\ dialog = Closed
  /\ local = {} /\ orphaned = FALSE
  /\ requests = [r \in RequestIds |-> Unused] /\ due = 0 /\ missed = FALSE

\* Administrators, and people, are alike: the one who starts signed in is always the same.
SessionStart == SessionInit /\ owner[1] # a2
PortalStart  == PortalInit /\ bearer[1] # p2

SessionIdle == SessionInit /\ issued = 0
PortalIdle  == PortalInit /\ minted = 0 /\ \A p \in People : ~factor[p]

BrowserInit ==
  /\ flow \in Flows
  /\ \/ flow = "pages" /\ Init /\ SessionIdle /\ PortalIdle
     \/ flow = "session" /\ PagesIdle /\ SessionStart /\ PortalIdle
     \/ flow = "portal" /\ PagesIdle /\ SessionIdle /\ PortalStart

BrowserNext ==
  \/ flow = "pages" /\ Next /\ UNCHANGED <<sessionVars, portalVars, flow>>
  \/ flow = "session" /\ SessionNext /\ UNCHANGED <<vars, portalVars, flow>>
  \/ flow = "portal" /\ PortalNext /\ UNCHANGED <<vars, sessionVars, flow>>

\* A bound for TLC: a second call of a sign-in page is followed only while a pair is left to
\* issue, nothing went wrong and no profile is cached.
FewSignIns == \/ \A a \in Attempts : a > 1 => attempt[a].phase = "unused"
              \/ issued < MaxPairs /\ faults = 0 /\ me = NoAdmin

BrowserSpec == BrowserInit /\ [][BrowserNext]_browserVars

\* What is idle is not enabled, so that each fairness condition binds its own flow only.
BrowserLiveSpec == BrowserSpec /\ Fairness /\ SessionFairness

\* Every variable of the browser has its type.
BrowserTypeOK == TypeOK /\ SessionTypeOK /\ PortalTypeOK
=============================================================================
