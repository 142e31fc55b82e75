---------------------------- MODULE ConsolePages ----------------------------
(***************************************************************************)
(* One tab of the console: the page it shows, the dialog open on it, the    *)
(* calls in flight and one entry of its React Query cache.                  *)
(*                                                                         *)
(* Entries of different keys meet only in what one call does to them, so    *)
(* that a behaviour watches one key and uses some controls (the slice):     *)
(* every other key is taken to be loaded.  The data of a key is the number  *)
(* of accepted writes the answer reflects.                                  *)
(***************************************************************************)
EXTENDS Console

CONSTANTS Rows,         \* the rows a picked control or a link can be about
          NoRow,
          Slices,       \* the records [page, name, uses] a behaviour may start with
          MaxRequests,  \* calls a behaviour makes
          MaxNavs,      \* links it follows
          MaxOthers     \* writes of others, or steps of a worker, behind the key

ASSUME ConsoleAssumption ==
  /\ Rows # {} /\ NoRow \notin Rows
  /\ MaxRequests \in Nat /\ MaxNavs \in Nat /\ MaxOthers \in Nat
  /\ \A s \in Slices : /\ s.page \in DOMAIN Pages /\ s.name \in KeyNames
                       /\ s.uses \subseteq Pages[s.page].controls

VARIABLES
  key,       \* the watched key, its name and its row, and the controls that are used
  written,   \* accepted writes behind the key
  others,    \* how many of them were the writes of others
  gone,      \* the row of the key was deleted
  entry,     \* the cache entry of the key
  route,     \* page and row of the address
  mount,     \* how often the router mounted a page
  navs,      \* links followed
  dialog,    \* the dialog open on the page
  local,     \* the calls sent since what the page shows was last mounted
  orphaned,  \* the page showed an error instead of a held dialog that was pending
  requests,  \* the calls of the tab
  due,       \* the newest acknowledged write of the tab that the entry has to show
  missed     \* an answer came while an older one was under way, or for another row's entry

vars == <<key, written, others, gone, entry, route, mount, navs, dialog, local, orphaned,
          requests, due, missed>>

NoData == 0 - 1
Empty  == [data |-> NoData, stale |-> FALSE, failed |-> FALSE, fetch |-> "idle", snap |-> 0]
Closed == [name |-> "none", row |-> NoRow, sent |-> {}]

Unused == [phase |-> "unused", control |-> Button("none", "none", "none"), row |-> NoRow,
           bound |-> NoRow, mount |-> 0, vers |-> 0, waits |-> FALSE]
Over   == [Unused EXCEPT !.phase = "over"]

RequestIds == 1 .. MaxRequests
CallOf(r)  == Calls[requests[r].control.call]

(***************************************************************************)
(* What the page shows.                                                     *)
(***************************************************************************)
Here       == PageOf(route.page)
KeyRowed   == key.name \in RowedKeys
\* Rows differ only in being the key's row or another one.
RowsMet == IF KeyRowed THEN Rows ELSE {CHOOSE r \in Rows : TRUE}
ShowsKey(page, row) == key.name \in PageOf(page).shows /\ (KeyRowed => row = key.row)
Mounted    == ShowsKey(route.page, route.row)

\* The page shows its controls: what it cannot do without is loaded and has not failed since.
LoadedAt(at, e) == (key.name \in PageOf(at.page).gate /\ ShowsKey(at.page, at.row))
                     => (e.data # NoData /\ ~e.failed)
Loaded          == LoadedAt(route, entry)

InFlight(r)       == requests[r].phase \in {"sent", "done", "awaiting"}
Pending(control)  == \E r \in RequestIds : /\ InFlight(r)
                                           /\ requests[r].mount = mount
                                           /\ requests[r].control.call = control.call
                                           /\ IF control.held THEN r \in dialog.sent
                                              ELSE control.keeps # "nothing" => r \in local
DialogPending     == \E r \in dialog.sent : InFlight(r)

\* The page after a step that leaves it the calls and the dialog given.  A page that shows a
\* spinner or an error unmounts its dialogs: the one that was open is open again when it is
\* back, but it does not remember that it was pending.
Rendered(calls, shown) ==
  IF mount' = mount /\ LoadedAt(route', entry')
  THEN local' = calls /\ dialog' = shown /\ orphaned' = orphaned
  ELSE /\ local' = {} /\ dialog' = [shown EXCEPT !.sent = {}]
       /\ orphaned' = (/\ mount' = mount
                       /\ \/ orphaned
                          \/ \E r \in shown.sent : InFlight(r) /\ requests[r].control.held)

(***************************************************************************)
(* The query of the key (React Query: one fetch at a time).                 *)
(***************************************************************************)
Asked(e)     == [e EXCEPT !.fetch = "asked", !.snap = 0]
Marked(e)    == [e EXCEPT !.stale = TRUE]

\* invalidateQueries: a mounted query with data drops the fetch under way and asks again, one
\* without data keeps it; a query no page shows is only marked.
Invalidated(e) ==
  IF ~Mounted THEN Marked(e)
  ELSE IF e.data = NoData /\ e.fetch # "idle" THEN e
  ELSE Asked(Marked(e))

\* setQueryData leaves a fetch under way alone.
Filled(e, vers) == [e EXCEPT !.data = vers, !.stale = FALSE, !.failed = FALSE]

\* A query that mounts asks when it has nothing or what it has is stale.
OnMount(e) == IF e.fetch = "idle" /\ (e.data = NoData \/ e.stale) THEN Asked(e) ELSE e

\* The row of the key is deleted: dropped, and asked for again by a page that still shows it.
Dropped == IF Mounted THEN Asked(Empty) ELSE Empty

\* A poll of an import stops with the job.
Finished == key.name = "bulk.job" /\ entry.data = MaxOthers

\* Mutant: a poll that failed is the last one.
PolledUntilFailure == key.name \in PolledKeys /\ ~Finished /\ entry.data # NoData /\ ~entry.failed

Polled == key.name \in PolledKeys /\ ~Finished /\ (key.name = "bulk.job" => entry.data # NoData)

TimePasses ==
  /\ entry.data # NoData /\ ~entry.stale
  /\ entry' = Marked(entry)
  /\ UNCHANGED <<key, written, others, gone, route, mount, navs, dialog, local, orphaned,
                 requests, due, missed>>

Poll ==
  /\ Mounted /\ Polled /\ entry.fetch = "idle"
  /\ entry' = Asked(entry)
  /\ UNCHANGED <<key, written, others, gone, route, mount, navs, dialog, local, orphaned,
                 requests, due, missed>>

\* The refresh button is disabled while the page fetches.
Refresh ==
  /\ Mounted /\ key.name \in Here.refresh /\ entry.fetch = "idle" /\ entry.stale
  /\ entry' = Asked(entry)
  /\ UNCHANGED <<key, written, others, gone, route, mount, navs, dialog, local, orphaned,
                 requests, due, missed>>

ServerReads ==
  /\ entry.fetch = "asked" /\ ~gone
  /\ entry' = [entry EXCEPT !.fetch = "answered", !.snap = written]
  /\ UNCHANGED <<key, written, others, gone, route, mount, navs, dialog, local, orphaned,
                 requests, due, missed>>

\* Mutant: a refetch that is over tells nobody.
ToldNobody == requests

\* The calls that waited for the refetch of the key are told.
Told == [r \in RequestIds |-> [requests[r] EXCEPT !.waits = FALSE]]

Receive ==
  /\ entry.fetch = "answered"
  /\ entry' = [Empty EXCEPT !.data = entry.snap]
  /\ requests' = Told
  /\ UNCHANGED <<key, written, others, gone, route, mount, navs, dialog, local, orphaned, due,
                 missed>>

\* A fetch that fails leaves the data in the entry; a page that needs it shows the error.
FetchFails ==
  /\ entry.fetch # "idle"
  /\ entry' = [entry EXCEPT !.fetch = "idle", !.snap = 0, !.failed = TRUE]
  /\ requests' = Told
  /\ UNCHANGED <<key, written, others, gone, route, mount, navs, due, missed>>
  /\ Rendered(local, dialog)

OthersWrite ==
  /\ others < MaxOthers
  /\ others' = others + 1 /\ written' = written + 1
  /\ UNCHANGED <<key, gone, entry, route, mount, navs, dialog, local, orphaned, requests, due,
                 missed>>

(***************************************************************************)
(* Links.                                                                   *)
(***************************************************************************)
PageRows(page) == IF page \in RowedPages THEN RowsMet ELSE {NoRow}

\* A page keeps its component when only the row of the address changes, and under a modal.
SameMount(from, to) == from = to \/ {from, to} = {"shield", "certificate"}

\* A mutation of the page that stays is bound to the new row from then on, and so is one of
\* a dialog that is still shown.
Rebound(row) ==
  [r \in RequestIds |->
     IF /\ InFlight(r) /\ requests[r].mount = mount /\ requests[r].control.row = "page"
        /\ requests[r].control.keeps = "mutation" => r \in local'
     THEN [requests[r] EXCEPT !.bound = row] ELSE requests[r]]

\* A dialog of a page that keeps its component stays open, and is about the new row.
Kept(row) == IF dialog.name = "none" THEN Closed ELSE [dialog EXCEPT !.row = row]

\* Mutant: a dialog outlives its page.
KeptEverywhere(to, row) == Kept(row)

CarriedTo(to, row) == IF route.page = to THEN Kept(row) ELSE Closed

Arrive(to, row) ==
  /\ route' = [page |-> to, row |-> row]
  /\ mount' = IF SameMount(route.page, to) THEN mount ELSE mount + 1

\* The pages that show the key or have a control in use, and one that stands for the others.
Relevant(page) == \/ key.name \in PageOf(page).shows
                  \/ PageOf(page).controls \cap key.uses # {}
                  \/ page = "elsewhere"

\* A search result, Back or Forward can lead from one row of a page to another row of it.
Navigate(to, row) ==
  /\ navs < MaxNavs /\ to \in Here.links \cup SidebarPages \cup {route.page}
  /\ [page |-> to, row |-> row] # route /\ Relevant(to)
  /\ to = "certificate" => dialog = Closed
  /\ navs' = navs + 1
  /\ Arrive(to, row)
  /\ entry' = IF ShowsKey(to, row) /\ ~Mounted THEN OnMount(entry) ELSE entry
  /\ Rendered(local, CarriedTo(to, row))
  /\ requests' = IF to = route.page THEN Rebound(row) ELSE requests
  /\ UNCHANGED <<key, written, others, gone, due, missed>>

(***************************************************************************)
(* Dialogs and calls.                                                       *)
(***************************************************************************)
\* The rows a control can be about; a picked one is taken from the list on the page.
RowsOf(control) == IF control.row = "none" THEN {NoRow}
                   ELSE IF control.row = "page" THEN {route.row} ELSE RowsMet

\* The mutation of a dialog that was opened for a picked row, and whose hook fills the entry
\* of that row, is bound to the row the dialog is for now, and to none once it is closed.
BoundToDialog(control, row) ==
  [r \in RequestIds |->
     IF /\ InFlight(r) /\ requests[r].mount = mount /\ requests[r].control = control
        /\ control.row = "picked" /\ CallOf(r).sets # {}
     THEN [requests[r] EXCEPT !.bound = row] ELSE requests[r]]

OpenDialog(control, row) ==
  /\ Loaded /\ control.dialog /\ dialog = Closed /\ row \in RowsOf(control)
  /\ dialog' = [name |-> control.name, row |-> row, sent |-> {}]
  /\ requests' = BoundToDialog(control, row)
  /\ UNCHANGED <<key, written, others, gone, entry, route, mount, navs, local, orphaned, due,
                 missed>>

\* Mutant: a pending dialog can be closed.
CloseWhilePending(control) ==
  /\ Loaded /\ dialog.name = control.name
  /\ dialog' = Closed
  /\ requests' = BoundToDialog(control, NoRow)
  /\ UNCHANGED <<key, written, others, gone, entry, route, mount, navs, local, orphaned, due,
                 missed>>

CloseDialog(control) ==
  /\ Loaded /\ dialog.name = control.name /\ (control.held => ~DialogPending)
  /\ dialog' = Closed
  /\ requests' = BoundToDialog(control, NoRow)
  /\ UNCHANGED <<key, written, others, gone, entry, route, mount, navs, local, orphaned, due,
                 missed>>

\* The calls of a tab are numbered in the order in which they are sent.
IsNext(r) == /\ requests[r].phase = "unused"
             /\ \A q \in 1 .. r - 1 : requests[q].phase # "unused"

Submit(control, row) == \E r \in RequestIds :
  /\ IsNext(r)
  /\ Loaded /\ (control.locks => ~Pending(control))
  /\ IF control.dialog
     THEN /\ dialog.name = control.name
          /\ row = IF control.row = "page" THEN route.row ELSE dialog.row
     ELSE dialog = Closed /\ row \in RowsOf(control)
  /\ requests' = [requests EXCEPT ![r] =
       [Unused EXCEPT !.phase = "sent", !.control = control, !.row = row, !.bound = row,
                      !.mount = mount]]
  /\ dialog' = IF control.dialog THEN [dialog EXCEPT !.sent = @ \cup {r}] ELSE dialog
  /\ local' = local \cup {r}
  /\ UNCHANGED <<key, written, others, gone, entry, route, mount, navs, orphaned, due, missed>>

\* The keys of a call reach the watched one; a row of another kind can be about any.
Reaches(keys, call, row) ==
  /\ key.name \in keys
  /\ KeyRowed /\ key.name \in RowedOf(call.kind) => key.row = row

Deletes(r) == Reaches(CallOf(r).removes, CallOf(r), requests[r].row)

Commit(r) ==
  LET reaches == Reaches(CallOf(r).affects, CallOf(r), requests[r].row) IN
  /\ requests[r].phase = "sent" /\ (gone => requests[r].row # key.row)
  /\ written' = IF reaches THEN written + 1 ELSE written
  /\ gone' = (gone \/ Deletes(r))
  /\ requests' = [requests EXCEPT ![r].phase = "done", ![r].vers = written']
  /\ UNCHANGED <<key, others, entry, route, mount, navs, dialog, local, orphaned, due, missed>>

\* The dialog once a call is over: the control that kept a flag of it takes the flag back.
Without(r) ==
  [dialog EXCEPT !.sent =
     IF /\ r \in local /\ requests[r].control.keeps = "flag"
        /\ requests[r].control.name = dialog.name
     THEN {} ELSE @ \ {r}]

\* Refused, or the answer is lost: the page shows an error and the dialog stays.
Fails(r) ==
  /\ requests[r].phase \in {"sent", "done"}
  /\ requests' = [requests EXCEPT ![r] = Over]
  /\ dialog' = Without(r) /\ local' = local \ {r}
  /\ UNCHANGED <<key, written, others, gone, entry, route, mount, navs, orphaned, due, missed>>

(***************************************************************************)
(* The answer: onSuccess of the hook, then what the page does.              *)
(***************************************************************************)
Updated(r) ==
  LET call == CallOf(r)
      bound == requests[r].bound IN
  IF Deletes(r) THEN Dropped
  ELSE IF Reaches(call.sets, call, bound) THEN Filled(entry, requests[r].vers)
  ELSE IF Reaches(call.invalidates, call, bound) THEN Invalidated(entry)
  ELSE entry

\* What an accepted call changes although its hook neither invalidates nor fills it.
Unfollowed ==
  ((DOMAIN Calls) \X {"home.cluster", "home.summary", "session.policy", "shield.certificate"})
    \cup ((DOMAIN UserListCalls) \X {"users.detail"})
    \cup ({"resetPassword", "useResetUserPassword", "useResetUserMfa"} \X {"users.list"})
    \cup ((DOMAIN GroupCalls) \X {"users.groups"})
    \cup ({"useAddGroupMember", "useRemoveGroupMember"} \X {"groups.list"})
    \cup ({"useResolveSyncDiscrepancy", "useImportUsersCsv"} \X {"users.list", "users.detail"})
    \cup {<<"useResetUserPassword", "users.detail">>, <<"useResetAdminPassword", "admins.detail">>,
          <<"useResetAdminMfa", "admins.list">>}

Follows(r) ==
  /\ Reaches(CallOf(r).affects, CallOf(r), requests[r].row)
  /\ <<requests[r].control.call, key.name>> \notin Unfollowed

\* An answer that was under way overwrites what the call put there, one that nobody drops
\* takes the mark away, and an answer for another row's entry leaves this one as it was.
Overtaken(r) ==
  \/ requests[r].bound # requests[r].row
  \/ /\ Updated(r).fetch = "answered"
     /\ Updated(r).snap < requests[r].vers
  \/ Reaches(CallOf(r).sets, CallOf(r), requests[r].row) /\ requests[r].vers < due

\* A dialog that was opened for another row in the meantime: its answer is put under that row.
Misplaced(r) ==
  /\ requests[r].bound # requests[r].row
  /\ Reaches(CallOf(r).sets, CallOf(r), requests[r].bound)

\* What the page does once the call is accepted; e is the entry by then.
Finishes(r, e) ==
  LET after == requests[r].control.after IN
  IF after \in {"stay", "close"}
  THEN /\ entry' = e
       /\ UNCHANGED <<route, mount>>
       /\ Rendered(local \ {r}, IF /\ after = "close" /\ requests[r].mount = mount
                                   /\ dialog.name = requests[r].control.name
                                THEN Closed ELSE Without(r))
  ELSE \E row \in PageRows(after) :
         /\ Arrive(after, row)
         /\ entry' = IF ShowsKey(after, row) /\ ~Mounted THEN OnMount(e) ELSE e
         /\ Rendered(local \ {r}, CarriedTo(after, row))

\* Where the mutation waits for its refetch, the page hears of it only then.
Answer(r) ==
  LET refetch == Updated(r) # entry
      waits   == CallOf(r).awaits /\ refetch /\ Updated(r).fetch # "idle" IN
  /\ requests[r].phase = "done"
  /\ due' = IF Follows(r) /\ requests[r].vers > due THEN requests[r].vers ELSE due
  /\ missed' = (missed \/ Misplaced(r) \/ (Follows(r) /\ Overtaken(r)))
  /\ requests' = [q \in RequestIds |->
       IF q # r THEN IF refetch THEN Told[q] ELSE requests[q]
       ELSE IF CallOf(r).awaits THEN [requests[r] EXCEPT !.phase = "awaiting", !.waits = waits]
       ELSE Over]
  /\ IF CallOf(r).awaits
     THEN entry' = Updated(r) /\ UNCHANGED <<route, mount>> /\ Rendered(local, dialog)
     ELSE Finishes(r, Updated(r))
  /\ UNCHANGED <<key, written, others, gone, navs>>

\* The refetch the answer started is over: the mutation settles.
Settle(r) ==
  /\ requests[r].phase = "awaiting" /\ ~requests[r].waits
  /\ requests' = [requests EXCEPT ![r] = Over]
  /\ Finishes(r, entry)
  /\ UNCHANGED <<key, written, others, gone, navs, due, missed>>

(***************************************************************************)
(* The specification.  A behaviour starts on a page that has loaded, with   *)
(* the entry of the watched key fresh, or empty and asked for.              *)
(***************************************************************************)
Init ==
  \E slice \in Slices, row \in Rows, warm \in BOOLEAN :
    /\ slice.name \in RowedKeys \/ row = CHOOSE r \in Rows : TRUE
    /\ key = [name |-> slice.name,
              row |-> IF slice.name \in RowedKeys THEN CHOOSE r \in Rows : TRUE ELSE NoRow,
              uses |-> slice.uses]
    /\ route = [page |-> slice.page, row |-> IF slice.page \in RowedPages THEN row ELSE NoRow]
    /\ entry = IF warm THEN [Empty EXCEPT !.data = 0]
               ELSE IF ShowsKey(slice.page, route.row) THEN Asked(Empty) ELSE Empty
    /\ written = 0 /\ others = 0 /\ gone = FALSE
    /\ mount = 0 /\ navs = 0 /\ dialog = Closed /\ local = {} /\ orphaned = FALSE
    /\ requests = [r \in RequestIds |-> Unused]
    /\ due = 0 /\ missed = FALSE

User ==
  \/ \E control \in Here.controls \cap key.uses, row \in Rows \cup {NoRow} :
       OpenDialog(control, row) \/ Submit(control, row)
  \/ \E control \in Here.controls \cap key.uses : CloseDialog(control)
  \/ \E to \in DOMAIN Pages \cup {"elsewhere"} : \E row \in PageRows(to) : Navigate(to, row)
  \/ Refresh

Query  == Receive \/ FetchFails \/ Poll \/ TimePasses
Server == ServerReads \/ OthersWrite \/ \E r \in RequestIds : Commit(r)
Client == \E r \in RequestIds : Answer(r) \/ Fails(r) \/ Settle(r)

Next == User \/ Query \/ Server \/ Client

Spec == Init /\ [][Next]_vars

\* The browser and the server go on with a fetch and with a call, and a fetch that is repeated
\* does not fail for ever.  One entry has one fetch, and calls are finitely many: no step of
\* one takes the turn of another for ever.
Fairness ==
  /\ WF_vars(ServerReads \/ Poll \/ (FetchFails /\ gone))
  /\ SF_vars(Receive)
  /\ WF_vars(\E r \in RequestIds : Commit(r) \/ Answer(r) \/ Fails(r) \/ Settle(r))

LiveSpec == Spec /\ Fairness

(***************************************************************************)
(* Properties.                                                              *)
(***************************************************************************)
Versions == 0 .. MaxRequests + MaxOthers

\* The types of the variables (the state of App.tsx's router, of the pages and of the cache).
TypeOK ==
  /\ key.name \in KeyNames /\ key.row \in Rows \cup {NoRow}
  /\ \A c \in key.uses : c.call \in DOMAIN Calls
  /\ written \in Versions /\ others \in 0 .. MaxOthers /\ gone \in BOOLEAN
  /\ entry \in [data : Versions \cup {NoData}, stale : BOOLEAN, failed : BOOLEAN,
                fetch : {"idle", "asked", "answered"}, snap : Versions]
  /\ route.page \in DOMAIN Pages \cup {"elsewhere"} /\ route.row \in Rows \cup {NoRow}
  /\ mount \in 0 .. MaxNavs + MaxRequests /\ navs \in 0 .. MaxNavs
  /\ dialog = Closed \/ \E c \in Here.controls : c.dialog /\ c.name = dialog.name
  /\ dialog.row \in Rows \cup {NoRow}
  /\ dialog.sent \subseteq RequestIds /\ local \subseteq RequestIds /\ orphaned \in BOOLEAN
  /\ \A r \in RequestIds :
       /\ requests[r].phase \in {"unused", "sent", "done", "awaiting", "over"}
       /\ InFlight(r) => requests[r].control \in key.uses
       /\ requests[r].vers \in Versions
  /\ due \in Versions /\ missed \in BOOLEAN

\* A tab that was told its write was accepted shows it, or is asking for it, on every page it
\* opens afterwards (the onSuccess of the hooks against staleTime, polling and navigation).
\* Left out: the pairs of Unfollowed, the three windows of Overtaken and a Misplaced answer.
OwnWritesShown ==
  (Mounted /\ entry.fetch = "idle" /\ ~entry.failed /\ ~missed /\ ~gone) => entry.data >= due

\* A dialog that cannot be closed while it is pending (ConfirmDialog and the certificate
\* dialogs) is never closed by the answer to another opening of it.  Left out is a page that
\* has unmounted such a dialog in between: it comes back open and no longer pending, can be
\* closed and opened for another row, and is closed then by the late answer
\* (ConfirmDialog.tsx:44, 64; the early returns of GroupDetail.tsx:85-94).
HeldDialogsCloseOnTheirAnswer ==
  [][\A r \in RequestIds :
       (/\ ~orphaned /\ InFlight(r) /\ requests'[r] = Over
        /\ dialog # Closed /\ dialog' = Closed /\ route' = route
        /\ \E c \in Here.controls : c.held /\ c.name = dialog.name)
       => r \in dialog.sent]_vars

\* Every call comes to an end for its page, also when the refetch it waits for is dropped,
\* restarted or left behind (onSuccess that returns the promise of invalidateQueries).
CallsSettle == \A r \in RequestIds : InFlight(r) ~> ~InFlight(r)

\* A page that stays shows what is polled up to date in the end, or repeats a fetch that
\* failed: a job that is over, an acknowledged alert, a removed node (refetchInterval).  Only
\* an import whose first answer never came is not asked for again (useBulkJob.ts:23).
PolledCatchUp ==
  <>[](Mounted /\ key.name \in PolledKeys)
    => []<>(\/ entry.data = written
            \/ entry.failed /\ entry.fetch = "asked"
            \/ entry.failed /\ key.name = "bulk.job" /\ entry.data = NoData)
=============================================================================
