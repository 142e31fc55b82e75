# Verification of mtl-ldap-admin

mtl-ldap-admin is an administration console and self-service portal for an
OpenLDAP directory: a FastAPI backend (`backend/app`) on PostgreSQL and Redis,
Celery tasks, a React console, and install and failover scripts. It runs as one
master and any number of read-only slaves. This directory holds TLA+ modules
that model logic of the backend and of the browser (console and portal), the TLC
configurations that check them on small instances, and proofs checked by TLAPS.

## 1. Inventory

Every request and every task has a database session of its own: PostgreSQL in
READ COMMITTED, `autoflush=False`, no `SELECT ... FOR UPDATE` anywhere, one
commit at the end of most handlers and a rollback on an exception. An ORM UPDATE
writes the columns the handler changed with the values it computed from what it
read. LDAP writes take effect at once and are never rolled back. Redis calls
are single commands.

| Component | State | Operations | Hard part |
|---|---|---|---|
| Audit forwarding (`cluster_service`, `audit_service`, `cluster_tasks`) | `event_log`, `sync_queue`, `cluster.node` of every node | `log_event`, `flush_queue_once`, `ingest_audit_events`, node add/delete | overlapping tasks, lost answers, kills, check-then-insert |
| Node registry (`cluster_service`) | `cluster.node` status, heartbeat and sync times | register, heartbeat, status, sync-state | several writers derive one status |
| Settings sync (`settings_sync_tasks`, `settings_service`) | `system_setting` on master and slave | update, export, pull | per-key savepoints, secrets with another key per node |
| User directory (`ldap_user_service`, `users.py`) | LDAP entries, `user_metadata` | create, update, delete, lock, activate, password | two stores, no common transaction |
| Reconciliation (`sync_service`, `sync_tasks`) | `sync_discrepancy` | scan, resolve | stale discrepancies, overlapping scans |
| Bulk import (`bulk_import_service`, `bulk_tasks`) | `bulk_import_job`, users | sync and async import | job visible before commit, partial batches |
| Administrator sign-in (`auth_service`, `admin_service`, `jwt_service`) | failure counter, lock, challenges, sessions, blacklist | login, MFA, refresh, logout, forced password change | read-modify-write counters, one-time tokens |
| Password reset (`password_reset_service`) | `password_reset_request` rows, LDAP password | request, verify, complete | attempt counting, one-time completion |
| Portal sign-in (`end_user_auth_service`) | Redis challenges and tokens, MFA columns | login, challenge, set up and disable MFA | challenge consumption |
| Alert engine (`alert_service`, `alert_tasks`) | rules with a cooldown, alert events | evaluate, acknowledge, resolve | overlapping evaluations |
| Certificates (`shield_service`, `deployment/shield`) | certificate rows, files of the apply helper | upload, activate, delete, CSR | an external step between two commits |
| Consumer provisioning (`provision_service`) | one-time tokens | create, consume | consume-then-render with rollback |
| Administrators and roles (`admin_management_service`, `rbac_*`) | admins, roles, assignments | create, change, delete, assign | guards over other rows |
| Groups (`ldap_group_service`) | LDAP groups | create, members, delete | memberships that outlive users |
| Password expiry (`password_expiry_tasks`) | shadow lock in LDAP | daily sweep | stale password age |
| Console pages (`frontend/src/pages`, `components`, `hooks`) | React Query cache, open dialog, pending mutations, address | every page, control and mutation hook, links, polling | writes against the cache, late answers, navigation while pending |
| Console session (`lib/api.ts`, `lib/auth.ts`, sign-in pages) | token store, its copy in localStorage, refresh queue | requests, refresh, sign-in, sign-out, idle, reload | shared refresh, answers of an earlier session |
| Portal front end (`frontend/src/portal`) | session store, stages of the forms | sign-in, second factor, forced change, reset, profile | 401 on any call, late profile answers |
| Mail, SMS, chat channels, dashboard and audit queries, i18n, presentation, scripts | - | - | I/O and presentation |

Interactions: every API handler calls `log_event` inside its own transaction,
which feeds the forwarding queue and the alert engine; the bulk task calls the
user directory; reconciliation reads what the user directory, the portal and
the bulk task write; the settings pull carries the policy that password reset
and the sweep use; the failover scripts act on the same LDAP and database from
outside and are not modelled. The browser reaches the backend by HTTP only: the
pages call it through one axios client whose interceptors are the console
session, the portal through a client of its own; the settings pages use a third
client without refresh.

What must be right, per component: *forwarding* - nothing shown as delivered
that the target does not know, no loop, no forwarding of rolled-back events,
every row settles; *registry* - the status follows the last signal; *settings
sync* - a slave converges to the master; *user directory and reconciliation* -
every difference between the stores is found and a resolution never destroys
what is no longer different; *bulk import* - the job's numbers and final status
match what happened; *sign-in and reset* - counters bound the attempts, one-time
tokens work once; *alerts* - at most one alert per cooldown; *certificates* - the
active row is the one in use; *roles* - guards hold under concurrency; *console
pages* - what the tab was told is written it also shows, no answer closes a
dialog it is not about, every mutation ends; *console session* - a refresh token
is used once, the tokens are the user's, no request is left waiting; *portal
front end* - a forced change is not walked past, the factor shown is the
server's.

## 2. Plan

Order of work, most important behaviour first:

1. `AuditForwarding` with its abstract specification `AuditReplication`
   (refinement proved), proofs in `AuditForwardingProofs`. Done.
2. `DirectorySync`: user CRUD over LDAP and database, scan and resolve, proofs in
   `DirectorySyncProofs`. Done.
3. `PasswordReset` with its abstract specification `ResetRequests` (refinement
   proved) and `AdminSignIn`: attempt counters and one-time tokens, proofs in
   `PasswordResetProofs` and `AdminSignInProofs`. Done.
4. `BulkImport` with its abstract specification `ImportReport` (refinement
   proved), proofs in `BulkImportProofs`. Done.
5. The browser: `ConsolePages` over the tables `ConsoleCalls`, `PageControls`,
   `DirectoryPages`, `AdminPages`, `OperationsPages`, `SystemPages` and `Console`;
   `ConsoleSession` and `Portal`; `MCBrowser` composes the three, proofs in
   `BrowserProofs`. Done.
6. `UserAccess`, one module for portal sign-in, the user's second factor, the
   password change and the sweep, since they meet in the user's LDAP entry.
7. `ClusterUpkeep`, one module for node status, provisioning tokens and the
   settings pull, since they share the node table and the beat.
8. `CertificateStore`, then alerts and roles.
9. Further proofs: `ThrottleHolds` and `OverIsOver` of the reset; `SignsInOnce` and
   `OneTokenPerSignIn` of the sign-in; `StoredAtMostOnce` of the forwarding up to its
   race; `PresenceAgrees`, `CreatesAgree` and `QuietScanIsExact` of the directory;
   `OwnWritesShown` and the held dialogs of the pages in `ConsolePagesProofs`. Done:
   every safety property of a passing run has its theorem. The browser as it is
   composed (`BrowserTypes` and what follows it) and the reset as an implementation of
   `ResetRequests`: done. With items 6 to 8 come theirs.

Every component gets one or two runs with several properties each rather than a
run per property. Worth an abstract specification of the kind of `ResetRequests`: a
one-time token (unissued, open, spent), which challenges, change tokens and
provisioning tokens all implement up to their races.

## 3. Modules

### AuditForwarding

State and code: `log[n][e]` counts the copies of an event in `event_log` of node
`n`; a queue row is a triple of the node that stores it, the event and the
target, with `status`, `attempts` and `due` (`next_attempt_at <= now`);
`registry` is `cluster.node`. A caller's transaction is `LogBegin` (the targets
are read), then `LogCommit` or `LogRollback`. A flush task goes through
`FlushSelect` (rows read without a lock), `Post` or `TargetMissing` per target,
`PostSucceeds`, `PostFails` or `PostTimesOut`, the `Mark...` actions (the
UPDATEs are flushed and hold row locks) and one `Commit`; `Killed`, `StaleNode`
(the UPDATE of a deleted node matches nothing) and `DeadlockVictim` roll it
back. The receiver is `IngestCheck` (the duplicate queries) and `IngestCommit`.
`DeleteNode` and `AddNode` are the administrator.

Abstractions: time is reduced to `due`; the order of `queued_at` within a batch
is left open; signatures are valid; `Key` stands for what the duplicate query
compares; the duplicate queries of one request are one step. A non-database
failure of `enqueue_audit_event` is not modelled: its only failures are
database errors, and those abort the caller's transaction (`LogRollback`).

Bounds: `MaxFaults` caps rollbacks, timeouts, lost requests and kills;
`BatchSize` and `MaxAttempts` are small in the runs and arbitrary in the proofs.
Two tasks and two request slots are enough for every race of a task, a request or
a row with another one, and two slaves for two tasks that wait for each other's
rows. The runs use one event: rows of different events meet only in a batch, where
each row is handled by itself; the proofs hold for any set of events.

Fairness: beat starts a flush every ten seconds and a started task or handler
goes on (`WF` on the task, on the receiver and on the passing of a backoff).
Nothing is assumed of writers, administrators or faults.

Runs: `fwd_overlap` (a master with two slaves, overlapping tasks, one fault) checks
the safety properties and the refinement; `fwd_live` (one slave, `MaxAttempts` = 2,
one fault) that every row settles and its event is delivered unless it
used up its attempts. `fwd_duplicate` shows a disagreement: two overlapping
flushes store one event twice, against the duplicate check's comment. Two more
were met and are not run: the duplicate query leaves out `actor_display`, so two
events that differ only there count as one; and a flush that read a row before
its node was deleted writes `failed` over `abandoned`.

### AuditForwardingProofs

`TypeCorrect`: type correctness. `NoFalseSent`: `SentMeansCovered` is not
inductive, since a row becomes sent long after the target answered.
`DeliveryInv` adds what travels in between: a request that was checked carries
only events that are covered or about to be inserted, an answered one only
covered events (`RequestsCovered`), a task waits for one request and that
request carries its group (`OneRequestEach`), and a task that has an answer or
an uncommitted mark has covered rows (`TasksCovered`). Logs never shrink
(`LogNeverShrinks`), so coverage is stable. `NoFalseSentDistinct` specialises it
to distinct keys.

`NothingForwardedEarly`, `NoLoop` and `ReplicationImplemented` come from
`ForwardingInv`: wherever a row appears - queued, selected, in a request, marked -
it is `Genuine`, that is, its event is committed where it happened and its target
is on the other side; the drafts of open transactions point outward, and what a
log holds it either recorded itself or got from a genuine row. With it each step
is a step of `AuditReplication` or a stutter: `LogCommit` records, `IngestCommit`
replicates what its request found missing, and every change of a status is a
`Report`, whose claims `NoFalseSent` covers.

`StoredOnceApart` is about what `fwd_duplicate` refutes in general: an event is stored
twice only through two requests that stand between check and commit at one node.
Where there are never two (`ChecksApart`, a condition on the behaviour and not on the
model), `FreshIsNew` makes `StoredAtMostOnce` inductive: what a checked request is
about to insert is not there. `StoredOnce` draws the conclusion for a receiver with
one connection, the case of `fwd_live`. Assumptions: `ForwardingAssumption` only.

### DirectorySync

State and code: `ldap[u]` is the entry, `meta[u]` the `user_metadata` row with its
primary key, `reports` the rows of `sync_discrepancy`. An administrator's request
is a record that goes from stage to stage, one per await: LDAP first (`...Modify`,
`DeleteEntry`, `CreateAdd`), then the row is read (`SelectRow`, `CreateSelect`) and
committed (`...Commit`); an update looks for its entry once more before it commits
(`UpdateRead`). `Update` writes the columns that differ from what was
loaded, `Insert` runs into the unique constraint, `RequestFails` is an exception
or a crash that leaves LDAP as it is. A scan reads LDAP, the rows and the open
reports in three steps and commits the reconciled set; `Kept` leaves open which
of several copies the query returns first. `DirectoryEdit` is any other client.

Abstractions: `mail` behaves like `displayName` and is left out, as is
`diff_details`; an LDAP search is one snapshot; reads and updates of rows happen
at the query and at the commit.

Runs: `sync_scans` (two scanners, faults and foreign edits) checks the lists the
scans leave; `sync_creates` (two administrators at once, creates and `create_db`)
that entry and row come from one request; `sync_live` (one administrator, all
operations) that differences are found and reports of what has gone are closed,
under weak fairness of a running request and of the hourly scan. `sync_destroys`
shows a disagreement: a resolution deletes the entry or the row of a user who is
in both stores by now. Met and not run: the second of two resolutions overwrites
the first one's `resolution_action`. Bounds: one user is enough, since every
query and every report concerns one uid; `MaxRequests`, `MaxEdits`,
`MaxFaults` and `MaxReports` cap what only grows.

### DirectorySyncProofs

`TypeCorrect` from `TypeInv`, which adds to `TypeOK` what a request carries at its
stage (`Carries`). `NoDuplicateReports` proves `OneReportPerScanner`: it is not
inductive alone, since a commit relies on what its scan read. `OwnReportsRead`
says that a scan about to commit knows every open report of its own slot, which
stays true because only the slot itself inserts them.

`SerialPresence` proves `PresenceAgrees` for behaviours without overlapping requests
(`OneAtATime`, the one administrator of `sync_live`) and resolutions that destroy
nothing: `PresenceInv` says that a user is in one store only while a create or a
delete is between its two writes, and what that request relies on (`Half`).
`OverlappingCreates` proves `CreatesAgree` for any overlap of creates and harmless
resolutions: in `CreatesInv` a row says what its entry says (`Copied`), an entry
without a row has a create that is about to commit, and whatever a request carries is
what the entry says (`Made`), so that it does not matter which of two writers of a row
comes first. Both speak of states before any fault or foreign edit, like the runs.
`QuietScans` proves `QuietScanIsExact` for a finite `User`: `Reconciled` leaves one open
report per difference, and ids are not used twice (`IdInv`), so that the count is that
of the differences.

Assumptions: those of `DirectorySync`, among them `NullAssumption` (no entry and no row
is the value that means "none"). The proofs needed it, and needed the cases of
`Differences` to exclude each other, which had left open what a user in neither store
is reported as.

### PasswordReset

State and code: `row` is the table `password_reset_request`, rows numbered in the
order of `issued_at`; `recent` of a row says that it is within the throttle
window, `fresh` that it has not expired; a call in progress holds the row it read
(`VerifySelect`,
`CompleteSelect`) and writes it at its commit. `CompleteModify` is the LDAP write
between the two. Refused calls change nothing and have no action; wrong calls
count. `CallFails` loses what was not committed. Histories, read by properties
only: `together` (calls that worked on a row at once), `raced`, `answered`,
`changes`.

One user is enough: no query reaches over users. Time is reduced to the window
passing and a row expiring. The run `reset_calls` checks that attempts are
bounded, that the throttle holds, that a request changes the password once, that
a completed one has changed it and that what is over stays over, each up to the
races its comment names, and that the whole implements `ResetRequests`. Two calls and two rows are enough: a race is of two
calls, and no rule relates more than two rows.

### ResetRequests

What the three calls promise of a request, as if each did its work at one moment:
`Ask`, `Miss` and `Hit` (a wrong and a right code), `Set` (the token is spent by
setting the password), `Settle` (the commit that follows) or `GiveBack` (a failure
in between, the only way a token comes back), `TimeIsUp`, `Expire` and `Lock`, each
with the reason it needs at that moment. `Set` never happens to a request that was
changed more often than calls have failed.

`View` maps a row to its request: code, token, record or void by its status
(`Right`), spent while a call stands between its LDAP write and its commit, nothing
before the insert commits. Tries and sets are the histories `answered` and `changes`,
not the column, so that the column's arithmetic is what the refinement tests. A
request that two calls met on is contested (`Meet`) and stays so: nothing is promised
of it, since the code has no lock there. Calls can meet only on a code, a token or a
spent token. What a call read before does not show, nor do throttle and
`issued_at`, which relate several requests (`ThrottleHolds`). `Reliable` is what users
take from it.

### PasswordResetProofs

`TypeCorrect`, `AttemptsAreBounded`, `OneChangePerRequest` and `CompletionIsReal`
from one inductive invariant `ResetInv`: rows not issued are untouched
(`UnusedRows`), a call works on an issued row (`CallsHaveRows`, `RowsAreIssued`),
as long as no two calls met on a row its call is alone (`Exclusive`) and what it
read still holds (`ReadsHold`), and the histories agree with the counters
(`CountsHold`). The races are in the statements, not assumed away: a row in
`raced` is exempt because the code has no lock there.

`ThrottleIsKept` (`ThrottleHolds`) needs `ThrottleInv`: what is inserted next to a recent
row, or to another row about to be inserted, was handled together with it
(`InsertsBesideRecent`, `InsertsBesideInserts`) - the check of `request_reset` is old
by its commit, and this says how old. `OverStaysOver` (`OverIsOver`) follows from
`ReadsHold`: a call that is to write a status has read one that is not over, so that
without a race the row of an over one is nobody's.

`RequestsAreAtomic` (`ImplementsRequests`) has a lemma per action: the commit of a call
is an operation on its request, a read is none unless two calls meet, and a failure
gives a token back when LDAP had been written. An operation needs its reason at the
commit, while the call had it at the read: that is `ReasonsHold` (`ReasonsStillHold`),
inductive together with `ResetInv`, because a call that nobody raced with is alone with
its row (`Alone`) and only the clock can touch it. It also makes attempts exact where
`CountsHold` had a bound. `CommitViews` is the step that counts: a commit changes how
its own request looks and no other. `PromiseIsReliable` is about `ResetRequests` alone:
its operations keep `Reliable`, so that the refinement carries the bounds on attempts
and changes and is not a relabelling of the calls.

### AdminSignIn

State and code: `account` is the `admin_account` row (its lock either none, on or
run out); `challenge`, `used` and `blacklist` are the Redis keys, `family` the
refresh tokens with the sign-in they go back to, `change` the
`password_change_token` rows; `dbPassword` and `ldapPassword` number the password
each store holds. A call holds the columns it read. `Miss` is
`register_failed_login`, `Grant` is `_finalize_login`, `RefreshCheck` and
`RefreshRotate` the two halves of a refresh; one that fails in the second half may
leave the old token blacklisted and no new one answered (`CallFails`). A password change flushes its UPDATE
(`Flush`), writes LDAP (`LdapModify`, or `LdapError`, which the code only logs) and
commits (`Store`).

The ORM writes only columns that differ from what was read (`MustStored`,
`CounterCleared`). PostgreSQL's row lock makes a second UPDATE wait between the
flush and the commit of the first (`RowFree`; for a token row, `Consume`). One
account is enough: every statement filters by its id. Left out: set-up tokens and
pending enrolments, deletion of an account, expiry of challenges and tokens,
access tokens; `max_age_days` is left open in `Grant`.

Histories: `misses` and `lapses` count wrong passwords and locks that ran out,
`granted` the sign-ins of a challenge or code, `raced` what two calls worked on at
once - the counter, a challenge, a code (also one whose mark ran out after 65 s
while the code lives up to 90 s), a refresh token. The run `signin_calls` checks
that guesses are bounded, that a challenge, a code and a refresh token count once
up to those races, and that what a password change commits is what LDAP holds.
Two calls are enough for each race, which is always of two; `MaxBegun` = 5 leaves
room for a lock, its lapse and a further miss at `Threshold` = 2.

### AdminSignInProofs

`TypeCorrect` from `TypeInv` (a call carries what its stage needs), `StoresAgree`
(`PasswordsAgree`) from `PasswordInv`: one call at a time is between flush and
commit, and none has written LDAP before; `GuessesAreBounded` (`GuessesBounded`)
from `CounterInv`: as long as no two calls met on the counter, a call that will
write it is alone and has read its present value, and an account that is not
locked has a guess left. `OneSignInEach` (`SignsInOnce`) comes from `ChallengeInv` and
`CodeInv`: a challenge or code not raced on is in the hands of at most one call, and of
none once it has led to a sign-in. `RotationRevokes` (`OneTokenPerSignIn`) comes from
`RotationInv`: a call that rotates is alone with its sign-in and every other token of
that sign-in is revoked, unless one was presented twice at a time. All for any number of calls, tokens
and thresholds; `SignInAssumption` says that challenges and codes are different
things, since one history counts both.

### ImportReport and BulkImport

`ImportReport` is what the page of a bulk job promises: its counters speak of
changes that are committed together with them (`Report`), completed means every
item was carried out, and only the marking of a failure changes a job that is over
(`Fail`). `BulkImport` is how the code gets there. `req` is what was submitted,
`queue` the broker, `open` the requests between the send and their commit, `job`
and `meta` the committed tables, `ldap` the entries, `made` (a history) the items
whose effect is committed. `work[j]` is the loop of a batch with its transaction:
the next item, the counters, the stage within the item, and the rows inserted
(`put`), deleted (`cut`) and updated (`touched`) but not committed.

An item is a call of the user service, one action per await: `Search` (the LDAP
search, with the LDAP change of an update or a delete), `Select` (the row),
`Add` (the LDAP add of a create), `Insert`, `Update` or `Delete` (the flush) and
`Reread` (the `get_user` that ends an update). `Counted` is what the loop does
with the result. `Progress` and `Finish` are the commits. A statement that fails
rolls the transaction back and leaves a session that refuses every other
statement (`Broken`), since the loops catch the exception without a rollback.
A flush waits for a row that another transaction has changed (`Blocked`);
PostgreSQL fails one of the batches that wait in a ring (`DeadlockVictim`).

Abstractions: an entry or a row is named by the item that created it and attribute
values are left out; the audit events of the requests are left out; a synchronous
batch is submitted with an item at least (with none it only writes a finished row).

Run `import_batches`: two batches over two users, every kind, both orders and one
user twice, `Chunk` = 1 so that a commit falls between any two items, and one
failure anywhere. Two batches are enough for a race on a user or a ring of locks,
which both join two. Fairness: a request, a task and the worker go on
(`WF` of `Step(j)`). Deadlock is not checked since the batches come to an end.

Met while modelling, and described by the model as they are: a worker that is
faster than the commit of the request finds no job, and the job stays pending for
ever (`JobsSettle` exempts it); `skip` turns no failure into a success and `fail`
stops no synchronous create, because both look for an error code in a text that
holds only the message; the last write replaces the number of lines that could not
be parsed; the row of a user created again between the LDAP delete of a batch and
its lookup of the row is deleted too (`SameOrigin` exempts users in a bulk delete);
and a task whose last commit went through but whose answer was lost ends as failed.

### BulkImportProofs

`TypeCorrect`, `SameOriginHolds` and `ReportImplemented` (`ImplementsReport`), all
from `ImportInv`. The page is right because of `Counting`: ok and bad add up to the
items the loop has passed, and as long as no statement has failed, ok is the number
of items that are committed or in the open transaction; a loop with no failed item
has done all. A failed statement breaks this, but also the session (`broken`), so
the counters are never committed. `Locked` (no row is changed by two transactions)
and `Updated` (an updated row exists) give that a commit leaves the rows it counts.
`SameOrigin` needs `EntryFirst`: a create has its entry before its row, and only a
bulk delete removes entries. Assumptions: `ImportAssumption` only.

### ConsolePages and its tables

State and code: the tables say what the code declares. `ConsoleCalls` has a row per
mutation hook: whose row it is about, which query keys its `onSuccess` invalidates,
fills (`setQueryData`) or drops, whether it returns the promise of the refetch - and,
from the handlers, which keys the accepted call changes. `PageControls` has the
kinds of controls (a button, a form in a `Modal`, a `ConfirmDialog` that is held
while pending) and what of a pending call they keep in themselves (`keeps`), `DirectoryPages` to `SystemPages` a record per page: the queries it
shows, those it is gated by, what its refresh button refetches, its controls and
links; `Console` joins them by the routes of `App.tsx`.

`ConsolePages` runs them. `entry` is a cache entry with its fetch (React Query runs
one per key: `ServerReads`, `Receive`, `FetchFails`), `route` and `mount` the page,
`dialog` the open dialog and the calls sent from it, `requests` the mutations in
flight. A mutation is `Submit`, `Commit` on the server, `Answer` (the `onSuccess`,
then what the page does) and, where the hook awaits its refetch, `Settle`. A
mutation takes its callbacks from the last render, so that an answer finds the
row the page or dialog is about by then (`Rebound`, `BoundToDialog`).

A page that is gated by a query returns early while it loads or has failed, and so
unmounts what it shows; which dialog is open for which row is its own state and
survives. `Rendered` is that: when the gate is shut or another page mounts, the
controls forget what they kept of their calls (`local`, `dialog.sent`). A
`ConfirmDialog` then comes back open and not pending, can be closed and opened for
another row, and is closed by the late answer; `orphaned` notes that a page has
unmounted a pending one.

A behaviour watches one key and uses some controls (a slice). This loses nothing
for the properties, which speak of one key: entries of different keys meet only in
what one call does to each of them. The data of a key is the number of accepted
writes behind it that the answer reflects, which is what the properties compare.
`MCConsolePages` takes every page with every control and every key it touches, and
pairs of controls that meet in one entry.

`OwnWritesShown` names what the code leaves out: `Unfollowed` are calls whose hooks
do not reach a key (group changes and a user's groups, a resolution or an import and
the users, password and MFA resets and the lists, every call and the dashboard, a
changed setting and the session policy, a certificate's detail), `Overtaken` the
answers that an older one overwrites, `Misplaced` an answer stored under another
row. `HeldDialogsCloseOnTheirAnswer` speaks of held dialogs, since forms can be
closed while pending and do not have the property, and of pages that have not
unmounted one while it was pending (`~orphaned`): without that condition it is false,
of the code as of the model.

### ConsolePagesProofs

The tables come first. `CallTable` goes through every hook: each key an accepted call
changes is filled, invalidated or dropped, or the pair is in `Unfollowed`
(`FollowedUp`). `PageTable` goes through every page: its controls start calls of the
table, are told apart by their names, and a held one locks (`WellMade`, `Composed`).
These are statements about the tables, not about instances: a hook that forgets a key,
or two controls of a page with one name, would make them false.

`OwnWritesAreShown` (`OwnWritesShown`) rests on `EntryKinds` (types), `CallsKnown` (a call in
flight comes from a control in use and its version is written) and `Current`: an
answer of a fetch reflects every acknowledged write, the entry does or is known not to,
and what an idle page shows does. The property alone is not inductive, since a page
that mounts later shows what the entry was left with while no page looked.

`HeldDialogsWait` (`HeldDialogsCloseOnTheirAnswer`) rests on `Places` (an open dialog is
one of the page) and `DialogsKnown`: calls of the mounted component were sent by its
controls (`OwnControls`), those of a held dialog by the dialog that is open, unless the
page is `orphaned` (`HeldAreSent`, which is why the dialog has to be held), and a
control that locks has one call at a time. `FinishesOwn` is the step where they meet: an answer closes the dialog by
name, a name is one control, and its call is among those sent from this opening.

`ConsoleTypeOK` (`TypeOK`) has the bounds: `AllBehind` and `Counted` say that every
version is behind a write of others or an accepted call, and every mount behind a link
or a call that is over. All for any set of rows and slices and any number of calls,
links and foreign writes. Assumption: `ConsoleAssumption`, by which there is a row and
a slice uses controls of its page. For the proofs the tables are joined by `With`, and
the next free call is the one that `IsNext` describes.

### ConsoleSession

`store` is the Zustand store and `disk` its localStorage copy (they differ between a
password change and the redirect after it); `live` and `fresh` are the pairs whose
refresh and whose access token the server takes; `request` are API calls,
`renewal` the one refresh in flight, `attempt` the calls of the sign-in and change
pages, `logout` the call of the menu or the idle timer. `NothingToRefresh`, `Enqueue`
and `StartRefresh` are the branches of the response interceptor, `Rotate` the
server's half of a refresh. `Reload` drops every call.

Of the sign-in calls the interceptor leaves out `/auth/login` only. The others go
through it (`SignInUnauthorized`): a 401 of a challenge or of a change with a token
ends the session that is stored, or waits for its refresh and is repeated
(`TriedAgain`), and is given up with it (`GivenUp`).

`crossed` is a history: set when a refresh ends after its session did
(`updateTokens`), or the profile page stores an answer cached for another
administrator. Both are possible in the code and exempt in `SessionOfItsUser`.

`TokenSpentOnce` and `SessionKeepsItsUser` are proved from `SessionInv`, which adds to
the types `Tokens`: only issued pairs are stored or refreshed (`OnlyIssued`), the pair
that may be presented next has not been presented yet (`Unspent`), a rotated pair
has the owner of the one it replaces, and what is stored is the user's unless
`crossed` (`OwnersKept`). Without `Unspent` the counter alone is not inductive: a
finished refresh could store a pair that was used. Assumption: `SessionAssumption`.

### Portal

`session` is the store, `place` and `form` the page and the stage of its form, `job`
the calls; `valid`, `forced` and `factor` are the server's tokens, those issued with a
forced change, and the second factors; `timely` is `expires_at` as the browser reads
it. A form is `SendForm`, then the action its answer takes: `LoginAnswer`,
`ResetAnswer`, `SetupAnswer`, `Verified` with `ServeProfile` and `StoreProfile`,
`PasswordChange`; `Denied` is the 401 interceptor, `CallFails` every other failure.

The history `astray` is set when a profile answer got lost after a right code, or
came after a newer one or to another session. The history `handed` is set when the
profile after a code is asked for by a forced session that was opened while the code
was checked: the store hands out its token by then (`Verified`; `portalApi.ts:71`), and
the answer, which is the session's own, clears the flag. `ForcedChangeHolds` is about
behaviours with neither, and is false of the code and the model with either one left
out; `FactorShown` needs `astray` only, since the refetch stores the right factor.

`ForcedChangeKept` and `FactorShownKept` are proved from `PortalInv`: the types and
`Sound`, which says that only issued tokens are used (`InUse`), that up to `astray`
and `handed` a forced session keeps its flag and no profile is asked for in it
(`FlagKept`), and that up to `astray` the factor shown is the server's but for the
profile on its way (`FactorKept`). Assumption: `PortalAssumption`.

### MCBrowser

The three share no state but the token a request carries, which the pages leave to
the session; `MCBrowser` runs one of them in a behaviour (`flow`) and keeps the
others idle, so that two runs serve all three.

`browser_safety`: all slices, two calls, one link; two API calls, two sign-in calls,
three pairs, one fault; three portal calls with two tokens. Two calls are enough for
a race of answers, and one link for a page that is left, beside the navigation of
the calls themselves; three pairs are a session, its refresh and one more. The second
sign-in call is there so that one can wait for the refresh of another
(`SignInUnauthorized`); the constraint `FewSignIns` follows it only while a pair is
left to issue, nothing has gone wrong and no profile is cached, which keeps the run
short; with one sign-in call everything is followed. Three portal calls and two
tokens are a code, another sign-in and the profile between them. The run
has no writes of others, which could only make the data newer. `browser_live`:
slices whose keys are polled or whose calls await a refetch, with one write of
others; no faults, since a fault of the session only ends a request. Deadlock is not
checked, since calls, links and tokens are used up.

Fairness: browser and server go on with a fetch and a call (`WF`), and a repeated
fetch does not fail for ever (`SF` of `Receive`: polling starts it again and again).
Requests and the refresh call go on (`SessionFairness`); nothing is assumed of users.

Met while modelling, and in the model as they are: an acknowledged or resolved alert
is stored under the event whose dialog is open by then (`useAlerts.ts:73`); a filled
key is overwritten by a GET that was under way; two saves of settings may answer in
the wrong order (`useSettings.ts:36`); forms can be closed while pending and the late
answer closes the dialog opened since; a `ConfirmDialog` that a failed refetch took from the
page (`GroupDetail.tsx:85-94`, `AdminDetail.tsx:77-86`, `UserDetail.tsx:71-80`) comes
back without its pending state and is closed by the late answer for another row
(`ConfirmDialog.tsx:44`, `64`; lines 23-26 say that it cannot be confirmed again
before its call is over); plain buttons do not lock; a late answer of a
create or delete navigates whatever the page is by then; an import whose first answer
fails is not polled again (`useBulkJob.ts:23`); a failed refresh never answers the
requests in its queue (`api.ts:82`); a refresh that outlives its session puts its
tokens into the next one (`api.ts:75`), and a late menu sign-out clears a newer
session (`Header.tsx:80`); a reload during a refresh loses the session; the portal
signs out and reloads on any 401, a mistyped code included (`portalApi.ts:91`); a late
profile clears a forced change (`PortalProfile.tsx:26`, `PortalMfa.tsx:64`), and so does
the one after a code that a forced session, signed in to meanwhile, asks for itself
(`PortalMfa.tsx:63`, `portalApi.ts:71`); a late
check of a reset code leads on after "back" (`PortalReset.tsx:98`).

### BrowserProofs

Session and portal are proved alone first, each from its invariant (`SessionInv`,
`PortalInv`, above). Then the browser: `StepsApart` says that each of its steps is a
step of the pages, of the session and of the portal, or leaves that one as it is, and
`StartsApart` that it starts where they start. So it implements the specifications of
the session and the portal (`BrowserImplementsSession`, `BrowserImplementsPortal`), and
their theorems carry over. The pages start at no page in a behaviour that runs another
part, which is no initial state of `ConsolePages`: theirs is carried over by the
invariant `PagesInv` (the conjunction of those of `ConsolePagesProofs`), which holds of
idle pages, too (`PagesInvIdle`). What the runs check of the composition is what is
proved of it: `BrowserTypes` (`BrowserTypeOK`), `BrowserKeepsComponents` and
`BrowserHoldsDialogs`, with the conditions the properties name (`orphaned`, `handed`,
`astray`, `crossed`): in the theorems as in the runs these are states of the model, not
assumptions about it.

## 4. What is proved and what is checked

Proved for every value of the constants, with the assumptions and conditions named
above: every invariant and every action property of the passing runs, and three
refinements: `AuditForwarding` of `AuditReplication`, `PasswordReset` of
`ResetRequests` and `BulkImport` of `ImportReport`. Three of the theorems hold under a condition that is in their
statement, because the code does not keep the property without it: `StoredOnceApart`,
`SerialPresence` and `OverlappingCreates`. The conditions are those of the runs.

Checked on the small instances of the runs only: liveness, which is outside the
prover's reach (`RowsSettle`, `RowsDelivered`, `DifferencesReported`,
`SettledReportsClosed`, `JobsSettle`, `CallsSettle`, `PolledCatchUp`,
`RequestsSettle`).

The two properties that runs refute, `StoredAtMostOnce` with overlapping requests and
`DestroysOnlyOrphans`, are disagreements and have no theorem as they stand.

### Not modelled

Of the backend, the components of plan items 6 to 8 for now. Of the browser,
presentation, filters and pagination (one key stands for all of a list), validation
of fields, and a second tab (the stores do not listen to storage events). Gateways,
read-only queries, password policy, scripts and migrations are left out for good:
they keep no state that these properties speak of.
