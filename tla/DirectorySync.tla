--------------------------- MODULE DirectorySync ---------------------------
(***************************************************************************)
(* End users live twice: as LDAP entries and as rows of user_metadata.     *)
(* The user service (backend/app/services/ldap_user_service.py, behind     *)
(* api/v1/users.py) writes LDAP first, at once and for good, and commits   *)
(* its row later or never.  The reconciliation (sync_service.py) compares  *)
(* the two stores every hour or on demand, records the differences in      *)
(* sync_discrepancy, and lets an administrator resolve a recorded one.     *)
(* Requests and scans interleave; a request may fail between its steps.    *)
(***************************************************************************)
EXTENDS Naturals, FiniteSets

CONSTANTS
    User,         \* LDAP uids
    Name,         \* names (cn, displayName)
    Admin,        \* administrator requests that may run at the same time
    Scanner,      \* scans that may run at the same time
    Operation,    \* kinds of requests administrators make
    Resolution,   \* resolutions administrators ask for
    MaxRequests,  \* bound: requests begun
    MaxFaults,    \* bound: requests and scans that fail half-way
    MaxEdits,     \* bound: changes another LDAP client makes
    MaxReports,   \* bound: scans that have found something new
    Null          \* no entry, no row, no name, no report

ASSUME SyncAssumption ==
    /\ Operation \subseteq {"create", "update", "delete", "lock", "reset_mfa", "resolve"}
    /\ Resolution \subseteq {"create_db", "delete_ldap", "delete_db", "sync_attribute", "ignore"}
    /\ MaxRequests \in Nat /\ MaxFaults \in Nat /\ MaxEdits \in Nat /\ MaxReports \in Nat

VARIABLES
    ldap,        \* per user: the LDAP entry
    meta,        \* per user: the user_metadata row (ldap_uid is unique)
    nextRow,     \* the next fresh user_metadata.id
    reports,     \* the rows of sync_discrepancy
    nextReport,  \* the next fresh batch number of reports
    request,     \* per administrator: the request in progress
    scan,        \* per scanner: the scan in progress
    begun, faults, edits

storeVars == <<ldap, meta, nextRow>>
vars == <<ldap, meta, nextRow, reports, nextReport, request, scan, begun, faults, edits>>

Kind == {"orphan_ldap", "orphan_db", "attribute_drift", "mfa_flag_drift"}
Key  == Kind \X User
Closing == {"create_db", "delete_ldap", "delete_db", "sync_attribute", "ignore",
            "superseded", "auto_resolved"}
\* displayName is optional; mail behaves like it, without the fallback to cn.
Entry == [cn : Name, displayName : Name \cup {Null}, mfa : BOOLEAN]
MetaRow == [id : Nat, name : Name \cup {Null}, mfa : BOOLEAN]
ASSUME NullAssumption == Null \notin Entry /\ Null \notin MetaRow
\* A report is named by its key and batch; by is the scan that inserted it
\* (not a column: the properties speak of it), closed its resolution_action.
Report == [key : Key, batch : Nat, by : Scanner, db : Nat, closed : Closing \cup {"open"}]
ReportId == Key \X Nat
Id(r) == <<r.key, r.batch>>
IsOpen(r) == r.closed = "open"

RequestPC == {"idle", "create_select", "create_add", "create_commit",
              "update_select", "update_read", "update_commit", "delete_select", "delete_commit",
              "lock_commit", "mfa_select", "mfa_commit",
              "resolve_ldap", "resolve_select", "resolve_commit"}
Request == [at : RequestPC, user : User \cup {Null},
            cn : Name \cup {Null}, name : Name \cup {Null},
            row : MetaRow \cup {Null}, entry : Entry \cup {Null},
            report : Report \cup {Null}, action : Resolution \cup {Null}]
NoRequest == [at |-> "idle", user |-> Null, cn |-> Null, name |-> Null,
              row |-> Null, entry |-> Null, report |-> Null, action |-> Null]

Scan == [at : {"idle", "select", "existing", "commit"},
         ldap : [User -> Entry \cup {Null}], meta : [User -> MetaRow \cup {Null}],
         existing : SUBSET ReportId]
NoScan == [at |-> "idle", ldap |-> [u \in User |-> Null], meta |-> [u \in User |-> Null],
           existing |-> {}]

TypeOK ==
    /\ ldap \in [User -> Entry \cup {Null}]
    /\ meta \in [User -> MetaRow \cup {Null}]
    /\ nextRow \in Nat \ {0}
    /\ reports \subseteq Report
    /\ nextReport \in Nat
    /\ request \in [Admin -> Request]
    /\ scan \in [Scanner -> Scan]
    /\ begun \in Nat /\ faults \in Nat /\ edits \in Nat

Init ==
    /\ ldap = [u \in User |-> Null]
    /\ meta = [u \in User |-> Null]
    /\ nextRow = 1
    /\ reports = {}
    /\ nextReport = 0
    /\ request = [a \in Admin |-> NoRequest]
    /\ scan = [s \in Scanner |-> NoScan]
    /\ begun = 0 /\ faults = 0 /\ edits = 0

Exists(u) == ldap[u] # Null
HasRow(u) == meta[u] # Null
Fault == faults < MaxFaults /\ faults' = faults + 1

\* A new request of administrator a; its LDAP effect is the caller's.
Begin(a, req) ==
    /\ request[a].at = "idle"
    /\ begun < MaxRequests
    /\ begun' = begun + 1
    /\ request' = [request EXCEPT ![a] = req]
    /\ UNCHANGED <<meta, nextRow, reports, nextReport, scan, faults, edits>>
Goto(a, pc) == request' = [request EXCEPT ![a].at = pc]
\* The answer: success, or an error that changes nothing more.
End(a) == request' = [request EXCEPT ![a] = NoRequest]

\* INSERT at commit: ldap_uid is unique, a second insert is rolled back.
Insert(u, name, mfa) ==
    IF HasRow(u)
    THEN UNCHANGED <<meta, nextRow>>
    ELSE /\ meta' = [meta EXCEPT ![u] = [id |-> nextRow, name |-> name, mfa |-> mfa]]
         /\ nextRow' = nextRow + 1
\* The ORM's UPDATE by primary key writes the columns whose value differs
\* from what was loaded; a row that is gone fails the transaction.
Update(u, loaded, name, mfa) ==
    /\ meta' = IF HasRow(u) /\ meta[u].id = loaded.id
               THEN [meta EXCEPT ![u] =
                        [id |-> loaded.id,
                         name |-> IF name # loaded.name THEN name ELSE meta[u].name,
                         mfa |-> IF mfa # loaded.mfa THEN mfa ELSE meta[u].mfa]]
               ELSE meta
    /\ UNCHANGED nextRow
\* DELETE by primary key; a row that is gone is not an error.
Delete(id) ==
    /\ meta' = [u \in User |-> IF HasRow(u) /\ meta[u].id = id THEN Null ELSE meta[u]]
    /\ UNCHANGED nextRow

-----------------------------------------------------------------------------
(* create_user: LDAP search, row lookup, LDAP add, insert and commit.      *)

CreateSearch(a, u, cn, name) ==
    /\ ~Exists(u)
    /\ Begin(a, [NoRequest EXCEPT !.at = "create_select", !.user = u, !.cn = cn, !.name = name])
    /\ UNCHANGED ldap

CreateSelect(a) ==
    /\ request[a].at = "create_select"
    /\ IF HasRow(request[a].user) THEN End(a) ELSE Goto(a, "create_add")
    /\ UNCHANGED <<storeVars, reports, nextReport, scan, begun, faults, edits>>

\* Mutants of CreateAdd: the result of conn.add is not looked at; cn and
\* displayName are swapped.
CreateAddUnchecked(a) ==
    LET u == request[a].user IN
    /\ request[a].at = "create_add"
    /\ ldap' = IF Exists(u) THEN ldap
               ELSE [ldap EXCEPT ![u] = [cn |-> request[a].cn,
                                         displayName |-> request[a].name, mfa |-> FALSE]]
    /\ Goto(a, "create_commit")
    /\ UNCHANGED <<meta, nextRow, reports, nextReport, scan, begun, faults, edits>>
CreateAddSwapped(a) ==
    LET u == request[a].user IN
    /\ request[a].at = "create_add"
    /\ IF Exists(u)
       THEN End(a) /\ UNCHANGED ldap
       ELSE /\ ldap' = [ldap EXCEPT ![u] = [cn |-> request[a].name,
                                            displayName |-> request[a].cn, mfa |-> FALSE]]
            /\ Goto(a, "create_commit")
    /\ UNCHANGED <<meta, nextRow, reports, nextReport, scan, begun, faults, edits>>

\* conn.add refuses an entry that exists by now.
CreateAdd(a) ==
    LET u == request[a].user IN
    /\ request[a].at = "create_add"
    /\ IF Exists(u)
       THEN End(a) /\ UNCHANGED ldap
       ELSE /\ ldap' = [ldap EXCEPT ![u] = [cn |-> request[a].cn,
                                            displayName |-> request[a].name, mfa |-> FALSE]]
            /\ Goto(a, "create_commit")
    /\ UNCHANGED <<meta, nextRow, reports, nextReport, scan, begun, faults, edits>>

CreateCommit(a) ==
    LET req == request[a] IN
    /\ req.at = "create_commit"
    /\ Insert(req.user, IF req.name # Null THEN req.name ELSE req.cn, FALSE)
    /\ End(a)
    /\ UNCHANGED <<ldap, reports, nextReport, scan, begun, faults, edits>>

-----------------------------------------------------------------------------
(* update_user, delete_user, set_user_lock, admin_reset_mfa_for_user: the  *)
(* LDAP change first, then the row is loaded, changed and committed.       *)

\* MODIFY_REPLACE of what the payload contains; Null is left out.
Modified(e, cn, name) ==
    [cn |-> IF cn # Null THEN cn ELSE e.cn,
     displayName |-> IF name # Null THEN name ELSE e.displayName,
     mfa |-> e.mfa]

UpdateModify(a, u, cn, name) ==
    /\ Exists(u)
    /\ ldap' = [ldap EXCEPT ![u] = Modified(ldap[u], cn, name)]
    /\ Begin(a, [NoRequest EXCEPT !.at = "update_select", !.user = u, !.name = name])

DeleteEntry(a, u) ==
    /\ Exists(u)
    /\ ldap' = [ldap EXCEPT ![u] = Null]
    /\ Begin(a, [NoRequest EXCEPT !.at = "delete_select", !.user = u])

ResetMfaModify(a, u) ==
    /\ Exists(u)
    /\ ldap' = [ldap EXCEPT ![u].mfa = FALSE]
    /\ Begin(a, [NoRequest EXCEPT !.at = "mfa_select", !.user = u])

\* set_user_lock writes LDAP never; it inserts a bare row when there is none.
LockSelect(a, u) ==
    /\ Exists(u) /\ ~HasRow(u)
    /\ Begin(a, [NoRequest EXCEPT !.at = "lock_commit", !.user = u])
    /\ UNCHANGED ldap

SelectRow(a) ==
    LET req == request[a] IN
    /\ \/ req.at = "update_select" /\ request' = [request EXCEPT ![a] =
                [@ EXCEPT !.at = "update_read", !.row = meta[req.user]]]
       \/ req.at = "delete_select" /\ request' = [request EXCEPT ![a] =
                [@ EXCEPT !.at = "delete_commit", !.row = meta[req.user]]]
       \/ req.at = "mfa_select" /\ request' = [request EXCEPT ![a] =
                [@ EXCEPT !.at = "mfa_commit", !.row = meta[req.user]]]
    /\ UNCHANGED <<storeVars, reports, nextReport, scan, begun, faults, edits>>

\* The final get_user reads LDAP again: no entry, no commit.
UpdateRead(a) ==
    LET req == request[a] IN
    /\ req.at = "update_read"
    /\ IF Exists(req.user) THEN Goto(a, "update_commit") ELSE End(a)
    /\ UNCHANGED <<storeVars, reports, nextReport, scan, begun, faults, edits>>

\* A missing row is created from the payload alone.
UpdateCommit(a) ==
    LET req == request[a] IN
    /\ req.at = "update_commit"
    /\ IF req.row = Null THEN Insert(req.user, req.name, FALSE)
       ELSE Update(req.user, req.row, IF req.name # Null THEN req.name ELSE req.row.name,
                   req.row.mfa)
    /\ End(a)
    /\ UNCHANGED <<ldap, reports, nextReport, scan, begun, faults, edits>>

\* Mutant of DeleteCommit: only the LDAP entry is deleted.
DeleteKeepsRow(a) ==
    /\ request[a].at = "delete_commit"
    /\ End(a)
    /\ UNCHANGED <<storeVars, reports, nextReport, scan, begun, faults, edits>>

DeleteCommit(a) ==
    /\ request[a].at = "delete_commit"
    /\ IF request[a].row = Null THEN UNCHANGED <<meta, nextRow>> ELSE Delete(request[a].row.id)
    /\ End(a)
    /\ UNCHANGED <<ldap, reports, nextReport, scan, begun, faults, edits>>

LockCommit(a) ==
    /\ request[a].at = "lock_commit"
    /\ Insert(request[a].user, Null, FALSE)
    /\ End(a)
    /\ UNCHANGED <<ldap, reports, nextReport, scan, begun, faults, edits>>

ResetMfaCommit(a) ==
    LET req == request[a] IN
    /\ req.at = "mfa_commit"
    /\ IF req.row = Null THEN UNCHANGED <<meta, nextRow>>
       ELSE Update(req.user, req.row, req.row.name, FALSE)
    /\ End(a)
    /\ UNCHANGED <<ldap, reports, nextReport, scan, begun, faults, edits>>

-----------------------------------------------------------------------------
(* resolve_discrepancy: the report is loaded and checked, LDAP is read or  *)
(* written, the row is loaded, and everything is committed.                *)

Shown(e) == IF e.displayName # Null THEN e.displayName ELSE e.cn

ValidFor(kind) ==
    CASE kind = "orphan_ldap" -> {"create_db", "delete_ldap", "ignore"}
      [] kind = "orphan_db"   -> {"delete_db", "ignore"}
      [] OTHER                -> {"sync_attribute", "ignore"}

ResolveSelect(a, r, action) ==
    /\ IsOpen(r)
    /\ action \in ValidFor(r.key[1])
    /\ Begin(a, [NoRequest EXCEPT !.at = "resolve_ldap", !.user = r.key[2], !.report = r,
                                  !.action = action])
    /\ UNCHANGED ldap

\* delete_ldap ignores the result of conn.delete; create_db fails without an
\* entry; ignore and delete_db do not touch LDAP.
ResolveLdap(a) ==
    LET req == request[a] IN
    /\ req.at = "resolve_ldap"
    /\ IF req.action = "delete_ldap"
       THEN ldap' = [ldap EXCEPT ![req.user] = Null] ELSE UNCHANGED ldap
    /\ IF req.action = "create_db" /\ ~Exists(req.user) THEN End(a)
       ELSE request' = [request EXCEPT ![a] =
                [@ EXCEPT !.at = "resolve_select",
                          !.entry = IF req.action \in {"create_db", "sync_attribute"}
                                    THEN ldap[req.user] ELSE Null]]
    /\ UNCHANGED <<meta, nextRow, reports, nextReport, scan, begun, faults, edits>>

\* create_db looks the row up by uid, sync_attribute by the report's db_id.
ResolveRow(a) ==
    LET req == request[a]
        u == req.user
        found == \/ req.action = "create_db"
                 \/ req.action = "sync_attribute" /\ HasRow(u) /\ meta[u].id = req.report.db
    IN
    /\ req.at = "resolve_select"
    /\ request' = [request EXCEPT ![a] = [@ EXCEPT !.at = "resolve_commit",
                                                   !.row = IF found THEN meta[u] ELSE Null]]
    /\ UNCHANGED <<storeVars, reports, nextReport, scan, begun, faults, edits>>

\* The UPDATE of the report by its id, whatever it says by now.
Close(id, how) == {IF Id(r) = id THEN [r EXCEPT !.closed = how] ELSE r : r \in reports}

\* create_db meets a row that was inserted after its lookup: rolled back.
ResolveRefused(a) ==
    /\ request[a].at = "resolve_commit"
    /\ request[a].action \in {"create_db", "sync_attribute"}
    /\ LET req == request[a] IN
       IF req.action = "create_db" THEN req.row = Null /\ HasRow(req.user)
       ELSE /\ req.row # Null /\ req.entry # Null
            /\ ~HasRow(req.user) \/ meta[req.user].id # req.row.id
    /\ End(a)
    /\ UNCHANGED <<storeVars, reports, nextReport, scan, begun, faults, edits>>

ResolveCommit(a) ==
    LET req == request[a] IN
    /\ req.at = "resolve_commit"
    /\ CASE req.action = "delete_db" -> Delete(req.report.db)
         [] req.action = "create_db" /\ req.row = Null ->
                ~HasRow(req.user) /\ Insert(req.user, Shown(req.entry), req.entry.mfa)
         [] req.action = "sync_attribute" /\ req.row # Null /\ req.entry # Null ->
                /\ HasRow(req.user) /\ meta[req.user].id = req.row.id
                /\ Update(req.user, req.row, Shown(req.entry), req.entry.mfa)
         [] OTHER -> UNCHANGED <<meta, nextRow>>
    /\ reports' = Close(Id(req.report), req.action)
    /\ End(a)
    /\ UNCHANGED <<ldap, nextReport, scan, begun, faults, edits>>

\* The process dies, the connection breaks or the commit fails: the row
\* changes are rolled back, the LDAP changes stay.
RequestFails(a) ==
    /\ request[a].at # "idle"
    /\ Fault
    /\ End(a)
    /\ UNCHANGED <<storeVars, reports, nextReport, scan, begun, edits>>

-----------------------------------------------------------------------------
(* scan_user_sync: read LDAP, read the rows, compare, read the open        *)
(* reports, and commit the reconciled set.                                 *)

ScanSearch(s) ==
    /\ scan[s].at = "idle"
    /\ nextReport < MaxReports
    /\ scan' = [scan EXCEPT ![s] = [@ EXCEPT !.at = "select", !.ldap = ldap]]
    /\ UNCHANGED <<storeVars, reports, nextReport, request, begun, faults, edits>>

ScanSelect(s) ==
    /\ scan[s].at = "select"
    /\ scan' = [scan EXCEPT ![s] = [@ EXCEPT !.at = "existing", !.meta = meta]]
    /\ UNCHANGED <<storeVars, reports, nextReport, request, begun, faults, edits>>

ScanExisting(s) ==
    /\ scan[s].at = "existing"
    /\ scan' = [scan EXCEPT ![s] = [@ EXCEPT !.at = "commit",
                                             !.existing = {Id(r) : r \in {x \in reports : IsOpen(x)}}]]
    /\ UNCHANGED <<storeVars, reports, nextReport, request, begun, faults, edits>>

\* Mutant of Found: the MFA flags are not compared.
FoundWithoutMfa(l, m, u) ==
    {kind \in Kind :
        \/ kind = "orphan_ldap" /\ l[u] # Null /\ m[u] = Null
        \/ kind = "orphan_db" /\ l[u] = Null /\ m[u] # Null
        \/ kind = "attribute_drift" /\ l[u] # Null /\ m[u] # Null /\ Shown(l[u]) # m[u].name}

\* What the comparison finds about user u in a snapshot l of LDAP and m of
\* the rows.
Found(l, m, u) ==
    {kind \in Kind :
        \/ kind = "orphan_ldap" /\ l[u] # Null /\ m[u] = Null
        \/ kind = "orphan_db" /\ l[u] = Null /\ m[u] # Null
        \/ /\ l[u] # Null /\ m[u] # Null
           /\ \/ kind = "attribute_drift" /\ Shown(l[u]) # m[u].name
              \/ kind = "mfa_flag_drift" /\ l[u].mfa # m[u].mfa}
Current(s) == {k \in Key : k[1] \in Found(scan[s].ldap, scan[s].meta, k[2])}

\* The first existing report of each current key is kept; the order in which
\* the query returns them is not specified.
Kept(s, keep) ==
    /\ \A id \in keep : id[1] \in Current(s)
    /\ \A id \in scan[s].existing :
          id[1] \in Current(s) => \E k \in keep : k[1] = id[1]
    /\ \A i, j \in keep : i[1] = j[1] => i = j

\* Mutants of Reconciled: duplicates are not collapsed; reports of what has
\* gone stay open.
ReconciledKeepsCopies(s, keep) ==
    {IF Id(r) \in scan[s].existing /\ r.key \notin Current(s)
     THEN [r EXCEPT !.closed = "auto_resolved"] ELSE r : r \in reports}
ReconciledKeepsStale(s, keep) ==
    {IF Id(r) \in scan[s].existing \ keep /\ r.key \in Current(s)
     THEN [r EXCEPT !.closed = "superseded"] ELSE r : r \in reports}

Reconciled(s, keep) ==
    {IF Id(r) \in scan[s].existing \ keep
     THEN [r EXCEPT !.closed = IF r.key \in Current(s) THEN "superseded" ELSE "auto_resolved"]
     ELSE r : r \in reports}

\* Mutant of NewReports: what is already on the list is added again.
NewReportsForAll(s, keep) ==
    {[key |-> k, batch |-> nextReport, by |-> s,
      db |-> IF scan[s].meta[k[2]] = Null THEN 0 ELSE scan[s].meta[k[2]].id,
      closed |-> "open"] : k \in Current(s)}

NewReports(s, keep) ==
    {[key |-> k, batch |-> nextReport, by |-> s,
      db |-> IF scan[s].meta[k[2]] = Null THEN 0 ELSE scan[s].meta[k[2]].id,
      closed |-> "open"] :
        k \in {c \in Current(s) : \A id \in keep : id[1] # c}}

ScanCommit(s) ==
    /\ scan[s].at = "commit"
    /\ \E keep \in SUBSET scan[s].existing :
          /\ Kept(s, keep)
          /\ reports' = Reconciled(s, keep) \cup NewReports(s, keep)
          /\ nextReport' = IF NewReports(s, keep) = {} THEN nextReport ELSE nextReport + 1
    /\ scan' = [scan EXCEPT ![s] = NoScan]
    /\ UNCHANGED <<storeVars, request, begun, faults, edits>>

ScanFails(s) ==
    /\ scan[s].at # "idle"
    /\ Fault
    /\ scan' = [scan EXCEPT ![s] = NoScan]
    /\ UNCHANGED <<storeVars, reports, nextReport, request, begun, edits>>

\* Any other LDAP client adds, changes or removes an entry.
DirectoryEdit(u, e) ==
    /\ edits < MaxEdits
    /\ edits' = edits + 1
    /\ ldap' = [ldap EXCEPT ![u] = e]
    /\ UNCHANGED <<meta, nextRow, reports, nextReport, request, scan, begun, faults>>

-----------------------------------------------------------------------------
RequestBegins(a) ==
    \/ /\ "create" \in Operation
       /\ \E u \in User, cn \in Name, name \in Name \cup {Null} : CreateSearch(a, u, cn, name)
    \/ /\ "update" \in Operation
       /\ \E u \in User, cn, name \in Name \cup {Null} : UpdateModify(a, u, cn, name)
    \/ "delete" \in Operation /\ \E u \in User : DeleteEntry(a, u)
    \/ "lock" \in Operation /\ \E u \in User : LockSelect(a, u)
    \/ "reset_mfa" \in Operation /\ \E u \in User : ResetMfaModify(a, u)
    \/ /\ "resolve" \in Operation
       /\ \E r \in reports, action \in Resolution : ResolveSelect(a, r, action)

RequestStep(a) ==
    \/ CreateSelect(a) \/ CreateAdd(a) \/ CreateCommit(a)
    \/ SelectRow(a) \/ UpdateRead(a) \/ UpdateCommit(a) \/ DeleteCommit(a) \/ LockCommit(a)
    \/ ResetMfaCommit(a)
    \/ ResolveLdap(a) \/ ResolveRow(a) \/ ResolveRefused(a) \/ ResolveCommit(a)

ScanStep(s) == ScanSearch(s) \/ ScanSelect(s) \/ ScanExisting(s) \/ ScanCommit(s)

Next ==
    \/ \E a \in Admin : RequestBegins(a) \/ RequestStep(a) \/ RequestFails(a)
    \/ \E s \in Scanner : ScanStep(s) \/ ScanFails(s)
    \/ \E u \in User, e \in Entry \cup {Null} : DirectoryEdit(u, e)

Spec == Init /\ [][Next]_vars

\* Beat starts a scan every hour and a started scan or request goes on.
Fairness ==
    /\ \A a \in Admin : WF_vars(RequestStep(a))
    /\ \A s \in Scanner : WF_vars(ScanStep(s))
FairSpec == Spec /\ Fairness

-----------------------------------------------------------------------------
(* Properties.                                                             *)

\* No scan reports a difference that it, or an earlier run of the same slot,
\* has already reported and nobody has closed: only scans that overlap put
\* the same difference on the list twice (scan_user_sync, "idempotent").
OneReportPerScanner ==
    \A r1, r2 \in reports :
        (/\ r1.key = r2.key /\ r1.by = r2.by
         /\ r1.closed = "open" /\ r2.closed = "open") => r1 = r2

\* The differences between the stores as they are now.
Differences ==
    {k \in Key :
        LET e == ldap[k[2]]  m == meta[k[2]] IN
        IF e = Null \/ m = Null
        THEN \/ k[1] = "orphan_db" /\ m # Null
             \/ k[1] = "orphan_ldap" /\ e # Null
        ELSE \/ k[1] = "mfa_flag_drift" /\ e.mfa # m.mfa
             \/ /\ k[1] = "attribute_drift"
                /\ m.name # (IF e.displayName = Null THEN e.cn ELSE e.displayName)}
Reported == {r.key : r \in {x \in reports : x.closed = "open"}}

\* A scan during which nothing else changed leaves exactly the differences on
\* the list, each once, whatever duplicates and stale reports it found.
QuietScanIsExact ==
    [][\A s \in Scanner :
        (/\ scan[s].at = "commit" /\ scan'[s].at = "idle" /\ faults' = faults
         /\ scan[s].ldap = ldap /\ scan[s].meta = meta
         /\ scan[s].existing = {<<r.key, r.batch>> : r \in {x \in reports : x.closed = "open"}})
        => /\ Reported' = Differences
           /\ Cardinality({r \in reports' : r.closed = "open"}) = Cardinality(Differences)]_vars

\* With one administrator at a time and no destructive resolution, as long as
\* nothing has failed and no other client has written, a user exists in both
\* stores or in neither whenever no request is running, whatever the scans
\* saw half-way.
PresenceAgrees ==
    (faults = 0 /\ edits = 0 /\ \A a \in Admin : request[a].at = "idle") =>
        \A u \in User : (ldap[u] = Null) <=> (meta[u] = Null)

\* With nothing but creates and create_db resolutions, overlapping but not
\* failing, the entry and the row of a user come from the same request.
CreatesAgree ==
    (\A a \in Admin : request[a].at = "idle") => Differences = {}

\* A difference that stays is on the list from some time on.
DifferencesReported ==
    \A k \in Key : <>[](k \in Differences) => <>[](k \in Reported)

\* A difference that has gone for good leaves the list for good.
SettledReportsClosed ==
    \A k \in Key : <>[](k \notin Differences) => <>[](k \notin Reported)

\* delete_ldap is for orphan_ldap and delete_db for orphan_db: neither
\* deletes one half of a user who is in both stores (docstring of
\* resolve_discrepancy).
DestroysOnlyOrphans ==
    [][\A a \in Admin, u \in User :
        (request[a].action \in {"delete_ldap", "delete_db"} /\ ldap[u] # Null /\ meta[u] # Null)
        => request'[a] = request[a] \/ (ldap'[u] # Null /\ meta'[u] # Null)]_vars

=============================================================================
