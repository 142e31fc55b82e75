------------------------ MODULE DirectorySyncProofs ------------------------
(***************************************************************************)
(* Proofs about DirectorySync: the types, that only different scanners put *)
(* a difference on the list twice, that a scan nobody disturbs leaves      *)
(* exactly the differences on it, and that requests one at a time, or      *)
(* creates that overlap, leave the two stores in agreement.                *)
(***************************************************************************)
EXTENDS DirectorySync, TLAPS, FiniteSetTheorems, FunctionTheorems

\* What a request carries by the time it needs it: its user, a create its cn,
\* a resolution its action, and create_db the entry it copies.
Carries(req) ==
    /\ req.at # "idle" => req.user \in User
    /\ req.at \in {"create_select", "create_add", "create_commit"} => req.cn \in Name
    /\ req.at \in {"resolve_ldap", "resolve_select", "resolve_commit"} => req.action \in Resolution
    /\ req.at \in {"resolve_select", "resolve_commit"} /\ req.action = "create_db" => req.entry \in Entry

TypeInv == TypeOK /\ \A a \in Admin : Carries(request[a])

RequestTypes == request' \in [Admin -> Request] /\ \A a \in Admin : Carries(request'[a])
RowTypes == meta' \in [User -> MetaRow \cup {Null}] /\ nextRow' \in Nat \ {0}
OtherTypes == /\ ldap' \in [User -> Entry \cup {Null}]
              /\ reports' \subseteq Report /\ nextReport' \in Nat
              /\ scan' \in [Scanner -> Scan]
              /\ begun' \in Nat /\ faults' \in Nat /\ edits' \in Nat

\* The parts together.
LEMMA Parts ==
  ASSUME RequestTypes, RowTypes, OtherTypes
  PROVE  TypeInv'
  BY DEF RequestTypes, RowTypes, OtherTypes, TypeInv, TypeOK, Carries

\* The two records a request or a scan slot is reset to are well typed.
LEMMA IdleTypes == NoRequest \in Request /\ Carries(NoRequest) /\ NoScan \in Scan
  BY DEF NoRequest, Request, RequestPC, NoScan, Scan, Carries

\* A request slot that gets a well-typed record stays well typed.
LEMMA SlotTypes ==
  ASSUME TypeInv, NEW a \in Admin, NEW req \in Request, Carries(req),
         request' = [request EXCEPT ![a] = req]
  PROVE  RequestTypes
  BY DEF RequestTypes, TypeInv, TypeOK

LEMMA EndTypes ==
  ASSUME TypeInv, NEW a \in Admin, End(a)
  PROVE  RequestTypes
  BY IdleTypes, SlotTypes DEF End

\* Inserting, updating and deleting a row keep the rows well typed.
LEMMA InsertTypes ==
  ASSUME TypeInv, NEW u, NEW name \in Name \cup {Null}, NEW mfa \in BOOLEAN, Insert(u, name, mfa)
  PROVE  RowTypes
  BY DEF RowTypes, TypeInv, TypeOK, Insert, HasRow, MetaRow

LEMMA UpdateTypes ==
  ASSUME TypeInv, NEW u \in User, NEW loaded \in MetaRow,
         NEW name \in Name \cup {Null}, NEW mfa \in BOOLEAN, Update(u, loaded, name, mfa)
  PROVE  RowTypes
<1>1. CASE HasRow(u) /\ meta[u].id = loaded.id
  <2>1. meta[u] \in MetaRow
    BY <1>1 DEF TypeInv, TypeOK, HasRow
  <2>2. QED
    BY <1>1, <2>1 DEF TypeInv, TypeOK, RowTypes, Update, MetaRow
<1>2. CASE ~(HasRow(u) /\ meta[u].id = loaded.id)
  BY <1>2 DEF TypeInv, TypeOK, RowTypes, Update
<1>3. QED
  BY <1>1, <1>2

LEMMA DeleteTypes ==
  ASSUME TypeInv, NEW id, Delete(id)
  PROVE  RowTypes
  BY DEF TypeInv, TypeOK, RowTypes, Delete

\* Closing a report keeps the reports well typed.
LEMMA CloseTypes ==
  ASSUME TypeInv, NEW id, NEW how \in Closing
  PROVE  Close(id, how) \subseteq Report
  BY DEF TypeInv, TypeOK, Close, Report

\* The entry after update_user's modify.
LEMMA ModifiedEntry ==
  ASSUME NEW e \in Entry, NEW cn \in Name \cup {Null}, NEW name \in Name \cup {Null}
  PROVE  Modified(e, cn, name) \in Entry
  BY DEF Modified, Entry

\* A request that moves on with a row or an entry it has read.
WithRowRead(r, at, x) == [r EXCEPT !.at = at, !.row = x]
LEMMA WithRow ==
  ASSUME NEW r \in Request, NEW at \in RequestPC, NEW x \in MetaRow \cup {Null}
  PROVE  /\ WithRowRead(r, at, x) \in Request /\ WithRowRead(r, at, x).at = at /\ WithRowRead(r, at, x).row = x
         /\ WithRowRead(r, at, x).user = r.user /\ WithRowRead(r, at, x).cn = r.cn /\ WithRowRead(r, at, x).action = r.action
         /\ WithRowRead(r, at, x).entry = r.entry
<1> DEFINE k == [r EXCEPT !.at = at]
<1>1. /\ k \in Request /\ k.at = at /\ k.user = r.user /\ k.cn = r.cn
      /\ k.action = r.action /\ k.row = r.row /\ k.entry = r.entry
  BY DEF Request
<1> DEFINE n == [k EXCEPT !.row = x]
<1> HIDE DEF k
<1>2. /\ n \in Request /\ n.at = at /\ n.row = x /\ n.user = r.user
      /\ n.cn = r.cn /\ n.action = r.action /\ n.entry = r.entry
  BY <1>1 DEF Request
<1>3. n = WithRowRead(r, at, x)
  BY DEF k, WithRowRead
<1> HIDE DEF n
<1>4. QED
  BY <1>2, <1>3

WithEntryRead(r, at, x) == [r EXCEPT !.at = at, !.entry = x]
LEMMA WithEntry ==
  ASSUME NEW r \in Request, NEW at \in RequestPC, NEW x \in Entry \cup {Null}
  PROVE  /\ WithEntryRead(r, at, x) \in Request /\ WithEntryRead(r, at, x).at = at /\ WithEntryRead(r, at, x).entry = x
         /\ WithEntryRead(r, at, x).user = r.user /\ WithEntryRead(r, at, x).cn = r.cn /\ WithEntryRead(r, at, x).action = r.action
         /\ WithEntryRead(r, at, x).row = r.row
<1> DEFINE k == [r EXCEPT !.at = at]
<1>1. /\ k \in Request /\ k.at = at /\ k.user = r.user /\ k.cn = r.cn
      /\ k.action = r.action /\ k.row = r.row /\ k.entry = r.entry
  BY DEF Request
<1> DEFINE n == [k EXCEPT !.entry = x]
<1> HIDE DEF k
<1>2. /\ n \in Request /\ n.at = at /\ n.entry = x /\ n.user = r.user
      /\ n.cn = r.cn /\ n.action = r.action /\ n.row = r.row
  BY <1>1 DEF Request
<1>3. n = WithEntryRead(r, at, x)
  BY DEF k, WithEntryRead
<1> HIDE DEF n
<1>4. QED
  BY <1>2, <1>3

\* Requests that begin.
LEMMA BeginTypes ==
  ASSUME TypeInv, NEW a \in Admin, RequestBegins(a)
  PROVE  TypeInv'
<1>1. ASSUME NEW u \in User, NEW cn \in Name, NEW name \in Name \cup {Null},
             CreateSearch(a, u, cn, name)
      PROVE  TypeInv'
  <2>1. [NoRequest EXCEPT !.at = "create_select", !.user = u, !.cn = cn, !.name = name] \in Request /\ Carries([NoRequest EXCEPT !.at = "create_select", !.user = u, !.cn = cn, !.name = name])
    BY DEF NoRequest, Request, RequestPC, Carries
  <2>2. RequestTypes
    BY <1>1, <2>1, SlotTypes DEF CreateSearch, Begin
  <2>3. ldap' \in [User -> Entry \cup {Null}]
    BY <1>1 DEF CreateSearch, Exists, TypeInv, TypeOK, Entry
  <2>4. QED
    BY <1>1, <2>2, <2>3, Parts DEF CreateSearch, Begin, TypeInv, TypeOK, RowTypes, OtherTypes
<1>2. ASSUME NEW u \in User, NEW cn \in Name \cup {Null}, NEW name \in Name \cup {Null},
             UpdateModify(a, u, cn, name)
      PROVE  TypeInv'
  <2>1. [NoRequest EXCEPT !.at = "update_select", !.user = u, !.name = name] \in Request /\ Carries([NoRequest EXCEPT !.at = "update_select", !.user = u, !.name = name])
    BY DEF NoRequest, Request, RequestPC, Carries
  <2>2. RequestTypes
    BY <1>2, <2>1, SlotTypes DEF UpdateModify, Begin
  <2>3. ldap' \in [User -> Entry \cup {Null}]
    <3>1. ldap[u] \in Entry
      BY <1>2 DEF UpdateModify, Exists, TypeInv, TypeOK
    <3>2. Modified(ldap[u], cn, name) \in Entry
      BY <3>1, ModifiedEntry
    <3>3. QED
      BY <1>2, <3>2 DEF UpdateModify, TypeInv, TypeOK
  <2>4. QED
    BY <1>2, <2>2, <2>3, Parts DEF UpdateModify, Begin, TypeInv, TypeOK, RowTypes, OtherTypes
<1>3. ASSUME NEW u \in User,
             DeleteEntry(a, u)
      PROVE  TypeInv'
  <2>1. [NoRequest EXCEPT !.at = "delete_select", !.user = u] \in Request /\ Carries([NoRequest EXCEPT !.at = "delete_select", !.user = u])
    BY DEF NoRequest, Request, RequestPC, Carries
  <2>2. RequestTypes
    BY <1>3, <2>1, SlotTypes DEF DeleteEntry, Begin
  <2>3. ldap' \in [User -> Entry \cup {Null}]
    BY <1>3 DEF DeleteEntry, Exists, TypeInv, TypeOK, Entry
  <2>4. QED
    BY <1>3, <2>2, <2>3, Parts DEF DeleteEntry, Begin, TypeInv, TypeOK, RowTypes, OtherTypes
<1>4. ASSUME NEW u \in User,
             LockSelect(a, u)
      PROVE  TypeInv'
  <2>1. [NoRequest EXCEPT !.at = "lock_commit", !.user = u] \in Request /\ Carries([NoRequest EXCEPT !.at = "lock_commit", !.user = u])
    BY DEF NoRequest, Request, RequestPC, Carries
  <2>2. RequestTypes
    BY <1>4, <2>1, SlotTypes DEF LockSelect, Begin
  <2>3. ldap' \in [User -> Entry \cup {Null}]
    BY <1>4 DEF LockSelect, Exists, TypeInv, TypeOK, Entry
  <2>4. QED
    BY <1>4, <2>2, <2>3, Parts DEF LockSelect, Begin, TypeInv, TypeOK, RowTypes, OtherTypes
<1>5. ASSUME NEW u \in User,
             ResetMfaModify(a, u)
      PROVE  TypeInv'
  <2>1. [NoRequest EXCEPT !.at = "mfa_select", !.user = u] \in Request /\ Carries([NoRequest EXCEPT !.at = "mfa_select", !.user = u])
    BY DEF NoRequest, Request, RequestPC, Carries
  <2>2. RequestTypes
    BY <1>5, <2>1, SlotTypes DEF ResetMfaModify, Begin
  <2>3. ldap' \in [User -> Entry \cup {Null}]
    BY <1>5 DEF ResetMfaModify, Exists, TypeInv, TypeOK, Entry
  <2>4. QED
    BY <1>5, <2>2, <2>3, Parts DEF ResetMfaModify, Begin, TypeInv, TypeOK, RowTypes, OtherTypes
<1>6. ASSUME NEW r \in reports, NEW action \in Resolution,
             ResolveSelect(a, r, action)
      PROVE  TypeInv'
  <2>0. r \in Report /\ r.key[2] \in User
    BY DEF TypeInv, TypeOK, Report, Key
  <2>1. [NoRequest EXCEPT !.at = "resolve_ldap", !.user = r.key[2], !.report = r,
                       !.action = action] \in Request /\ Carries([NoRequest EXCEPT !.at = "resolve_ldap", !.user = r.key[2], !.report = r,
                       !.action = action])
    BY <2>0 DEF NoRequest, Request, RequestPC, Carries
  <2>2. RequestTypes
    BY <1>6, <2>1, SlotTypes DEF ResolveSelect, Begin
  <2>3. ldap' \in [User -> Entry \cup {Null}]
    BY <1>6 DEF ResolveSelect, Exists, TypeInv, TypeOK, Entry
  <2>4. QED
    BY <1>6, <2>2, <2>3, Parts DEF ResolveSelect, Begin, TypeInv, TypeOK, RowTypes, OtherTypes
<1>7. QED
  BY <1>1, <1>2, <1>3, <1>4, <1>5, <1>6 DEF RequestBegins

\* Requests that go on.
LEMMA StepTypes ==
  ASSUME TypeInv, NEW a \in Admin, RequestStep(a)
  PROVE  TypeInv'
<1> DEFINE req == request[a]
<1>0. req \in Request /\ Carries(req)
  BY DEF TypeInv, TypeOK
<1>u. req.at # "idle" => req.user \in User
  BY <1>0 DEF Carries
<1>1. CASE CreateSelect(a)
  <2>1. [req EXCEPT !.at = "create_add"] \in Request
    BY <1>0 DEF Request, RequestPC
  <2>2. req.at = "create_select" => Carries([req EXCEPT !.at = "create_add"])
    BY <1>0 DEF Carries, Request
  <2>3. request' = [request EXCEPT ![a] = [req EXCEPT !.at = "create_add"]] \/ End(a)
    BY <1>1 DEF CreateSelect, Goto
  <2>4. RequestTypes
    BY <1>1, <2>1, <2>2, <2>3, SlotTypes, EndTypes DEF CreateSelect
  <2>5. QED
    BY <1>1, <2>4, Parts DEF CreateSelect, storeVars, TypeInv, TypeOK, RowTypes, OtherTypes
<1>2. CASE CreateAdd(a)
  <2>1. [req EXCEPT !.at = "create_commit"] \in Request
    BY <1>0 DEF Request, RequestPC
  <2>2. req.at = "create_add" => Carries([req EXCEPT !.at = "create_commit"])
    BY <1>0 DEF Carries, Request
  <2>3. request' = [request EXCEPT ![a] = [req EXCEPT !.at = "create_commit"]] \/ End(a)
    BY <1>2 DEF CreateAdd, Goto
  <2>4. RequestTypes
    BY <1>2, <2>1, <2>2, <2>3, SlotTypes, EndTypes DEF CreateAdd
  <2>5. ldap' \in [User -> Entry \cup {Null}]
    <3>1. [cn |-> req.cn, displayName |-> req.name, mfa |-> FALSE] \in Entry
      BY <1>0, <1>2 DEF CreateAdd, Carries, Request, Entry
    <3>2. QED
      BY <1>2, <3>1 DEF CreateAdd, TypeInv, TypeOK
  <2>6. QED
    BY <1>2, <2>4, <2>5, Parts DEF CreateAdd, TypeInv, TypeOK, RowTypes, OtherTypes
<1>3. CASE CreateCommit(a)
  <2>1. (IF req.name # Null THEN req.name ELSE req.cn) \in Name \cup {Null}
    BY <1>0 DEF Request
  <2>2. RowTypes
    BY <1>3, <2>1, InsertTypes DEF CreateCommit
  <2>3. QED
    BY <1>3, <2>2, EndTypes, Parts DEF CreateCommit, TypeInv, TypeOK, OtherTypes
<1>4. CASE SelectRow(a)
  <2> DEFINE at == IF req.at = "update_select" THEN "update_read"
                   ELSE IF req.at = "delete_select" THEN "delete_commit" ELSE "mfa_commit"
             next == WithRowRead(req, at, meta[req.user])
  <2>1. meta[req.user] \in MetaRow \cup {Null}
    BY <1>4, <1>u DEF SelectRow, TypeInv, TypeOK
  <2>2. next \in Request /\ next.at = at /\ next.user = req.user
    <3>1. at \in RequestPC
      BY DEF RequestPC
    <3>2. QED
      BY <1>0, <2>1, <3>1, WithRow
  <2>3. Carries(next)
    <3> HIDE DEF next
    <3>1. QED
      BY <1>4, <1>u, <2>2 DEF SelectRow, Carries
  <2>4. request' = [request EXCEPT ![a] = next]
    BY <1>4 DEF SelectRow, WithRowRead
  <2>5. RequestTypes
    BY <2>2, <2>3, <2>4, SlotTypes
  <2>6. QED
    BY <1>4, <2>5, Parts DEF SelectRow, storeVars, TypeInv, TypeOK, RowTypes, OtherTypes
<1>5. CASE UpdateCommit(a)
  <2>1. req.user \in User /\ req.name \in Name \cup {Null}
    BY <1>0, <1>5, <1>u DEF UpdateCommit, Request
  <2>2. RowTypes
    <3>1. CASE req.row = Null
      BY <1>5, <2>1, <3>1, InsertTypes DEF UpdateCommit
    <3>2. CASE req.row # Null
      <4>1. req.row \in MetaRow
        BY <1>0, <3>2 DEF Request
      <4>2. (IF req.name # Null THEN req.name ELSE req.row.name) \in Name \cup {Null}
            /\ req.row.mfa \in BOOLEAN
        BY <2>1, <4>1 DEF MetaRow
      <4>3. QED
        BY <1>5, <2>1, <3>2, <4>1, <4>2, UpdateTypes DEF UpdateCommit
    <3>3. QED
      BY <3>1, <3>2
  <2>3. QED
    BY <1>5, <2>2, EndTypes, Parts DEF UpdateCommit, TypeInv, TypeOK, OtherTypes
<1>6. CASE DeleteCommit(a)
  <2>1. RowTypes
    BY <1>6, DeleteTypes DEF DeleteCommit, RowTypes, TypeInv, TypeOK
  <2>2. QED
    BY <1>6, <2>1, EndTypes, Parts DEF DeleteCommit, TypeInv, TypeOK, OtherTypes
<1>7. CASE LockCommit(a)
  <2>1. RowTypes
    BY <1>7, InsertTypes DEF LockCommit
  <2>2. QED
    BY <1>7, <2>1, EndTypes, Parts DEF LockCommit, TypeInv, TypeOK, OtherTypes
<1>8. CASE ResetMfaCommit(a)
  <2>3. RowTypes
    <3>1. CASE req.row = Null
      BY <1>8, <3>1 DEF ResetMfaCommit, RowTypes, TypeInv, TypeOK
    <3>2. CASE req.row # Null
      <4>1. req.row \in MetaRow /\ req.user \in User
        BY <1>0, <1>8, <1>u, <3>2 DEF ResetMfaCommit, Request
      <4>2. req.row.name \in Name \cup {Null}
        BY <4>1 DEF MetaRow
      <4>3. QED
        BY <1>8, <3>2, <4>1, <4>2, UpdateTypes DEF ResetMfaCommit
    <3>3. QED
      BY <3>1, <3>2
  <2>4. QED
    BY <1>8, <2>3, EndTypes, Parts DEF ResetMfaCommit, TypeInv, TypeOK, OtherTypes
<1>9. CASE ResolveLdap(a)
  <2> DEFINE entry == IF req.action \in {"create_db", "sync_attribute"} THEN ldap[req.user] ELSE Null
             next == WithEntryRead(req, "resolve_select", entry)
  <2>1. req.user \in User /\ entry \in Entry \cup {Null}
    BY <1>9, <1>u DEF ResolveLdap, TypeInv, TypeOK
  <2>2. /\ next \in Request /\ next.at = "resolve_select" /\ next.user = req.user
        /\ next.action = req.action /\ next.entry = entry
    <3> HIDE DEF entry
    <3>1. "resolve_select" \in RequestPC
      BY DEF RequestPC
    <3>2. QED
      BY <1>0, <2>1, <3>1, WithEntry
  <2>3. RequestTypes
    <3>1. CASE req.action = "create_db" /\ ~Exists(req.user)
      BY <1>9, <3>1, EndTypes DEF ResolveLdap
    <3>2. CASE ~(req.action = "create_db" /\ ~Exists(req.user))
      <4>1. Carries(next)
        <5>1. req.action = "create_db" => entry \in Entry
          BY <2>1, <3>2 DEF Exists
        <5> HIDE DEF next, entry
        <5>2. QED
          BY <1>0, <1>9, <2>1, <2>2, <5>1 DEF ResolveLdap, Carries
      <4>2. request' = [request EXCEPT ![a] = next]
        BY <1>9, <3>2 DEF ResolveLdap, WithEntryRead
      <4>3. QED
        BY <2>2, <4>1, <4>2, SlotTypes
    <3>3. QED
      BY <3>1, <3>2
  <2>4. ldap' \in [User -> Entry \cup {Null}]
    BY <1>9 DEF ResolveLdap, TypeInv, TypeOK
  <2>5. QED
    BY <1>9, <2>3, <2>4, Parts DEF ResolveLdap, TypeInv, TypeOK, RowTypes, OtherTypes
<1>10. CASE ResolveRow(a)
  <2> DEFINE found == \/ req.action = "create_db"
                      \/ /\ req.action = "sync_attribute" /\ HasRow(req.user)
                         /\ meta[req.user].id = req.report.db
             row == IF found THEN meta[req.user] ELSE Null
             next == WithRowRead(req, "resolve_commit", row)
  <2>1. req.user \in User /\ row \in MetaRow \cup {Null}
    BY <1>10, <1>u DEF ResolveRow, TypeInv, TypeOK
  <2>2. /\ next \in Request /\ next.at = "resolve_commit" /\ next.user = req.user
        /\ next.action = req.action /\ next.entry = req.entry
    <3> HIDE DEF row
    <3>1. "resolve_commit" \in RequestPC
      BY DEF RequestPC
    <3>2. QED
      BY <1>0, <2>1, <3>1, WithRow
  <2>3. Carries(next)
    <3> HIDE DEF next
    <3>1. QED
      BY <1>0, <1>10, <2>1, <2>2 DEF ResolveRow, Carries
  <2>4. request' = [request EXCEPT ![a] = next]
    BY <1>10 DEF ResolveRow, WithRowRead
  <2>5. RequestTypes
    BY <2>2, <2>3, <2>4, SlotTypes
  <2>6. QED
    BY <1>10, <2>5, Parts DEF ResolveRow, storeVars, TypeInv, TypeOK, RowTypes, OtherTypes
<1>11. CASE ResolveRefused(a)
  BY <1>11, EndTypes, Parts DEF ResolveRefused, storeVars, TypeInv, TypeOK, RowTypes, OtherTypes
<1>12. CASE ResolveCommit(a)
  <2>1. req.user \in User /\ req.action \in Resolution /\ req.action \in Closing
    BY <1>0, <1>12, <1>u, SyncAssumption DEF ResolveCommit, Carries, Closing
  <2>2. RowTypes
    <3>1. CASE req.action = "delete_db"
      BY <1>12, <3>1, DeleteTypes DEF ResolveCommit
    <3>2. CASE req.action = "create_db" /\ req.row = Null
      <4>1. req.entry \in Entry
        BY <1>0, <1>12, <3>2 DEF ResolveCommit, Carries
      <4>2. Shown(req.entry) \in Name \cup {Null} /\ req.entry.mfa \in BOOLEAN
        BY <4>1 DEF Shown, Entry
      <4>3. QED
        BY <1>12, <3>2, <4>2, InsertTypes DEF ResolveCommit
    <3>3. CASE req.action = "sync_attribute" /\ req.row # Null /\ req.entry # Null
      <4>1. req.entry \in Entry /\ req.row \in MetaRow
        BY <1>0, <3>3 DEF Request
      <4>2. Shown(req.entry) \in Name \cup {Null} /\ req.entry.mfa \in BOOLEAN
        BY <4>1 DEF Shown, Entry
      <4>3. QED
        BY <1>12, <2>1, <3>3, <4>1, <4>2, UpdateTypes DEF ResolveCommit
    <3>4. CASE /\ req.action # "delete_db"
               /\ ~(req.action = "create_db" /\ req.row = Null)
               /\ ~(req.action = "sync_attribute" /\ req.row # Null /\ req.entry # Null)
      BY <1>12, <3>4 DEF ResolveCommit, RowTypes, TypeInv, TypeOK
    <3>5. QED
      BY <3>1, <3>2, <3>3, <3>4
  <2>3. reports' \subseteq Report
    BY <1>12, <2>1, CloseTypes DEF ResolveCommit
  <2>4. QED
    BY <1>12, <2>2, <2>3, EndTypes, Parts DEF ResolveCommit, TypeInv, TypeOK, OtherTypes
<1>13. CASE UpdateRead(a)
  <2>1. [req EXCEPT !.at = "update_commit"] \in Request
    BY <1>0 DEF Request, RequestPC
  <2>2. req.at = "update_read" => Carries([req EXCEPT !.at = "update_commit"])
    BY <1>0 DEF Carries, Request
  <2>3. request' = [request EXCEPT ![a] = [req EXCEPT !.at = "update_commit"]] \/ End(a)
    BY <1>13 DEF UpdateRead, Goto
  <2>4. RequestTypes
    BY <1>13, <2>1, <2>2, <2>3, SlotTypes, EndTypes DEF UpdateRead
  <2>5. QED
    BY <1>13, <2>4, Parts DEF UpdateRead, storeVars, TypeInv, TypeOK, RowTypes, OtherTypes
<1>14. QED
  BY <1>1, <1>2, <1>3, <1>4, <1>5, <1>6, <1>7, <1>8, <1>9, <1>10, <1>11, <1>12, <1>13
     DEF RequestStep

\* Scans, failures and other LDAP clients.
LEMMA ScanTypes ==
  ASSUME TypeInv, NEW s \in Scanner, ScanStep(s) \/ ScanFails(s)
  PROVE  TypeInv'
<1>0. scan[s] \in Scan /\ RequestTypes /\ RowTypes
      /\ ldap' \in [User -> Entry \cup {Null}] /\ begun' \in Nat /\ edits' \in Nat
  BY DEF TypeInv, TypeOK, ScanStep, ScanSearch, ScanSelect, ScanExisting, ScanCommit, ScanFails,
         storeVars, RequestTypes, RowTypes
<1>1. CASE ScanSearch(s)
  <2>1. [[scan[s] EXCEPT !.at = "select"] EXCEPT !.ldap = ldap] \in Scan
    <3> DEFINE k == [scan[s] EXCEPT !.at = "select"]
    <3>1. k \in Scan
      BY <1>0 DEF Scan
    <3> HIDE DEF k
    <3>2. [k EXCEPT !.ldap = ldap] \in Scan
      BY <3>1 DEF TypeInv, TypeOK, Scan
    <3>3. QED
      BY <3>2 DEF k
  <2>2. QED
    BY <1>0, <1>1, <2>1, Parts DEF ScanSearch, storeVars, TypeInv, TypeOK, OtherTypes
<1>2. CASE ScanSelect(s)
  <2>1. [[scan[s] EXCEPT !.at = "existing"] EXCEPT !.meta = meta] \in Scan
    <3> DEFINE k == [scan[s] EXCEPT !.at = "existing"]
    <3>1. k \in Scan
      BY <1>0 DEF Scan
    <3> HIDE DEF k
    <3>2. [k EXCEPT !.meta = meta] \in Scan
      BY <3>1 DEF TypeInv, TypeOK, Scan
    <3>3. QED
      BY <3>2 DEF k
  <2>2. QED
    BY <1>0, <1>2, <2>1, Parts DEF ScanSelect, storeVars, TypeInv, TypeOK, OtherTypes
<1>3. CASE ScanExisting(s)
  <2> DEFINE ids == {Id(r) : r \in {x \in reports : IsOpen(x)}}
  <2>1. ids \subseteq ReportId
    BY DEF TypeInv, TypeOK, Report, Id, ReportId
  <2>2. [[scan[s] EXCEPT !.at = "commit"] EXCEPT !.existing = ids] \in Scan
    <3> DEFINE k == [scan[s] EXCEPT !.at = "commit"]
    <3>1. k \in Scan
      BY <1>0 DEF Scan
    <3> HIDE DEF k, ids
    <3>2. [k EXCEPT !.existing = ids] \in Scan
      BY <2>1, <3>1 DEF Scan
    <3>3. QED
      BY <3>2 DEF k
  <2>3. scan' = [scan EXCEPT ![s] = [[scan[s] EXCEPT !.at = "commit"] EXCEPT !.existing = ids]]
    BY <1>3 DEF ScanExisting
  <2> HIDE DEF ids
  <2>4. scan' \in [Scanner -> Scan]
    BY <2>2, <2>3 DEF TypeInv, TypeOK
  <2>5. QED
    BY <1>0, <1>3, <2>4, Parts DEF ScanExisting, storeVars, TypeInv, TypeOK, OtherTypes
<1>4. CASE ScanCommit(s)
  <2>1. PICK keep \in SUBSET scan[s].existing :
           /\ reports' = Reconciled(s, keep) \cup NewReports(s, keep)
           /\ nextReport' = IF NewReports(s, keep) = {} THEN nextReport ELSE nextReport + 1
    BY <1>4 DEF ScanCommit
  <2>2. Reconciled(s, keep) \subseteq Report
    BY DEF TypeInv, TypeOK, Reconciled, Report, Closing
  <2>3. NewReports(s, keep) \subseteq Report
    <3>1. \A k \in Current(s) :
             (IF scan[s].meta[k[2]] = Null THEN 0 ELSE scan[s].meta[k[2]].id) \in Nat
      BY <1>0 DEF Current, Key, Scan, MetaRow
    <3>2. \A k \in Current(s) : k \in Key
      BY DEF Current
    <3>3. QED
      BY <3>1, <3>2 DEF TypeInv, TypeOK, NewReports, Report
  <2>4. reports' \subseteq Report /\ nextReport' \in Nat
    BY <2>1, <2>2, <2>3 DEF TypeInv, TypeOK
  <2>5. QED
    BY <1>0, <1>4, <2>4, IdleTypes, Parts DEF ScanCommit, TypeInv, TypeOK, OtherTypes
<1>5. CASE ScanFails(s)
  BY <1>0, <1>5, IdleTypes, Parts DEF ScanFails, Fault, storeVars, TypeInv, TypeOK, OtherTypes
<1>6. QED
  BY <1>1, <1>2, <1>3, <1>4, <1>5 DEF ScanStep

LEMMA TypeInit == Init => TypeInv
<1> SUFFICES ASSUME Init PROVE TypeInv
  OBVIOUS
<1>1. QED
  BY IdleTypes DEF Init, TypeInv, TypeOK

LEMMA TypeStep == TypeInv /\ [Next]_vars => TypeInv'
<1> SUFFICES ASSUME TypeInv, [Next]_vars PROVE TypeInv'
  OBVIOUS
<1>1. ASSUME NEW a \in Admin, RequestFails(a) PROVE TypeInv'
  BY <1>1, EndTypes, Parts DEF RequestFails, Fault, storeVars, TypeInv, TypeOK, RowTypes, OtherTypes
<1>2. ASSUME NEW u \in User, NEW e \in Entry \cup {Null}, DirectoryEdit(u, e) PROVE TypeInv'
  <2>1. RequestTypes
    BY <1>2 DEF DirectoryEdit, RequestTypes, TypeInv, TypeOK
  <2>2. QED
    BY <1>2, <2>1, Parts DEF DirectoryEdit, TypeInv, TypeOK, RowTypes, OtherTypes
<1>3. CASE UNCHANGED vars
  BY <1>3 DEF vars, TypeInv, TypeOK, Carries
<1>4. QED
  BY <1>1, <1>2, <1>3, BeginTypes, StepTypes, ScanTypes DEF Next

\* Every variable keeps the type its table, entry or request gives it
\* (UserMetadata, SyncDiscrepancy, the LDAP entry, requests and scans).
THEOREM TypeCorrect == Spec => []TypeOK
<1>1. TypeInv => TypeOK
  BY DEF TypeInv
<1>2. QED
  BY <1>1, TypeInit, TypeStep, PTL DEF Spec

-----------------------------------------------------------------------------
(* Reports.  OneReportPerScanner is not inductive: between reading the     *)
(* open reports and committing, a scan relies on what it has read.         *)

\* A scan about to commit has read every open report it has itself made.
OwnReportsRead ==
    \A s \in Scanner : scan[s].at = "commit" =>
        \A r \in reports : r.closed = "open" /\ r.by = s =>
            \E id \in scan[s].existing : id[1] = r.key

ReportInv == OneReportPerScanner /\ OwnReportsRead

\* A step that opens no report and starts no commit keeps ReportInv.
LEMMA NothingOpened ==
  ASSUME ReportInv,
         \A r \in reports' : r.closed = "open" => r \in reports,
         \A s \in Scanner : scan'[s].at = "commit" =>
             scan[s].at = "commit" /\ scan'[s].existing = scan[s].existing
  PROVE  ReportInv'
  BY DEF ReportInv, OneReportPerScanner, OwnReportsRead

\* Closing reports opens none.
LEMMA ClosesOnly ==
  ASSUME NEW id, NEW how \in Closing, NEW r \in Close(id, how), r.closed = "open", TypeInv
  PROVE  r \in reports
  BY DEF Close, Closing, TypeInv, TypeOK, Report

LEMMA RequestReports ==
  ASSUME TypeInv, ReportInv, NEW a \in Admin, RequestBegins(a) \/ RequestStep(a) \/ RequestFails(a)
  PROVE  ReportInv'
<1>1. scan' = scan
  BY DEF RequestBegins, CreateSearch, UpdateModify, DeleteEntry, LockSelect, ResetMfaModify,
         ResolveSelect, Begin, RequestStep, CreateSelect, CreateAdd, CreateCommit, SelectRow,
         UpdateRead, UpdateCommit, DeleteCommit, LockCommit, ResetMfaCommit, ResolveLdap, ResolveRow,
         ResolveRefused, ResolveCommit, RequestFails
<1>2. CASE ResolveCommit(a)
  <2>1. request[a].action \in Closing
    BY <1>2, SyncAssumption DEF ResolveCommit, TypeInv, Carries, Closing
  <2>2. QED
    BY <1>1, <1>2, <2>1, ClosesOnly, NothingOpened DEF ResolveCommit
<1>3. CASE ~ResolveCommit(a)
  <2>1. reports' = reports
    BY <1>3 DEF RequestBegins, CreateSearch, UpdateModify, DeleteEntry, LockSelect, ResetMfaModify,
         ResolveSelect, Begin, RequestStep, CreateSelect, CreateAdd, CreateCommit, SelectRow,
         UpdateRead, UpdateCommit, DeleteCommit, LockCommit, ResetMfaCommit, ResolveLdap, ResolveRow,
         ResolveRefused, RequestFails
  <2>2. QED
    BY <1>1, <2>1, NothingOpened
<1>4. QED
  BY <1>2, <1>3

\* A commit adds only keys of which the scan has read no open report.
LEMMA CommitReports ==
  ASSUME TypeInv, ReportInv, NEW s \in Scanner, ScanCommit(s)
  PROVE  ReportInv'
<1>1. PICK keep \in SUBSET scan[s].existing :
         Kept(s, keep) /\ reports' = Reconciled(s, keep) \cup NewReports(s, keep)
  BY DEF ScanCommit
<1>2. \A r \in Reconciled(s, keep) : r.closed = "open" => r \in reports
  BY DEF Reconciled, TypeInv, TypeOK, Report
<1>3. \A r \in NewReports(s, keep) :
         r.by = s /\ r.key \in Current(s) /\ \A id \in keep : id[1] # r.key
  BY DEF NewReports
<1>4. \A r1, r2 \in NewReports(s, keep) : r1.key = r2.key => r1 = r2
  BY DEF NewReports
<1>5. ASSUME NEW r \in reports, r.closed = "open", r.by = s,
             NEW n \in NewReports(s, keep), n.key = r.key
      PROVE  FALSE
  <2>1. PICK id \in scan[s].existing : id[1] = r.key
    BY <1>5 DEF ScanCommit, ReportInv, OwnReportsRead
  <2>2. \E id2 \in keep : id2[1] = r.key
    BY <1>1, <1>3, <1>5, <2>1 DEF Kept
  <2>3. QED
    BY <1>3, <1>5, <2>2
<1>6. OneReportPerScanner'
  BY <1>1, <1>2, <1>3, <1>4, <1>5 DEF ReportInv, OneReportPerScanner
<1>7. OwnReportsRead'
  <2> SUFFICES ASSUME NEW t \in Scanner, scan'[t].at = "commit",
                      NEW r \in reports', r.closed = "open", r.by = t
               PROVE  \E id \in scan'[t].existing : id[1] = r.key
    BY DEF OwnReportsRead
  <2>1. t # s /\ scan'[t] = scan[t]
    BY DEF ScanCommit, TypeInv, TypeOK, NoScan
  <2>2. r \in reports
    BY <1>1, <1>2, <1>3, <2>1
  <2>3. QED
    BY <2>1, <2>2 DEF ReportInv, OwnReportsRead
<1>8. QED
  BY <1>6, <1>7 DEF ReportInv

LEMMA ScanReports ==
  ASSUME TypeInv, ReportInv, NEW s \in Scanner, ScanStep(s) \/ ScanFails(s)
  PROVE  ReportInv'
<1>0. scan[s] \in Scan /\ scan \in [Scanner -> Scan]
  BY DEF TypeInv, TypeOK
<1>1. CASE ScanSearch(s) \/ ScanSelect(s) \/ ScanFails(s)
  <2>1. scan'[s].at # "commit"
    <3>1. CASE ScanSearch(s)
      <4> DEFINE k == [scan[s] EXCEPT !.at = "select"]
      <4>1. k \in Scan /\ k.at = "select"
        BY <1>0 DEF Scan
      <4>2. scan'[s] = [k EXCEPT !.ldap = ldap]
        BY <1>0, <3>1 DEF ScanSearch
      <4> HIDE DEF k
      <4>3. QED
        BY <4>1, <4>2 DEF Scan
    <3>2. CASE ScanSelect(s)
      <4> DEFINE k == [scan[s] EXCEPT !.at = "existing"]
      <4>1. k \in Scan /\ k.at = "existing"
        BY <1>0 DEF Scan
      <4>2. scan'[s] = [k EXCEPT !.meta = meta]
        BY <1>0, <3>2 DEF ScanSelect
      <4> HIDE DEF k
      <4>3. QED
        BY <4>1, <4>2 DEF Scan
    <3>3. CASE ScanFails(s)
      BY <1>0, <3>3 DEF ScanFails, NoScan
    <3>4. QED
      BY <1>1, <3>1, <3>2, <3>3
  <2>2. reports' = reports /\ \A t \in Scanner : t # s => scan'[t] = scan[t]
    BY <1>0, <1>1 DEF ScanSearch, ScanSelect, ScanFails
  <2>3. QED
    BY <2>1, <2>2, NothingOpened
<1>2. CASE ScanExisting(s)
  <2> DEFINE ids == {Id(r) : r \in {x \in reports : IsOpen(x)}}
             k == [scan[s] EXCEPT !.at = "commit"]
  <2>1. k \in Scan
    BY <1>0 DEF Scan
  <2>2. scan'[s] = [k EXCEPT !.existing = ids]
    BY <1>0, <1>2 DEF ScanExisting
  <2>3. reports' = reports /\ \A t \in Scanner : t # s => scan'[t] = scan[t]
    BY <1>0, <1>2 DEF ScanExisting
  <2>4. \A r \in reports : r.closed = "open" => Id(r) \in ids /\ Id(r)[1] = r.key
    BY DEF Id, IsOpen
  <2> HIDE DEF k, ids
  <2>5. scan'[s].existing = ids
    BY <2>1, <2>2 DEF Scan
  <2>6. \A r \in reports : r.closed = "open" => \E id \in scan'[s].existing : id[1] = r.key
    BY <2>4, <2>5
  <2>7. QED
    BY <2>3, <2>6 DEF ReportInv, OneReportPerScanner, OwnReportsRead
<1>3. QED
  BY <1>1, <1>2, CommitReports DEF ScanStep

\* Whatever administrators, failures and other LDAP clients do, two open
\* reports of one difference were inserted by two different scanners (the
\* reconciliation step of scan_user_sync).
THEOREM NoDuplicateReports == Spec => []OneReportPerScanner
<1>1. Init => TypeInv /\ ReportInv
  BY TypeInit DEF Init, ReportInv, OneReportPerScanner, OwnReportsRead, NoScan
<1>2. TypeInv /\ ReportInv /\ [Next]_vars => (TypeInv /\ ReportInv)'
  <2> SUFFICES ASSUME TypeInv, ReportInv, [Next]_vars PROVE ReportInv'
    BY TypeStep
  <2>1. ASSUME NEW u \in User, NEW e \in Entry \cup {Null}, DirectoryEdit(u, e) PROVE ReportInv'
    BY <2>1, NothingOpened DEF DirectoryEdit
  <2>2. CASE UNCHANGED vars
    BY <2>2, NothingOpened DEF vars
  <2>3. QED
    BY <2>1, <2>2, RequestReports, ScanReports DEF Next
<1>3. TypeInv /\ ReportInv => OneReportPerScanner
  BY DEF ReportInv
<1>4. QED
  BY <1>1, <1>2, <1>3, PTL DEF Spec
-----------------------------------------------------------------------------
(* The ids of rows and of reports: what the database's keys promise.       *)

\* A user_metadata.id names one row, and the next one is fresh.
RowIds ==
    /\ \A u \in User : HasRow(u) => meta[u].id < nextRow
    /\ \A u, v \in User : HasRow(u) /\ HasRow(v) /\ meta[u].id = meta[v].id => u = v

\* A report is named by its key and batch, and the next batch is fresh.
ReportIds ==
    /\ \A r \in reports : r.batch < nextReport
    /\ \A q, r \in reports : Id(q) = Id(r) => q = r


LEMMA InsertIds ==
  ASSUME TypeInv, RowIds, NEW u \in User, NEW name, NEW mfa, Insert(u, name, mfa)
  PROVE  RowIds'
<1>1. nextRow \in Nat /\ \A v \in User : HasRow(v) => meta[v].id \in Nat
  BY DEF TypeInv, TypeOK, HasRow, MetaRow
<1>2. CASE HasRow(u)
  BY <1>2 DEF Insert, RowIds, HasRow
<1>3. CASE ~HasRow(u)
  <2>1. meta'[u].id = nextRow /\ nextRow' = nextRow + 1
        /\ \A v \in User : v # u => meta'[v] = meta[v]
    BY <1>3 DEF Insert, TypeInv, TypeOK
  <2>2. \A v \in User : HasRow(v)' => v = u \/ (HasRow(v) /\ meta'[v] = meta[v] /\ meta[v].id < nextRow)
    BY <2>1 DEF HasRow, RowIds
  <2>3. QED
    BY <1>1, <2>1, <2>2 DEF RowIds
<1>4. QED
  BY <1>2, <1>3

\* Updating changes no id and no presence.
LEMMA UpdateKeeps ==
  ASSUME TypeInv, NEW u \in User, NEW loaded \in MetaRow,
         NEW name \in Name \cup {Null}, NEW mfa \in BOOLEAN, Update(u, loaded, name, mfa)
  PROVE  \A v \in User : (HasRow(v)' <=> HasRow(v)) /\ (HasRow(v) => meta'[v].id = meta[v].id)
<1>1. CASE HasRow(u) /\ meta[u].id = loaded.id
  <2> DEFINE row == [id |-> loaded.id,
                     name |-> IF name # loaded.name THEN name ELSE meta[u].name,
                     mfa |-> IF mfa # loaded.mfa THEN mfa ELSE meta[u].mfa]
  <2>1. row \in MetaRow /\ row.id = meta[u].id
    <3>1. meta[u] \in MetaRow
      BY <1>1 DEF TypeInv, TypeOK, HasRow
    <3>2. QED
      BY <1>1, <3>1 DEF MetaRow
  <2>2. meta' = [meta EXCEPT ![u] = row]
    BY <1>1 DEF Update
  <2> HIDE DEF row
  <2>3. QED
    BY <1>1, <2>1, <2>2, NullAssumption DEF TypeInv, TypeOK, HasRow
<1>2. CASE ~(HasRow(u) /\ meta[u].id = loaded.id)
  BY <1>2 DEF Update, HasRow
<1>3. QED
  BY <1>1, <1>2

LEMMA UpdateIds ==
  ASSUME TypeInv, RowIds, NEW u \in User, NEW loaded \in MetaRow,
         NEW name \in Name \cup {Null}, NEW mfa \in BOOLEAN, Update(u, loaded, name, mfa)
  PROVE  RowIds'
<1>1. nextRow' = nextRow
  BY DEF Update
<1>2. QED
  BY <1>1, UpdateKeeps DEF RowIds

LEMMA DeleteIds ==
  ASSUME RowIds, NEW id, Delete(id)
  PROVE  RowIds'
  BY DEF RowIds, Delete, HasRow

\* What a step does to the rows is an INSERT, an UPDATE, a DELETE or nothing.
LEMMA RowSteps ==
  ASSUME TypeInv, RowIds, NEW a \in Admin, RequestStep(a)
  PROVE  RowIds'
<1> DEFINE req == request[a]
<1>0. req \in Request /\ Carries(req) /\ (req.at # "idle" => req.user \in User)
  BY DEF TypeInv, TypeOK, Carries
<1>1. CASE CreateCommit(a)
  BY <1>0, <1>1, InsertIds DEF CreateCommit
<1>2. CASE UpdateCommit(a)
  <2>1. CASE req.row = Null
    BY <1>0, <1>2, <2>1, InsertIds DEF UpdateCommit
  <2>2. CASE req.row # Null
    <3>1. req.row \in MetaRow /\ req.row.mfa \in BOOLEAN
          /\ (IF req.name # Null THEN req.name ELSE req.row.name) \in Name \cup {Null}
      BY <1>0, <2>2 DEF Request, MetaRow
    <3>2. QED
      BY <1>0, <1>2, <2>2, <3>1, UpdateIds DEF UpdateCommit
  <2>3. QED
    BY <2>1, <2>2
<1>3. CASE DeleteCommit(a)
  BY <1>3, DeleteIds DEF DeleteCommit, RowIds, HasRow
<1>4. CASE LockCommit(a)
  BY <1>0, <1>4, InsertIds DEF LockCommit
<1>5. CASE ResetMfaCommit(a)
  <2>1. CASE req.row = Null
    BY <1>5, <2>1 DEF ResetMfaCommit, RowIds, HasRow
  <2>2. CASE req.row # Null
    <3>1. req.row \in MetaRow /\ req.row.name \in Name \cup {Null}
      BY <1>0, <2>2 DEF Request, MetaRow
    <3>2. QED
      BY <1>0, <1>5, <2>2, <3>1, UpdateIds DEF ResetMfaCommit
  <2>3. QED
    BY <2>1, <2>2
<1>6. CASE ResolveCommit(a)
  <2>1. CASE req.action = "delete_db"
    BY <1>6, <2>1, DeleteIds DEF ResolveCommit
  <2>2. CASE req.action = "create_db" /\ req.row = Null
    BY <1>0, <1>6, <2>2, InsertIds DEF ResolveCommit
  <2>3. CASE req.action = "sync_attribute" /\ req.row # Null /\ req.entry # Null
    <3>1. req.row \in MetaRow /\ Shown(req.entry) \in Name \cup {Null} /\ req.entry.mfa \in BOOLEAN
      BY <1>0, <2>3 DEF Request, Shown, Entry
    <3>2. QED
      BY <1>0, <1>6, <2>3, <3>1, UpdateIds DEF ResolveCommit
  <2>4. CASE /\ req.action # "delete_db"
             /\ ~(req.action = "create_db" /\ req.row = Null)
             /\ ~(req.action = "sync_attribute" /\ req.row # Null /\ req.entry # Null)
    BY <1>6, <2>4 DEF ResolveCommit, RowIds, HasRow
  <2>5. QED
    BY <2>1, <2>2, <2>3, <2>4
<1>7. CASE UNCHANGED <<meta, nextRow>>
  BY <1>7 DEF RowIds, HasRow
<1>8. QED
  BY <1>1, <1>2, <1>3, <1>4, <1>5, <1>6, <1>7 DEF RequestStep, CreateSelect, CreateAdd, SelectRow,
     UpdateRead, ResolveLdap, ResolveRow, ResolveRefused, storeVars

\* Closing reports renames none.
LEMMA CloseIds ==
  ASSUME TypeInv, ReportIds, NEW id, NEW how \in Closing,
         reports' = Close(id, how), nextReport' = nextReport
  PROVE  ReportIds'
<1>1. \A r \in reports' : \E q \in reports :
         /\ r = IF Id(q) = id THEN [q EXCEPT !.closed = how] ELSE q
         /\ Id(r) = Id(q) /\ r.batch = q.batch
  BY DEF Close, TypeInv, TypeOK, Report, Id
<1>2. QED
  BY <1>1 DEF ReportIds

\* A scan's new reports are one for each key, in a fresh batch.
LEMMA CommitIds ==
  ASSUME TypeInv, ReportIds, NEW s \in Scanner, ScanCommit(s)
  PROVE  ReportIds'
<1>1. PICK keep \in SUBSET scan[s].existing :
         /\ reports' = Reconciled(s, keep) \cup NewReports(s, keep)
         /\ nextReport' = IF NewReports(s, keep) = {} THEN nextReport ELSE nextReport + 1
  BY DEF ScanCommit
<1>2. nextReport \in Nat /\ nextReport' \in Nat /\ nextReport <= nextReport'
  BY <1>1 DEF TypeInv, TypeOK
<1>3. \A r \in Reconciled(s, keep) : \E q \in reports :
         /\ r = IF Id(q) \in scan[s].existing \ keep
                THEN [q EXCEPT !.closed = IF q.key \in Current(s) THEN "superseded" ELSE "auto_resolved"]
                ELSE q
         /\ Id(r) = Id(q) /\ r.batch = q.batch /\ r.batch \in Nat
  BY DEF Reconciled, TypeInv, TypeOK, Report, Id
<1>4. \A r \in NewReports(s, keep) : r.batch = nextReport /\ Id(r) = <<r.key, nextReport>>
  BY DEF NewReports, Id
<1>5. \A q, r \in NewReports(s, keep) : q.key = r.key => q = r
  BY DEF NewReports
<1>6. \A r \in reports' : r.batch < nextReport'
  <2>1. \A r \in Reconciled(s, keep) : r.batch < nextReport
    BY <1>3 DEF ReportIds
  <2>2. NewReports(s, keep) # {} => nextReport < nextReport'
    BY <1>1, <1>2
  <2>3. \A r \in Reconciled(s, keep) : r.batch \in Nat
    BY <1>3
  <2>4. QED
    BY <1>1, <1>2, <1>4, <2>1, <2>2, <2>3
<1>7. \A q, r \in Reconciled(s, keep) : Id(q) = Id(r) => q = r
  BY <1>3 DEF ReportIds
<1>8. \A q \in Reconciled(s, keep), r \in NewReports(s, keep) : Id(q) # Id(r)
  <2> SUFFICES ASSUME NEW q \in Reconciled(s, keep), NEW r \in NewReports(s, keep), Id(q) = Id(r)
               PROVE  FALSE
    OBVIOUS
  <2>1. q.batch = r.batch
    BY DEF Id
  <2>2. q.batch < nextReport /\ q.batch \in Nat
    BY <1>3 DEF ReportIds
  <2>3. QED
    BY <1>2, <1>4, <2>1, <2>2
<1>9. \A q, r \in NewReports(s, keep) : Id(q) = Id(r) => q = r
  BY <1>4, <1>5 DEF Id
<1>10. QED
  BY <1>1, <1>6, <1>7, <1>8, <1>9 DEF ReportIds

IdInv == RowIds /\ ReportIds

LEMMA IdStep == TypeInv /\ IdInv /\ [Next]_vars => IdInv'
<1> SUFFICES ASSUME TypeInv, RowIds, ReportIds, [Next]_vars PROVE IdInv'
  BY DEF IdInv
<1>1. ASSUME UNCHANGED <<meta, nextRow>> PROVE RowIds'
  BY <1>1 DEF RowIds, HasRow
<1>2. ASSUME UNCHANGED <<reports, nextReport>> PROVE ReportIds'
  BY <1>2 DEF ReportIds
<1>3. ASSUME NEW a \in Admin, RequestBegins(a) \/ RequestFails(a) PROVE IdInv'
  BY <1>1, <1>2, <1>3 DEF IdInv, RequestBegins, CreateSearch, UpdateModify, DeleteEntry, LockSelect,
     ResetMfaModify, ResolveSelect, Begin, RequestFails, storeVars
<1>4. ASSUME NEW a \in Admin, RequestStep(a) PROVE IdInv'
  <2>1. CASE ResolveCommit(a)
    <3>1. request[a].action \in Closing
      BY <2>1, SyncAssumption DEF ResolveCommit, TypeInv, Carries, Closing
    <3>2. QED
      BY <1>4, <2>1, <3>1, RowSteps, CloseIds DEF ResolveCommit, IdInv
  <2>2. CASE ~ResolveCommit(a)
    BY <1>2, <1>4, <2>2, RowSteps DEF IdInv, RequestStep, CreateSelect, CreateAdd, CreateCommit,
       SelectRow, UpdateRead, UpdateCommit, DeleteCommit, LockCommit, ResetMfaCommit, ResolveLdap, ResolveRow,
       ResolveRefused
  <2>3. QED
    BY <2>1, <2>2
<1>5. ASSUME NEW s \in Scanner, ScanStep(s) \/ ScanFails(s) PROVE IdInv'
  BY <1>1, <1>2, <1>5, CommitIds DEF IdInv, ScanStep, ScanSearch, ScanSelect, ScanExisting,
     ScanCommit, ScanFails, storeVars
<1>6. ASSUME NEW u \in User, NEW e \in Entry \cup {Null}, DirectoryEdit(u, e) PROVE IdInv'
  BY <1>1, <1>2, <1>6 DEF IdInv, DirectoryEdit
<1>7. CASE UNCHANGED vars
  BY <1>1, <1>2, <1>7 DEF vars, IdInv
<1>8. QED
  BY <1>3, <1>4, <1>5, <1>6, <1>7 DEF Next

LEMMA IdInit == Init => IdInv
  BY DEF Init, IdInv, RowIds, ReportIds, HasRow

-----------------------------------------------------------------------------
(* Presence in both stores.                                                *)

\* One administrator request at a time.
OneAtATime ==
    \A a, b \in Admin : request[a].at # "idle" /\ request[b].at # "idle" => a = b

\* In both stores or in neither.
Agrees(u) == Exists(u) <=> HasRow(u)

\* The requests that pass through a state in which their user is in one store
\* only, and what the others know about the stores.
Torn == {"create_commit", "delete_select", "delete_commit"}
Half(req) ==
    /\ req.at = "create_add" => ~HasRow(req.user)
    /\ req.at = "create_commit" => Exists(req.user) /\ ~HasRow(req.user)
    /\ req.at \in {"delete_select", "delete_commit"} => ~Exists(req.user) /\ HasRow(req.user)
    /\ req.at = "delete_commit" => req.row # Null /\ req.row.id = meta[req.user].id
    /\ req.at \in {"lock_commit", "update_commit"} => Exists(req.user)
    /\ (req.at \in {"resolve_select", "resolve_commit"} /\ req.action = "create_db") => Exists(req.user)

PresenceInv ==
    (faults = 0 /\ edits = 0) =>
        /\ \A u \in User : Agrees(u) \/ \E a \in Admin : request[a].at \in Torn /\ request[a].user = u
        /\ \A a \in Admin : Half(request[a])


\* What one request, the only one that runs, leaves behind.
LEMMA Alone ==
  ASSUME TypeInv, NEW a \in Admin,
         \A b \in Admin : b # a => request'[b].at = "idle",
         \A u \in User : (ldap'[u] # Null <=> meta'[u] # Null)
                           \/ (request'[a].at \in Torn /\ request'[a].user = u),
         Half(request[a])'
  PROVE  PresenceInv'
<1>1. \A b \in Admin : Half(request[b])'
  BY DEF Half
<1>2. QED
  BY <1>1 DEF PresenceInv, Agrees, Exists, HasRow

\* A request slot that gets the record req, alone.
LEMMA Slot ==
  ASSUME TypeInv, NEW a \in Admin, NEW req \in Request, request' = [request EXCEPT ![a] = req]
  PROVE  request'[a] = req /\ \A b \in Admin : b # a => request'[b] = request[b]
  BY DEF TypeInv, TypeOK

LEMMA BeginPresence ==
  ASSUME TypeInv, PresenceInv, OneAtATime, OneAtATime', NEW a \in Admin, RequestBegins(a)
  PROVE  PresenceInv'
<1> SUFFICES ASSUME faults = 0, edits = 0 PROVE PresenceInv'
  BY DEF PresenceInv, RequestBegins, CreateSearch, UpdateModify, DeleteEntry, LockSelect,
         ResetMfaModify, ResolveSelect, Begin
\* The slot was idle, it is not any more, so every other one is idle.
<1>1. ASSUME NEW req \in Request, req.at # "idle", Begin(a, req)
      PROVE  /\ request'[a] = req /\ meta' = meta
             /\ \A b \in Admin : request[b].at = "idle"
             /\ \A b \in Admin : b # a => request'[b].at = "idle"
             /\ \A u \in User : Agrees(u)
  <2>1. request[a].at = "idle" /\ meta' = meta /\ request' = [request EXCEPT ![a] = req]
    BY <1>1 DEF Begin
  <2>2. request'[a] = req /\ \A b \in Admin : b # a => request'[b] = request[b]
    BY <2>1, Slot
  <2>3. \A b \in Admin : b # a => request'[b].at = "idle"
    BY <1>1, <2>2 DEF OneAtATime
  <2>4. \A b \in Admin : request[b].at = "idle"
    BY <2>1, <2>2, <2>3
  <2>5. QED
    BY <2>1, <2>2, <2>3, <2>4 DEF PresenceInv, Torn
<1>2. ASSUME NEW u \in User, NEW cn \in Name, NEW name \in Name \cup {Null}, CreateSearch(a, u, cn, name)
      PROVE  PresenceInv'
  <2> DEFINE req == [NoRequest EXCEPT !.at = "create_select", !.user = u, !.cn = cn, !.name = name]
  <2>1. req \in Request /\ req.at = "create_select"
    BY DEF NoRequest, Request, RequestPC
  <2>2. Begin(a, req) /\ ldap' = ldap
    BY <1>2 DEF CreateSearch
  <2> HIDE DEF req
  <2>3. QED
    BY <1>1, <2>1, <2>2, Alone DEF Half, Agrees, Exists, HasRow
<1>3. ASSUME NEW u \in User, NEW cn \in Name \cup {Null}, NEW name \in Name \cup {Null},
             UpdateModify(a, u, cn, name)
      PROVE  PresenceInv'
  <2> DEFINE req == [NoRequest EXCEPT !.at = "update_select", !.user = u, !.name = name]
  <2>1. req \in Request /\ req.at = "update_select"
    BY DEF NoRequest, Request, RequestPC
  <2>2. Begin(a, req) /\ Exists(u) /\ ldap' = [ldap EXCEPT ![u] = Modified(ldap[u], cn, name)]
    BY <1>3 DEF UpdateModify
  <2>3. Modified(ldap[u], cn, name) \in Entry
    BY <2>2, ModifiedEntry DEF TypeInv, TypeOK, Exists
  <2>4. \A v \in User : ldap'[v] # Null <=> ldap[v] # Null
    BY <2>2, <2>3, NullAssumption DEF TypeInv, TypeOK, Exists
  <2> HIDE DEF req
  <2>5. QED
    BY <1>1, <2>1, <2>2, <2>4, Alone DEF Half, Agrees, Exists, HasRow
<1>4. ASSUME NEW u \in User, DeleteEntry(a, u) PROVE PresenceInv'
  <2> DEFINE req == [NoRequest EXCEPT !.at = "delete_select", !.user = u]
  <2>1. req \in Request /\ req.at = "delete_select" /\ req.user = u
    BY DEF NoRequest, Request, RequestPC
  <2>2. Begin(a, req) /\ Exists(u) /\ ldap' = [ldap EXCEPT ![u] = Null]
    BY <1>4 DEF DeleteEntry
  <2>3. ldap'[u] = Null /\ \A v \in User : v # u => ldap'[v] = ldap[v]
    BY <2>2 DEF TypeInv, TypeOK
  <2> HIDE DEF req
  <2>4. request'[a] = req /\ meta' = meta /\ \A v \in User : Agrees(v)
    BY <1>1, <2>1, <2>2
  <2>5. Half(request[a])'
    BY <2>1, <2>2, <2>3, <2>4 DEF Half, Agrees, Exists, HasRow
  <2>6. QED
    BY <1>1, <2>1, <2>2, <2>3, <2>4, <2>5, Alone DEF Torn, Agrees, Exists, HasRow
<1>5. ASSUME NEW u \in User, LockSelect(a, u) PROVE PresenceInv'
  <2> DEFINE req == [NoRequest EXCEPT !.at = "lock_commit", !.user = u]
  <2>1. req \in Request /\ req.at = "lock_commit"
    BY DEF NoRequest, Request, RequestPC
  <2>2. Begin(a, req) /\ Exists(u) /\ ~HasRow(u)
    BY <1>5 DEF LockSelect
  <2>3. QED
    BY <1>1, <2>1, <2>2 DEF Agrees
<1>6. ASSUME NEW u \in User, ResetMfaModify(a, u) PROVE PresenceInv'
  <2> DEFINE req == [NoRequest EXCEPT !.at = "mfa_select", !.user = u]
  <2>1. req \in Request /\ req.at = "mfa_select"
    BY DEF NoRequest, Request, RequestPC
  <2>2. Begin(a, req) /\ Exists(u) /\ ldap' = [ldap EXCEPT ![u].mfa = FALSE]
    BY <1>6 DEF ResetMfaModify
  <2>3. \A v \in User : ldap'[v] # Null <=> ldap[v] # Null
    <3>1. ldap[u] \in Entry
      BY <2>2 DEF TypeInv, TypeOK, Exists
    <3>2. [ldap[u] EXCEPT !.mfa = FALSE] \in Entry
      BY <3>1 DEF Entry
    <3>3. ldap' = [ldap EXCEPT ![u] = [ldap[u] EXCEPT !.mfa = FALSE]]
      BY <2>2
    <3>4. QED
      BY <3>1, <3>2, <3>3, NullAssumption DEF TypeInv, TypeOK
  <2> HIDE DEF req
  <2>4. QED
    BY <1>1, <2>1, <2>2, <2>3, Alone DEF Half, Agrees, Exists, HasRow
<1>7. ASSUME NEW r \in reports, NEW action \in Resolution, ResolveSelect(a, r, action) PROVE PresenceInv'
  <2> DEFINE req == [NoRequest EXCEPT !.at = "resolve_ldap", !.user = r.key[2], !.report = r,
                                      !.action = action]
  <2>1. req \in Request /\ req.at = "resolve_ldap"
    <3>1. r \in Report /\ r.key[2] \in User
      BY DEF TypeInv, TypeOK, Report, Key
    <3>2. QED
      BY <3>1 DEF NoRequest, Request, RequestPC
  <2>2. Begin(a, req) /\ ldap' = ldap
    BY <1>7 DEF ResolveSelect
  <2> HIDE DEF req
  <2>3. QED
    BY <1>1, <2>1, <2>2, Alone DEF Half, Agrees, Exists, HasRow
<1>8. QED
  BY <1>2, <1>3, <1>4, <1>5, <1>6, <1>7 DEF RequestBegins

\* The steps of a request.
LEMMA StepPresence ==
  ASSUME TypeInv, IdInv, PresenceInv, OneAtATime, NEW a \in Admin, RequestStep(a),
         Resolution \cap {"delete_ldap", "delete_db"} = {}
  PROVE  PresenceInv'
<1> SUFFICES ASSUME faults = 0, edits = 0 PROVE PresenceInv'
  BY DEF PresenceInv, RequestStep, CreateSelect, CreateAdd, CreateCommit, SelectRow, UpdateRead,
         UpdateCommit,
         DeleteCommit, LockCommit, ResetMfaCommit, ResolveLdap, ResolveRow, ResolveRefused, ResolveCommit
<1> DEFINE req == request[a]
<1>0. /\ req \in Request /\ req.at # "idle" /\ req.user \in User /\ Carries(req) /\ Half(req)
      /\ \A b \in Admin : b # a => request[b].at = "idle"
      /\ \A u \in User : Agrees(u) \/ (req.at \in Torn /\ req.user = u)
  <2>1. req.at # "idle" /\ req \in Request
    <3>1. req.at # "idle"
      BY DEF RequestStep, CreateSelect, CreateAdd, CreateCommit, SelectRow, UpdateRead,
             UpdateCommit, DeleteCommit, LockCommit, ResetMfaCommit, ResolveLdap, ResolveRow,
             ResolveRefused, ResolveCommit
    <3>2. req \in Request
      BY DEF TypeInv, TypeOK
    <3>3. QED
      BY <3>1, <3>2
  <2>2. \A b \in Admin : b # a => request[b].at = "idle"
    BY <2>1 DEF OneAtATime
  <2>3. QED
    BY <2>1, <2>2 DEF TypeInv, Carries, PresenceInv, Torn
\* A request that ends with its user in both stores or in neither.
<1>1. ASSUME End(a), \A u \in User : ldap'[u] # Null <=> meta'[u] # Null PROVE PresenceInv'
  <2>1. request'[a] = NoRequest /\ \A b \in Admin : b # a => request'[b].at = "idle"
    <3>1. NoRequest \in Request /\ request' = [request EXCEPT ![a] = NoRequest]
      BY <1>1, IdleTypes DEF End
    <3>2. request'[a] = NoRequest /\ \A b \in Admin : b # a => request'[b] = request[b]
      BY <3>1, Slot
    <3>3. QED
      BY <1>0, <3>2
  <2>2. Half(request[a])'
    BY <2>1 DEF Half, NoRequest
  <2>3. QED
    BY <1>1, <2>1, <2>2, Alone
\* A request that goes on.
<1>2. ASSUME NEW next \in Request, request' = [request EXCEPT ![a] = next], UNCHANGED meta,
             \A u \in User : (ldap'[u] # Null <=> meta[u] # Null) \/ (next.at \in Torn /\ next.user = u),
             next.at = "create_add" => meta[next.user] = Null,
             next.at = "create_commit" => ldap'[next.user] # Null /\ meta[next.user] = Null,
             next.at \in {"delete_select", "delete_commit"} =>
                 ldap'[next.user] = Null /\ meta[next.user] # Null,
             next.at = "delete_commit" => next.row # Null /\ next.row.id = meta[next.user].id,
             next.at \in {"resolve_select", "resolve_commit"} /\ next.action = "create_db" =>
                 ldap'[next.user] # Null,
             next.at \in {"lock_commit", "update_commit"} => ldap'[next.user] # Null
      PROVE  PresenceInv'
  <2>0. request' = [request EXCEPT ![a] = next]
    BY <1>2
  <2>1. request'[a] = next /\ \A b \in Admin : b # a => request'[b].at = "idle"
    BY <1>0, <2>0, Slot
  <2>2. Half(request[a])'
    BY <1>2, <2>1 DEF Half, Exists, HasRow
  <2>3. QED
    BY <1>2, <2>1, <2>2, Alone
<1>3. CASE CreateSelect(a)
  <2>1. \A u \in User : ldap'[u] # Null <=> meta'[u] # Null
    BY <1>0, <1>3 DEF CreateSelect, storeVars, Torn, Agrees, Exists, HasRow
  <2>2. CASE HasRow(req.user)
    BY <1>1, <1>3, <2>1, <2>2 DEF CreateSelect
  <2>3. CASE ~HasRow(req.user)
    <3> DEFINE next == [req EXCEPT !.at = "create_add"]
    <3>1. next \in Request /\ next.at = "create_add" /\ next.user = req.user
      BY <1>0 DEF Request, RequestPC
    <3>2. request' = [request EXCEPT ![a] = next] /\ meta' = meta
      BY <1>3, <2>3 DEF CreateSelect, Goto, storeVars
    <3> HIDE DEF next
    <3>3. QED
      BY <1>2, <2>1, <2>3, <3>1, <3>2 DEF HasRow
  <2>4. QED
    BY <2>2, <2>3
<1>4. CASE CreateAdd(a)
  <2>0. \A u \in User : Agrees(u)
    BY <1>0, <1>4 DEF CreateAdd, Torn
  <2>1. CASE Exists(req.user)
    BY <1>1, <1>4, <2>0, <2>1 DEF CreateAdd, Agrees, Exists, HasRow
  <2>2. CASE ~Exists(req.user)
    <3> DEFINE next == [req EXCEPT !.at = "create_commit"]
               entry == [cn |-> req.cn, displayName |-> req.name, mfa |-> FALSE]
    <3>1. next \in Request /\ next.at = "create_commit" /\ next.user = req.user
      BY <1>0 DEF Request, RequestPC
    <3>2. entry \in Entry
      BY <1>0, <1>4 DEF CreateAdd, Carries, Request, Entry
    <3>3. request' = [request EXCEPT ![a] = next] /\ ldap' = [ldap EXCEPT ![req.user] = entry] /\ meta' = meta
      BY <1>4, <2>2 DEF CreateAdd, Goto
    <3>4. meta[req.user] = Null
      BY <1>0, <1>4 DEF CreateAdd, Half, HasRow
    <3> HIDE DEF next, entry
    <3>5. ldap'[req.user] # Null /\ \A u \in User : u # req.user => ldap'[u] = ldap[u]
      BY <1>0, <3>2, <3>3, NullAssumption DEF TypeInv, TypeOK
    <3>6. \A u \in User : (ldap'[u] # Null <=> meta[u] # Null) \/ (next.at \in Torn /\ next.user = u)
      BY <2>0, <3>1, <3>5 DEF Torn, Agrees, Exists, HasRow
    <3>7. ldap'[next.user] # Null /\ meta[next.user] = Null
      BY <3>1, <3>4, <3>5
    <3>8. QED
      BY <1>2, <3>1, <3>3, <3>6, <3>7
  <2>3. QED
    BY <2>1, <2>2
<1>5. CASE CreateCommit(a)
  <2>1. Exists(req.user) /\ ~HasRow(req.user)
    BY <1>0, <1>5 DEF CreateCommit, Half
  <2> DEFINE row == [id |-> nextRow, name |-> IF req.name # Null THEN req.name ELSE req.cn, mfa |-> FALSE]
  <2>2. row \in MetaRow
    BY <1>0 DEF MetaRow, Request, TypeInv, TypeOK
  <2>3. meta' = [meta EXCEPT ![req.user] = row] /\ ldap' = ldap /\ End(a)
    BY <1>5, <2>1 DEF CreateCommit, Insert
  <2> HIDE DEF row
  <2>4. meta'[req.user] # Null /\ \A u \in User : u # req.user => meta'[u] = meta[u]
    BY <1>0, <2>2, <2>3, NullAssumption DEF TypeInv, TypeOK
  <2>5. QED
    BY <1>0, <1>1, <2>1, <2>3, <2>4 DEF Agrees, Exists, HasRow
<1>6. CASE SelectRow(a)
  <2> DEFINE at == IF req.at = "update_select" THEN "update_read"
                   ELSE IF req.at = "delete_select" THEN "delete_commit" ELSE "mfa_commit"
             next == WithRowRead(req, at, meta[req.user])
  <2>1. next \in Request /\ next.at = at /\ next.user = req.user /\ next.row = meta[req.user]
    <3>1. at \in RequestPC /\ meta[req.user] \in MetaRow \cup {Null}
      BY <1>0 DEF RequestPC, TypeInv, TypeOK
    <3>2. QED
      BY <1>0, <3>1, WithRow
  <2>2. request' = [request EXCEPT ![a] = next] /\ meta' = meta /\ ldap' = ldap
    BY <1>6 DEF SelectRow, WithRowRead, storeVars
  <2>3. req.at \in {"update_select", "delete_select", "mfa_select"}
    BY <1>6 DEF SelectRow
  <2> HIDE DEF next
  <2>4. CASE req.at = "delete_select"
    <3>1. ldap[req.user] = Null /\ meta[req.user] # Null /\ next.at = "delete_commit"
      BY <1>0, <2>1, <2>4 DEF Half, Exists, HasRow
    <3>2. QED
      BY <1>0, <1>2, <2>1, <2>2, <2>4, <3>1 DEF Torn, Agrees, Exists, HasRow
  <2>5. CASE req.at # "delete_select"
    <3>1. next.at \in {"update_read", "mfa_commit"}
      BY <2>1, <2>3, <2>5
    <3>2. QED
      BY <1>0, <1>2, <2>1, <2>2, <2>3, <2>5, <3>1 DEF Torn, Agrees, Exists, HasRow
  <2>6. QED
    BY <2>4, <2>5
<1>7. CASE UpdateRead(a)
  <2>1. (\A u \in User : Agrees(u)) /\ meta' = meta /\ ldap' = ldap
    BY <1>0, <1>7 DEF UpdateRead, storeVars, Torn
  <2>2. CASE ~Exists(req.user)
    BY <1>1, <1>7, <2>1, <2>2 DEF UpdateRead, Agrees, Exists, HasRow
  <2>3. CASE Exists(req.user)
    <3> DEFINE next == [req EXCEPT !.at = "update_commit"]
    <3>1. next \in Request /\ next.at = "update_commit" /\ next.user = req.user
      BY <1>0 DEF Request, RequestPC
    <3>2. request' = [request EXCEPT ![a] = next]
      BY <1>7, <2>3 DEF UpdateRead, Goto
    <3> HIDE DEF next
    <3>3. QED
      BY <1>2, <2>1, <2>3, <3>1, <3>2 DEF Agrees, Exists, HasRow
  <2>4. QED
    BY <2>2, <2>3
<1>8. CASE UpdateCommit(a)
  <2>0. \A u \in User : Agrees(u)
    BY <1>0, <1>8 DEF UpdateCommit, Torn
  <2>1. ldap' = ldap /\ End(a)
    BY <1>8 DEF UpdateCommit
  <2>2. \A u \in User : HasRow(u)' <=> HasRow(u)
    <3>1. CASE req.row = Null
      <4>1. HasRow(req.user)
        BY <1>0, <1>8, <2>0 DEF UpdateCommit, Half, Agrees
      <4>2. QED
        BY <1>8, <3>1, <4>1 DEF UpdateCommit, Insert, HasRow
    <3>2. CASE req.row # Null
      <4>1. req.row \in MetaRow /\ req.row.mfa \in BOOLEAN
            /\ (IF req.name # Null THEN req.name ELSE req.row.name) \in Name \cup {Null}
        BY <1>0, <3>2 DEF Request, MetaRow
      <4>2. QED
        BY <1>0, <1>8, <3>2, <4>1, UpdateKeeps DEF UpdateCommit
    <3>3. QED
      BY <3>1, <3>2
  <2>3. QED
    BY <1>1, <2>0, <2>1, <2>2 DEF Agrees, Exists, HasRow
<1>9. CASE DeleteCommit(a)
  <2>1. /\ ~Exists(req.user) /\ HasRow(req.user)
        /\ req.row # Null /\ req.row.id = meta[req.user].id
    BY <1>0, <1>9 DEF DeleteCommit, Half
  <2>2. Delete(meta[req.user].id) /\ ldap' = ldap /\ End(a)
    BY <1>9, <2>1 DEF DeleteCommit
  <2>3. meta'[req.user] = Null /\ \A u \in User : u # req.user => meta'[u] = meta[u]
    BY <1>0, <2>1, <2>2 DEF Delete, IdInv, RowIds, HasRow
  <2>4. QED
    BY <1>0, <1>1, <2>1, <2>2, <2>3 DEF Agrees, Exists, HasRow
<1>10. CASE LockCommit(a)
  <2>1. HasRow(req.user) /\ \A u \in User : Agrees(u)
    BY <1>0, <1>10 DEF LockCommit, Half, Torn, Agrees
  <2>2. meta' = meta /\ ldap' = ldap /\ End(a)
    BY <1>10, <2>1 DEF LockCommit, Insert
  <2>3. QED
    BY <1>1, <2>1, <2>2 DEF Agrees, Exists, HasRow
<1>11. CASE ResetMfaCommit(a)
  <2>0. \A u \in User : Agrees(u)
    BY <1>0, <1>11 DEF ResetMfaCommit, Torn
  <2>1. ldap' = ldap /\ End(a)
    BY <1>11 DEF ResetMfaCommit
  <2>2. \A u \in User : HasRow(u)' <=> HasRow(u)
    <3>1. CASE req.row = Null
      BY <1>11, <3>1 DEF ResetMfaCommit, HasRow
    <3>2. CASE req.row # Null
      <4>1. req.row \in MetaRow /\ req.row.name \in Name \cup {Null}
        BY <1>0, <3>2 DEF Request, MetaRow
      <4>2. QED
        BY <1>0, <1>11, <3>2, <4>1, UpdateKeeps DEF ResetMfaCommit
    <3>3. QED
      BY <3>1, <3>2
  <2>3. QED
    BY <1>1, <2>0, <2>1, <2>2 DEF Agrees, Exists, HasRow
<1>12. CASE ResolveLdap(a)
  <2>0. req.action # "delete_ldap" /\ \A u \in User : Agrees(u)
    BY <1>0, <1>12 DEF ResolveLdap, Carries, Torn
  <2>1. ldap' = ldap /\ meta' = meta
    BY <1>12, <2>0 DEF ResolveLdap
  <2>2. CASE req.action = "create_db" /\ ~Exists(req.user)
    BY <1>1, <1>12, <2>0, <2>1, <2>2 DEF ResolveLdap, Agrees, Exists, HasRow
  <2>3. CASE ~(req.action = "create_db" /\ ~Exists(req.user))
    <3> DEFINE entry == IF req.action \in {"create_db", "sync_attribute"} THEN ldap[req.user] ELSE Null
               next == WithEntryRead(req, "resolve_select", entry)
    <3>1. /\ next \in Request /\ next.at = "resolve_select"
          /\ next.user = req.user /\ next.action = req.action
      <4>1. entry \in Entry \cup {Null} /\ "resolve_select" \in RequestPC
        BY <1>0 DEF TypeInv, TypeOK, RequestPC
      <4> HIDE DEF entry
      <4>2. QED
        BY <1>0, <4>1, WithEntry
    <3>2. request' = [request EXCEPT ![a] = next]
      BY <1>12, <2>3 DEF ResolveLdap, WithEntryRead
    <3> HIDE DEF next
    <3>3. QED
      BY <1>2, <2>0, <2>1, <2>3, <3>1, <3>2 DEF Agrees, Exists, HasRow
  <2>4. QED
    BY <2>2, <2>3
<1>13. CASE ResolveRow(a)
  <2> DEFINE found == \/ req.action = "create_db"
                      \/ /\ req.action = "sync_attribute" /\ HasRow(req.user)
                         /\ meta[req.user].id = req.report.db
             row == IF found THEN meta[req.user] ELSE Null
             next == WithRowRead(req, "resolve_commit", row)
  <2>1. /\ next \in Request /\ next.at = "resolve_commit"
        /\ next.user = req.user /\ next.action = req.action
    <3>1. row \in MetaRow \cup {Null} /\ "resolve_commit" \in RequestPC
      BY <1>0 DEF TypeInv, TypeOK, RequestPC
    <3> HIDE DEF row
    <3>2. QED
      BY <1>0, <3>1, WithRow
  <2>2. request' = [request EXCEPT ![a] = next] /\ meta' = meta /\ ldap' = ldap
    BY <1>13 DEF ResolveRow, WithRowRead, storeVars
  <2>3. (\A u \in User : Agrees(u)) /\ (req.action = "create_db" => Exists(req.user))
    BY <1>0, <1>13 DEF ResolveRow, Torn, Half
  <2> HIDE DEF next
  <2>4. QED
    BY <1>2, <2>1, <2>2, <2>3 DEF Agrees, Exists, HasRow
<1>14. CASE ResolveRefused(a)
  BY <1>0, <1>1, <1>14 DEF ResolveRefused, storeVars, Torn, Agrees, Exists, HasRow
<1>15. CASE ResolveCommit(a)
  <2>0. req.action \notin {"delete_ldap", "delete_db"} /\ \A u \in User : Agrees(u)
    BY <1>0, <1>15 DEF ResolveCommit, Carries, Torn
  <2>1. ldap' = ldap /\ End(a)
    BY <1>15 DEF ResolveCommit
  <2>2. \A u \in User : HasRow(u)' <=> HasRow(u)
    <3>1. CASE req.action = "create_db" /\ req.row = Null
      <4>1. req.entry \in Entry /\ ~HasRow(req.user)
        BY <1>0, <1>15, <3>1 DEF ResolveCommit, Carries
      <4>2. Exists(req.user)
        BY <1>0, <1>15, <3>1 DEF ResolveCommit, Half
      <4>3. QED
        BY <1>0, <2>0, <4>1, <4>2 DEF Agrees
    <3>2. CASE req.action = "sync_attribute" /\ req.row # Null /\ req.entry # Null
      <4>1. req.row \in MetaRow /\ Shown(req.entry) \in Name \cup {Null} /\ req.entry.mfa \in BOOLEAN
        BY <1>0, <3>2 DEF Request, Shown, Entry
      <4>2. QED
        BY <1>0, <1>15, <3>2, <4>1, UpdateKeeps DEF ResolveCommit
    <3>3. CASE /\ ~(req.action = "create_db" /\ req.row = Null)
               /\ ~(req.action = "sync_attribute" /\ req.row # Null /\ req.entry # Null)
      BY <1>15, <2>0, <3>3 DEF ResolveCommit, HasRow
    <3>4. QED
      BY <3>1, <3>2, <3>3
  <2>3. QED
    BY <1>1, <2>0, <2>1, <2>2 DEF Agrees, Exists, HasRow
<1>16. QED
  BY <1>3, <1>4, <1>5, <1>6, <1>7, <1>8, <1>9, <1>10, <1>11, <1>12, <1>13, <1>14, <1>15
     DEF RequestStep

\* Scans touch neither store; failures and other clients end the premise.
LEMMA OtherPresence ==
  ASSUME TypeInv, PresenceInv,
         \/ \E s \in Scanner : ScanStep(s) \/ ScanFails(s)
         \/ \E a \in Admin : RequestFails(a)
         \/ \E u \in User, e \in Entry \cup {Null} : DirectoryEdit(u, e)
         \/ UNCHANGED vars
  PROVE  PresenceInv'
<1>1. CASE \E a \in Admin : RequestFails(a)
  <2>1. faults' # 0
    BY <1>1 DEF RequestFails, Fault, TypeInv, TypeOK
  <2>2. QED
    BY <2>1 DEF PresenceInv
<1>2. CASE \E u \in User, e \in Entry \cup {Null} : DirectoryEdit(u, e)
  <2>1. edits' # 0
    BY <1>2 DEF DirectoryEdit, TypeInv, TypeOK
  <2>2. QED
    BY <2>1 DEF PresenceInv
<1>3. CASE \E s \in Scanner : ScanFails(s)
  <2>1. faults' # 0
    BY <1>3 DEF ScanFails, Fault, TypeInv, TypeOK
  <2>2. QED
    BY <2>1 DEF PresenceInv
<1>4. CASE (\E s \in Scanner : ScanStep(s)) \/ UNCHANGED vars
  <2>1. UNCHANGED <<ldap, meta, request, faults, edits>>
    BY <1>4 DEF ScanStep, ScanSearch, ScanSelect, ScanExisting, ScanCommit, storeVars, vars
  <2>2. QED
    BY <2>1 DEF PresenceInv, Agrees, Half, Exists, HasRow
<1>5. QED
  BY <1>1, <1>2, <1>3, <1>4

\* Where administrators do not overlap and nobody asks for a destructive
\* resolution, as long as nothing has failed and no other client has written,
\* a user is in both stores or in neither whenever no request runs: the order
\* of LDAP write and commit in create_user, update_user, delete_user and
\* resolve_discrepancy leaves no half behind, whatever scans read meanwhile.
THEOREM SerialPresence ==
  ASSUME Resolution \cap {"delete_ldap", "delete_db"} = {}
  PROVE  Spec /\ []OneAtATime => []PresenceAgrees
<1>1. Init => TypeInv /\ IdInv /\ PresenceInv
  <2>1. Init => PresenceInv
    BY DEF Init, PresenceInv, Agrees, Exists, HasRow, Half, NoRequest
  <2>2. QED
    BY <2>1, TypeInit, IdInit
<1>2. TypeInv /\ IdInv /\ PresenceInv /\ OneAtATime /\ OneAtATime' /\ [Next]_vars
        => (TypeInv /\ IdInv /\ PresenceInv)'
  <2> SUFFICES ASSUME TypeInv, IdInv, PresenceInv, OneAtATime, OneAtATime', [Next]_vars
               PROVE  PresenceInv'
    BY TypeStep, IdStep
  <2>1. QED
    BY BeginPresence, StepPresence, OtherPresence DEF Next
<1>3. PresenceInv => PresenceAgrees
  BY DEF PresenceInv, PresenceAgrees, Torn, Agrees, Exists, HasRow
<1>4. QED
  BY <1>1, <1>2, <1>3, PTL DEF Spec

-----------------------------------------------------------------------------
(* Creates and copies that overlap.                                        *)

\* The row says what the entry says.
Copied(u) ==
    /\ Exists(u) /\ HasRow(u)
    /\ meta[u].name = Shown(ldap[u])
    /\ meta[u].mfa <=> ldap[u].mfa

\* Where only creates and copies run, an entry without a row is a create that
\* is about to commit, and what a request carries is what the entry says.
Made(req) ==
    /\ req.at \in {"idle", "create_select", "create_add", "create_commit",
                   "resolve_ldap", "resolve_select", "resolve_commit"}
    /\ req.at = "create_commit" => /\ Exists(req.user)
                                   /\ ldap[req.user].cn = req.cn
                                   /\ ldap[req.user].displayName = req.name
                                   /\ ~ldap[req.user].mfa
    /\ (req.at \in {"resolve_select", "resolve_commit"} /\ req.entry # Null) => req.entry = ldap[req.user]

CreatesInv ==
    (faults = 0 /\ edits = 0) =>
        /\ \A u \in User :
              \/ ~Exists(u) /\ ~HasRow(u)
              \/ Copied(u)
              \/ /\ Exists(u) /\ ~HasRow(u)
                 /\ \E a \in Admin : request[a].at = "create_commit" /\ request[a].user = u
        /\ \A a \in Admin : Made(request[a])

\* The operations and resolutions of CreatesAgree.
OnlyCreates ==
    /\ Operation \subseteq {"create", "resolve"}
    /\ Resolution \subseteq {"create_db", "sync_attribute", "ignore"}

\* A step that writes neither store, and whose requests carry what they should.
LEMMA StoresKept ==
  ASSUME CreatesInv, faults = 0, edits = 0, UNCHANGED <<ldap, meta>>,
         \A a \in Admin : Made(request[a])',
         \A a \in Admin : request[a].at = "create_commit" => request'[a] = request[a]
  PROVE  CreatesInv'
  BY DEF CreatesInv, Copied, Exists, HasRow

\* The requests of the others carry the entries as they were: a step that
\* changes no entry that exists leaves them right.
LEMMA OthersMade ==
  ASSUME TypeInv, CreatesInv, faults = 0, edits = 0, NEW a \in Admin,
         \A b \in Admin : b # a => request'[b] = request[b],
         \A u \in User : ldap[u] # Null => ldap'[u] = ldap[u],
         NEW b \in Admin, b # a
  PROVE  Made(request[b])'
<1>1. Made(request[b]) /\ Carries(request[b]) /\ request[b] \in Request
  BY DEF CreatesInv, TypeInv, TypeOK
<1>2. request'[b] = request[b] /\ (request[b].at # "idle" => request[b].user \in User)
  BY <1>1 DEF Carries
<1>3. QED
  BY <1>1, <1>2 DEF Made, Exists

LEMMA BeginCreates ==
  ASSUME TypeInv, CreatesInv, OnlyCreates, NEW a \in Admin, RequestBegins(a)
  PROVE  CreatesInv'
<1> SUFFICES ASSUME faults = 0, edits = 0 PROVE CreatesInv'
  BY DEF CreatesInv, RequestBegins, CreateSearch, UpdateModify, DeleteEntry, LockSelect,
         ResetMfaModify, ResolveSelect, Begin
<1>1. ASSUME NEW req \in Request, req.at \in {"create_select", "resolve_ldap"}, Begin(a, req),
             ldap' = ldap
      PROVE  CreatesInv'
  <2>1. request'[a] = req /\ request[a].at = "idle" /\ meta' = meta
        /\ \A b \in Admin : b # a => request'[b] = request[b]
    BY <1>1, Slot DEF Begin
  <2>2. Made(request[a])'
    BY <1>1, <2>1 DEF Made
  <2>3. \A b \in Admin : Made(request[b])'
    BY <1>1, <2>1, <2>2, OthersMade
  <2>4. QED
    BY <1>1, <2>1, <2>3, StoresKept
<1>2. ASSUME NEW u \in User, NEW cn \in Name, NEW name \in Name \cup {Null}, CreateSearch(a, u, cn, name)
      PROVE  CreatesInv'
  <2> DEFINE req == [NoRequest EXCEPT !.at = "create_select", !.user = u, !.cn = cn, !.name = name]
  <2>1. req \in Request /\ req.at = "create_select"
    BY DEF NoRequest, Request, RequestPC
  <2>2. Begin(a, req) /\ ldap' = ldap
    BY <1>2 DEF CreateSearch
  <2> HIDE DEF req
  <2>3. QED
    BY <1>1, <2>1, <2>2
<1>3. ASSUME NEW r \in reports, NEW action \in Resolution, ResolveSelect(a, r, action) PROVE CreatesInv'
  <2> DEFINE req == [NoRequest EXCEPT !.at = "resolve_ldap", !.user = r.key[2], !.report = r,
                                      !.action = action]
  <2>1. req \in Request /\ req.at = "resolve_ldap"
    <3>1. r \in Report /\ r.key[2] \in User
      BY DEF TypeInv, TypeOK, Report, Key
    <3>2. QED
      BY <3>1 DEF NoRequest, Request, RequestPC
  <2>2. Begin(a, req) /\ ldap' = ldap
    BY <1>3 DEF ResolveSelect
  <2> HIDE DEF req
  <2>3. QED
    BY <1>1, <2>1, <2>2
<1>4. QED
  BY <1>2, <1>3 DEF RequestBegins, OnlyCreates

LEMMA StepCreates ==
  ASSUME TypeInv, CreatesInv, OnlyCreates, NEW a \in Admin, RequestStep(a)
  PROVE  CreatesInv'
<1> SUFFICES ASSUME faults = 0, edits = 0 PROVE CreatesInv'
  BY DEF CreatesInv, RequestStep, CreateSelect, CreateAdd, CreateCommit, SelectRow, UpdateRead,
         UpdateCommit,
         DeleteCommit, LockCommit, ResetMfaCommit, ResolveLdap, ResolveRow, ResolveRefused, ResolveCommit
<1> DEFINE req == request[a]
<1>0. /\ req \in Request /\ req.at # "idle" /\ req.user \in User /\ Carries(req) /\ Made(req)
      /\ \A u \in User :
            \/ ~Exists(u) /\ ~HasRow(u)
            \/ Copied(u)
            \/ /\ Exists(u) /\ ~HasRow(u)
               /\ \E b \in Admin : request[b].at = "create_commit" /\ request[b].user = u
  <2>1. req.at # "idle" /\ req \in Request
    BY DEF TypeInv, TypeOK, RequestStep, CreateSelect, CreateAdd, CreateCommit, SelectRow,
           UpdateRead, UpdateCommit, DeleteCommit, LockCommit, ResetMfaCommit, ResolveLdap, ResolveRow,
           ResolveRefused, ResolveCommit
  <2>2. QED
    BY <2>1 DEF TypeInv, Carries, CreatesInv
\* A request that goes on, or ends, without a write.
<1>1. ASSUME NEW next \in Request, request' = [request EXCEPT ![a] = next], UNCHANGED <<ldap, meta>>,
             req.at # "create_commit", Made(next)
      PROVE  CreatesInv'
  <2>0. request' = [request EXCEPT ![a] = next]
    BY <1>1
  <2>1. request'[a] = next /\ \A b \in Admin : b # a => request'[b] = request[b]
    BY <2>0, Slot
  <2>2. Made(request[a])'
    BY <1>1, <2>1 DEF Made, Exists
  <2>3. \A b \in Admin : Made(request[b])'
    BY <1>1, <2>1, <2>2, OthersMade
  <2>4. QED
    BY <1>1, <2>1, <2>3, StoresKept
<1>e. Made(NoRequest) /\ NoRequest \in Request
  BY IdleTypes DEF Made, NoRequest
<1>2. CASE CreateSelect(a)
  <2>1. CASE HasRow(req.user)
    BY <1>1, <1>2, <1>e, <2>1 DEF CreateSelect, End, storeVars
  <2>2. CASE ~HasRow(req.user)
    <3> DEFINE next == [req EXCEPT !.at = "create_add"]
    <3>1. next \in Request /\ next.at = "create_add"
      BY <1>0 DEF Request, RequestPC
    <3>2. Made(next)
      BY <3>1 DEF Made
    <3>3. request' = [request EXCEPT ![a] = next] /\ UNCHANGED <<ldap, meta>> /\ req.at # "create_commit"
      BY <1>2, <2>2 DEF CreateSelect, Goto, storeVars
    <3> HIDE DEF next
    <3>4. QED
      BY <1>1, <3>1, <3>2, <3>3
  <2>3. QED
    BY <2>1, <2>2
<1>3. CASE CreateAdd(a)
  <2>1. CASE Exists(req.user)
    BY <1>1, <1>3, <1>e, <2>1 DEF CreateAdd, End
  <2>2. CASE ~Exists(req.user)
    <3> DEFINE next == [req EXCEPT !.at = "create_commit"]
               entry == [cn |-> req.cn, displayName |-> req.name, mfa |-> FALSE]
    <3>1. /\ next \in Request /\ next.at = "create_commit" /\ next.user = req.user
          /\ next.cn = req.cn /\ next.name = req.name
      BY <1>0 DEF Request, RequestPC
    <3>2. entry \in Entry /\ entry.cn = req.cn /\ entry.displayName = req.name /\ ~entry.mfa
      BY <1>0, <1>3 DEF CreateAdd, Carries, Request, Entry
    <3>3. request' = [request EXCEPT ![a] = next] /\ ldap' = [ldap EXCEPT ![req.user] = entry] /\ meta' = meta
      BY <1>3, <2>2 DEF CreateAdd, Goto
    <3> HIDE DEF next, entry
    <3>4. ldap'[req.user] = entry /\ entry # Null /\ \A u \in User : u # req.user => ldap'[u] = ldap[u]
      BY <1>0, <3>2, <3>3, NullAssumption DEF TypeInv, TypeOK
    <3>5. request'[a] = next /\ \A b \in Admin : b # a => request'[b] = request[b]
      BY <3>1, <3>3, Slot
    <3>6. Made(request[a])'
      BY <3>1, <3>2, <3>4, <3>5 DEF Made, Exists
    <3>7. \A u \in User : ldap[u] # Null => ldap'[u] = ldap[u]
      BY <2>2, <3>4 DEF Exists
    <3>8. \A b \in Admin : Made(request[b])'
      BY <3>5, <3>6, <3>7, OthersMade
    <3>9. ~HasRow(req.user)
      BY <1>0, <2>2 DEF Copied
    <3>10. \A u \in User :
             \/ ~Exists(u)' /\ ~HasRow(u)'
             \/ Copied(u)'
             \/ /\ Exists(u)' /\ ~HasRow(u)'
                /\ \E b \in Admin : request'[b].at = "create_commit" /\ request'[b].user = u
      <4> SUFFICES ASSUME NEW u \in User
                   PROVE  \/ ~Exists(u)' /\ ~HasRow(u)'
                          \/ Copied(u)'
                          \/ /\ Exists(u)' /\ ~HasRow(u)'
                             /\ \E b \in Admin : request'[b].at = "create_commit" /\ request'[b].user = u
        OBVIOUS
      <4>1. CASE u = req.user
        BY <3>1, <3>3, <3>4, <3>5, <3>9, <4>1 DEF Exists, HasRow
      <4>2. CASE u # req.user
        <5>1. ldap'[u] = ldap[u] /\ meta'[u] = meta[u]
          BY <3>3, <3>4, <4>2
        <5>2. \A b \in Admin : request[b].at = "create_commit" => request'[b] = request[b]
          BY <1>3, <3>5 DEF CreateAdd
        <5>3. QED
          BY <1>0, <5>1, <5>2 DEF Exists, HasRow, Copied
      <4>3. QED
        BY <4>1, <4>2
    <3>11. QED
      BY <3>8, <3>10 DEF CreatesInv
  <2>3. QED
    BY <2>1, <2>2
\* A write of the user's row that copies the entry; the request ends.
<1>v. PICK v \in User : v = req.user
  BY <1>0
<1>4. ASSUME End(a), ldap' = ldap,
             \A u \in User : u # v => meta'[u] = meta[u], Copied(v)'
      PROVE  CreatesInv'
  <2>1. request'[a] = NoRequest /\ \A b \in Admin : b # a => request'[b] = request[b]
    BY <1>4, <1>e, Slot DEF End
  <2>2. Made(request[a])'
    BY <2>1 DEF Made, NoRequest
  <2>3. \A b \in Admin : Made(request[b])'
    BY <1>4, <2>1, <2>2, OthersMade
  <2>4. \A u \in User :
             \/ ~Exists(u)' /\ ~HasRow(u)'
             \/ Copied(u)'
             \/ /\ Exists(u)' /\ ~HasRow(u)'
                /\ \E b \in Admin : request'[b].at = "create_commit" /\ request'[b].user = u
    <3> SUFFICES ASSUME NEW u \in User, u # v
                 PROVE  \/ ~Exists(u)' /\ ~HasRow(u)'
                        \/ Copied(u)'
                        \/ /\ Exists(u)' /\ ~HasRow(u)'
                           /\ \E b \in Admin : request'[b].at = "create_commit" /\ request'[b].user = u
      BY <1>4
    <3>1. ldap'[u] = ldap[u] /\ meta'[u] = meta[u]
      BY <1>4
    <3>2. \A b \in Admin : request[b].at = "create_commit" /\ request[b].user = u => request'[b] = request[b]
      BY <1>v, <1>4, <2>1
    <3>3. QED
      BY <1>0, <3>1, <3>2 DEF Exists, HasRow, Copied
  <2>5. QED
    BY <2>3, <2>4 DEF CreatesInv
\* An insert of what the entry says.
<1>5. ASSUME End(a), ldap' = ldap, Exists(req.user), NEW name \in Name \cup {Null}, NEW mfa \in BOOLEAN,
             Insert(req.user, name, mfa), name = Shown(ldap[req.user]), mfa <=> ldap[req.user].mfa
      PROVE  CreatesInv'
  <2>1. Copied(v)' /\ \A u \in User : u # v => meta'[u] = meta[u]
    <3>1. CASE HasRow(req.user)
      <4>1. Copied(v) /\ meta' = meta
        BY <1>0, <1>v, <1>5, <3>1 DEF Insert
      <4>2. QED
        BY <1>5, <4>1 DEF Copied, Exists, HasRow
    <3>2. CASE ~HasRow(req.user)
      <4> DEFINE row == [id |-> nextRow, name |-> name, mfa |-> mfa]
      <4>1. row \in MetaRow /\ row.name = name /\ (row.mfa <=> mfa)
        BY DEF MetaRow, TypeInv, TypeOK
      <4>2. meta' = [meta EXCEPT ![req.user] = row]
        BY <1>5, <3>2 DEF Insert
      <4> HIDE DEF row
      <4>3. meta'[v] = row /\ row # Null /\ \A u \in User : u # v => meta'[u] = meta[u]
        BY <1>v, <4>1, <4>2, NullAssumption DEF TypeInv, TypeOK
      <4>4. QED
        BY <1>v, <1>5, <4>1, <4>3 DEF Copied, Exists, HasRow
    <3>3. QED
      BY <3>1, <3>2
  <2>2. QED
    BY <1>4, <1>5, <2>1
<1>6. CASE CreateCommit(a)
  <2> DEFINE name == IF req.name # Null THEN req.name ELSE req.cn
  <2>1. Exists(req.user) /\ ldap[req.user].cn = req.cn /\ ldap[req.user].displayName = req.name
        /\ ~ldap[req.user].mfa
    BY <1>0, <1>6 DEF CreateCommit, Made
  <2>2. name \in Name \cup {Null} /\ name = Shown(ldap[req.user])
    BY <1>0, <2>1 DEF Request, Shown
  <2>3. Insert(req.user, name, FALSE) /\ End(a) /\ ldap' = ldap
    BY <1>6 DEF CreateCommit
  <2> HIDE DEF name
  <2>4. QED
    BY <1>5, <2>1, <2>2, <2>3
<1>7. CASE ResolveLdap(a)
  <2>1. req.action # "delete_ldap"
    BY <1>0, <1>7 DEF ResolveLdap, Carries, OnlyCreates
  <2>2. CASE req.action = "create_db" /\ ~Exists(req.user)
    BY <1>1, <1>7, <1>e, <2>1, <2>2 DEF ResolveLdap, End
  <2>3. CASE ~(req.action = "create_db" /\ ~Exists(req.user))
    <3> DEFINE entry == IF req.action \in {"create_db", "sync_attribute"} THEN ldap[req.user] ELSE Null
               next == WithEntryRead(req, "resolve_select", entry)
    <3>1. next \in Request /\ next.at = "resolve_select" /\ next.user = req.user /\ next.entry = entry
      <4>1. entry \in Entry \cup {Null} /\ "resolve_select" \in RequestPC
        BY <1>0 DEF TypeInv, TypeOK, RequestPC
      <4> HIDE DEF entry
      <4>2. QED
        BY <1>0, <4>1, WithEntry
    <3>2. request' = [request EXCEPT ![a] = next] /\ UNCHANGED <<ldap, meta>> /\ req.at # "create_commit"
      BY <1>7, <2>1, <2>3 DEF ResolveLdap, WithEntryRead
    <3> HIDE DEF next
    <3>3. Made(next)
      BY <3>1 DEF Made
    <3>4. QED
      BY <1>1, <3>1, <3>2, <3>3
  <2>4. QED
    BY <2>2, <2>3
<1>8. CASE ResolveRow(a)
  <2> DEFINE found == \/ req.action = "create_db"
                      \/ /\ req.action = "sync_attribute" /\ HasRow(req.user)
                         /\ meta[req.user].id = req.report.db
             row == IF found THEN meta[req.user] ELSE Null
             next == WithRowRead(req, "resolve_commit", row)
  <2>1. next \in Request /\ next.at = "resolve_commit" /\ next.user = req.user /\ next.entry = req.entry
    <3>1. row \in MetaRow \cup {Null} /\ "resolve_commit" \in RequestPC
      BY <1>0 DEF TypeInv, TypeOK, RequestPC
    <3> HIDE DEF row
    <3>2. QED
      BY <1>0, <3>1, WithRow
  <2>2. request' = [request EXCEPT ![a] = next] /\ UNCHANGED <<ldap, meta>> /\ req.at = "resolve_select"
    BY <1>8 DEF ResolveRow, WithRowRead, storeVars
  <2> HIDE DEF next
  <2>3. Made(next)
    BY <1>0, <2>1, <2>2 DEF Made
  <2>4. QED
    BY <1>1, <2>1, <2>2, <2>3
<1>9. CASE ResolveRefused(a)
  BY <1>1, <1>9, <1>e DEF ResolveRefused, End, storeVars
<1>10. CASE ResolveCommit(a)
  <2>0. req.action # "delete_db" /\ End(a) /\ ldap' = ldap /\ req.at = "resolve_commit"
    BY <1>0, <1>10 DEF ResolveCommit, Carries, OnlyCreates
  <2>1. CASE req.action = "create_db" /\ req.row = Null
    <3>1. req.entry \in Entry /\ req.entry = ldap[req.user] /\ Exists(req.user)
      BY <1>0, <1>10, <2>1, NullAssumption DEF ResolveCommit, Carries, Made, Exists
    <3>2. Shown(req.entry) \in Name \cup {Null} /\ req.entry.mfa \in BOOLEAN
      BY <3>1 DEF Shown, Entry
    <3>3. Insert(req.user, Shown(req.entry), req.entry.mfa)
      BY <1>10, <2>1 DEF ResolveCommit
    <3>4. QED
      BY <1>5, <2>0, <3>1, <3>2, <3>3
  <2>2. CASE req.action = "sync_attribute" /\ req.row # Null /\ req.entry # Null
    <3>1. /\ req.entry = ldap[req.user] /\ Exists(req.user) /\ HasRow(req.user)
          /\ req.entry \in Entry /\ req.row \in MetaRow /\ meta[req.user].id = req.row.id
          /\ Copied(req.user)
      BY <1>0, <1>10, <2>2 DEF ResolveCommit, Made, Exists, Request
    <3> DEFINE row == [id |-> req.row.id,
                       name |-> IF Shown(req.entry) # req.row.name THEN Shown(req.entry) ELSE meta[req.user].name,
                       mfa |-> IF req.entry.mfa # req.row.mfa THEN req.entry.mfa ELSE meta[req.user].mfa]
    <3>2. meta' = [meta EXCEPT ![req.user] = row]
      BY <1>10, <2>2, <3>1 DEF ResolveCommit, Update
    <3>3. row \in MetaRow /\ row.name = Shown(req.entry) /\ (row.mfa <=> req.entry.mfa)
      <4>1. meta[req.user] \in MetaRow
        BY <1>0, <3>1 DEF TypeInv, TypeOK, HasRow
      <4>2. Shown(req.entry) \in Name \cup {Null} /\ req.entry.mfa \in BOOLEAN
        BY <3>1 DEF Shown, Entry
      <4>3. meta[req.user].name = Shown(req.entry) /\ (meta[req.user].mfa <=> req.entry.mfa)
        BY <3>1 DEF Copied
      <4>4. QED
        BY <3>1, <4>1, <4>2, <4>3 DEF MetaRow
    <3> HIDE DEF row
    <3>4. meta'[v] = row /\ row # Null /\ \A u \in User : u # v => meta'[u] = meta[u]
      BY <1>v, <3>2, <3>3, NullAssumption DEF TypeInv, TypeOK
    <3>5. Copied(v)'
      BY <1>v, <2>0, <3>1, <3>3, <3>4 DEF Copied, Exists, HasRow
    <3>6. QED
      BY <1>4, <2>0, <3>4, <3>5
  <2>3. CASE /\ ~(req.action = "create_db" /\ req.row = Null)
             /\ ~(req.action = "sync_attribute" /\ req.row # Null /\ req.entry # Null)
    <3>1. UNCHANGED <<ldap, meta>>
      BY <1>10, <2>0, <2>3 DEF ResolveCommit
    <3>2. QED
      BY <1>1, <1>e, <2>0, <3>1 DEF End
  <2>4. QED
    BY <2>1, <2>2, <2>3
<1>11. req.at \in {"create_select", "create_add", "create_commit", "resolve_ldap", "resolve_select", "resolve_commit"}
  BY <1>0 DEF Made
<1>12. QED
  BY <1>2, <1>3, <1>6, <1>7, <1>8, <1>9, <1>10, <1>11 DEF RequestStep, SelectRow, UpdateRead, UpdateCommit,
     DeleteCommit, LockCommit, ResetMfaCommit

LEMMA OtherCreates ==
  ASSUME TypeInv, CreatesInv,
         \/ \E s \in Scanner : ScanStep(s) \/ ScanFails(s)
         \/ \E a \in Admin : RequestFails(a)
         \/ \E u \in User, e \in Entry \cup {Null} : DirectoryEdit(u, e)
         \/ UNCHANGED vars
  PROVE  CreatesInv'
<1>1. CASE \/ \E a \in Admin : RequestFails(a)
           \/ \E u \in User, e \in Entry \cup {Null} : DirectoryEdit(u, e)
           \/ \E s \in Scanner : ScanFails(s)
  <2>1. faults' # 0 \/ edits' # 0
    BY <1>1 DEF RequestFails, ScanFails, Fault, DirectoryEdit, TypeInv, TypeOK
  <2>2. QED
    BY <2>1 DEF CreatesInv
<1>2. CASE (\E s \in Scanner : ScanStep(s)) \/ UNCHANGED vars
  <2>1. UNCHANGED <<ldap, meta, request, faults, edits>>
    BY <1>2 DEF ScanStep, ScanSearch, ScanSelect, ScanExisting, ScanCommit, storeVars, vars
  <2>2. QED
    BY <2>1 DEF CreatesInv, Copied, Made, Exists, HasRow
<1>3. QED
  BY <1>1, <1>2

\* However creates and non-destructive resolutions overlap, when all have
\* ended, nothing has failed and no other client has written, every entry has
\* the row that says the same:
\* the row a create commits and the row a create_db resolution inserts for
\* the same entry cannot differ, and the later one changes nothing.
THEOREM OverlappingCreates ==
  ASSUME OnlyCreates
  PROVE  Spec /\ [](faults = 0 /\ edits = 0) => []CreatesAgree
<1>1. Init => TypeInv /\ CreatesInv
  <2>1. Init => CreatesInv
    BY DEF Init, CreatesInv, Copied, Made, Exists, HasRow, NoRequest
  <2>2. QED
    BY <2>1, TypeInit
<1>2. TypeInv /\ CreatesInv /\ [Next]_vars => (TypeInv /\ CreatesInv)'
  <2> SUFFICES ASSUME TypeInv, CreatesInv, [Next]_vars PROVE CreatesInv'
    BY TypeStep
  <2>1. QED
    BY BeginCreates, StepCreates, OtherCreates DEF Next
<1>3. TypeInv /\ CreatesInv /\ faults = 0 /\ edits = 0 => CreatesAgree
  <2> SUFFICES ASSUME TypeInv, CreatesInv, faults = 0, edits = 0, \A a \in Admin : request[a].at = "idle",
                      NEW k \in Differences
               PROVE  FALSE
    BY DEF CreatesAgree
  <2>1. k \in Key /\ k[2] \in User
    BY DEF Differences, Key
  <2>2. (~Exists(k[2]) /\ ~HasRow(k[2])) \/ Copied(k[2])
    BY <2>1 DEF CreatesInv
  <2>3. CASE ~Exists(k[2]) /\ ~HasRow(k[2])
    <3>1. ldap[k[2]] = Null /\ meta[k[2]] = Null
      BY <2>3 DEF Exists, HasRow
    <3>2. QED
      BY <3>1 DEF Differences
  <2>4. CASE Copied(k[2])
    <3>1. ldap[k[2]] # Null /\ meta[k[2]] # Null /\ ldap[k[2]].mfa = meta[k[2]].mfa
      <4>1. ldap[k[2]] \in Entry /\ meta[k[2]] \in MetaRow
        BY <2>1, <2>4 DEF Copied, Exists, HasRow, TypeInv, TypeOK
      <4>2. ldap[k[2]].mfa \in BOOLEAN /\ meta[k[2]].mfa \in BOOLEAN
        BY <4>1 DEF Entry, MetaRow
      <4>3. QED
        BY <2>4, <4>2 DEF Copied, Exists, HasRow
    <3>2. meta[k[2]].name = (IF ldap[k[2]].displayName = Null THEN ldap[k[2]].cn ELSE ldap[k[2]].displayName)
      BY <2>4 DEF Copied, Shown
    <3>3. QED
      BY <3>1, <3>2 DEF Differences
  <2>5. QED
    BY <2>2, <2>3, <2>4
<1>4. QED
  BY <1>1, <1>2, <1>3, PTL DEF Spec

-----------------------------------------------------------------------------
(* A scan that nothing disturbs.                                           *)

\* A set mapped one to one onto a finite one has as many members.
LEMMA OneToOne ==
  ASSUME NEW S, NEW T, IsFiniteSet(T), NEW f \in [S -> T],
         \A x, y \in S : f[x] = f[y] => x = y,
         \A t \in T : \E x \in S : f[x] = t
  PROVE  Cardinality(S) = Cardinality(T)
<1>1. f \in Bijection(S, T)
  BY Fun_IsBij
<1>2. f \in Injection(S, T)
  BY <1>1 DEF Bijection
<1>3. IsFiniteSet(S)
  BY <1>2, FS_Injection
<1>4. ExistsBijection(S, T)
  BY <1>1 DEF ExistsBijection
<1>5. QED
  BY <1>3, <1>4, FS_Bijection

\* There are finitely many keys.
LEMMA FiniteKeys ==
  ASSUME IsFiniteSet(User)
  PROVE  IsFiniteSet(Key)
<1>1. IsFiniteSet({"orphan_ldap"}) /\ IsFiniteSet({"orphan_ldap", "orphan_db"})
      /\ IsFiniteSet({"orphan_ldap", "orphan_db", "attribute_drift"})
      /\ IsFiniteSet({"orphan_ldap", "orphan_db", "attribute_drift", "mfa_flag_drift"})
  <2>1. IsFiniteSet({"orphan_ldap"})
    BY FS_Singleton
  <2>2. IsFiniteSet({"orphan_ldap"} \cup {"orphan_db"})
    BY <2>1, FS_AddElement
  <2>3. IsFiniteSet(({"orphan_ldap"} \cup {"orphan_db"}) \cup {"attribute_drift"})
    BY <2>2, FS_AddElement
  <2>4. IsFiniteSet((({"orphan_ldap"} \cup {"orphan_db"}) \cup {"attribute_drift"}) \cup {"mfa_flag_drift"})
    BY <2>3, FS_AddElement
  <2>5. /\ {"orphan_ldap"} \cup {"orphan_db"} = {"orphan_ldap", "orphan_db"}
        /\ {"orphan_ldap", "orphan_db"} \cup {"attribute_drift"} = {"orphan_ldap", "orphan_db", "attribute_drift"}
        /\ {"orphan_ldap", "orphan_db", "attribute_drift"} \cup {"mfa_flag_drift"}
             = {"orphan_ldap", "orphan_db", "attribute_drift", "mfa_flag_drift"}
    OBVIOUS
  <2>6. QED
    BY <2>1, <2>2, <2>3, <2>4, <2>5
<1>2. QED
  BY <1>1, FS_Product DEF Key, Kind

\* What a scan finds in stores that have not changed is the difference.
LEMMA FoundIsDifference ==
  ASSUME TypeInv, NEW s \in Scanner, scan[s].ldap = ldap, scan[s].meta = meta
  PROVE  Current(s) = Differences
<1> SUFFICES ASSUME NEW k \in Key
             PROVE  k[1] \in Found(ldap, meta, k[2]) <=> k \in Differences
  BY DEF Current, Differences
<1>1. k[1] \in Kind /\ k[2] \in User
  BY DEF Key
<1>2. CASE ldap[k[2]] = Null \/ meta[k[2]] = Null
  BY <1>1, <1>2 DEF Found, Differences
<1>3. CASE ldap[k[2]] # Null /\ meta[k[2]] # Null
  BY <1>1, <1>3 DEF Found, Differences, Shown
<1>4. QED
  BY <1>2, <1>3

OpenReports == {r \in reports : r.closed = "open"}

\* The reconciled list of a scan that has read all open reports: one open
\* report for each difference.
LEMMA QuietCommit ==
  ASSUME TypeInv, IdInv, IsFiniteSet(User), NEW s \in Scanner, ScanCommit(s),
         scan[s].ldap = ldap, scan[s].meta = meta,
         scan[s].existing = {Id(r) : r \in OpenReports}
  PROVE  Reported' = Differences /\ Cardinality(OpenReports') = Cardinality(Differences)
<1>1. PICK keep \in SUBSET scan[s].existing :
         Kept(s, keep) /\ reports' = Reconciled(s, keep) \cup NewReports(s, keep)
  BY DEF ScanCommit
<1>2. Current(s) = Differences
  BY FoundIsDifference
<1>3. \A r \in OpenReports : r \in reports /\ r \in Report /\ r.closed = "open"
  BY DEF OpenReports, TypeInv, TypeOK
\* What is open afterwards is a report that was kept or a new one.
<1>4. \A r \in Reconciled(s, keep) : r.closed = "open" => r \in OpenReports /\ Id(r) \in keep
  <2> SUFFICES ASSUME NEW r \in Reconciled(s, keep), r.closed = "open"
               PROVE  r \in OpenReports /\ Id(r) \in keep
    OBVIOUS
  <2>1. PICK q \in reports :
           r = IF Id(q) \in scan[s].existing \ keep
               THEN [q EXCEPT !.closed = IF q.key \in Current(s) THEN "superseded" ELSE "auto_resolved"]
               ELSE q
    BY DEF Reconciled
  <2>2. q \in Report
    BY DEF TypeInv, TypeOK
  <2>3. Id(q) \notin scan[s].existing \ keep /\ r = q
    BY <2>1, <2>2 DEF Report
  <2>4. QED
    BY <2>3 DEF OpenReports
<1>5. \A r \in OpenReports : Id(r) \in keep => r \in reports'
  BY <1>1, <1>3 DEF Reconciled
<1>6. \A id \in keep : id[1] \in Differences /\ \E r \in OpenReports : Id(r) = id /\ r.key = id[1]
  BY <1>1, <1>2 DEF Kept, Id
<1>7. \A r \in NewReports(s, keep) :
         r.closed = "open" /\ r.key \in Differences /\ \A id \in keep : id[1] # r.key
  BY <1>2 DEF NewReports
<1>8. \A k \in Differences : (\A id \in keep : id[1] # k) =>
         \E r \in NewReports(s, keep) : r.key = k
  <2> SUFFICES ASSUME NEW k \in Differences, \A id \in keep : id[1] # k
               PROVE  \E r \in NewReports(s, keep) : r.key = k
    OBVIOUS
  <2> DEFINE new == [key |-> k, batch |-> nextReport, by |-> s,
                     db |-> IF scan[s].meta[k[2]] = Null THEN 0 ELSE scan[s].meta[k[2]].id,
                     closed |-> "open"]
  <2>1. new \in NewReports(s, keep)
    BY <1>2 DEF NewReports
  <2>2. new.key = k
    OBVIOUS
  <2> HIDE DEF new
  <2>3. QED
    BY <2>1, <2>2
<1>9. \A q, r \in NewReports(s, keep) : q.key = r.key => q = r
  BY DEF NewReports
<1>10. \A r \in OpenReports' :
          \/ r \in OpenReports /\ Id(r) \in keep
          \/ r \in NewReports(s, keep)
  BY <1>1, <1>4 DEF OpenReports
<1>11. \A r \in OpenReports' : r.key \in Differences
  <2>1. \A r \in OpenReports : Id(r) \in keep => r.key \in Differences
    BY <1>6 DEF Id
  <2>2. QED
    BY <1>7, <1>10, <2>1
<1>12. \A k \in Differences : \E r \in OpenReports' : r.key = k
  <2> SUFFICES ASSUME NEW k \in Differences PROVE \E r \in OpenReports' : r.key = k
    OBVIOUS
  <2>1. CASE \E id \in keep : id[1] = k
    <3>1. PICK r \in OpenReports : Id(r) \in keep /\ r.key = k
      BY <1>6, <2>1
    <3>2. r \in OpenReports'
      BY <1>3, <1>5, <3>1 DEF OpenReports
    <3>3. QED
      BY <3>1, <3>2
  <2>2. CASE \A id \in keep : id[1] # k
    <3>1. PICK r \in NewReports(s, keep) : r.key = k
      BY <1>8, <2>2
    <3>2. r \in OpenReports'
      BY <1>1, <1>7, <3>1 DEF OpenReports
    <3>3. QED
      BY <3>1, <3>2
  <2>3. QED
    BY <2>1, <2>2
<1>13. \A q, r \in OpenReports' : q.key = r.key => q = r
  <2>1. \A q, r \in OpenReports : Id(q) \in keep /\ Id(r) \in keep /\ q.key = r.key => q = r
    <3> SUFFICES ASSUME NEW q \in OpenReports, NEW r \in OpenReports,
                        Id(q) \in keep, Id(r) \in keep, q.key = r.key
                 PROVE  q = r
      OBVIOUS
    <3>1. Id(q)[1] = Id(r)[1]
      BY DEF Id
    <3>2. Id(q) = Id(r)
      BY <1>1, <3>1 DEF Kept
    <3>3. QED
      BY <1>3, <3>2 DEF IdInv, ReportIds
  <2>2. \A q \in OpenReports, r \in NewReports(s, keep) : Id(q) \in keep => q.key # r.key
    BY <1>7 DEF Id
  <2>3. QED
    BY <1>9, <1>10, <2>1, <2>2
<1>14. Reported' = Differences
  <2>1. Reported' = {r.key : r \in OpenReports'}
    BY DEF Reported, OpenReports
  <2>2. QED
    BY <1>11, <1>12, <2>1
<1>15. Cardinality(OpenReports') = Cardinality(Differences)
  <2> DEFINE f == [r \in OpenReports' |-> r.key]
  <2>1. f \in [OpenReports' -> Differences]
    BY <1>11
  <2>2. \A q, r \in OpenReports' : f[q] = f[r] => q = r
    BY <1>13
  <2>3. \A k \in Differences : \E r \in OpenReports' : f[r] = k
    BY <1>12
  <2>4. IsFiniteSet(Differences)
    BY FiniteKeys, FS_Subset DEF Differences
  <2> HIDE DEF f
  <2>5. QED
    BY <2>1, <2>2, <2>3, <2>4, OneToOne
<1>16. QED
  BY <1>14, <1>15

\* A scan during which nothing else changed leaves exactly the differences on
\* the list, each once, whatever it found there (the reconciliation step of
\* scan_user_sync).
THEOREM QuietScans ==
  ASSUME IsFiniteSet(User)
  PROVE  Spec => QuietScanIsExact
<1> DEFINE A == \A s \in Scanner :
        (/\ scan[s].at = "commit" /\ scan'[s].at = "idle" /\ faults' = faults
         /\ scan[s].ldap = ldap /\ scan[s].meta = meta
         /\ scan[s].existing = {<<r.key, r.batch>> : r \in {x \in reports : x.closed = "open"}})
        => /\ Reported' = Differences
           /\ Cardinality({r \in reports' : r.closed = "open"}) = Cardinality(Differences)
<1>1. TypeInv /\ IdInv /\ [Next]_vars => [A]_vars
  <2> SUFFICES ASSUME TypeInv, IdInv, Next, NEW s \in Scanner,
                      scan[s].at = "commit", scan'[s].at = "idle", faults' = faults,
                      scan[s].ldap = ldap, scan[s].meta = meta,
                      scan[s].existing = {<<r.key, r.batch>> : r \in {x \in reports : x.closed = "open"}}
               PROVE  /\ Reported' = Differences
                      /\ Cardinality({r \in reports' : r.closed = "open"}) = Cardinality(Differences)
    OBVIOUS
  <2>1. scan'[s] # scan[s]
    OBVIOUS
  <2>2. \A t \in Scanner : ScanFails(t) => faults' # faults
    BY DEF ScanFails, Fault, TypeInv, TypeOK
  <2>3. \A a \in Admin : RequestBegins(a) \/ RequestStep(a) \/ RequestFails(a) => scan' = scan
    BY DEF RequestBegins, CreateSearch, UpdateModify, DeleteEntry, LockSelect, ResetMfaModify,
           ResolveSelect, Begin, RequestStep, CreateSelect, CreateAdd, CreateCommit, SelectRow,
           UpdateRead, UpdateCommit, DeleteCommit, LockCommit, ResetMfaCommit, ResolveLdap, ResolveRow,
           ResolveRefused, ResolveCommit, RequestFails
  <2>4. PICK t \in Scanner : ScanStep(t)
    BY <2>1, <2>2, <2>3 DEF Next, DirectoryEdit
  <2>5. t = s
    BY <2>1, <2>4 DEF ScanStep, ScanSearch, ScanSelect, ScanExisting, ScanCommit, TypeInv, TypeOK
  <2>6. ScanCommit(s)
    BY <2>4, <2>5 DEF ScanStep, ScanSearch, ScanSelect, ScanExisting
  <2>7. scan[s].existing = {Id(r) : r \in OpenReports}
    BY DEF Id, OpenReports
  <2>8. OpenReports' = {r \in reports' : r.closed = "open"}
    BY DEF OpenReports
  <2>9. QED
    BY <2>6, <2>7, <2>8, QuietCommit
<1>2. Spec => []TypeInv /\ []IdInv
  BY TypeInit, TypeStep, IdInit, IdStep, PTL DEF Spec
<1>3. Spec => [][A]_vars
  BY <1>1, <1>2, PTL DEF Spec
<1>4. QED
  BY <1>3 DEF QuietScanIsExact

=============================================================================
