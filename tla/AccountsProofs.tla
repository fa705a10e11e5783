--------------------------- MODULE AccountsProofs ---------------------------
(***************************************************************************)
(* Safety of Accounts for every set of requests, founders, departments,    *)
(* addresses and payloads.                                                 *)
(***************************************************************************)
EXTENDS Accounts, TLAPS

-----------------------------------------------------------------------------
(* The inductive invariant. *)

\* The stages in which a signup or a bootstrap holds the account it inserts.
Inserting == {"insert", "commit"}

\* What the stage of a request says of its payload and of what it loaded; rows
\* exist only of requests that are done.
Sessions ==
    \A r \in Requests :
        /\ pc[r] # "idle" => request[r] \in Payloads
        /\ pc[r] = "lock" => request[r].op = "signup"
        /\ pc[r] \in Inserting =>
              request[r].op \in {"signup", "bootstrap"} /\ loaded[r] \in Users
        /\ pc[r] = "write" => request[r].op \notin {"signup", "bootstrap"}
        /\ pc[r] = "write" /\ request[r].op = "authorize" =>
              loaded[r] \in Authorizations /\ loaded[r].status = "ACTIVE"
        /\ \A a \in candidates[r] :
              /\ a \in Issued
              /\ pc[r] # "idle"
              /\ authorizations[a].address = request[r].address
        /\ pc[r] # "done" => users[r] = None /\ authorizations[r] = None

\* What the writers of existing rows still know of them: rows are not deleted,
\* and who owns an account or an authorization does not change.
Targets ==
    \A r \in Requests : pc[r] = "write" =>
        LET p == request[r] IN
        /\ p.op = "revoke" =>
              /\ p.target \in Issued
              /\ authorizations[p.target].by = p.by
        /\ p.op \in Lifecycle \cup {"move"} =>
              /\ p.target \in Accounts
              /\ users[p.target].role = p.role
              /\ loaded[r] \in Users
        /\ p.op = "move" => p.dept \in Departments

\* A signup between lock and commit holds an ACTIVE authorization for just the
\* account it inserts, and nobody else holds a lock.
Locked ==
    /\ \A r \in Requests : pc[r] \in Inserting =>
          IF request[r].op = "bootstrap"
          THEN loaded[r].origin = None /\ loaded[r].role = "SYSTEM_ADMIN"
          ELSE LET a == loaded[r].origin IN
               /\ a \in Issued
               /\ lock[a] = r
               /\ authorizations[a].status = "ACTIVE"
               /\ authorizations[a].address = loaded[r].address
               /\ authorizations[a].purpose = loaded[r].role
               /\ authorizations[a].dept = loaded[r].dept
    /\ \A a, r \in Requests : lock[a] = r =>
          pc[r] \in Inserting /\ loaded[r].origin = a

\* The unique index: an insert that waits for its commit has the address alone.
Index ==
    /\ \A r \in Requests : pc[r] = "commit" =>
          /\ \A u \in Accounts : users[u].address # loaded[r].address
          /\ \A q \in Requests \ {r} :
                pc[q] = "commit" => loaded[q].address # loaded[r].address
    /\ OneAccountPerAddress

\* AccountsAuthorized point by point; an account's authorization is used up.
Origins ==
    /\ \A f \in Founders : users[f] # None /\ users[f].origin = None
    /\ \A u \in Accounts \ Founders :
          LET a == users[u].origin IN
          /\ users[u].role = "SYSTEM_ADMIN" => a = None
          /\ users[u].role \in Managed =>
                /\ a \in Issued
                /\ authorizations[a].status # "ACTIVE"
                /\ authorizations[a].address = users[u].address
                /\ authorizations[a].purpose = users[u].role
                /\ users[u].role = "USER" => authorizations[a].dept = users[u].dept
    /\ \A u, v \in Accounts :
          users[u].origin # None /\ users[u].origin = users[v].origin => u = v
    /\ \A a \in Issued : authorizations[a].status = "USED"
          => \E u \in Accounts : users[u].origin = a

IInv == TypeOK /\ Sessions /\ Targets /\ Locked /\ Index /\ Origins

\* The audit rows of revocations and the revoked authorizations, each from the
\* other: a revocation is committed with its row by the authorization's creator,
\* and a signup never finds a lock on what was revoked.
Revocations ==
    /\ \A row \in journal : row.op = "revoke" =>
          /\ pc[row.request] = "done"
          /\ row.target \in Issued
          /\ authorizations[row.target].status = "REVOKED"
          /\ authorizations[row.target].by = request[row.request].by
    /\ \A a \in Issued : authorizations[a].status = "REVOKED"
          => \E row \in journal : row.op = "revoke" /\ row.target = a

USE DEF Goto, Load, Done, Release, Journal, database, session, vars

-----------------------------------------------------------------------------
(* Facts about payloads and rows. *)

\* What the fields of a received payload are, by operation.
LEMMA PayloadFields ==
  ASSUME NEW p \in Payloads
  PROVE  /\ p.op \in Lifecycle \cup {"authorize", "revoke", "move", "signup", "bootstrap"}
         /\ p.op \in {"signup", "bootstrap", "authorize"} => p.address \in Addresses
         /\ p.op \notin {"signup", "bootstrap"} =>
               p.role \in Managed /\ p.by \in Ids /\ p.target \in Ids \cup {None}
         /\ p.op = "move" => p.role = "ADMIN"
         /\ p # None
  BY AccountsAssumption DEF Payload, Lifecycle, Managed

\* Constants that are not None, and identities that differ.
LEMMA Distinct ==
  /\ None \notin Requests /\ None \notin Founders /\ None \notin Departments
  /\ None \notin Users /\ None \notin Authorizations /\ None \notin Payloads
  /\ Requests \subseteq Ids /\ Founders \subseteq Ids
  /\ \A i \in Ids : i \in Requests \/ i \in Founders
  /\ \A q \in Requests : q \notin Founders
  BY AccountsAssumption DEF Ids

\* The fields of rows of users and of user_authorizations.
LEMMA RowFields ==
  /\ \A u \in Users :
        /\ u.address \in Addresses /\ u.role \in Roles /\ u.status \in Statuses
        /\ u.origin \in Requests \cup {None} /\ u.dept \in Departments \cup {None}
        /\ u.role = "SYSTEM_ADMIN" <=> u.dept = None
  /\ \A a \in Authorizations :
        /\ a.address \in Addresses /\ a.dept \in Departments /\ a.by \in Ids
        /\ a.purpose \in Managed
  BY DEF Users, Authorizations

\* Changing the status of a row changes nothing else, and its type neither.
LEMMA SetStatus ==
  /\ \A u \in Users, s \in Statuses :
        LET v == [u EXCEPT !.status = s] IN
        /\ v \in Users /\ v.address = u.address /\ v.role = u.role
        /\ v.dept = u.dept /\ v.origin = u.origin /\ v.status = s
  /\ \A a \in Authorizations, s \in {"USED", "REVOKED"} :
        LET b == [a EXCEPT !.status = s] IN
        /\ b \in Authorizations /\ b.address = a.address /\ b.dept = a.dept
        /\ b.by = a.by /\ b.purpose = a.purpose /\ b.status = s
  BY DEF Users, Authorizations

\* So does changing the department of an account that has one.
LEMMA SetDept ==
  ASSUME NEW u \in Users, u.role # "SYSTEM_ADMIN", NEW d \in Departments
  PROVE  LET v == [u EXCEPT !.dept = d] IN
         /\ v \in Users /\ v.address = u.address /\ v.role = u.role
         /\ v.status = u.status /\ v.origin = u.origin /\ v.dept = d
  BY AccountsAssumption DEF Users

\* A step moves one request at most: what another one has is unchanged.
LEMMA OneMoves ==
  ASSUME TypeOK, [Next]_vars, NEW q \in Requests
  PROVE  \/ /\ pc'[q] = pc[q] /\ request'[q] = request[q]
            /\ loaded'[q] = loaded[q] /\ candidates'[q] = candidates[q]
         \/ \E p \in Payloads : Receive(q, p)
         \/ Step(q)
         \/ Abort(q)
  <1> DEFINE Still == /\ pc'[q] = pc[q] /\ request'[q] = request[q]
                      /\ loaded'[q] = loaded[q] /\ candidates'[q] = candidates[q]
  <1> USE DEF TypeOK
  <1>1. ASSUME NEW r \in Requests, r # q, NEW p \in Payloads, Receive(r, p) PROVE Still
    BY <1>1 DEF Receive
  <1>2. ASSUME NEW r \in Requests, r # q, Abort(r) PROVE Still
    BY <1>2 DEF Abort
  <1>3. ASSUME NEW r \in Requests, r # q, Step(r) PROVE Still
    <2>1. CASE CheckAuthorize(r) \/ WriteAuthorize(r)
      BY <1>3, <2>1 DEF CheckAuthorize, WriteAuthorize
    <2>2. CASE CheckRevoke(r) \/ WriteRevoke(r)
      BY <1>3, <2>2 DEF CheckRevoke, WriteRevoke
    <2>3. CASE FindActive(r) \/ NotAuthorized(r) \/ CheckBootstrap(r)
      BY <1>3, <2>3 DEF FindActive, NotAuthorized, CheckBootstrap
    <2>4. CASE LockActive(r)
      BY <1>3, <2>4 DEF LockActive
    <2>5. CASE InsertUser(r) \/ CommitUser(r)
      BY <1>3, <2>5 DEF InsertUser, CommitUser
    <2>6. CASE CheckLifecycle(r) \/ WriteLifecycle(r)
      BY <1>3, <2>6 DEF CheckLifecycle, WriteLifecycle
    <2>7. CASE CheckMove(r) \/ WriteMove(r)
      BY <1>3, <2>7 DEF CheckMove, WriteMove
    <2> QED
      BY <1>3, <2>1, <2>2, <2>3, <2>4, <2>5, <2>6, <2>7 DEF Step
  <1>4. CASE \E d \in Departments : SetDepartmentStatus(d)
    BY <1>4 DEF SetDepartmentStatus
  <1>5. CASE UNCHANGED vars
    BY <1>5
  <1> QED
    BY <1>1, <1>2, <1>3, <1>4, <1>5 DEF Next

\* The stages each step leads from and to.
LEMMA StageOf ==
  ASSUME TypeOK, NEW q \in Requests
  PROVE  /\ \A p \in Payloads : Receive(q, p) => pc[q] = "idle" /\ pc'[q] = "check"
         /\ Abort(q) => pc'[q] = "done"
         /\ \/ CheckAuthorize(q) \/ CheckRevoke(q) \/ CheckLifecycle(q) \/ CheckMove(q)
            => pc[q] = "check" /\ pc'[q] \in {"write", "done"}
         /\ WriteAuthorize(q) \/ WriteRevoke(q) \/ WriteLifecycle(q) \/ WriteMove(q)
            => pc[q] = "write" /\ pc'[q] = "done"
         /\ FindActive(q) => pc[q] = "check" /\ pc'[q] = "lock"
         /\ LockActive(q) => pc[q] = "lock" /\ pc'[q] \in {"lock", "insert"}
         /\ NotAuthorized(q) => pc[q] = "lock" /\ pc'[q] = "done"
         /\ CheckBootstrap(q) => pc[q] = "check" /\ pc'[q] \in {"insert", "done"}
         /\ InsertUser(q) =>
               /\ pc[q] = "insert" /\ pc'[q] \in {"commit", "done"}
               /\ pc'[q] = "commit" => loaded'[q] = loaded[q] /\ request'[q] = request[q]
         /\ CommitUser(q) => pc[q] = "commit" /\ pc'[q] = "done"
  <1> USE DEF TypeOK
  <1>1. \A p \in Payloads : Receive(q, p) => pc[q] = "idle" /\ pc'[q] = "check"
    BY DEF Receive
  <1>2. Abort(q) => pc'[q] = "done"
    BY DEF Abort
  <1>3. \/ CheckAuthorize(q) \/ CheckRevoke(q) \/ CheckLifecycle(q) \/ CheckMove(q)
        => pc[q] = "check" /\ pc'[q] \in {"write", "done"}
    BY DEF CheckAuthorize, CheckRevoke, CheckLifecycle, CheckMove
  <1>4. WriteAuthorize(q) \/ WriteRevoke(q) \/ WriteLifecycle(q) \/ WriteMove(q)
        => pc[q] = "write" /\ pc'[q] = "done"
    BY DEF WriteAuthorize, WriteRevoke, WriteLifecycle, WriteMove
  <1>5. /\ FindActive(q) => pc[q] = "check" /\ pc'[q] = "lock"
        /\ LockActive(q) => pc[q] = "lock" /\ pc'[q] \in {"lock", "insert"}
        /\ NotAuthorized(q) => pc[q] = "lock" /\ pc'[q] = "done"
    BY DEF FindActive, LockActive, NotAuthorized
  <1>6. CheckBootstrap(q) => pc[q] = "check" /\ pc'[q] \in {"insert", "done"}
    BY DEF CheckBootstrap
  <1>7. InsertUser(q) =>
           /\ pc[q] = "insert" /\ pc'[q] \in {"commit", "done"}
           /\ pc'[q] = "commit" => loaded'[q] = loaded[q] /\ request'[q] = request[q]
    BY DEF InsertUser
  <1>8. CommitUser(q) => pc[q] = "commit" /\ pc'[q] = "done"
    BY DEF CommitUser
  <1> QED
    BY <1>1, <1>2, <1>3, <1>4, <1>5, <1>6, <1>7, <1>8

-----------------------------------------------------------------------------
(* Types. *)

\* The first state satisfies the invariant.
LEMMA InitIInv == Init => IInv
  <1> SUFFICES ASSUME Init PROVE IInv
    OBVIOUS
  <1> USE AccountsAssumption, Distinct DEF Init
  <1>1. TypeOK
    BY DEF TypeOK, Ids, Stages
  <1>2. Sessions /\ Targets /\ Locked
    BY DEF Sessions, Targets, Locked, Inserting, Issued, Ids
  <1>3. Accounts = Founders /\ Issued = {}
    BY DEF Accounts, Issued, Ids
  <1>4. Index /\ Origins
    BY <1>3 DEF Index, OneAccountPerAddress, Origins, Ids
  <1> QED
    BY <1>1, <1>2, <1>4 DEF IInv

\* Operations that only read leave the database alone.
LEMMA TypeStep == IInv /\ [Next]_vars => TypeOK'
  <1> SUFFICES ASSUME IInv, [Next]_vars PROVE TypeOK'
    OBVIOUS
  <1> USE AccountsAssumption, Distinct DEF IInv, TypeOK, Stages
  <1>1. ASSUME NEW r \in Requests, NEW p \in Payloads, Receive(r, p) PROVE TypeOK'
    BY <1>1 DEF Receive
  <1>2. ASSUME NEW r \in Requests, Abort(r) PROVE TypeOK'
    BY <1>2 DEF Abort
  <1>3. ASSUME NEW r \in Requests, CheckAuthorize(r) PROVE TypeOK'
    <2> DEFINE p == request[r]
               dept == IF p.role = "USER" THEN users[p.by].dept ELSE p.dept
               row == [address |-> p.address, dept |-> dept, by |-> p.by,
                       purpose |-> p.role, status |-> "ACTIVE", older |-> Issuing]
    <2>1. p \in Payloads /\ p.op = "authorize"
      BY <1>3 DEF CheckAuthorize, Sessions
    <2>2. dept \in departmentActive => row \in Authorizations
      BY <2>1, PayloadFields DEF Authorizations, Issuing, Issued
    <2>3. loaded'[r] \in Authorizations \cup {None}
      BY <1>3, <2>2 DEF CheckAuthorize
    <2>4. loaded' \in [Requests -> Users \cup Authorizations \cup {None}]
      BY <1>3, <2>3 DEF CheckAuthorize
    <2>5. candidates' \in [Requests -> SUBSET Requests] /\ pc' \in [Requests -> Stages]
      BY <1>3 DEF CheckAuthorize
    <2> QED
      BY <1>3, <2>4, <2>5 DEF CheckAuthorize
  <1>4. ASSUME NEW r \in Requests, WriteAuthorize(r) PROVE TypeOK'
    <2>1. loaded[r] \in Authorizations
      BY <1>4 DEF WriteAuthorize, Sessions
    <2>2. [request |-> r, op |-> "authorize", target |-> r, old |-> None] \in JournalRows
      BY DEF JournalRows, Ids
    <2> QED
      BY <1>4, <2>1, <2>2 DEF WriteAuthorize
  <1>5. ASSUME NEW r \in Requests, CheckRevoke(r) PROVE TypeOK'
    BY <1>5 DEF CheckRevoke, Issued
  <1>6. ASSUME NEW r \in Requests, WriteRevoke(r) PROVE TypeOK'
    <2> DEFINE a == request[r].target
    <2>1. a \in Requests /\ authorizations[a] \in Authorizations
      BY <1>6 DEF WriteRevoke, Targets, Issued
    <2>2. [request |-> r, op |-> "revoke", target |-> a, old |-> None] \in JournalRows
      BY <2>1 DEF JournalRows, Ids
    <2>3. [authorizations[a] EXCEPT !.status = "REVOKED"] \in Authorizations
      BY <2>1, SetStatus
    <2> QED
      BY <1>6, <2>1, <2>2, <2>3 DEF WriteRevoke
  <1>7. ASSUME NEW r \in Requests, FindActive(r) PROVE TypeOK'
    BY <1>7 DEF FindActive, Consumable, Issued
  <1>8. ASSUME NEW r \in Requests, LockActive(r) PROVE TypeOK'
    <2>1. PICK a \in candidates[r] : LockActive(r)!2!(a)
      BY <1>8 DEF LockActive
    <2>2. a \in Requests /\ authorizations[a] \in Authorizations
      BY DEF Sessions, Issued
    <2>3. request[r] \in Payloads /\ request[r].op = "signup"
      BY <1>8 DEF LockActive, Sessions
    <2>4. [address |-> request[r].address, role |-> authorizations[a].purpose,
           dept |-> authorizations[a].dept, status |-> "PENDING_APPROVAL",
           origin |-> a] \in Users
      BY <2>2, <2>3, PayloadFields, RowFields
      DEF Users, Roles, Managed, Statuses
    <2> QED
      BY <1>8, <2>1, <2>2, <2>4 DEF LockActive
  <1>9. ASSUME NEW r \in Requests, NotAuthorized(r) PROVE TypeOK'
    BY <1>9 DEF NotAuthorized
  <1>10. ASSUME NEW r \in Requests, CheckBootstrap(r) PROVE TypeOK'
    <2>1. [address |-> request[r].address, role |-> "SYSTEM_ADMIN", dept |-> None,
           status |-> "ACTIVE", origin |-> None] \in Users
      BY <1>10, PayloadFields DEF CheckBootstrap, Sessions, Users, Roles, Statuses
    <2> QED
      BY <1>10, <2>1 DEF CheckBootstrap
  <1>11. ASSUME NEW r \in Requests, InsertUser(r) PROVE TypeOK'
    BY <1>11 DEF InsertUser
  <1>12. ASSUME NEW r \in Requests, CommitUser(r) PROVE TypeOK'
    <2> DEFINE a == loaded[r].origin
    <2>1. loaded[r] \in Users
      BY <1>12 DEF CommitUser, Sessions, Inserting
    <2>2. a # None => a \in Requests /\ authorizations[a] \in Authorizations
      BY <1>12, <2>1 DEF CommitUser, Locked, Inserting, Issued
    <2>3. a # None => [authorizations[a] EXCEPT !.status = "USED"] \in Authorizations
      BY <2>2, SetStatus
    <2>4. authorizations' \in [Requests -> Authorizations \cup {None}]
      BY <1>12, <2>2, <2>3 DEF CommitUser
    <2>5. users' \in [Ids -> Users \cup {None}]
      BY <1>12, <2>1 DEF CommitUser
    <2> QED
      BY <1>12, <2>4, <2>5 DEF CommitUser
  <1>13. ASSUME NEW r \in Requests, CheckLifecycle(r) \/ CheckMove(r) PROVE TypeOK'
    <2>1. loaded' \in [Requests -> Users \cup Authorizations \cup {None}]
      BY <1>13 DEF CheckLifecycle, CheckMove, InReach, Accounts
    <2> QED
      BY <1>13, <2>1 DEF CheckLifecycle, CheckMove
  <1>14. ASSUME NEW r \in Requests, WriteLifecycle(r) PROVE TypeOK'
    <2> DEFINE u == request[r].target
    <2>1. u \in Ids /\ users[u] \in Users /\ loaded[r] \in Users
      BY <1>14 DEF WriteLifecycle, Targets, Accounts
    <2>2. Sets(request[r].op) \in Statuses
      BY DEF Sets, Statuses
    <2>3. [users[u] EXCEPT !.status = Sets(request[r].op)] \in Users
      BY <2>1, <2>2, SetStatus
    <2>4. [request |-> r, op |-> request[r].op, target |-> u, old |-> loaded[r].status]
             \in JournalRows
      BY <1>14, <2>1, RowFields DEF WriteLifecycle, JournalRows
    <2>5. users' \in [Ids -> Users \cup {None}]
      BY <1>14, <2>1, <2>3 DEF WriteLifecycle
    <2>6. journal' \subseteq JournalRows
      BY <1>14, <2>4 DEF WriteLifecycle
    <2> QED
      BY <1>14, <2>5, <2>6 DEF WriteLifecycle
  <1>15. ASSUME NEW r \in Requests, WriteMove(r) PROVE TypeOK'
    <2> DEFINE u == request[r].target
    <2>1. /\ u \in Ids /\ users[u] \in Users /\ loaded[r] \in Users
          /\ request[r] \in Payloads /\ request[r].dept \in Departments
          /\ users[u].role = "ADMIN"
      BY <1>15, PayloadFields DEF WriteMove, Targets, Accounts, Sessions
    <2>2. [users[u] EXCEPT !.dept = request[r].dept] \in Users
      BY <2>1, SetDept
    <2>3. [request |-> r, op |-> request[r].op, target |-> u, old |-> loaded[r].status]
             \in JournalRows
      BY <1>15, <2>1, RowFields DEF WriteMove, JournalRows
    <2>4. users' \in [Ids -> Users \cup {None}]
      BY <1>15, <2>1, <2>2 DEF WriteMove
    <2> QED
      BY <1>15, <2>3, <2>4 DEF WriteMove
  <1>16. ASSUME NEW d \in Departments, SetDepartmentStatus(d) PROVE TypeOK'
    BY <1>16 DEF SetDepartmentStatus
  <1>17. CASE UNCHANGED vars
    BY <1>17
  <1> QED
    BY <1>1, <1>2, <1>3, <1>4, <1>5, <1>6, <1>7, <1>8, <1>9, <1>10, <1>11, <1>12,
       <1>13, <1>14, <1>15, <1>16, <1>17
    DEF Next, Step

-----------------------------------------------------------------------------
(* What no step changes. *)

\* All of an account but its status and an ADMIN's department.
SameAccount(u) ==
    /\ users'[u] # None
    /\ users'[u].address = users[u].address
    /\ users'[u].role = users[u].role
    /\ users'[u].origin = users[u].origin
    /\ users[u].role = "USER" => users'[u].dept = users[u].dept

\* All of an authorization but its status.
SameAuthorization(a) ==
    /\ authorizations'[a] # None
    /\ authorizations'[a].address = authorizations[a].address
    /\ authorizations'[a].purpose = authorizations[a].purpose
    /\ authorizations'[a].dept = authorizations[a].dept
    /\ authorizations'[a].by = authorizations[a].by

\* Rows are not deleted; of an account only the status and an ADMIN's
\* department change, of an authorization only the status.
RowsKept ==
    /\ \A u \in Accounts : SameAccount(u)
    /\ \A a \in Issued : SameAuthorization(a)

\* Every step keeps rows.
LEMMA RowsKeptStep == IInv /\ [Next]_vars => RowsKept
  <1> SUFFICES ASSUME IInv, [Next]_vars PROVE RowsKept
    OBVIOUS
  <1> USE AccountsAssumption, Distinct DEF IInv, TypeOK, RowsKept, Accounts, Issued
  <1>1. CASE UNCHANGED users /\ UNCHANGED authorizations
    BY <1>1 DEF SameAuthorization, SameAccount
  <1>2. ASSUME NEW r \in Requests, WriteAuthorize(r) PROVE RowsKept
    BY <1>2 DEF WriteAuthorize, Sessions, SameAuthorization, SameAccount
  <1>3. ASSUME NEW r \in Requests, WriteRevoke(r) PROVE RowsKept
    <2> DEFINE a == request[r].target
    <2>1. a \in Requests /\ authorizations[a] \in Authorizations
      BY <1>3 DEF WriteRevoke, Targets
    <2>2. authorizations' = [authorizations EXCEPT ![a].status = "REVOKED"]
          /\ UNCHANGED users
      BY <1>3 DEF WriteRevoke
    <2>3. \A b \in Requests : b # a => authorizations'[b] = authorizations[b]
      BY <2>2
    <2>4. authorizations'[a] = [authorizations[a] EXCEPT !.status = "REVOKED"]
      BY <2>1, <2>2
    <2>5. LET b == authorizations'[a] IN
          /\ b # None /\ b.address = authorizations[a].address
          /\ b.purpose = authorizations[a].purpose
          /\ b.dept = authorizations[a].dept /\ b.by = authorizations[a].by
      BY <2>1, <2>4, RowFields DEF Authorizations
    <2>6. \A b \in Issued : SameAuthorization(b)
      <3> TAKE b \in Issued
      <3>1. CASE b = a
        BY <3>1, <2>5 DEF SameAuthorization
      <3>2. CASE b # a
        BY <3>2, <2>3 DEF SameAuthorization
      <3> QED
        BY <3>1, <3>2
    <2>7. \A u \in Accounts : SameAccount(u)
      BY <2>2 DEF SameAccount
    <2> QED
      BY <2>6, <2>7
  <1>4. ASSUME NEW r \in Requests, CommitUser(r) PROVE RowsKept
    <2> DEFINE a == loaded[r].origin
    <2>1. users[r] = None /\ r \in Ids
      BY <1>4 DEF CommitUser, Sessions
    <2>2. a # None => a \in Requests /\ authorizations[a] \in Authorizations
      BY <1>4 DEF CommitUser, Locked, Inserting
    <2>3. UNCHANGED users \/ users' = [users EXCEPT ![r] = loaded[r]]
      BY <1>4 DEF CommitUser
    <2>4. authorizations' = IF a = None THEN authorizations
                            ELSE [authorizations EXCEPT ![a].status = "USED"]
      BY <1>4 DEF CommitUser
    <2>5. \A u \in Accounts : users'[u] = users[u]
      BY <2>1, <2>3
    <2>6. \A b \in Issued : SameAuthorization(b)
      <3> TAKE b \in Issued
      <3>1. CASE b = a
        <4>1. a # None
          BY <3>1
        <4>2. authorizations'[a] = [authorizations[a] EXCEPT !.status = "USED"]
          BY <4>1, <2>2, <2>4
        <4>3. SameAuthorization(a)
          BY <4>1, <4>2, <2>2 DEF SameAuthorization, Authorizations
        <4> QED
          BY <3>1, <4>3
      <3>2. CASE b # a
        BY <3>2, <2>4 DEF SameAuthorization
      <3> QED
        BY <3>1, <3>2
    <2>7. \A u \in Accounts : SameAccount(u)
      BY <2>5 DEF SameAccount
    <2> QED
      BY <2>6, <2>7
  <1>5. ASSUME NEW r \in Requests, WriteLifecycle(r) PROVE RowsKept
    <2> DEFINE u == request[r].target
    <2>1. u \in Ids /\ users[u] \in Users /\ Sets(request[r].op) \in Statuses
      BY <1>5 DEF WriteLifecycle, Targets, Sets, Statuses
    <2> QED
      BY <1>5, <2>1, SetStatus DEF WriteLifecycle, SameAuthorization, SameAccount
  <1>6. ASSUME NEW r \in Requests, WriteMove(r) PROVE RowsKept
    <2> DEFINE u == request[r].target
    <2>1. /\ u \in Ids /\ users[u] \in Users /\ users[u].role = "ADMIN"
          /\ request[r].dept \in Departments
      BY <1>6, PayloadFields DEF WriteMove, Targets, Sessions
    <2> QED
      BY <1>6, <2>1, SetDept DEF WriteMove, SameAuthorization, SameAccount
  <1>7. \/ UNCHANGED users /\ UNCHANGED authorizations
        \/ \E r \in Requests : \/ WriteAuthorize(r) \/ WriteRevoke(r) \/ CommitUser(r)
                               \/ WriteLifecycle(r) \/ WriteMove(r)
    BY DEF Next, Step, Receive, Abort, CheckAuthorize, CheckRevoke, FindActive,
       LockActive, NotAuthorized, CheckBootstrap, InsertUser, CheckLifecycle,
       CheckMove, SetDepartmentStatus
  <1> QED
    BY <1>1, <1>2, <1>3, <1>4, <1>5, <1>6, <1>7

-----------------------------------------------------------------------------
(* Sessions and the rows they name. *)

\* What a request may do next follows from its payload and its row.
LEMMA SessionsStep == IInv /\ [Next]_vars => Sessions'
  <1> SUFFICES ASSUME IInv, [Next]_vars PROVE Sessions'
    OBVIOUS
  <1>0. \A a \in Issued :
           a \in Issued' /\ authorizations'[a].address = authorizations[a].address
    BY RowsKeptStep DEF RowsKept, SameAuthorization, Issued
  <1> USE AccountsAssumption, Distinct, PayloadFields, <1>0
      DEF IInv, TypeOK, Sessions, Inserting, Lifecycle
  <1>1. ASSUME NEW r \in Requests, NEW p \in Payloads, Receive(r, p) PROVE Sessions'
    BY <1>1 DEF Receive
  <1>2. ASSUME NEW r \in Requests, Abort(r) PROVE Sessions'
    BY <1>2 DEF Abort
  <1>3. ASSUME NEW r \in Requests, CheckAuthorize(r) PROVE Sessions'
    <2> DEFINE p == request[r]
               dept == IF p.role = "USER" THEN users[p.by].dept ELSE p.dept
               row == [address |-> p.address, dept |-> dept, by |-> p.by,
                       purpose |-> p.role, status |-> "ACTIVE", older |-> Issuing]
    <2>1. p \in Payloads /\ p.op = "authorize"
      BY <1>3 DEF CheckAuthorize
    <2>2. dept \in departmentActive => row \in Authorizations
      BY <2>1 DEF Authorizations, Issuing, Issued
    <2>3. pc'[r] = "write" => loaded'[r] \in Authorizations /\ loaded'[r].status = "ACTIVE"
      BY <1>3, <2>2 DEF CheckAuthorize
    <2>4. pc' = [pc EXCEPT ![r] = "write"] \/ pc' = [pc EXCEPT ![r] = "done"]
      BY <1>3 DEF CheckAuthorize
    <2>5. /\ \A q \in Requests \ {r} : loaded'[q] = loaded[q]
          /\ \A q \in Requests : candidates'[q] \subseteq candidates[q]
          /\ UNCHANGED <<users, authorizations, request>>
      BY <1>3 DEF CheckAuthorize
    <2>6. ASSUME NEW q \in Requests, q # r
          PROVE  /\ pc'[q] = pc[q] /\ loaded'[q] = loaded[q] /\ request'[q] = request[q]
                 /\ candidates'[q] \subseteq candidates[q]
      BY <2>4, <2>5, <2>6
    <2>7. CASE pc' = [pc EXCEPT ![r] = "write"]
      <3>1. pc'[r] = "write" /\ candidates'[r] \subseteq Issued /\ request'[r] = p
        BY <2>5, <2>7
      <3>2. users[r] = None /\ authorizations[r] = None
        BY <1>3 DEF CheckAuthorize
      <3> QED
        BY <2>1, <2>3, <2>5, <2>6, <3>1, <3>2
    <2>8. CASE pc' = [pc EXCEPT ![r] = "done"]
      BY <2>1, <2>5, <2>6, <2>8
    <2> QED
      BY <2>4, <2>7, <2>8
  <1>4. ASSUME NEW r \in Requests, WriteAuthorize(r) PROVE Sessions'
    BY <1>4 DEF WriteAuthorize
  <1>5. ASSUME NEW r \in Requests, CheckRevoke(r) PROVE Sessions'
    BY <1>5 DEF CheckRevoke
  <1>6. ASSUME NEW r \in Requests, WriteRevoke(r) PROVE Sessions'
    <2> DEFINE a == request[r].target
    <2>1. a \in Issued
      BY <1>6 DEF WriteRevoke, Targets
    <2>2. \A q \in Requests : authorizations[q] = None => authorizations'[q] = None
      BY <1>6, <2>1 DEF WriteRevoke, Issued
    <2> QED
      BY <1>6, <2>2 DEF WriteRevoke
  <1>7. ASSUME NEW r \in Requests, FindActive(r) PROVE Sessions'
    BY <1>7 DEF FindActive, Consumable
  <1>8. ASSUME NEW r \in Requests, LockActive(r) PROVE Sessions'
    <2>1. PICK a \in candidates[r] : LockActive(r)!2!(a)
      BY <1>8 DEF LockActive
    <2>2. a \in Requests /\ authorizations[a] \in Authorizations
      BY DEF Issued
    <2>3. request[r] \in Payloads /\ request[r].op = "signup"
      BY <1>8 DEF LockActive
    <2>4. [address |-> request[r].address, role |-> authorizations[a].purpose,
           dept |-> authorizations[a].dept, status |-> "PENDING_APPROVAL",
           origin |-> a] \in Users
      BY <2>2, <2>3, RowFields DEF Users, Roles, Managed, Statuses
    <2> QED
      BY <1>8, <2>1, <2>3, <2>4 DEF LockActive
  <1>9. ASSUME NEW r \in Requests, NotAuthorized(r) PROVE Sessions'
    BY <1>9 DEF NotAuthorized
  <1>10. ASSUME NEW r \in Requests, CheckBootstrap(r) PROVE Sessions'
    <2>1. [address |-> request[r].address, role |-> "SYSTEM_ADMIN", dept |-> None,
           status |-> "ACTIVE", origin |-> None] \in Users
      BY <1>10 DEF CheckBootstrap, Users, Roles, Statuses
    <2> QED
      BY <1>10, <2>1 DEF CheckBootstrap
  <1>11. ASSUME NEW r \in Requests, InsertUser(r) PROVE Sessions'
    BY <1>11 DEF InsertUser
  <1>12. ASSUME NEW r \in Requests, CommitUser(r) PROVE Sessions'
    <2> DEFINE a == loaded[r].origin
    <2>1. a # None => a \in Issued
      BY <1>12 DEF CommitUser, Locked
    <2>2. /\ \A q \in Requests : authorizations[q] = None => authorizations'[q] = None
          /\ \A q \in Requests \ {r} : users'[q] = users[q]
      BY <1>12, <2>1 DEF CommitUser, Issued
    <2> QED
      BY <1>12, <2>2 DEF CommitUser
  <1>13. ASSUME NEW r \in Requests, CheckLifecycle(r) \/ CheckMove(r) PROVE Sessions'
    BY <1>13 DEF CheckLifecycle, CheckMove
  <1>14. ASSUME NEW r \in Requests, WriteLifecycle(r) \/ WriteMove(r) PROVE Sessions'
    <2>1. request[r].target \in Accounts
      BY <1>14 DEF WriteLifecycle, WriteMove, Targets
    <2>2. \A q \in Requests : users[q] = None => users'[q] = None
      BY <1>14, <2>1 DEF WriteLifecycle, WriteMove, Accounts
    <2> QED
      BY <1>14, <2>2 DEF WriteLifecycle, WriteMove
  <1>15. ASSUME NEW d \in Departments, SetDepartmentStatus(d) PROVE Sessions'
    BY <1>15 DEF SetDepartmentStatus
  <1>16. CASE UNCHANGED vars
    BY <1>16
  <1> QED
    BY <1>1, <1>2, <1>3, <1>4, <1>5, <1>6, <1>7, <1>8, <1>9, <1>10, <1>11, <1>12,
       <1>13, <1>14, <1>15, <1>16
    DEF Next, Step

\* Writers keep the rows they mean to write.
LEMMA TargetsStep == IInv /\ [Next]_vars => Targets'
  <1> SUFFICES ASSUME IInv, [Next]_vars, NEW q \in Requests, pc'[q] = "write"
               PROVE  LET p == request'[q] IN
                      /\ p.op = "revoke" =>
                            /\ p.target \in Issued'
                            /\ authorizations'[p.target].by = p.by
                      /\ p.op \in Lifecycle \cup {"move"} =>
                            /\ p.target \in Accounts'
                            /\ users'[p.target].role = p.role
                            /\ loaded'[q] \in Users
                      /\ p.op = "move" => p.dept \in Departments
    BY DEF Targets
  <1>1. /\ \A a \in Issued : a \in Issued' /\ authorizations'[a].by = authorizations[a].by
        /\ \A u \in Accounts : u \in Accounts' /\ users'[u].role = users[u].role
    BY RowsKeptStep DEF RowsKept, SameAccount, SameAuthorization, Issued, Accounts
  <1> USE AccountsAssumption, Distinct DEF IInv, TypeOK
  <1>2. CASE pc[q] = "write"
    <2>1. request'[q] = request[q] /\ loaded'[q] = loaded[q]
      BY <1>2, OneMoves, StageOf DEF Step
    <2> QED
      BY <1>1, <1>2, <2>1 DEF Targets
  <1>3. CASE pc[q] # "write"
    <2>1. CheckAuthorize(q) \/ CheckRevoke(q) \/ CheckLifecycle(q) \/ CheckMove(q)
      BY <1>3, OneMoves, StageOf DEF Step
    <2>2. CASE CheckAuthorize(q)
      BY <2>2 DEF CheckAuthorize, Lifecycle
    <2>3. CASE CheckRevoke(q)
      BY <1>1, <2>3 DEF CheckRevoke, Lifecycle
    <2>4. CASE CheckLifecycle(q)
      BY <1>1, <2>4 DEF CheckLifecycle, Lifecycle, InReach, Accounts
    <2>5. CASE CheckMove(q)
      BY <1>1, <2>5 DEF CheckMove, Lifecycle, InReach, Accounts
    <2> QED
      BY <2>1, <2>2, <2>3, <2>4, <2>5
  <1> QED
    BY <1>2, <1>3

-----------------------------------------------------------------------------
(* The row lock of signup. *)

\* What Locked says of the account that r inserts.
Holds(r) ==
    IF request[r].op = "bootstrap"
    THEN loaded[r].origin = None /\ loaded[r].role = "SYSTEM_ADMIN"
    ELSE LET a == loaded[r].origin IN
         /\ a \in Issued
         /\ lock[a] = r
         /\ authorizations[a].status = "ACTIVE"
         /\ authorizations[a].address = loaded[r].address
         /\ authorizations[a].purpose = loaded[r].role
         /\ authorizations[a].dept = loaded[r].dept

\* An insert under way keeps its lock, and nobody changes the locked row.
LEMMA LockKept ==
  ASSUME IInv, [Next]_vars, NEW q \in Requests, pc[q] \in Inserting, pc'[q] \in Inserting
  PROVE  /\ request'[q] = request[q] /\ loaded'[q] = loaded[q]
         /\ \A a \in Issued : lock[a] = q =>
               lock'[a] = q /\ authorizations'[a].status = authorizations[a].status
  <1> USE AccountsAssumption, Distinct DEF IInv, TypeOK, Inserting, Issued
  <1>1. request'[q] = request[q] /\ loaded'[q] = loaded[q]
    BY OneMoves, StageOf DEF Step
  <1>2. ASSUME NEW a \in Issued, lock[a] = q
        PROVE  lock'[a] = q /\ authorizations'[a].status = authorizations[a].status
    <2> DEFINE Kept == lock'[a] = q /\ authorizations'[a].status = authorizations[a].status
    <2> USE <1>2
    <2>1. ASSUME NEW r \in Requests, WriteAuthorize(r) PROVE Kept
      BY <2>1 DEF WriteAuthorize, Sessions
    <2>2. ASSUME NEW r \in Requests, WriteRevoke(r) PROVE Kept
      BY <2>2 DEF WriteRevoke
    <2>3. ASSUME NEW r \in Requests, CommitUser(r) PROVE Kept
      <3>1. r # q
        BY <2>3 DEF CommitUser
      <3>2. loaded[r].origin # None => lock[loaded[r].origin] = r
        BY <2>3 DEF CommitUser, Locked
      <3> QED
        BY <2>3, <3>1, <3>2 DEF CommitUser, Release
    <2>4. ASSUME NEW r \in Requests, InsertUser(r) PROVE Kept
      BY <2>4 DEF InsertUser
    <2>5. ASSUME NEW r \in Requests, LockActive(r) PROVE Kept
      BY <2>5 DEF LockActive
    <2>6. ASSUME NEW r \in Requests, Abort(r) PROVE Kept
      BY <2>6 DEF Abort
    <2>7. \/ UNCHANGED <<lock, authorizations>>
          \/ \E r \in Requests : \/ WriteAuthorize(r) \/ WriteRevoke(r) \/ CommitUser(r)
                                 \/ InsertUser(r) \/ LockActive(r) \/ Abort(r)
      BY DEF Next, Step, Receive, CheckAuthorize, CheckRevoke, FindActive,
         NotAuthorized, CheckBootstrap, CheckLifecycle, WriteLifecycle,
         CheckMove, WriteMove, SetDepartmentStatus
    <2>8. ASSUME UNCHANGED <<lock, authorizations>> PROVE Kept
      BY <2>8
    <2> HIDE DEF Kept
    <2>9. Kept
      BY <2>1, <2>2, <2>3, <2>4, <2>5, <2>6, <2>7, <2>8
    <2> QED
      BY <2>9 DEF Kept
  <1> QED
    BY <1>1, <1>2

\* The lock is taken with the row ACTIVE, and is let go with the insert.
LEMMA LockedStep == IInv /\ [Next]_vars => Locked'
  <1> SUFFICES ASSUME IInv, [Next]_vars PROVE Locked'
    OBVIOUS
  <1> USE AccountsAssumption, Distinct
  <1>1. ASSUME NEW r \in Requests, pc'[r] \in Inserting PROVE Holds(r)'
    <2>1. CASE pc[r] \in Inserting
      <3>1. Holds(r)
        BY <2>1 DEF IInv, Locked, Holds
      <3>2. request'[r] = request[r] /\ loaded'[r] = loaded[r]
        BY <1>1, <2>1, LockKept
      <3>3. CASE request[r].op = "bootstrap"
        BY <3>1, <3>2, <3>3 DEF Holds
      <3>4. CASE request[r].op # "bootstrap"
        <4> DEFINE a == loaded[r].origin
        <4>1. a \in Issued /\ lock[a] = r
          BY <3>1, <3>4 DEF Holds
        <4>2. lock'[a] = r /\ authorizations'[a].status = authorizations[a].status
          BY <1>1, <2>1, <4>1, LockKept
        <4>3. a \in Issued' /\ SameAuthorization(a)
          BY <4>1, RowsKeptStep DEF RowsKept, SameAuthorization, Issued
        <4> QED
          BY <3>1, <3>2, <3>4, <4>1, <4>2, <4>3 DEF Holds, SameAuthorization
      <3> QED
        BY <3>3, <3>4
    <2>2. CASE pc[r] \notin Inserting
      <3> USE DEF IInv, TypeOK, Inserting
      <3>1. LockActive(r) \/ CheckBootstrap(r)
        BY <1>1, <2>2, OneMoves, StageOf DEF Step
      <3>2. CASE CheckBootstrap(r)
        BY <1>1, <3>2 DEF CheckBootstrap, Holds
      <3>3. CASE LockActive(r)
        <4>1. PICK a \in candidates[r] : LockActive(r)!2!(a)
          BY <3>3 DEF LockActive
        <4>2. a \in Issued /\ request[r].op = "signup"
          BY <3>3 DEF LockActive, Sessions
        <4>3. StillActive(a)
          BY <1>1, <2>2, <4>1
        <4>4. /\ lock' = [lock EXCEPT ![a] = r]
              /\ loaded'[r] = [address |-> request[r].address,
                               role |-> authorizations[a].purpose,
                               dept |-> authorizations[a].dept,
                               status |-> "PENDING_APPROVAL", origin |-> a]
          BY <4>1, <4>3
        <4>5. UNCHANGED <<authorizations, request>>
          BY <3>3 DEF LockActive
        <4>6. authorizations[a].address = request[r].address
          BY <3>3, <4>2 DEF LockActive, Sessions
        <4> QED
          BY <4>2, <4>3, <4>4, <4>5, <4>6 DEF Holds, StillActive, Issued
      <3> QED
        BY <3>1, <3>2, <3>3
    <2> QED
      BY <2>1, <2>2
  <1>2. ASSUME NEW a \in Requests, NEW r \in Requests, lock'[a] = r
        PROVE  pc'[r] \in Inserting /\ loaded'[r].origin = a
    <2> USE DEF IInv, TypeOK
    <2>1. CASE lock[a] = r
      <3>1. pc[r] \in Inserting /\ loaded[r].origin = a
        BY <2>1 DEF Locked
      <3>2. ~Abort(r) /\ ~CommitUser(r)
        BY <1>2 DEF Abort, CommitUser, Release
      <3>3. InsertUser(r) => pc'[r] = "commit"
        BY <1>2, <2>1 DEF InsertUser, Release
      <3>4. pc'[r] \in Inserting
        BY <3>1, <3>2, <3>3, OneMoves, StageOf DEF Step, Inserting
      <3> QED
        BY <3>1, <3>4, LockKept
    <2>2. CASE lock[a] # r
      <3>1. LockActive(r)
        <4>1. PICK q \in Requests : InsertUser(q) \/ CommitUser(q) \/ Abort(q) \/ LockActive(q)
          BY <1>2, <2>2 DEF Next, Step, Receive, CheckAuthorize, WriteAuthorize, CheckRevoke,
             WriteRevoke, FindActive, NotAuthorized, CheckBootstrap, CheckLifecycle,
             WriteLifecycle, CheckMove, WriteMove, SetDepartmentStatus
        <4>2. ~InsertUser(q) /\ ~CommitUser(q) /\ ~Abort(q)
          BY <1>2, <2>2 DEF InsertUser, CommitUser, Abort, Release
        <4> QED
          BY <1>2, <2>2, <4>1, <4>2 DEF LockActive
      <3>2. PICK b \in candidates[r] : LockActive(r)!2!(b)
        BY <3>1 DEF LockActive
      <3>3. b \in Requests /\ StillActive(b) /\ b = a
        BY <1>2, <2>2, <3>2
      <3>4. pc'[r] = "insert" /\ loaded'[r].origin = a
        BY <3>2, <3>3
      <3> QED
        BY <3>4 DEF Inserting
    <2> QED
      BY <2>1, <2>2
  <1> QED
    BY <1>1, <1>2 DEF Locked, Holds

-----------------------------------------------------------------------------
(* The unique index on the address. *)

\* Addresses stay distinct: an insert waits for another one of its address.
LEMMA IndexStep == IInv /\ [Next]_vars => Index'
  <1> SUFFICES ASSUME IInv, [Next]_vars PROVE Index'
    OBVIOUS
  <1> USE AccountsAssumption, Distinct
  <1>1. ASSUME NEW r \in Requests, CommitUser(r) PROVE Index'
    <2> USE DEF IInv, TypeOK, Accounts
    <2>1. pc[r] = "commit" /\ r \in Ids /\ users[r] = None
      BY <1>1 DEF CommitUser, Sessions
    <2>2. /\ users' = [users EXCEPT ![r] = loaded[r]]
          /\ \A q \in Requests : q # r => pc'[q] = pc[q] /\ loaded'[q] = loaded[q]
          /\ pc'[r] = "done"
      BY <1>1 DEF CommitUser
    <2>3. \A u \in Accounts' : u # r => u \in Accounts /\ users'[u] = users[u]
      BY <2>1, <2>2
    <2>4. users'[r] = loaded[r]
      BY <2>1, <2>2
    <2>5. \A u \in Accounts : users[u].address # loaded[r].address
      BY <2>1 DEF Index
    <2>6. OneAccountPerAddress'
      BY <2>3, <2>4, <2>5 DEF Index, OneAccountPerAddress
    <2>7. ASSUME NEW q \in Requests, pc'[q] = "commit"
          PROVE  /\ q # r /\ pc[q] = "commit" /\ loaded'[q] = loaded[q]
                 /\ loaded[q].address # loaded[r].address
      BY <2>1, <2>2, <2>7 DEF Index
    <2>8. ASSUME NEW q \in Requests, pc'[q] = "commit", NEW u \in Accounts'
          PROVE  users'[u].address # loaded'[q].address
      BY <2>3, <2>4, <2>7, <2>8 DEF Index
    <2>9. ASSUME NEW q \in Requests, pc'[q] = "commit",
                 NEW s \in Requests \ {q}, pc'[s] = "commit"
          PROVE  loaded'[s].address # loaded'[q].address
      BY <2>7, <2>9 DEF Index
    <2> QED
      BY <2>6, <2>8, <2>9 DEF Index
  <1>2. ASSUME ~ \E r \in Requests : CommitUser(r)
        PROVE  /\ \A u \in Accounts' : u \in Accounts /\ users'[u].address = users[u].address
    <2> USE DEF IInv, TypeOK, Accounts
    <2>1. ASSUME NEW r \in Requests, WriteLifecycle(r) \/ WriteMove(r)
          PROVE  \A u \in Accounts' : u \in Accounts
      BY <2>1 DEF WriteLifecycle, WriteMove, Targets
    <2>2. UNCHANGED users \/ \E r \in Requests : WriteLifecycle(r) \/ WriteMove(r)
      BY <1>2 DEF Next, Step, Receive, Abort, CheckAuthorize, WriteAuthorize, CheckRevoke,
         WriteRevoke, FindActive, LockActive, NotAuthorized, CheckBootstrap, InsertUser,
         CheckLifecycle, CheckMove, SetDepartmentStatus
    <2>3. \A u \in Accounts' : u \in Accounts
      BY <2>1, <2>2
    <2> QED
      BY <2>3, RowsKeptStep DEF RowsKept, SameAccount
  <1>3. ASSUME ~ \E r \in Requests : CommitUser(r) PROVE Index'
    <2>1. OneAccountPerAddress'
      BY <1>2, <1>3 DEF IInv, Index, OneAccountPerAddress
    <2>2. ASSUME NEW q \in Requests, pc'[q] = "commit"
          PROVE  \/ pc[q] = "commit" /\ loaded'[q] = loaded[q]
                 \/ InsertUser(q) /\ loaded'[q] = loaded[q]
      BY <2>2, OneMoves, StageOf DEF IInv, Step
    <2>3. ASSUME NEW q \in Requests, pc'[q] = "commit", NEW u \in Accounts
          PROVE  users[u].address # loaded[q].address
      <3>1. InsertUser(q) => ~AddressTaken(q)
        BY <2>3 DEF InsertUser, IInv, TypeOK
      <3> QED
        BY <2>2, <2>3, <3>1 DEF IInv, Index, AddressTaken
    <2>4. ASSUME NEW q \in Requests, pc'[q] = "commit",
                 NEW s \in Requests \ {q}, pc'[s] = "commit"
          PROVE  loaded[s].address # loaded[q].address
      <3> USE DEF IInv, TypeOK
      <3>1. CASE InsertUser(q)
        <4>1. pc[s] = "commit"
          BY <2>4, <3>1 DEF InsertUser
        <4> QED
          BY <3>1, <4>1 DEF InsertUser, AddressFree
      <3>2. CASE InsertUser(s)
        <4>1. pc[q] = "commit"
          BY <2>4, <3>2 DEF InsertUser
        <4> QED
          BY <3>2, <4>1 DEF InsertUser, AddressFree
      <3>3. CASE pc[q] = "commit" /\ pc[s] = "commit"
        BY <3>3 DEF Index
      <3> QED
        BY <2>2, <2>4, <3>1, <3>2, <3>3
    <2> QED
      BY <1>2, <1>3, <2>1, <2>2, <2>3, <2>4 DEF Index
  <1> QED
    BY <1>1, <1>3

-----------------------------------------------------------------------------
(* Where accounts come from. *)

\* An account's authorization is used up when the account appears, and only then.
LEMMA OriginsStep == IInv /\ [Next]_vars => Origins'
  <1> SUFFICES ASSUME IInv, [Next]_vars PROVE Origins'
    OBVIOUS
  <1> USE AccountsAssumption, Distinct
  <1>0. RowsKept
    BY RowsKeptStep
  <1>1. \A a \in Issued : a \in Issued' /\ SameAuthorization(a)
    BY <1>0 DEF RowsKept, SameAuthorization, Issued
  <1>2. \A u \in Accounts : u \in Accounts' /\ SameAccount(u)
    BY <1>0 DEF RowsKept, SameAccount, Accounts
  <1>3. \A f \in Founders : users'[f] # None /\ users'[f].origin = None
    BY <1>2 DEF IInv, Origins, SameAccount, Accounts
  <1>4. ASSUME NEW r \in Requests, CommitUser(r) PROVE Origins'
    <2> DEFINE a == loaded[r].origin
    <2> USE DEF IInv, TypeOK
    <2>1. pc[r] = "commit" /\ r \in Ids /\ users[r] = None /\ loaded[r] \in Users
      BY <1>4 DEF CommitUser, Sessions, Inserting
    <2>2. Holds(r)
      BY <2>1 DEF Locked, Holds, Inserting
    <2>3. request[r].op \in {"signup", "bootstrap"}
      BY <2>1 DEF Sessions, Inserting
    <2>4. /\ users' = [users EXCEPT ![r] = loaded[r]]
          /\ authorizations' = IF a = None THEN authorizations
                               ELSE [authorizations EXCEPT ![a].status = "USED"]
      BY <1>4 DEF CommitUser
    <2>5. users'[r] = loaded[r] /\ r \in Accounts'
      BY <2>1, <2>4 DEF Accounts
    <2>6. \A u \in Accounts' : u # r => u \in Accounts /\ users'[u] = users[u]
      BY <2>1, <2>4 DEF Accounts
    <2>7. a # None => /\ a \in Issued /\ authorizations[a].status = "ACTIVE"
                      /\ authorizations[a].address = loaded[r].address
                      /\ authorizations[a].purpose = loaded[r].role
                      /\ authorizations[a].dept = loaded[r].dept
                      /\ authorizations'[a].status = "USED"
      <3>1. a # None => /\ a \in Issued /\ authorizations[a].status = "ACTIVE"
                        /\ authorizations[a].address = loaded[r].address
                        /\ authorizations[a].purpose = loaded[r].role
                        /\ authorizations[a].dept = loaded[r].dept
        BY <2>2 DEF Holds
      <3>2. a # None => authorizations'[a] = [authorizations[a] EXCEPT !.status = "USED"]
        BY <2>4, <3>1 DEF Issued
      <3>3. a # None => authorizations'[a].status = "USED"
        BY <3>1, <3>2 DEF Issued, Authorizations
      <3> QED
        BY <3>1, <3>3
    <2>8. loaded[r].role = "SYSTEM_ADMIN" => a = None
      BY <2>7, RowFields DEF Issued, Managed
    <2>9. loaded[r].role \in Managed => a # None
      BY <2>2 DEF Holds, Issued, Managed
    <2>10. \A b \in Issued : b # a => authorizations'[b] = authorizations[b]
      BY <2>4 DEF Issued
    <2>11. \A b \in Issued' : b \in Issued
      BY <2>4, <2>7 DEF Issued
    <2>12. \A u \in Accounts : users[u].origin = None \/ users[u].origin # a
      <3>1. \A u \in Accounts \ Founders :
               users[u] \in Users /\ users[u].role \in Roles
        BY RowFields DEF Accounts
      <3>2. \A u \in Accounts \ Founders : users[u].origin # None =>
               authorizations[users[u].origin].status # "ACTIVE"
        BY <3>1 DEF Origins, Roles
      <3> QED
        BY <2>7, <3>2 DEF Origins
    <2>13. ASSUME NEW u \in Accounts' \ Founders
           PROVE  LET b == users'[u].origin IN
                  /\ users'[u].role = "SYSTEM_ADMIN" => b = None
                  /\ users'[u].role \in Managed =>
                        /\ b \in Issued'
                        /\ authorizations'[b].status # "ACTIVE"
                        /\ authorizations'[b].address = users'[u].address
                        /\ authorizations'[b].purpose = users'[u].role
                        /\ users'[u].role = "USER" => authorizations'[b].dept = users'[u].dept
      <3>1. CASE u = r
        BY <1>1, <2>5, <2>7, <2>8, <2>9, <3>1 DEF SameAuthorization
      <3>2. CASE u # r
        <4> DEFINE b == users[u].origin
        <4>1. u \in Accounts /\ users'[u] = users[u]
          BY <2>6, <3>2
        <4>2. users[u].role \in Managed => b \in Issued /\ authorizations[b].status # "ACTIVE"
          BY <4>1 DEF Origins
        <4>3. ASSUME users[u].role \in Managed
              PROVE  b \in Issued' /\ SameAuthorization(b) /\ authorizations'[b].status # "ACTIVE"
          <5>1. b \in Issued /\ authorizations[b].status # "ACTIVE"
            BY <4>2, <4>3
          <5>2. CASE b = a
            <6>1. a # None
              BY <5>1, <5>2 DEF Issued
            <6> QED
              BY <2>7, <5>1, <5>2, <6>1
          <5>3. CASE b # a
            BY <1>1, <2>10, <5>1, <5>3
          <5> QED
            BY <5>2, <5>3
        <4> QED
          BY <4>1, <4>2, <4>3 DEF Origins, SameAuthorization
      <3> QED
        BY <3>1, <3>2
    <2>14. \A u, v \in Accounts' :
              users'[u].origin # None /\ users'[u].origin = users'[v].origin => u = v
      BY <2>5, <2>6, <2>12 DEF Origins
    <2>15. ASSUME NEW b \in Issued', authorizations'[b].status = "USED"
           PROVE  \E u \in Accounts' : users'[u].origin = b
      <3>1. CASE b = a
        BY <2>5, <3>1
      <3>2. CASE b # a
        <4>1. b \in Issued /\ authorizations[b].status = "USED"
          BY <2>10, <2>11, <2>15, <3>2
        <4>2. PICK u \in Accounts : users[u].origin = b
          BY <4>1 DEF Origins
        <4> QED
          BY <1>2, <4>2 DEF SameAccount
      <3> QED
        BY <3>1, <3>2
    <2> QED
      BY <1>3, <2>13, <2>14, <2>15 DEF Origins
  <1>5. ASSUME ~ \E r \in Requests : CommitUser(r) PROVE Origins'
    <2> USE DEF IInv, TypeOK
    <2>1. \A u \in Accounts' : u \in Accounts /\ SameAccount(u)
      <3>1. ASSUME NEW r \in Requests, WriteLifecycle(r) \/ WriteMove(r)
            PROVE  \A u \in Accounts' : u \in Accounts
        BY <3>1 DEF WriteLifecycle, WriteMove, Targets, Accounts
      <3>2. UNCHANGED users \/ \E r \in Requests : WriteLifecycle(r) \/ WriteMove(r)
        BY <1>5 DEF Next, Step, Receive, Abort, CheckAuthorize, WriteAuthorize, CheckRevoke,
           WriteRevoke, FindActive, LockActive, NotAuthorized, CheckBootstrap, InsertUser,
           CheckLifecycle, CheckMove, SetDepartmentStatus
      <3>3. \A u \in Accounts' : u \in Accounts
        BY <3>1, <3>2 DEF Accounts
      <3> QED
        BY <1>2, <3>3
    <2>2. /\ \A b \in Issued : authorizations[b].status # "ACTIVE"
                => authorizations'[b].status # "ACTIVE"
          /\ \A b \in Issued' : authorizations'[b].status = "USED"
                => b \in Issued /\ authorizations[b].status = "USED"
      <3> DEFINE Kept ==
             /\ \A b \in Issued : authorizations[b].status # "ACTIVE"
                   => authorizations'[b].status # "ACTIVE"
             /\ \A b \in Issued' : authorizations'[b].status = "USED"
                   => b \in Issued /\ authorizations[b].status = "USED"
      <3>1. ASSUME NEW r \in Requests, WriteAuthorize(r) PROVE Kept
        <4>1. authorizations[r] = None
          BY <3>1 DEF WriteAuthorize, Sessions
        <4>2. loaded[r].status = "ACTIVE"
          BY <3>1 DEF WriteAuthorize, Sessions
        <4>3. authorizations' = [authorizations EXCEPT ![r] = loaded[r]]
          BY <3>1 DEF WriteAuthorize
        <4> QED
          BY <4>1, <4>2, <4>3 DEF Issued
      <3>2. ASSUME NEW r \in Requests, WriteRevoke(r) PROVE Kept
        <4> DEFINE a == request[r].target
        <4>1. a \in Requests /\ authorizations[a] \in Authorizations
          BY <3>2 DEF WriteRevoke, Targets, Issued
        <4>2. authorizations' = [authorizations EXCEPT ![a].status = "REVOKED"]
          BY <3>2 DEF WriteRevoke
        <4>3. authorizations'[a].status = "REVOKED"
          BY <4>1, <4>2 DEF Authorizations
        <4>4. \A b \in Requests : b # a => authorizations'[b] = authorizations[b]
          BY <4>2
        <4> QED
          BY <4>1, <4>3, <4>4 DEF Issued
      <3>3. ASSUME UNCHANGED authorizations PROVE Kept
        BY <3>3 DEF Issued
      <3>4. \/ UNCHANGED authorizations
            \/ \E r \in Requests : WriteAuthorize(r) \/ WriteRevoke(r)
        BY <1>5 DEF Next, Step, Receive, Abort, CheckAuthorize, CheckRevoke,
           FindActive, LockActive, NotAuthorized, CheckBootstrap, InsertUser,
           CheckLifecycle, WriteLifecycle, CheckMove, WriteMove, SetDepartmentStatus
      <3> HIDE DEF Kept
      <3>5. Kept
        BY <3>1, <3>2, <3>3, <3>4
      <3> QED
        BY <3>5 DEF Kept
    <2>3. ASSUME NEW u \in Accounts' \ Founders
          PROVE  LET b == users'[u].origin IN
                 /\ users'[u].role = "SYSTEM_ADMIN" => b = None
                 /\ users'[u].role \in Managed =>
                       /\ b \in Issued'
                       /\ authorizations'[b].status # "ACTIVE"
                       /\ authorizations'[b].address = users'[u].address
                       /\ authorizations'[b].purpose = users'[u].role
                       /\ users'[u].role = "USER" => authorizations'[b].dept = users'[u].dept
      BY <1>1, <2>1, <2>2 DEF Origins, SameAccount, SameAuthorization
    <2>4. \A u, v \in Accounts' :
             users'[u].origin # None /\ users'[u].origin = users'[v].origin => u = v
      BY <2>1 DEF Origins, SameAccount
    <2>5. \A b \in Issued' : authorizations'[b].status = "USED"
             => \E u \in Accounts' : users'[u].origin = b
      BY <1>2, <2>2 DEF Origins, SameAccount
    <2> QED
      BY <1>3, <2>3, <2>4, <2>5 DEF Origins
  <1> QED
    BY <1>4, <1>5

-----------------------------------------------------------------------------
(* Revocations. *)

\* A request that is done stays so, with its payload.
LEMMA DoneStays ==
  ASSUME TypeOK, [Next]_vars, NEW q \in Requests, pc[q] = "done"
  PROVE  pc'[q] = "done" /\ request'[q] = request[q]
  <1>1. \A p \in Payloads : ~ Receive(q, p)
    BY DEF Receive
  <1>2. ~ Abort(q)
    BY DEF Abort
  <1>3. ~ Step(q)
    BY StageOf DEF Step
  <1> QED
    BY <1>1, <1>2, <1>3, OneMoves

\* Only WriteRevoke sets REVOKED and journals a revocation; what else is written
\* to an authorization is written to an ACTIVE one.
LEMMA OnlyRevokeRevokes ==
  ASSUME IInv, [Next]_vars, \A r \in Requests : ~ WriteRevoke(r)
  PROVE  /\ \A row \in journal' \ journal : row.op # "revoke"
         /\ \A a \in Requests : authorizations'[a] # authorizations[a] =>
               /\ authorizations[a] # None => authorizations[a].status = "ACTIVE"
               /\ authorizations'[a].status # "REVOKED"
  <1> DEFINE Goal ==
        /\ \A row \in journal' \ journal : row.op # "revoke"
        /\ \A a \in Requests : authorizations'[a] # authorizations[a] =>
              /\ authorizations[a] # None => authorizations[a].status = "ACTIVE"
              /\ authorizations'[a].status # "REVOKED"
  <1> USE AccountsAssumption, Distinct DEF IInv, TypeOK
  <1>1. ASSUME NEW r \in Requests, WriteAuthorize(r) PROVE Goal
    BY <1>1 DEF WriteAuthorize, Sessions
  <1>2. ASSUME NEW r \in Requests, CommitUser(r) PROVE Goal
    <2> DEFINE a == loaded[r].origin
    <2>1. CASE a = None
      BY <1>2, <2>1 DEF CommitUser
    <2>2. CASE a # None
      <3>1. a \in Issued /\ authorizations[a].status = "ACTIVE"
        BY <1>2, <2>2 DEF CommitUser, Locked, Inserting
      <3>2. authorizations' = [authorizations EXCEPT ![a].status = "USED"] /\ UNCHANGED journal
        BY <1>2, <2>2 DEF CommitUser
      <3>3. authorizations'[a].status = "USED"
        BY <3>1, <3>2 DEF Issued, Authorizations
      <3> QED
        BY <3>1, <3>2, <3>3
    <2> QED
      BY <2>1, <2>2
  <1>3. ASSUME NEW r \in Requests, WriteLifecycle(r) \/ WriteMove(r) PROVE Goal
    BY <1>3 DEF WriteLifecycle, WriteMove, Lifecycle
  <1>4. ASSUME UNCHANGED authorizations, UNCHANGED journal PROVE Goal
    BY <1>4
  <1>5. \/ UNCHANGED authorizations /\ UNCHANGED journal
        \/ \E r \in Requests : \/ WriteAuthorize(r) \/ CommitUser(r)
                               \/ WriteLifecycle(r) \/ WriteMove(r)
    BY DEF Next, Step, Receive, Abort, CheckAuthorize, CheckRevoke, FindActive,
       LockActive, NotAuthorized, CheckBootstrap, InsertUser, CheckLifecycle,
       CheckMove, SetDepartmentStatus
  <1> HIDE DEF Goal
  <1>6. Goal
    BY <1>1, <1>2, <1>3, <1>4, <1>5
  <1> QED
    BY <1>6 DEF Goal

\* A revocation and its row are committed together, and nothing undoes either.
LEMMA RevocationsStep == IInv /\ Revocations /\ [Next]_vars => Revocations'
  <1> SUFFICES ASSUME IInv, Revocations, [Next]_vars PROVE Revocations'
    OBVIOUS
  <1> USE DEF IInv, TypeOK
  <1>0. \A row \in journal : row.request \in Requests
    BY DEF JournalRows
  <1>1. \A q \in Requests : pc[q] = "done" => pc'[q] = "done" /\ request'[q] = request[q]
    BY DoneStays
  <1>2. \A a \in Issued : a \in Issued' /\ authorizations'[a].by = authorizations[a].by
    BY RowsKeptStep DEF RowsKept, SameAuthorization, Issued
  <1>3. ASSUME NEW r \in Requests, WriteRevoke(r) PROVE Revocations'
    <2> DEFINE a == request[r].target
               new == [request |-> r, op |-> request[r].op, target |-> a, old |-> None]
    <2>1. /\ pc'[r] = "done" /\ request' = request /\ request[r].op = "revoke"
          /\ journal' = journal \cup {new}
          /\ authorizations' = [authorizations EXCEPT ![a].status = "REVOKED"]
      BY <1>3 DEF WriteRevoke
    <2>2. a \in Issued /\ authorizations[a].by = request[r].by
      BY <1>3 DEF WriteRevoke, Targets
    <2>3. /\ authorizations'[a].status = "REVOKED"
          /\ \A b \in Requests \ {a} : authorizations'[b] = authorizations[b]
      BY <2>1, <2>2 DEF Issued, Authorizations
    <2>4. ASSUME NEW row \in journal', row.op = "revoke"
          PROVE  /\ pc'[row.request] = "done"
                 /\ row.target \in Issued'
                 /\ authorizations'[row.target].status = "REVOKED"
                 /\ authorizations'[row.target].by = request'[row.request].by
      <3>1. CASE row = new
        BY <1>2, <2>1, <2>2, <2>3, <3>1
      <3>2. CASE row \in journal
        BY <1>0, <1>1, <1>2, <2>3, <2>4, <3>2 DEF Revocations, Issued
      <3> QED
        BY <2>1, <3>1, <3>2
    <2>5. ASSUME NEW b \in Issued', authorizations'[b].status = "REVOKED"
          PROVE  \E row \in journal' : row.op = "revoke" /\ row.target = b
      <3>1. CASE b = a
        <4>1. new \in journal' /\ new.op = "revoke" /\ new.target = b
          BY <2>1, <3>1
        <4> HIDE DEF new
        <4> QED
          BY <4>1
      <3>2. CASE b # a
        BY <2>1, <2>3, <2>5, <3>2 DEF Revocations, Issued
      <3> QED
        BY <3>1, <3>2
    <2> QED
      BY <2>4, <2>5 DEF Revocations
  <1>4. CASE \A r \in Requests : ~ WriteRevoke(r)
    <2>1. /\ \A row \in journal' \ journal : row.op # "revoke"
          /\ \A a \in Requests : authorizations'[a] # authorizations[a] =>
                /\ authorizations[a] # None => authorizations[a].status = "ACTIVE"
                /\ authorizations'[a].status # "REVOKED"
      BY <1>4, OnlyRevokeRevokes
    <2>2. journal \subseteq journal'
      BY DEF Next, Step, Receive, Abort, CheckAuthorize, WriteAuthorize, CheckRevoke,
         WriteRevoke, FindActive, LockActive, NotAuthorized, CheckBootstrap, InsertUser,
         CommitUser, CheckLifecycle, WriteLifecycle, CheckMove, WriteMove,
         SetDepartmentStatus
    <2>3. ASSUME NEW row \in journal', row.op = "revoke"
          PROVE  /\ pc'[row.request] = "done"
                 /\ row.target \in Issued'
                 /\ authorizations'[row.target].status = "REVOKED"
                 /\ authorizations'[row.target].by = request'[row.request].by
      <3>1. row \in journal /\ row.request \in Requests
        BY <1>0, <2>1, <2>3
      <3>2. /\ pc[row.request] = "done" /\ row.target \in Issued
            /\ authorizations[row.target].status = "REVOKED"
            /\ authorizations[row.target].by = request[row.request].by
        BY <2>3, <3>1 DEF Revocations
      <3>3. authorizations'[row.target] = authorizations[row.target]
        BY <2>1, <3>2 DEF Issued
      <3> QED
        BY <1>1, <1>2, <3>1, <3>2, <3>3
    <2>4. ASSUME NEW b \in Issued', authorizations'[b].status = "REVOKED"
          PROVE  \E row \in journal' : row.op = "revoke" /\ row.target = b
      BY <2>1, <2>2, <2>4 DEF Revocations, Issued
    <2> QED
      BY <2>3, <2>4 DEF Revocations
  <1> QED
    BY <1>3, <1>4

-----------------------------------------------------------------------------
(* The theorems. *)

\* IInv is inductive.
LEMMA IInvInvariant == Spec => []IInv
  <1>1. Init => IInv
    BY InitIInv
  <1>2. IInv /\ [Next]_vars => IInv'
    BY TypeStep, SessionsStep, TargetsStep, LockedStep, IndexStep, OriginsStep DEF IInv
  <1> QED
    BY <1>1, <1>2, PTL DEF Spec

\* Every variable keeps to the rows and stages of the code.
THEOREM TypeCorrect == Spec => []TypeOK
  <1>1. IInv => TypeOK
    BY DEF IInv
  <1> QED
    BY <1>1, IInvInvariant, PTL

\* uq_users_email_lower and the handling of its violation leave one account per
\* address, whoever signs up when.
THEOREM OneAccountCorrect == Spec => []OneAccountPerAddress
  <1>1. IInv => OneAccountPerAddress
    BY DEF IInv, Index
  <1> QED
    BY <1>1, IInvInvariant, PTL

\* Each ADMIN and USER has an authorization of its own for its address and role,
\* and none is used up without an account.
THEOREM AccountsAuthorizedCorrect == Spec => []AccountsAuthorized
  <1>1. IInv => AccountsAuthorized
    <2> SUFFICES ASSUME IInv PROVE AccountsAuthorized
      OBVIOUS
    <2> USE AccountsAssumption, Distinct DEF IInv, Origins
    <2>1. ASSUME NEW u \in Accounts \ Founders, users[u].role \in Managed
          PROVE  LET a == users[u].origin IN
                 /\ a \in Issued
                 /\ authorizations[a].address = users[u].address
                 /\ authorizations[a].purpose = users[u].role
                 /\ users[u].role = "USER" => authorizations[a].dept = users[u].dept
                 /\ \A v \in Accounts : users[v].origin = a => u = v
      BY <2>1 DEF Issued
    <2> QED
      BY <2>1 DEF AccountsAuthorized
  <1> QED
    BY <1>1, IInvInvariant, PTL

\* A revocation is final: a revoked authorization stays revoked, whatever signup
\* had read it before, and it was its creator who revoked it.
THEOREM RevocationCorrect == Spec => []RevocationFinal
  <1>1. Init => Revocations
    BY DEF Init, Revocations, Issued
  <1>2. IInv /\ Revocations /\ [Next]_vars => Revocations'
    BY RevocationsStep
  <1>3. Revocations => RevocationFinal
    BY DEF Revocations, RevocationFinal
  <1> QED
    BY <1>1, <1>2, <1>3, IInvInvariant, PTL DEF Spec

\* Signup turns an ACTIVE authorization into an account and a USED one in one
\* step, although it read the authorization two steps before.
THEOREM ConsumesActiveCorrect == Spec => ConsumesActive
  <1> DEFINE Consumes ==
        \A u \in Requests : u \notin Accounts /\ users'[u] # None
              /\ users'[u].role \in Managed =>
            LET a == users'[u].origin IN
            /\ authorizations[a].status = "ACTIVE"
            /\ authorizations'[a].status = "USED"
  <1>1. IInv /\ [Next]_vars => [Consumes]_vars
    <2> SUFFICES ASSUME IInv, [Next]_vars, NEW u \in Requests, u \notin Accounts,
                        users'[u] # None, users'[u].role \in Managed
                 PROVE  LET a == users'[u].origin IN
                        /\ authorizations[a].status = "ACTIVE"
                        /\ authorizations'[a].status = "USED"
      OBVIOUS
    <2> USE AccountsAssumption, Distinct DEF IInv, TypeOK, Accounts
    <2>1. CommitUser(u)
      <3>1. \A r \in Requests : WriteLifecycle(r) \/ WriteMove(r) => users'[u] = None
        BY DEF WriteLifecycle, WriteMove, Targets
      <3>2. \A r \in Requests : CommitUser(r) => r = u
        BY DEF CommitUser
      <3> QED
        BY <3>1, <3>2 DEF Next, Step, Receive, Abort, CheckAuthorize, WriteAuthorize,
           CheckRevoke, WriteRevoke, FindActive, LockActive, NotAuthorized,
           CheckBootstrap, InsertUser, CheckLifecycle, CheckMove, SetDepartmentStatus
    <2>2. users'[u] = loaded[u] /\ pc[u] = "commit"
      BY <2>1 DEF CommitUser
    <2>3. Holds(u)
      BY <2>2 DEF Locked, Holds, Inserting
    <2> DEFINE a == loaded[u].origin
    <2>4. a \in Issued /\ authorizations[a].status = "ACTIVE"
      BY <2>2, <2>3 DEF Holds, Managed
    <2>5. authorizations' = [authorizations EXCEPT ![a].status = "USED"]
      BY <2>1, <2>4 DEF CommitUser, Issued
    <2>6. authorizations'[a].status = "USED"
      BY <2>4, <2>5 DEF Issued, Authorizations
    <2> QED
      BY <2>2, <2>4, <2>6
  <1> QED
    BY <1>1, IInvInvariant, PTL DEF Spec, ConsumesActive
=============================================================================
