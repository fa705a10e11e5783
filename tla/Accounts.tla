------------------------------ MODULE Accounts ------------------------------
(***************************************************************************)
(* How accounts come to exist and change status: UserService (an ADMIN     *)
(* managing the USERs of its department), AdminService (a SYSTEM_ADMIN      *)
(* managing ADMINs), AuthService.signup and the bootstrap command.          *)
(*                                                                         *)
(* Every operation is one READ COMMITTED transaction of a session of its    *)
(* own: it loads rows, decides on what it loaded, writes and commits.  Only *)
(* signup locks what it read (SELECT ... FOR UPDATE on the authorization).  *)
(* Nothing is versioned, so between an operation's reads and its write any  *)
(* other operation may commit.                                              *)
(*                                                                         *)
(* A user row or an authorization row is identified with the request that   *)
(* inserts it, or is one of the Founders, there before the requests.        *)
(***************************************************************************)
CONSTANTS
    Addresses,      \* normalised e-mail addresses
    Departments,    \* rows of the departments table
    Requests,       \* requests; also the identities of the rows they insert
    Founders,       \* accounts that exist from the start
    FounderRow,     \* [Founders -> Users]: their rows
    Payloads,       \* what clients and the operator may send
    None            \* SQL NULL

Ids == Requests \cup Founders

Managed == {"ADMIN", "USER"}
Roles == {"SYSTEM_ADMIN"} \cup Managed
Statuses == {"PENDING_APPROVAL", "ACTIVE", "DEACTIVATED"}

\* Rows of users: a SYSTEM_ADMIN has no department, everyone else has one.
\* origin is the authorization the account was created from.
Users ==
    {u \in [address : Addresses, role : Roles, dept : Departments \cup {None},
            status : Statuses, origin : Requests \cup {None}] :
        u.role = "SYSTEM_ADMIN" <=> u.dept = None}

\* Rows of user_authorizations.  created_at is the start of the transaction that
\* inserts the row, and matters only for its order: older are the authorizations
\* whose transactions had started by then.
Authorizations ==
    [address : Addresses, dept : Departments, by : Ids, purpose : Managed,
     status : {"ACTIVE", "USED", "REVOKED"}, older : SUBSET Requests]

Lifecycle == {"approve", "deactivate", "reactivate"}

\* Requests to /users (role USER) and /admins (role ADMIN) by a signed-in
\* caller; POST /auth/signup and the bootstrap command, by nobody.
Payload ==
    [op : Lifecycle \cup {"authorize", "revoke", "move"}, role : Managed,
     by : Ids, target : Ids \cup {None}, address : Addresses \cup {None},
     dept : Departments \cup {None}]
    \cup [op : {"signup", "bootstrap"}, address : Addresses]

ASSUME AccountsAssumption ==
    /\ None \notin Ids \cup Departments \cup Addresses
    /\ None \notin Users \cup Authorizations \cup Payload
    /\ Requests \cap Founders = {}
    /\ FounderRow \in [Founders -> Users]
    /\ \A f \in Founders : FounderRow[f].status = "ACTIVE" /\ FounderRow[f].origin = None
    /\ \A f, g \in Founders : FounderRow[f].address = FounderRow[g].address => f = g
    /\ Payloads \subseteq Payload
    /\ \A p \in Payloads :
          /\ p.op = "authorize" => p.address # None
          /\ p.op = "move" => p.role = "ADMIN"      \* an endpoint of /admins only

VARIABLES
    \* The database, as committed.
    departmentActive,   \* departments whose status is ACTIVE
    users,              \* [Ids -> a user row or None]
    authorizations,     \* [Requests -> an authorization row or None]
    journal,            \* rows of audit_logs on accounts
    \* The requests.
    lock,               \* the signup that holds an authorization FOR UPDATE
    request,            \* the payload received
    pc,                 \* what the request does next
    loaded,             \* the row its session loaded, or is about to insert
    candidates          \* authorizations a signup has yet to try to lock

database == <<departmentActive, users, authorizations, journal>>
session == <<request, pc, loaded, candidates>>
vars == <<database, lock, session>>

Stages == {"idle", "check", "lock", "insert", "commit", "write", "done"}

\* old is what the audit row says the status was.
JournalRows == [request : Requests, op : Lifecycle \cup {"authorize", "revoke", "move"},
                target : Ids, old : Statuses \cup {None}]

TypeOK ==
    /\ departmentActive \subseteq Departments
    /\ users \in [Ids -> Users \cup {None}]
    /\ authorizations \in [Requests -> Authorizations \cup {None}]
    /\ journal \subseteq JournalRows
    /\ lock \in [Requests -> Requests \cup {None}]
    /\ request \in [Requests -> Payloads \cup {None}]
    /\ pc \in [Requests -> Stages]
    /\ loaded \in [Requests -> Users \cup Authorizations \cup {None}]
    /\ candidates \in [Requests -> SUBSET Requests]

Init ==
    /\ departmentActive = Departments
    /\ users = [i \in Ids |-> IF i \in Founders THEN FounderRow[i] ELSE None]
    /\ authorizations = [a \in Requests |-> None]
    /\ journal = {}
    /\ lock = [a \in Requests |-> None]
    /\ request = [r \in Requests |-> None]
    /\ pc = [r \in Requests |-> "idle"]
    /\ loaded = [r \in Requests |-> None]
    /\ candidates = [r \in Requests |-> {}]

-----------------------------------------------------------------------------
(* Operators on the state. *)

Accounts == {u \in Ids : users[u] # None}
Issued == {a \in Requests : authorizations[a] # None}

\* The transactions that insert an authorization, under way or committed.
Issuing == Issued \cup {a \in Requests : pc[a] = "write" /\ request[a].op = "authorize"}

Goto(r, s) == pc' = [pc EXCEPT ![r] = s]

\* Go on to stage s having read, or prepared, row.
Load(r, row, s) ==
    /\ loaded' = [loaded EXCEPT ![r] = row]
    /\ Goto(r, s)
    /\ UNCHANGED candidates

\* The request ends, its transaction committed or rolled back.
Done(r) ==
    /\ loaded' = [loaded EXCEPT ![r] = None]
    /\ candidates' = [candidates EXCEPT ![r] = {}]
    /\ Goto(r, "done")

\* Seeded fault: a session that is never closed keeps its row locks.
LeakyRelease(r) == UNCHANGED lock

Release(r) == lock' = [a \in Requests |-> IF lock[a] = r THEN None ELSE lock[a]]

\* get_current_user and the endpoint's role dependency: a SYSTEM_ADMIN manages
\* ADMINs, an ADMIN manages USERs.
Authenticated(r) ==
    LET by == request[r].by IN
    /\ by \in Accounts
    /\ users[by].status = "ACTIVE"
    /\ users[by].role = IF request[r].role = "ADMIN" THEN "SYSTEM_ADMIN" ELSE "ADMIN"

\* get_user and get_admin: the account has the endpoint's role and, a USER, is
\* of the caller's department.
InReach(r) ==
    LET u == request[r].target IN
    /\ u \in Accounts
    /\ users[u].role = request[r].role
    /\ users[u].role = "USER" => users[u].dept = users[request[r].by].dept

\* find_unresolved
Unresolved(address, purpose) ==
    {a \in Issued : authorizations[a].address = address
                    /\ authorizations[a].purpose = purpose
                    /\ authorizations[a].status = "ACTIVE"}

\* find_by_email, as authorize_user and authorize_admin use it.
HasActiveAccount(address, role) ==
    \E u \in Accounts : users[u].address = address
                        /\ users[u].role = role /\ users[u].status = "ACTIVE"

\* The rows find_and_lock_active reads: ACTIVE, either purpose.
Consumable(address) ==
    {a \in Issued : authorizations[a].address = address
                    /\ authorizations[a].status = "ACTIVE"}

\* Seeded fault: FOR UPDATE without evaluating the WHERE clause again.
NeverRechecked(a) == TRUE

\* What a lock wait is followed by: the WHERE clause on the row as it is now.
StillActive(a) == authorizations[a].status = "ACTIVE"

\* uq_users_email_lower: an insert waits for an uncommitted one of the same
\* address and fails on a committed one.
AddressFree(r) ==
    \A q \in Requests \ {r} :
        pc[q] = "commit" => loaded[q].address # loaded[r].address

\* Seeded fault: the unique index on lower(email) is missing.
NoUniqueIndex(r) == FALSE

AddressTaken(r) == \E u \in Accounts : users[u].address = loaded[r].address

\* The audit row of r, on an account or an authorization.
Journal(r, target, old) ==
    journal' = journal \cup
        {[request |-> r, op |-> request[r].op, target |-> target, old |-> old]}

-----------------------------------------------------------------------------
(* The environment. *)

\* A request arrives.  The ids it names were read from earlier answers.
Receive(r, p) ==
    /\ pc[r] = "idle"
    /\ p.op \notin {"signup", "bootstrap"} => p.target \in Accounts \cup Issued \cup {None}
    /\ request' = [request EXCEPT ![r] = p]
    /\ Goto(r, "check")
    /\ UNCHANGED <<database, lock, loaded, candidates>>

SetDepartmentStatus(d) ==
    /\ departmentActive' = IF d \in departmentActive
                           THEN departmentActive \ {d}
                           ELSE departmentActive \cup {d}
    /\ UNCHANGED <<users, authorizations, journal, lock, session>>

\* A statement fails or the process dies before the commit.
Abort(r) ==
    /\ pc[r] \notin {"idle", "done"}
    /\ Release(r)
    /\ Done(r)
    /\ UNCHANGED <<database, request>>

-----------------------------------------------------------------------------
(* Authorizing an address, and revoking the authorization. *)

\* authorize_user (the caller's own department) and authorize_admin (the one
\* it names), up to the insert.
CheckAuthorize(r) ==
    LET p == request[r]
        dept == IF p.role = "USER" THEN users[p.by].dept ELSE p.dept
    IN
    /\ pc[r] = "check" /\ p.op = "authorize"
    /\ IF /\ Authenticated(r)
          /\ dept \in departmentActive
          /\ ~HasActiveAccount(p.address, p.role)
          /\ Unresolved(p.address, p.role) = {}
       THEN Load(r, [address |-> p.address, dept |-> dept, by |-> p.by,
                     purpose |-> p.role, status |-> "ACTIVE", older |-> Issuing], "write")
       ELSE Done(r)
    /\ UNCHANGED <<database, lock, request>>

\* Nothing stops two authorizations of one address that were checked together.
WriteAuthorize(r) ==
    /\ pc[r] = "write" /\ request[r].op = "authorize"
    /\ authorizations' = [authorizations EXCEPT ![r] = loaded[r]]
    /\ Journal(r, r, None)
    /\ Done(r)
    /\ UNCHANGED <<departmentActive, users, lock, request>>

\* revoke_authorization, up to the update: creator-scoped; USED is refused and
\* REVOKED is left as it is.
CheckRevoke(r) ==
    LET a == request[r].target IN
    /\ pc[r] = "check" /\ request[r].op = "revoke"
    /\ IF /\ Authenticated(r)
          /\ a \in Issued
          /\ authorizations[a].purpose = "USER"
          /\ authorizations[a].dept = users[request[r].by].dept
          /\ authorizations[a].by = request[r].by
          /\ authorizations[a].status = "ACTIVE"
       THEN Load(r, authorizations[a], "write")
       ELSE Done(r)
    /\ UNCHANGED <<database, lock, request>>

\* Seeded fault: the UPDATE does not wait for the row lock.
RevokesAtOnce(r) ==
    LET a == request[r].target IN
    /\ pc[r] = "write" /\ request[r].op = "revoke"
    /\ authorizations' = [authorizations EXCEPT ![a].status = "REVOKED"]
    /\ Journal(r, a, None)
    /\ Done(r)
    /\ UNCHANGED <<departmentActive, users, lock, request>>

\* The UPDATE waits for a signup that holds the row, then sets REVOKED on
\* whatever that signup left.
WriteRevoke(r) ==
    LET a == request[r].target IN
    /\ pc[r] = "write" /\ request[r].op = "revoke"
    /\ lock[a] = None
    /\ authorizations' = [authorizations EXCEPT ![a].status = "REVOKED"]
    /\ Journal(r, a, None)
    /\ Done(r)
    /\ UNCHANGED <<departmentActive, users, lock, request>>

-----------------------------------------------------------------------------
(* Signing up, and the bootstrap command. *)

\* find_and_lock_active reads the matching rows ...
FindActive(r) ==
    /\ pc[r] = "check" /\ request[r].op = "signup"
    /\ candidates' = [candidates EXCEPT ![r] = Consumable(request[r].address)]
    /\ Goto(r, "lock")
    /\ UNCHANGED <<database, lock, request, loaded>>

\* ... and goes through them, oldest first: it waits for whoever holds the row,
\* and locks it if it is still ACTIVE then.
LockActive(r) ==
    /\ pc[r] = "lock"
    /\ \E a \in candidates[r] :
          /\ authorizations[a].older \cap candidates[r] = {}
          /\ lock[a] = None
          /\ IF StillActive(a)
             THEN /\ lock' = [lock EXCEPT ![a] = r]
                  /\ Load(r, [address |-> request[r].address,
                              role |-> authorizations[a].purpose,
                              dept |-> authorizations[a].dept,
                              status |-> "PENDING_APPROVAL", origin |-> a], "insert")
             ELSE /\ candidates' = [candidates EXCEPT ![r] = @ \ {a}]
                  /\ UNCHANGED <<lock, pc, loaded>>
    /\ UNCHANGED <<database, request>>

\* No authorization is left: SignupNotAuthorizedError.
NotAuthorized(r) ==
    /\ pc[r] = "lock"
    /\ candidates[r] = {}
    /\ Done(r)
    /\ UNCHANGED <<database, lock, request>>

\* create_system_admin: only when no SYSTEM_ADMIN is ACTIVE.
CheckBootstrap(r) ==
    /\ pc[r] = "check" /\ request[r].op = "bootstrap"
    /\ IF \E u \in Accounts : users[u].role = "SYSTEM_ADMIN" /\ users[u].status = "ACTIVE"
       THEN Done(r)
       ELSE Load(r, [address |-> request[r].address, role |-> "SYSTEM_ADMIN",
                     dept |-> None, status |-> "ACTIVE", origin |-> None], "insert")
    /\ UNCHANGED <<database, lock, request>>

\* Seeded fault: the authorization is consumed by a commit of its own, before
\* the account is inserted.
ConsumedFirst(r) ==
    /\ pc[r] = "insert"
    /\ AddressFree(r)
    /\ authorizations' = IF loaded[r].origin = None THEN authorizations
                         ELSE [authorizations EXCEPT ![loaded[r].origin].status = "USED"]
    /\ IF AddressTaken(r)
       THEN Release(r) /\ Done(r)
       ELSE Goto(r, "commit") /\ UNCHANGED <<lock, loaded, candidates>>
    /\ UNCHANGED <<departmentActive, users, journal, request>>

\* The flush of the users row.  A taken address rolls everything back, the
\* consumption of the authorization included.
InsertUser(r) ==
    /\ pc[r] = "insert"
    /\ AddressFree(r)
    /\ IF AddressTaken(r)
       THEN Release(r) /\ Done(r)
       ELSE Goto(r, "commit") /\ UNCHANGED <<lock, loaded, candidates>>
    /\ UNCHANGED <<database, request>>

CommitUser(r) ==
    LET a == loaded[r].origin IN
    /\ pc[r] = "commit"
    /\ users' = [users EXCEPT ![r] = loaded[r]]
    /\ authorizations' = IF a = None THEN authorizations
                         ELSE [authorizations EXCEPT ![a].status = "USED"]
    /\ Release(r)
    /\ Done(r)
    /\ UNCHANGED <<departmentActive, journal, request>>

-----------------------------------------------------------------------------
(* Approving, deactivating, reactivating and moving an account. *)

\* Seeded fault: the status of an authorization on an account.
SetsRevoked(op) == IF op = "deactivate" THEN "REVOKED" ELSE "ACTIVE"

\* The status each operation sets, and the one it writes an audit row for.
Sets(op) == IF op = "deactivate" THEN "DEACTIVATED" ELSE "ACTIVE"
Leaves(op) ==
    CASE op = "approve" -> "PENDING_APPROVAL"
      [] op = "deactivate" -> "ACTIVE"
      [] op = "reactivate" -> "DEACTIVATED"

\* Granting access needs an ACTIVE department: the caller's own for a USER, the
\* account's for an ADMIN.  Taking it away does not.
DepartmentHealthy(r) ==
    users[IF request[r].role = "USER" THEN request[r].by ELSE request[r].target].dept
        \in departmentActive

\* Only approve insists on the status it leaves.
CheckLifecycle(r) ==
    LET p == request[r] IN
    /\ pc[r] = "check" /\ p.op \in Lifecycle
    /\ IF /\ Authenticated(r) /\ InReach(r)
          /\ p.op = "approve" => users[p.target].status = "PENDING_APPROVAL"
          /\ p.op # "deactivate" => DepartmentHealthy(r)
       THEN Load(r, users[p.target], "write")
       ELSE Done(r)
    /\ UNCHANGED <<database, lock, request>>

\* The UPDATE is sent only when the status differs from the one loaded, and
\* the audit row says what was loaded.
WriteLifecycle(r) ==
    LET p == request[r] IN
    /\ pc[r] = "write" /\ p.op \in Lifecycle
    /\ users' = IF loaded[r].status = Sets(p.op) THEN users
                ELSE [users EXCEPT ![p.target].status = Sets(p.op)]
    /\ IF loaded[r].status = Leaves(p.op)
       THEN Journal(r, p.target, loaded[r].status)
       ELSE UNCHANGED journal
    /\ Done(r)
    /\ UNCHANGED <<departmentActive, authorizations, lock, request>>

\* change_admin_department
CheckMove(r) ==
    LET p == request[r] IN
    /\ pc[r] = "check" /\ p.op = "move"
    /\ IF Authenticated(r) /\ InReach(r) /\ p.dept \in departmentActive
       THEN Load(r, users[p.target], "write")
       ELSE Done(r)
    /\ UNCHANGED <<database, lock, request>>

WriteMove(r) ==
    LET p == request[r] IN
    /\ pc[r] = "write" /\ p.op = "move"
    /\ users' = IF loaded[r].dept = p.dept THEN users
                ELSE [users EXCEPT ![p.target].dept = p.dept]
    /\ Journal(r, p.target, loaded[r].status)
    /\ Done(r)
    /\ UNCHANGED <<departmentActive, authorizations, lock, request>>

-----------------------------------------------------------------------------
Step(r) ==
    \/ CheckAuthorize(r) \/ WriteAuthorize(r)
    \/ CheckRevoke(r)    \/ WriteRevoke(r)
    \/ FindActive(r)     \/ LockActive(r)  \/ NotAuthorized(r)
    \/ CheckBootstrap(r)
    \/ InsertUser(r)     \/ CommitUser(r)
    \/ CheckLifecycle(r) \/ WriteLifecycle(r)
    \/ CheckMove(r)      \/ WriteMove(r)

Next ==
    \/ \E r \in Requests :
          \/ \E p \in Payloads : Receive(r, p)
          \/ Step(r)
          \/ Abort(r)
    \/ \E d \in Departments : SetDepartmentStatus(d)

Spec == Init /\ [][Next]_vars

\* A request that was started keeps running its statements.
FairSpec == Spec /\ \A r \in Requests : WF_vars(Step(r))

-----------------------------------------------------------------------------
(* Properties. *)

\* An address has one account, however many signups and authorizations it has
\* (uq_users_email_lower and the duplicate handling of signup).
OneAccountPerAddress ==
    \A u, v \in Accounts : users[u].address = users[v].address => u = v

\* Every ADMIN and USER account that signed up was made from an authorization
\* of its own, for its address and its role, and a USER's department is the one
\* the authorization granted.  Conversely only the commit that made an account
\* has consumed an authorization: a failed signup never burns one.
AccountsAuthorized ==
    /\ \A u \in Accounts \ Founders : users[u].role \in Managed =>
          LET a == users[u].origin IN
          /\ a \in Issued
          /\ authorizations[a].address = users[u].address
          /\ authorizations[a].purpose = users[u].role
          /\ users[u].role = "USER" => authorizations[a].dept = users[u].dept
          /\ \A v \in Accounts : users[v].origin = a => u = v
    /\ \A a \in Issued : authorizations[a].status = "USED"
          => \E u \in Accounts : users[u].origin = a

\* A committed revocation is final and is the audited act of the authorization's
\* creator: no signup that was under way brings the authorization back.
RevocationFinal ==
    \A a \in Issued : authorizations[a].status = "REVOKED"
        <=> \E row \in journal :
               /\ row.op = "revoke" /\ row.target = a
               /\ request[row.request].by = authorizations[a].by

\* An account appears only in the step that turns an ACTIVE authorization into
\* a USED one: the check and the consumption of signup are one.
ConsumesActive ==
    [][\A u \in Requests : u \notin Accounts /\ users'[u] # None
            /\ users'[u].role \in Managed =>
          LET a == users'[u].origin IN
          /\ authorizations[a].status = "ACTIVE"
          /\ authorizations'[a].status = "USED"]_vars

\* Whatever locks and duplicate addresses a request meets, it ends.
EveryRequestEnds ==
    \A r \in Requests : pc[r] = "check" ~> pc[r] = "done"

\* revoke_authorization's docstring: an authorization that produced an account
\* is rejected, not revoked.
ConsumedStaysUsed ==
    \A u \in Accounts : users[u].origin # None
        => authorizations[users[u].origin].status = "USED"

=============================================================================
