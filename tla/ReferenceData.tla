---------------------------- MODULE ReferenceData ----------------------------
(***************************************************************************)
(* The reference tables: departments, categories, classifications and       *)
(* designations, and the four services that create, change, activate and    *)
(* deactivate their rows.  The services share one shape.  They differ in    *)
(* what a name is compared by, in which columns are unique, and in that     *)
(* DepartmentService.update_department writes no audit row.                 *)
(*                                                                         *)
(* Nothing is checked before a write: the unique indexes decide.  A         *)
(* statement waits for a transaction whose outcome it depends on, and       *)
(* PostgreSQL fails one of the transactions that wait for each other.       *)
(*                                                                         *)
(* A row is identified with the request that inserts it, or is one of the   *)
(* Seeds.                                                                  *)
(***************************************************************************)
CONSTANTS
    Names,          \* names of rows
    Folded,         \* [Names -> Names]: lower()
    Details,        \* values of the second column: code or description
    Requests,       \* requests of SYSTEM_ADMINs, and the rows they insert
    Seeds, SeedRow, \* the rows there from the start
    Payloads,       \* what the requests may ask for
    None            \* SQL NULL, and a field the client did not send

Ids == Requests \cup Seeds

Tables == {"departments", "categories", "classifications", "designations"}

\* detail is departments.code, or the other columns a client may set
\* (description, restricts_access), which have no index.
RefRows ==
    [table : Tables, name : Names, detail : Details \cup {None},
     status : {"ACTIVE", "INACTIVE"}]

StatusOps == {"activate", "deactivate"}

\* A designation has a name and nothing else; its update may carry no column.
DetailsOf(t) == IF t = "designations" THEN {None} ELSE Details \cup {None}

Fields ==
    UNION {[table : {t}, name : Names \cup {None}, detail : DetailsOf(t)] : t \in Tables}

Creation ==
    {[op |-> "create", table |-> f.table, name |-> f.name, detail |-> f.detail] :
        f \in {g \in Fields : g.name # None}}

Change ==
    {[op |-> "update", table |-> f.table, target |-> i, name |-> f.name, detail |-> f.detail] :
        i \in Ids,
        f \in {g \in Fields : g.table # "designations" => g.name # None \/ g.detail # None}}

Payload == Creation \cup Change \cup [op : StatusOps, table : Tables, target : Ids]

\* Two rows with the same entry in the unique index on the name ...
SameName(v, w) ==
    /\ v.table = w.table
    /\ IF v.table = "designations" THEN Folded[v.name] = Folded[w.name] ELSE v.name = w.name

\* ... and in the one on departments.code, which holds no NULLs.
SameCode(v, w) ==
    /\ v.table = "departments" /\ w.table = "departments"
    /\ v.detail # None /\ v.detail = w.detail

ASSUME ReferenceDataAssumption ==
    /\ None \notin Ids \cup Names \cup Details
    /\ None \notin RefRows \cup Payload
    /\ Folded \in [Names -> Names]
    /\ Requests \cap Seeds = {}
    /\ SeedRow \in [Seeds -> RefRows]
    /\ \A s, t \in Seeds :
          SameName(SeedRow[s], SeedRow[t]) \/ SameCode(SeedRow[s], SeedRow[t]) => s = t
    /\ Payloads \subseteq Payload

VARIABLES
    \* The database, as committed.
    rows,           \* [Ids -> a row or None]
    audited,        \* [Ids -> the status the row's newest CREATED, ACTIVATED or
                    \*         DEACTIVATED audit row gives, or None]
    changes,        \* the UPDATED audit rows
    \* The requests.
    request,        \* the payload received
    pc,             \* what the request does next
    loaded,         \* the row in its session's identity map
    draft,          \* the row version it has written and not committed
    answer          \* the reply

database == <<rows, audited, changes>>
vars == <<database, request, pc, loaded, draft, answer>>

Stages == {"idle", "load", "write", "name", "code", "commit", "done"}

TypeOK ==
    /\ rows \in [Ids -> RefRows \cup {None}]
    /\ audited \in [Ids -> {"ACTIVE", "INACTIVE", None}]
    /\ changes \subseteq [request : Requests, row : Ids, fields : SUBSET {"name", "detail"}]
    /\ request \in [Requests -> Payloads \cup {None}]
    /\ pc \in [Requests -> Stages]
    /\ loaded \in [Requests -> RefRows \cup {None}]
    /\ draft \in [Requests -> RefRows \cup {None}]
    /\ answer \in [Requests -> {"none", "ok", "notFound", "conflict", "error"}]

Init ==
    /\ rows = [i \in Ids |-> IF i \in Seeds THEN SeedRow[i] ELSE None]
    /\ audited = [i \in Ids |-> IF i \in Seeds THEN SeedRow[i].status ELSE None]
    /\ changes = {}
    /\ request = [r \in Requests |-> None]
    /\ pc = [r \in Requests |-> "idle"]
    /\ loaded = [r \in Requests |-> None]
    /\ draft = [r \in Requests |-> None]
    /\ answer = [r \in Requests |-> "none"]

-----------------------------------------------------------------------------
(* Operators on the state. *)

Existing == {i \in Ids : rows[i] # None}

Goto(r, s) == pc' = [pc EXCEPT ![r] = s]

\* The row a request inserts or changes.
Row(r) == IF request[r].op = "create" THEN r ELSE request[r].target

\* The requests that have written a row and neither committed nor rolled back.
Writers == {q \in Requests : draft[q] # None}

\* Seeded fault: the session is not rolled back.
LeftOpen(r, a) ==
    /\ answer' = [answer EXCEPT ![r] = a]
    /\ loaded' = [loaded EXCEPT ![r] = None]
    /\ UNCHANGED draft
    /\ Goto(r, "done")

\* The transaction ends and the client is answered.
Finish(r, a) ==
    /\ answer' = [answer EXCEPT ![r] = a]
    /\ loaded' = [loaded EXCEPT ![r] = None]
    /\ draft' = [draft EXCEPT ![r] = None]
    /\ Goto(r, "done")

\* The columns an update carries, and those that differ from what was loaded:
\* only these are in the UPDATE.
Sent(r) == {f \in {"name", "detail"} : request[r][f] # None}
Changed(r) == {f \in Sent(r) : request[r][f] # loaded[r][f]}

\* Seeded fault: the status of a letter.
SetsArchived(op) == IF op = "deactivate" THEN "ARCHIVED" ELSE "ACTIVE"

Sets(op) == IF op = "deactivate" THEN "INACTIVE" ELSE "ACTIVE"

\* What r's UPDATE makes of a row: the columns changed, on the version that is
\* committed by the time r holds the row.
Updated(r) ==
    LET i == Row(r)
        value(f) == IF f \in Changed(r) THEN request[r][f] ELSE rows[i][f]
    IN IF request[r].op = "update"
       THEN [table |-> rows[i].table, name |-> value("name"), detail |-> value("detail"),
             status |-> rows[i].status]
       ELSE [rows[i] EXCEPT !.status = Sets(request[r].op)]

\* Has r anything to write to the row it loaded?
Dirty(r) ==
    IF request[r].op = "update" THEN Changed(r) # {}
    ELSE loaded[r].status # Sets(request[r].op)

\* The requests whose entry in the index r has to wait for: it was entered and
\* not committed, or the row that has it is being updated.
HoldersOf(r, Same(_, _), entered) ==
    {q \in Writers \ {r} :
        \/ pc[q] \in entered /\ Same(draft[q], draft[r])
        \/ Row(q) \in Existing /\ Same(rows[Row(q)], draft[r])}

\* Seeded fault: an entry that is not committed is not seen.
NobodyHolds(r) == {}

NameHolders(r) == HoldersOf(r, SameName, {"code", "commit"})
CodeHolders(r) == HoldersOf(r, SameCode, {"commit"})

Taken(r, Same(_, _)) == \E i \in Existing \ {Row(r)} : Same(rows[i], draft[r])

\* The requests r's next statement waits for.
WaitsFor(r) ==
    CASE pc[r] = "write" /\ request[r].op # "create" /\ Dirty(r) ->
            {q \in Writers \ {r} : Row(q) = Row(r)}
      [] pc[r] = "name" -> NameHolders(r)
      [] pc[r] = "code" -> CodeHolders(r)
      [] OTHER -> {}

\* r is among requests that all wait for each other.
Deadlocked(r) ==
    \E S \in SUBSET Requests : r \in S /\ \A q \in S : WaitsFor(q) \cap S # {}

-----------------------------------------------------------------------------
(* The environment. *)

\* Targets were read from an earlier list or page, and rows are never deleted.
Receive(r, p) ==
    /\ pc[r] = "idle"
    /\ request' = [request EXCEPT ![r] = p]
    /\ Goto(r, IF p.op = "create" THEN "write" ELSE "load")
    /\ UNCHANGED <<database, loaded, draft, answer>>

\* A statement fails for a reason of its own, or the worker dies.
Abort(r) ==
    /\ pc[r] \notin {"idle", "done"}
    /\ Finish(r, "error")
    /\ UNCHANGED <<database, request>>

-----------------------------------------------------------------------------
(* The statements of a request. *)

\* get_department and its like: each looks in its own table.
Load(r) ==
    /\ pc[r] = "load"
    /\ IF Row(r) \in Existing /\ rows[Row(r)].table = request[r].table
       THEN /\ loaded' = [loaded EXCEPT ![r] = rows[Row(r)]]
            /\ Goto(r, "write")
            /\ UNCHANGED <<draft, answer>>
       ELSE Finish(r, "notFound")
    /\ UNCHANGED <<database, request>>

\* create_*: the INSERT of an ACTIVE row.
Insert(r) ==
    /\ pc[r] = "write" /\ request[r].op = "create"
    /\ draft' = [draft EXCEPT ![r] =
          [table |-> request[r].table, name |-> request[r].name,
           detail |-> request[r].detail, status |-> "ACTIVE"]]
    /\ Goto(r, "name")
    /\ UNCHANGED <<database, request, loaded, answer>>

\* Seeded fault: the status is set by an UPDATE whatever was loaded.
BlindUpdate(r) ==
    /\ pc[r] = "write" /\ request[r].op # "create"
    /\ WaitsFor(r) = {}
    /\ draft' = [draft EXCEPT ![r] = Updated(r)]
    /\ Goto(r, IF request[r].op = "update" THEN "name" ELSE "commit")
    /\ UNCHANGED <<database, request, loaded, answer>>

\* update_*, activate_*, deactivate_*: the flush sends an UPDATE only if a
\* column differs from the row loaded.  Neither unique column changes with the
\* status, so those entries stay the row's own.
Update(r) ==
    /\ pc[r] = "write" /\ request[r].op # "create"
    /\ WaitsFor(r) = {}
    /\ IF Dirty(r)
       THEN /\ draft' = [draft EXCEPT ![r] = Updated(r)]
            /\ Goto(r, IF request[r].op = "update" THEN "name" ELSE "commit")
       ELSE /\ Goto(r, "commit")
            /\ UNCHANGED draft
    /\ UNCHANGED <<database, request, loaded, answer>>

\* The statement's entry in the index on the name.  An IntegrityError is
\* rolled back and answered as a conflict.
EnterName(r) ==
    /\ pc[r] = "name"
    /\ NameHolders(r) = {}
    /\ IF Taken(r, SameName)
       THEN Finish(r, "conflict")
       ELSE Goto(r, "code") /\ UNCHANGED <<loaded, draft, answer>>
    /\ UNCHANGED <<database, request>>

\* The same for the index on departments.code.
EnterCode(r) ==
    /\ pc[r] = "code"
    /\ CodeHolders(r) = {}
    /\ IF Taken(r, SameCode)
       THEN Finish(r, "conflict")
       ELSE Goto(r, "commit") /\ UNCHANGED <<loaded, draft, answer>>
    /\ UNCHANGED <<database, request>>

\* Seeded fault: changed_fields without the name.
OmitsName(r) ==
    IF request[r].op = "update" /\ request[r].table # "departments" /\ Sent(r) # {}
    THEN {[request |-> r, row |-> Row(r), fields |-> Sent(r) \ {"name"}]}
    ELSE {}

\* The UPDATED audit row of r: the columns sent, none for a department.
ChangeRows(r) ==
    IF request[r].op = "update" /\ request[r].table # "departments" /\ Sent(r) # {}
    THEN {[request |-> r, row |-> Row(r), fields |-> Sent(r)]}
    ELSE {}

\* The audit rows of the operation, and the commit.  A status is audited if the
\* row loaded had the other one.
Commit(r) ==
    /\ pc[r] = "commit"
    /\ rows' = IF draft[r] = None THEN rows ELSE [rows EXCEPT ![Row(r)] = draft[r]]
    /\ audited' = IF \/ request[r].op = "create"
                     \/ request[r].op \in StatusOps /\ Dirty(r)
                  THEN [audited EXCEPT ![Row(r)] = Sets(request[r].op)]
                  ELSE audited
    /\ changes' = changes \cup ChangeRows(r)
    /\ Finish(r, "ok")
    /\ UNCHANGED request

\* PostgreSQL fails a statement that closes a circle of waits.  That is not an
\* IntegrityError: nobody catches it.
DeadlockVictim(r) ==
    /\ Deadlocked(r)
    /\ Finish(r, "error")
    /\ UNCHANGED <<database, request>>

-----------------------------------------------------------------------------
Step(r) ==
    \/ Load(r)      \/ Insert(r)    \/ Update(r)
    \/ EnterName(r) \/ EnterCode(r) \/ Commit(r)
    \/ DeadlockVictim(r)

Next == \E r \in Requests :
    \/ \E p \in Payloads : Receive(r, p)
    \/ Step(r)
    \/ Abort(r)

Spec == Init /\ [][Next]_vars

\* A request that was started keeps running, and a deadlock is detected.
FairSpec == Spec /\ \A r \in Requests : WF_vars(Step(r))

-----------------------------------------------------------------------------
(* Properties. *)

\* No two rows of a table have the same name (for designations: whatever the
\* case), and no two departments the same code, however creations and renamings
\* overlap: the services check nothing themselves.
NamesUnique ==
    \A i, j \in Existing :
        SameName(rows[i], rows[j]) \/ SameCode(rows[i], rows[j]) => i = j

\* The audit row about a row's status that was committed last gives the status it
\* has.  Services decide on the status they loaded, which others change before
\* they commit.
TrailEndsAtStatus ==
    \A i \in Existing : audited[i] = rows[i].status

\* A column changes only in a step that writes the audit row saying so, whatever
\* was committed since the row was loaded.  Departments are the exception:
\* update_department writes none.
ChangesAudited ==
    [][\A i \in Existing : \A f \in {"name", "detail"} :
          rows'[i][f] # rows[i][f] /\ rows[i].table # "departments" =>
              \E c \in changes' \ changes : c.row = i /\ f \in c.fields]_vars

\* Every request is answered, also those that wait for each other because their
\* renamings swap two names.
EveryRequestEnds ==
    \A r \in Requests : pc[r] \in {"load", "write"} ~> pc[r] = "done"

=============================================================================
