------------------------- MODULE LetterMaintenance --------------------------
(***************************************************************************)
(* The life of one registered letter: PATCH /letters/{id} (update_letter)   *)
(* and DELETE /letters/{id} (archive_letter), by concurrent requests.        *)
(*                                                                         *)
(* Each request loads the row, decides on what it loaded, and sends an       *)
(* UPDATE of the columns it changed; the row has no version.  The audit      *)
(* rows name the old value the request loaded, and their created_at is       *)
(* now(), the time its transaction began.  Letters do not share columns, so  *)
(* one letter stands for all of them.                                        *)
(***************************************************************************)
EXTENDS Naturals

CONSTANTS
    Requests,
    Categories, Classifications, Designations,  \* reference rows
    Texts,          \* what clients type as a sender's designation
    NameOf,         \* [Designations -> Texts]: designations.name
    Created,        \* the row as create_letter left it
    Payloads,       \* what requests set, None for what they leave alone
    None            \* SQL NULL, and "unchanged" in a payload

References == Categories \cup Classifications \cup Designations
Statuses == {"ACTIVE", "ARCHIVED"}

Fields == {"category", "classification", "designation", "sender_designation", "status"}

Values ==
    [Fields -> References \cup Texts \cup Statuses \cup {None}]

\* What a request may ask for: a reference is looked up in the table of its field.
Patches ==
    {v \in Values :
        /\ v["category"] \in Categories \cup {None}
        /\ v["classification"] \in Classifications \cup {None}
        /\ v["designation"] \in Designations \cup {None}
        /\ v["sender_designation"] \in Texts \cup {None}
        /\ v["status"] \in Statuses \cup {None}}

\* Rows of letters; of these fields sender_designation and status are NOT NULL.
Rows == {v \in Patches : v["sender_designation"] # None /\ v["status"] # None}

\* archive_letter sets the status and nothing else, update_letter anything else.
Archiving == [f \in Fields |-> IF f = "status" THEN "ARCHIVED" ELSE None]

ASSUME MaintenanceAssumption ==
    /\ None \notin References \cup Texts \cup Statuses
    /\ NameOf \in [Designations -> Texts]
    /\ Created \in Rows /\ Created["status"] = "ACTIVE"
    /\ Payloads \subseteq Patches
    /\ \A p \in Payloads : p["status"] # None => p = Archiving

VARIABLES
    letter,     \* the committed row
    active,     \* reference rows whose status is ACTIVE
    trail,      \* audit rows of the letter
    pc,         \* [Requests -> stage]
    request,    \* the payload received
    loaded,     \* the row as the request's session read it
    clock,      \* time: transactions begin and commit one after the other
    began,      \* [Requests -> Nat]: now() of the request's transaction
    committed   \* history: when it committed, 0 if it did not

session == <<pc, request, loaded>>
times == <<clock, began, committed>>
vars == <<letter, active, trail, session, times>>

\* Fields whose changes have an audit event with the old and the new value.
Audited == {"designation", "classification", "category", "status"}

\* LETTER_UPDATED names fields only; the other events are named by their field.
TrailRows ==
    [request : Requests, field : Audited \cup {"any"},
     old : References \cup Statuses \cup {None}, new : References \cup Statuses \cup {None},
     createdAt : Nat]

TypeOK ==
    /\ letter \in Rows
    /\ active \subseteq References
    /\ trail \subseteq TrailRows
    /\ pc \in [Requests -> {"idle", "load", "write", "done"}]
    /\ request \in [Requests -> Payloads \cup {None}]
    /\ loaded \in [Requests -> Rows \cup {None}]
    /\ clock \in Nat /\ began \in [Requests -> Nat] /\ committed \in [Requests -> Nat]

Init ==
    /\ letter = Created
    /\ active = References
    /\ trail = {}
    /\ pc = [r \in Requests |-> "idle"]
    /\ request = [r \in Requests |-> None]
    /\ loaded = [r \in Requests |-> None]
    /\ clock = 0
    /\ began = [r \in Requests |-> 0]
    /\ committed = [r \in Requests |-> 0]

-----------------------------------------------------------------------------
(* What a request does to the row it loaded. *)

Goto(r, s) == pc' = [pc EXCEPT ![r] = s]

\* A category or classification that is named has to be ACTIVE, a designation
\* only when it is another one than the letter has.
Valid(p, row) ==
    /\ p["category"] # None => p["category"] \in active
    /\ p["classification"] # None => p["classification"] \in active
    /\ p["designation"] \notin {None, row["designation"]} => p["designation"] \in active

\* The values to set: a newly assigned designation overrides the text sent.
Assigned(r) ==
    LET p == request[r]
        d == p["designation"]
    IN  IF d \in {None, loaded[r]["designation"]} THEN p
        ELSE [p EXCEPT !["sender_designation"] = NameOf[d]]

\* The columns the UPDATE names: given, and other than the value loaded.
ChangedBy(r) ==
    {f \in Fields : Assigned(r)[f] \notin {None, loaded[r][f]}}

\* Seeded fault: the ORM writes every column of the row it loaded.
WholeRow(r) ==
    [f \in Fields |-> IF Assigned(r)[f] = None THEN loaded[r][f] ELSE Assigned(r)[f]]

\* Seeded fault: "unchanged" is written as NULL.
NullRow(r) == Assigned(r)

\* The row after the UPDATE: untouched columns keep what others committed.
UpdatedRow(r) ==
    [f \in Fields |-> IF f \in ChangedBy(r) THEN Assigned(r)[f] ELSE letter[f]]

\* A row of r's: created_at has the server default now().
TrailRow(r, field, old, new) ==
    [request |-> r, field |-> field, old |-> old, new |-> new, createdAt |-> began[r]]

\* Seeded fault: the old value is read after the row object was changed.
OldReadLate(r, f) == TrailRow(r, f, Assigned(r)[f], Assigned(r)[f])

\* The audit row of a changed field.
FieldRow(r, f) == TrailRow(r, f, loaded[r][f], Assigned(r)[f])

\* update_letter's LETTER_UPDATED, when the request gave any field at all.
UpdateRows(r) ==
    IF request[r] = Archiving \/ \A f \in Fields : request[r][f] = None
    THEN {}
    ELSE {TrailRow(r, "any", None, None)}

\* The events of their own that audited fields have.
ChangeRows(r) == {FieldRow(r, f) : f \in ChangedBy(r) \cap Audited}

-----------------------------------------------------------------------------
\* The request arrives, and get_current_user's SELECT begins its transaction.
Receive(r, p) ==
    /\ pc[r] = "idle"
    /\ request' = [request EXCEPT ![r] = p]
    /\ clock' = clock + 1
    /\ began' = [began EXCEPT ![r] = clock']
    /\ Goto(r, "load")
    /\ UNCHANGED <<letter, active, trail, loaded, committed>>

\* _get_for_access, which may refuse, and the checks of the reference data.
Load(r) ==
    /\ pc[r] = "load"
    /\ \/ /\ Valid(request[r], letter)
          /\ loaded' = [loaded EXCEPT ![r] = letter]
          /\ Goto(r, "write")
       \/ Goto(r, "done") /\ UNCHANGED loaded
    /\ UNCHANGED <<letter, active, trail, request, times>>

\* The flush, which waits for other updates of the row to commit, the audit
\* rows, and the commit.
Write(r) ==
    /\ pc[r] = "write"
    /\ letter' = UpdatedRow(r)
    /\ trail' = trail \cup UpdateRows(r) \cup ChangeRows(r)
    /\ clock' = clock + 1
    /\ committed' = [committed EXCEPT ![r] = clock']
    /\ Goto(r, "done")
    /\ UNCHANGED <<active, request, loaded, began>>

Abort(r) ==
    /\ pc[r] \in {"load", "write"}
    /\ Goto(r, "done")
    /\ UNCHANGED <<letter, active, trail, request, loaded, times>>

\* A system administrator activates or deactivates reference data.
SetReferenceStatus(x) ==
    /\ active' = IF x \in active THEN active \ {x} ELSE active \cup {x}
    /\ UNCHANGED <<letter, trail, session, times>>

Next ==
    \/ \E r \in Requests :
          \/ \E p \in Payloads : Receive(r, p)
          \/ Load(r)
          \/ Write(r)
          \/ Abort(r)
    \/ \E x \in References : SetReferenceStatus(x)

Spec == Init /\ [][Next]_vars

-----------------------------------------------------------------------------
(* Properties. *)

\* The audit rows of the changes of field f, and when they were committed, which
\* no column says.
RowsOf(f) == {x \in trail : x.field = f}
CommittedAt(x) == committed[x.request]

\* The value of a field is the one its newest audit row gives, where "newest" is
\* what created_at can tell: no row of a transaction that began after that row
\* was committed says otherwise.  So an update of one column never takes
\* another's committed change back (the ORM's partial UPDATE, and audit in the
\* same transaction), and only updates that overlapped may be out of order.
TrailExplainsRow ==
    \A f \in Audited :
        \/ RowsOf(f) = {} /\ letter[f] = Created[f]
        \/ \E x \in RowsOf(f) :
              /\ letter[f] = x.new
              /\ \A y \in RowsOf(f) : y.createdAt < CommittedAt(x)

\* The old value of an audit row was the field's value at some time while its
\* transaction ran: the one the letter was created with, or one committed before
\* this row was, and not replaced before the transaction began (update_letter
\* captures old values before it changes the row).
OldValuesReal ==
    \A f \in Audited : \A x \in RowsOf(f) :
        LET seen == {y \in RowsOf(f) : CommittedAt(y) < x.createdAt}
        IN  \/ x.old = Created[f] /\ seen = {}
            \/ \E y \in RowsOf(f) :
                  /\ x.old = y.new /\ CommittedAt(y) < CommittedAt(x)
                  /\ \A z \in seen : CommittedAt(z) <= CommittedAt(y)

\* An archived letter stays archived, also when an update that read it before
\* is written after (archive_letter; no code path sets the status back).
ArchivedForever ==
    [][letter["status"] = "ARCHIVED" => letter'["status"] = "ARCHIVED"]_vars

=============================================================================
