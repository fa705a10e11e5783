------------------------- MODULE ReferenceDataProofs -------------------------
(***************************************************************************)
(* Safety of ReferenceData for every set of requests, rows and payloads,    *)
(* and every equivalence of names that lower() may be.                      *)
(***************************************************************************)
EXTENDS ReferenceData, TLAPS

-----------------------------------------------------------------------------
(* The inductive invariant. *)

\* Where a request is says what it has received, loaded and written.
Sessions ==
    \A r \in Requests :
        /\ request[r] = None => pc[r] = "idle"
        /\ pc[r] = "idle" => request[r] = None
        /\ rows[r] # None => pc[r] = "done"
        /\ pc[r] \in {"idle", "load", "write", "done"} => draft[r] = None
        /\ pc[r] = "load" => request[r].op # "create"
        /\ pc[r] \in {"name", "code"} => draft[r] # None
        /\ draft[r] # None => pc[r] \in {"name", "code", "commit"}
        /\ pc[r] = "commit" /\ request[r].op = "create" => draft[r] # None
        /\ pc[r] \in {"write", "name", "code", "commit"} /\ request[r].op # "create" =>
              /\ loaded[r] # None
              /\ rows[Row(r)] # None
              /\ rows[Row(r)].table = request[r].table

\* What a request has written is the row as it stands, but for what it changes:
\* nobody else writes the row meanwhile.
Drafts ==
    \A r \in Requests : draft[r] # None =>
        /\ draft[r].table = request[r].table
        /\ request[r].op = "create" => draft[r].status = "ACTIVE"
        /\ request[r].op = "update" =>
              /\ draft[r].status = rows[Row(r)].status
              /\ request[r].name = None => draft[r].name = rows[Row(r)].name
              /\ request[r].detail = None => draft[r].detail = rows[Row(r)].detail
        /\ request[r].op \in StatusOps =>
              /\ pc[r] = "commit"
              /\ draft[r].name = rows[Row(r)].name
              /\ draft[r].detail = rows[Row(r)].detail
              /\ draft[r].status = Sets(request[r].op)

\* A status is written if and only if it will be audited.
StatusWritten ==
    \A r \in Requests : pc[r] = "commit" /\ request[r].op \in StatusOps =>
        (draft[r] # None <=> loaded[r].status # Sets(request[r].op))

\* A row has one writer at a time.
Locks ==
    \A q, r \in Requests :
        draft[q] # None /\ draft[r] # None /\ Row(q) = Row(r) => q = r

\* Past the index on the name, a draft's name is neither another row's nor
\* another such draft's; the same past the index on the code.
NameEntries ==
    \A r \in Requests : draft[r] # None /\ pc[r] \in {"code", "commit"} =>
        /\ \A i \in Ids \ {Row(r)} : rows[i] # None => ~SameName(rows[i], draft[r])
        /\ \A q \in Requests \ {r} : draft[q] # None /\ pc[q] \in {"code", "commit"} =>
              ~SameName(draft[q], draft[r])

CodeEntries ==
    \A r \in Requests : draft[r] # None /\ pc[r] = "commit" =>
        /\ \A i \in Ids \ {Row(r)} : rows[i] # None => ~SameCode(rows[i], draft[r])
        /\ \A q \in Requests \ {r} : draft[q] # None /\ pc[q] = "commit" =>
              ~SameCode(draft[q], draft[r])

\* An UPDATED audit row is the last thing of its request.
ChangesDone == \A c \in changes : pc[c.request] = "done"

IInv ==
    /\ TypeOK
    /\ Sessions
    /\ Drafts
    /\ StatusWritten
    /\ Locks
    /\ NameEntries
    /\ CodeEntries
    /\ ChangesDone
    /\ NamesUnique
    /\ TrailEndsAtStatus

USE DEF Goto, Finish, database, vars

-----------------------------------------------------------------------------
(* Lemmas about the operators. *)

\* What each kind of payload carries.
LEMMA PayloadShape ==
    ASSUME NEW p \in Payloads
    PROVE  /\ p # None
           /\ p.table \in Tables
           /\ p.op \in {"create", "update"} \cup StatusOps
           /\ p.op = "create" => p.name \in Names /\ p.detail \in Details \cup {None}
           /\ p.op = "update" =>
                 /\ p.name \in Names \cup {None}
                 /\ p.detail \in Details \cup {None}
           /\ p.op # "create" => p.target \in Ids
  <1> p \in Payload /\ p # None
    BY ReferenceDataAssumption
  <1>1. \A f \in Fields : /\ f.table \in Tables
                          /\ f.name \in Names \cup {None}
                          /\ f.detail \in Details \cup {None}
    BY DEF Fields, DetailsOf
  <1>2. CASE p \in Creation
    BY <1>1, <1>2 DEF Creation
  <1>3. CASE p \in Change
    BY <1>1, <1>3 DEF Change
  <1>4. CASE p \in [op : StatusOps, table : Tables, target : Ids]
    BY <1>4 DEF StatusOps
  <1> QED
    BY <1>2, <1>3, <1>4 DEF Payload

\* A request that was received is of a known kind and about a row.
LEMMA RequestShape ==
    ASSUME TypeOK, NEW r \in Requests, request[r] # None
    PROVE  /\ request[r] \in Payloads
           /\ request[r].table \in Tables
           /\ request[r].op \in {"create", "update"} \cup StatusOps
           /\ Row(r) \in Ids
           /\ request[r].op = "create" =>
                 request[r].name \in Names /\ request[r].detail \in Details \cup {None}
           /\ request[r].op = "update" =>
                 /\ request[r].name \in Names \cup {None}
                 /\ request[r].detail \in Details \cup {None}
  <1> request[r] \in Payloads
    BY DEF TypeOK
  <1> QED
    BY PayloadShape DEF Row, Ids

\* Sharing an entry of an index is symmetric.
LEMMA SameSymmetric ==
    ASSUME NEW v, NEW w
    PROVE  /\ SameName(v, w) => SameName(w, v)
           /\ SameCode(v, w) => SameCode(w, v)
  BY DEF SameName, SameCode

\* What the row was, r's UPDATE keeps but for the columns it changes.
LEMMA UpdatedRow ==
    ASSUME TypeOK, NEW r \in Requests, request[r] # None, request[r].op # "create",
           rows[Row(r)] # None
    PROVE  /\ Updated(r) \in RefRows
           /\ Updated(r).table = rows[Row(r)].table
           /\ request[r].op = "update" =>
                 /\ Updated(r).status = rows[Row(r)].status
                 /\ request[r].name = None => Updated(r).name = rows[Row(r)].name
                 /\ request[r].detail = None => Updated(r).detail = rows[Row(r)].detail
           /\ request[r].op \in StatusOps =>
                 /\ Updated(r).name = rows[Row(r)].name
                 /\ Updated(r).detail = rows[Row(r)].detail
                 /\ Updated(r).status = Sets(request[r].op)
  <1>1. Row(r) \in Ids /\ rows[Row(r)] \in RefRows
    BY RequestShape DEF TypeOK
  <1>2. CASE request[r].op = "update"
    <2> DEFINE value(f) == IF f \in Changed(r) THEN request[r][f] ELSE rows[Row(r)][f]
    <2>1. /\ value("name") \in Names
          /\ request[r].name = None => value("name") = rows[Row(r)].name
      BY <1>1, <1>2, RequestShape DEF Changed, Sent, RefRows
    <2>2. /\ value("detail") \in Details \cup {None}
          /\ request[r].detail = None => value("detail") = rows[Row(r)].detail
      BY <1>1, <1>2, RequestShape DEF Changed, Sent, RefRows
    <2>3. Updated(r) = [table |-> rows[Row(r)].table, name |-> value("name"),
                        detail |-> value("detail"), status |-> rows[Row(r)].status]
      BY <1>2 DEF Updated
    <2> HIDE DEF value
    <2> QED
      BY <1>1, <1>2, <2>1, <2>2, <2>3 DEF RefRows, StatusOps
  <1>3. CASE request[r].op \in StatusOps
    BY <1>1, <1>3 DEF Updated, RefRows, StatusOps, Sets
  <1> QED
    BY <1>2, <1>3, RequestShape

\* An UPDATE that does not wait finds no other writer of its row.
LEMMA RowFree ==
    ASSUME NEW r \in Requests, pc[r] = "write", request[r].op # "create", Dirty(r),
           WaitsFor(r) = {}
    PROVE  \A q \in Requests \ {r} : draft[q] # None => Row(q) # Row(r)
  BY DEF WaitsFor, Writers

\* An entry in an index that does not wait is no other such draft's.
LEMMA NameFree ==
    ASSUME NEW r \in Requests, NameHolders(r) = {}
    PROVE  \A q \in Requests \ {r} :
              draft[q] # None /\ pc[q] \in {"code", "commit"} => ~SameName(draft[q], draft[r])
  BY DEF NameHolders, HoldersOf, Writers

LEMMA CodeFree ==
    ASSUME NEW r \in Requests, CodeHolders(r) = {}
    PROVE  \A q \in Requests \ {r} :
              draft[q] # None /\ pc[q] = "commit" => ~SameCode(draft[q], draft[r])
  BY DEF CodeHolders, HoldersOf, Writers

-----------------------------------------------------------------------------
(* Types. *)

\* The seeds satisfy the invariant.
LEMMA InitIInv == Init => IInv
  <1> SUFFICES ASSUME Init PROVE IInv
    OBVIOUS
  <1> USE ReferenceDataAssumption DEF Init
  <1>1. TypeOK
    BY DEF TypeOK, Ids, Stages, RefRows
  <1>2. NamesUnique
    BY DEF NamesUnique, Existing, Ids
  <1>3. Sessions
    BY DEF Sessions, Ids
  <1>4. Drafts /\ StatusWritten /\ Locks /\ NameEntries /\ CodeEntries /\ ChangesDone
    BY DEF Drafts, StatusWritten, Locks, NameEntries, CodeEntries, ChangesDone
  <1>5. TrailEndsAtStatus
    BY DEF TrailEndsAtStatus, Existing, Ids
  <1> QED
    BY <1>1, <1>2, <1>3, <1>4, <1>5 DEF IInv

\* Every action is typed.
LEMMA TypeStep == TypeOK /\ Sessions /\ [Next]_vars => TypeOK'
  <1> SUFFICES ASSUME TypeOK, Sessions, [Next]_vars PROVE TypeOK'
    OBVIOUS
  <1> USE DEF Stages
  <1>1. ASSUME NEW r \in Requests, NEW p \in Payloads, Receive(r, p) PROVE TypeOK'
    BY <1>1 DEF Receive, TypeOK
  <1>2. ASSUME NEW r \in Requests, Abort(r) \/ DeadlockVictim(r) PROVE TypeOK'
    BY <1>2 DEF Abort, DeadlockVictim, TypeOK
  <1>3. ASSUME NEW r \in Requests, Load(r) PROVE TypeOK'
    <2>1. request[r] # None
      BY <1>3 DEF Load, Sessions
    <2>2. Row(r) \in Ids
      BY <2>1, RequestShape
    <2> QED
      BY <1>3, <2>2 DEF Load, TypeOK
  <1>4. ASSUME NEW r \in Requests, Insert(r) PROVE TypeOK'
    <2>1. request[r] # None
      BY <1>4 DEF Insert, Sessions
    <2>2. [table |-> request[r].table, name |-> request[r].name,
           detail |-> request[r].detail, status |-> "ACTIVE"] \in RefRows
      BY <1>4, <2>1, RequestShape DEF Insert, RefRows
    <2> QED
      BY <1>4, <2>2 DEF Insert, TypeOK
  <1>5. ASSUME NEW r \in Requests, Update(r) PROVE TypeOK'
    <2>1. request[r] # None /\ request[r].op # "create" /\ rows[Row(r)] # None
      BY <1>5 DEF Update, Sessions
    <2>2. Updated(r) \in RefRows
      BY <2>1, UpdatedRow
    <2> QED
      BY <1>5, <2>2 DEF Update, TypeOK
  <1>6. ASSUME NEW r \in Requests, EnterName(r) \/ EnterCode(r) PROVE TypeOK'
    BY <1>6 DEF EnterName, EnterCode, TypeOK
  <1>7. ASSUME NEW r \in Requests, Commit(r) PROVE TypeOK'
    <2>1. request[r] # None
      BY <1>7 DEF Commit, Sessions
    <2>2. Row(r) \in Ids
      BY <2>1, RequestShape
    <2>3. changes' \subseteq [request : Requests, row : Ids, fields : SUBSET {"name", "detail"}]
      BY <1>7, <2>2 DEF Commit, ChangeRows, Sent, TypeOK
    <2>4. rows' \in [Ids -> RefRows \cup {None}] /\ audited' \in [Ids -> {"ACTIVE", "INACTIVE", None}]
      BY <1>7, <2>2 DEF Commit, Sets, TypeOK
    <2> QED
      BY <1>7, <2>3, <2>4 DEF Commit, TypeOK
  <1>8. CASE UNCHANGED vars
    BY <1>8 DEF TypeOK
  <1> QED
    BY <1>1, <1>2, <1>3, <1>4, <1>5, <1>6, <1>7, <1>8 DEF Next, Step

-----------------------------------------------------------------------------
(* Each part is kept by every step. *)

\* Every request goes through its stages in order, and the row it has loaded
\* stays in its table.
LEMMA SessionsStep == IInv /\ [Next]_vars => Sessions'
  <1> SUFFICES ASSUME IInv, [Next]_vars PROVE Sessions'
    OBVIOUS
  <1> USE ReferenceDataAssumption DEF IInv, TypeOK, Sessions, Row
  <1>1. ASSUME NEW r \in Requests, NEW p \in Payloads, Receive(r, p) PROVE Sessions'
    BY <1>1, PayloadShape DEF Receive
  <1>2. ASSUME NEW r \in Requests, Abort(r) PROVE Sessions'
    BY <1>2 DEF Abort
  <1>3. ASSUME NEW r \in Requests, DeadlockVictim(r) PROVE Sessions'
    <2>1. pc[r] \in {"write", "name", "code"}
      BY <1>3 DEF DeadlockVictim, Deadlocked, WaitsFor
    <2> QED
      BY <1>3, <2>1 DEF DeadlockVictim
  <1>4. ASSUME NEW r \in Requests, Load(r) PROVE Sessions'
    BY <1>4 DEF Load, Existing
  <1>5. ASSUME NEW r \in Requests, Insert(r) PROVE Sessions'
    <2>1. draft'[r] # None
      BY <1>5, RequestShape DEF Insert, RefRows
    <2> QED
      BY <1>5, <2>1 DEF Insert
  <1>6. ASSUME NEW r \in Requests, Update(r) PROVE Sessions'
    <2>1. Updated(r) # None
      BY <1>6, UpdatedRow DEF Update
    <2> QED
      BY <1>6, <2>1 DEF Update
  <1>7. ASSUME NEW r \in Requests, EnterName(r) \/ EnterCode(r) PROVE Sessions'
    BY <1>7 DEF EnterName, EnterCode
  <1>8. ASSUME NEW r \in Requests, Commit(r) PROVE Sessions'
    BY <1>8 DEF Commit, Drafts
  <1>9. CASE UNCHANGED vars
    BY <1>9
  <1> QED
    BY <1>1, <1>2, <1>3, <1>4, <1>5, <1>6, <1>7, <1>8, <1>9 DEF Next, Step


\* Nobody changes a row under its writer, and none but Commit changes a row.
LEMMA DraftsStep == IInv /\ [Next]_vars => Drafts'
  <1> SUFFICES ASSUME IInv, [Next]_vars PROVE Drafts'
    OBVIOUS
  <1> USE ReferenceDataAssumption DEF IInv, TypeOK, Sessions, Drafts, Row
  <1>1. ASSUME NEW r \in Requests, NEW p \in Payloads, Receive(r, p) PROVE Drafts'
    BY <1>1 DEF Receive
  <1>2. ASSUME NEW r \in Requests, Abort(r) \/ DeadlockVictim(r) PROVE Drafts'
    BY <1>2 DEF Abort, DeadlockVictim
  <1>3. ASSUME NEW r \in Requests, Load(r) PROVE Drafts'
    BY <1>3 DEF Load
  <1>4. ASSUME NEW r \in Requests, Insert(r) PROVE Drafts'
    BY <1>4 DEF Insert, StatusOps
  <1>5. ASSUME NEW r \in Requests, Update(r) PROVE Drafts'
    BY <1>5, UpdatedRow DEF Update, StatusOps
  <1>6. ASSUME NEW r \in Requests, EnterName(r) \/ EnterCode(r) PROVE Drafts'
    BY <1>6 DEF EnterName, EnterCode
  <1>7. ASSUME NEW r \in Requests, Commit(r) PROVE Drafts'
    <2>1. ASSUME NEW q \in Requests, draft'[q] # None
          PROVE  draft[q] # None /\ pc'[q] = pc[q] /\ request' = request /\ draft'[q] = draft[q]
      BY <1>7, <2>1 DEF Commit
    <2>2. ASSUME NEW q \in Requests, draft'[q] # None, request[q].op # "create"
          PROVE  rows'[Row(q)] = rows[Row(q)]
      BY <1>7, <2>2 DEF Commit, Locks
    <2> QED
      BY <2>1, <2>2 DEF StatusOps
  <1>8. CASE UNCHANGED vars
    BY <1>8
  <1> QED
    BY <1>1, <1>2, <1>3, <1>4, <1>5, <1>6, <1>7, <1>8 DEF Next, Step

\* The UPDATE of a status and its audit row are decided on the same version.
LEMMA StatusWrittenStep == IInv /\ [Next]_vars => StatusWritten'
  <1> SUFFICES ASSUME IInv, [Next]_vars PROVE StatusWritten'
    OBVIOUS
  <1> USE DEF IInv, TypeOK, Sessions, StatusWritten
  <1>1. ASSUME NEW r \in Requests, NEW p \in Payloads, Receive(r, p) PROVE StatusWritten'
    BY <1>1 DEF Receive
  <1>2. ASSUME NEW r \in Requests, Abort(r) \/ DeadlockVictim(r) \/ Load(r) PROVE StatusWritten'
    BY <1>2 DEF Abort, DeadlockVictim, Load
  <1>3. ASSUME NEW r \in Requests, Insert(r) PROVE StatusWritten'
    BY <1>3 DEF Insert
  <1>4. ASSUME NEW r \in Requests, Update(r) PROVE StatusWritten'
    <2>1. Updated(r) # None
      BY <1>4, UpdatedRow, ReferenceDataAssumption DEF Update
    <2> QED
      BY <1>4, <2>1 DEF Update, Dirty, StatusOps
  <1>5. ASSUME NEW r \in Requests, EnterName(r) \/ EnterCode(r) PROVE StatusWritten'
    <2>1. request[r].op \notin StatusOps
      BY <1>5 DEF EnterName, EnterCode, Drafts
    <2> QED
      BY <1>5, <2>1 DEF EnterName, EnterCode
  <1>6. ASSUME NEW r \in Requests, Commit(r) PROVE StatusWritten'
    BY <1>6 DEF Commit
  <1>7. CASE UNCHANGED vars
    BY <1>7
  <1> QED
    BY <1>1, <1>2, <1>3, <1>4, <1>5, <1>6, <1>7 DEF Next, Step

\* An UPDATE waits for the row, and an INSERT makes one of its own.
LEMMA LocksStep == IInv /\ [Next]_vars => Locks'
  <1> SUFFICES ASSUME IInv, [Next]_vars PROVE Locks'
    OBVIOUS
  <1> USE DEF IInv, TypeOK, Sessions, Locks, Row
  <1>1. ASSUME NEW r \in Requests, NEW p \in Payloads, Receive(r, p) PROVE Locks'
    BY <1>1 DEF Receive
  <1>2. ASSUME NEW r \in Requests, Abort(r) \/ DeadlockVictim(r) \/ Load(r) PROVE Locks'
    BY <1>2 DEF Abort, DeadlockVictim, Load
  <1>3. ASSUME NEW r \in Requests, Insert(r) PROVE Locks'
    BY <1>3 DEF Insert
  <1>4. ASSUME NEW r \in Requests, Update(r) PROVE Locks'
    <2>1. CASE Dirty(r)
      <3>1. \A q \in Requests \ {r} : draft[q] # None => Row(q) # Row(r)
        BY <1>4, <2>1, RowFree DEF Update
      <3> QED
        BY <1>4, <3>1 DEF Update
    <2>2. CASE ~Dirty(r)
      BY <1>4, <2>2 DEF Update
    <2> QED
      BY <2>1, <2>2
  <1>5. ASSUME NEW r \in Requests, EnterName(r) \/ EnterCode(r) \/ Commit(r) PROVE Locks'
    BY <1>5 DEF EnterName, EnterCode, Commit
  <1>6. CASE UNCHANGED vars
    BY <1>6
  <1> QED
    BY <1>1, <1>2, <1>3, <1>4, <1>5, <1>6 DEF Next, Step

\* A status keeps the name and the code its row has, which are nobody else's.
LEMMA StatusKeepsEntries ==
    ASSUME IInv, NEW r \in Requests, Update(r), Dirty(r), request[r].op \in StatusOps,
           NEW i \in Ids, rows[i] # None, i # Row(r)
    PROVE  ~SameName(rows[i], Updated(r)) /\ ~SameCode(rows[i], Updated(r))
  <1>1. Row(r) \in Ids /\ rows[Row(r)] # None
    BY RequestShape, ReferenceDataAssumption DEF IInv, Sessions, Update
  <1>2. /\ Updated(r).table = rows[Row(r)].table
        /\ Updated(r).name = rows[Row(r)].name
        /\ Updated(r).detail = rows[Row(r)].detail
    BY <1>1, UpdatedRow, ReferenceDataAssumption DEF IInv, Sessions, Update
  <1>3. ~SameName(rows[i], rows[Row(r)]) /\ ~SameCode(rows[i], rows[Row(r)])
    BY <1>1 DEF IInv, NamesUnique, Existing
  <1> QED
    BY <1>2, <1>3 DEF SameName, SameCode

\* A name passes its index when it is free, and only a commit puts it in a row.
LEMMA NameEntriesStep == IInv /\ [Next]_vars => NameEntries'
  <1> SUFFICES ASSUME IInv, [Next]_vars PROVE NameEntries'
    OBVIOUS
  <1> USE SameSymmetric DEF IInv, TypeOK, Sessions, NameEntries, Row
  <1>1. ASSUME NEW r \in Requests, NEW p \in Payloads, Receive(r, p) PROVE NameEntries'
    BY <1>1 DEF Receive
  <1>2. ASSUME NEW r \in Requests, Abort(r) \/ DeadlockVictim(r) \/ Load(r) PROVE NameEntries'
    BY <1>2 DEF Abort, DeadlockVictim, Load
  <1>3. ASSUME NEW r \in Requests, Insert(r) PROVE NameEntries'
    BY <1>3 DEF Insert
  <1>4. ASSUME NEW r \in Requests, Update(r) PROVE NameEntries'
    <2>1. CASE ~Dirty(r)
      BY <1>4, <2>1 DEF Update
    <2>2. CASE Dirty(r) /\ request[r].op = "update"
      BY <1>4, <2>2 DEF Update
    <2>3. CASE Dirty(r) /\ request[r].op \in StatusOps
      <3>1. \A i \in Ids \ {Row(r)} : rows[i] # None => ~SameName(rows[i], Updated(r))
        BY <1>4, <2>3, StatusKeepsEntries
      <3>2. /\ Row(r) \in Ids /\ rows[Row(r)] # None
            /\ Updated(r).table = rows[Row(r)].table
            /\ Updated(r).name = rows[Row(r)].name
        BY <1>4, <2>3, RequestShape, UpdatedRow, ReferenceDataAssumption DEF Update, StatusOps
      <3>3. \A q \in Requests \ {r} : draft[q] # None => Row(q) # Row(r)
        BY <1>4, <2>3, RowFree DEF Update
      <3>4. ASSUME NEW q \in Requests \ {r}, draft[q] # None, pc[q] \in {"code", "commit"}
            PROVE  ~SameName(draft[q], Updated(r))
        <4>1. ~SameName(rows[Row(r)], draft[q])
          BY <3>2, <3>3, <3>4
        <4> QED
          BY <3>2, <4>1 DEF SameName
      <3>5. draft' = [draft EXCEPT ![r] = Updated(r)] /\ UNCHANGED <<rows, request>>
            /\ pc' = [pc EXCEPT ![r] = "commit"]
        BY <1>4, <2>3 DEF Update, StatusOps
      <3> QED
        BY <3>1, <3>4, <3>5
    <2> QED
      BY <1>4, <2>1, <2>2, <2>3, RequestShape DEF Update
  <1>5. ASSUME NEW r \in Requests, EnterName(r) PROVE NameEntries'
    <2>1. CASE Taken(r, SameName)
      BY <1>5, <2>1 DEF EnterName
    <2>2. CASE ~Taken(r, SameName)
      <3>1. \A i \in Ids \ {Row(r)} : rows[i] # None => ~SameName(rows[i], draft[r])
        BY <2>2 DEF Taken, Existing
      <3>2. \A q \in Requests \ {r} :
               draft[q] # None /\ pc[q] \in {"code", "commit"} => ~SameName(draft[q], draft[r])
        BY <1>5, NameFree DEF EnterName
      <3> QED
        BY <1>5, <2>2, <3>1, <3>2 DEF EnterName
    <2> QED
      BY <2>1, <2>2
  <1>6. ASSUME NEW r \in Requests, EnterCode(r) PROVE NameEntries'
    BY <1>6 DEF EnterCode
  <1>7. ASSUME NEW r \in Requests, Commit(r) PROVE NameEntries'
    <2>1. CASE draft[r] = None
      BY <1>7, <2>1 DEF Commit
    <2>2. CASE draft[r] # None
      BY <1>7, <2>2 DEF Commit
    <2> QED
      BY <2>1, <2>2
  <1>8. CASE UNCHANGED vars
    BY <1>8
  <1> QED
    BY <1>1, <1>2, <1>3, <1>4, <1>5, <1>6, <1>7, <1>8 DEF Next, Step

\* The same of the index on the code.
LEMMA CodeEntriesStep == IInv /\ [Next]_vars => CodeEntries'
  <1> SUFFICES ASSUME IInv, [Next]_vars PROVE CodeEntries'
    OBVIOUS
  <1> USE SameSymmetric DEF IInv, TypeOK, Sessions, CodeEntries, Row
  <1>1. ASSUME NEW r \in Requests, NEW p \in Payloads, Receive(r, p) PROVE CodeEntries'
    BY <1>1 DEF Receive
  <1>2. ASSUME NEW r \in Requests, Abort(r) \/ DeadlockVictim(r) \/ Load(r) PROVE CodeEntries'
    BY <1>2 DEF Abort, DeadlockVictim, Load
  <1>3. ASSUME NEW r \in Requests, Insert(r) PROVE CodeEntries'
    BY <1>3 DEF Insert
  <1>4. ASSUME NEW r \in Requests, Update(r) PROVE CodeEntries'
    <2>1. CASE ~Dirty(r)
      BY <1>4, <2>1 DEF Update
    <2>2. CASE Dirty(r) /\ request[r].op = "update"
      BY <1>4, <2>2 DEF Update
    <2>3. CASE Dirty(r) /\ request[r].op \in StatusOps
      <3>1. \A i \in Ids \ {Row(r)} : rows[i] # None => ~SameCode(rows[i], Updated(r))
        BY <1>4, <2>3, StatusKeepsEntries
      <3>2. /\ Row(r) \in Ids /\ rows[Row(r)] # None
            /\ Updated(r).table = rows[Row(r)].table
            /\ Updated(r).detail = rows[Row(r)].detail
        BY <1>4, <2>3, RequestShape, UpdatedRow, ReferenceDataAssumption DEF Update, StatusOps
      <3>3. \A q \in Requests \ {r} : draft[q] # None => Row(q) # Row(r)
        BY <1>4, <2>3, RowFree DEF Update
      <3>4. ASSUME NEW q \in Requests \ {r}, draft[q] # None, pc[q] = "commit"
            PROVE  ~SameCode(draft[q], Updated(r))
        <4>1. ~SameCode(rows[Row(r)], draft[q])
          BY <3>2, <3>3, <3>4
        <4> QED
          BY <3>2, <4>1 DEF SameCode
      <3>5. draft' = [draft EXCEPT ![r] = Updated(r)] /\ UNCHANGED <<rows, request>>
            /\ pc' = [pc EXCEPT ![r] = "commit"]
        BY <1>4, <2>3 DEF Update, StatusOps
      <3> QED
        BY <3>1, <3>4, <3>5
    <2> QED
      BY <1>4, <2>1, <2>2, <2>3, RequestShape DEF Update
  <1>5. ASSUME NEW r \in Requests, EnterName(r) PROVE CodeEntries'
    BY <1>5 DEF EnterName
  <1>6. ASSUME NEW r \in Requests, EnterCode(r) PROVE CodeEntries'
    <2>1. CASE Taken(r, SameCode)
      BY <1>6, <2>1 DEF EnterCode
    <2>2. CASE ~Taken(r, SameCode)
      <3>1. \A i \in Ids \ {Row(r)} : rows[i] # None => ~SameCode(rows[i], draft[r])
        BY <2>2 DEF Taken, Existing
      <3>2. \A q \in Requests \ {r} :
               draft[q] # None /\ pc[q] = "commit" => ~SameCode(draft[q], draft[r])
        BY <1>6, CodeFree DEF EnterCode
      <3> QED
        BY <1>6, <2>2, <3>1, <3>2 DEF EnterCode
    <2> QED
      BY <2>1, <2>2
  <1>7. ASSUME NEW r \in Requests, Commit(r) PROVE CodeEntries'
    <2>1. CASE draft[r] = None
      BY <1>7, <2>1 DEF Commit
    <2>2. CASE draft[r] # None
      BY <1>7, <2>2 DEF Commit
    <2> QED
      BY <2>1, <2>2
  <1>8. CASE UNCHANGED vars
    BY <1>8
  <1> QED
    BY <1>1, <1>2, <1>3, <1>4, <1>5, <1>6, <1>7, <1>8 DEF Next, Step

\* An UPDATED audit row is written by the commit that ends its request.
LEMMA ChangesDoneStep == IInv /\ [Next]_vars => ChangesDone'
  <1> SUFFICES ASSUME IInv, [Next]_vars PROVE ChangesDone'
    OBVIOUS
  <1> USE DEF IInv, TypeOK, ChangesDone
  <1>1. ASSUME NEW r \in Requests, NEW p \in Payloads, Receive(r, p) PROVE ChangesDone'
    BY <1>1 DEF Receive
  <1>2. ASSUME NEW r \in Requests, Abort(r) \/ DeadlockVictim(r) \/ Load(r) PROVE ChangesDone'
    BY <1>2 DEF Abort, DeadlockVictim, Load
  <1>3. ASSUME NEW r \in Requests, Insert(r) \/ Update(r) PROVE ChangesDone'
    BY <1>3 DEF Insert, Update
  <1>4. ASSUME NEW r \in Requests, EnterName(r) \/ EnterCode(r) PROVE ChangesDone'
    BY <1>4 DEF EnterName, EnterCode
  <1>5. ASSUME NEW r \in Requests, Commit(r) PROVE ChangesDone'
    BY <1>5 DEF Commit, ChangeRows
  <1>6. CASE UNCHANGED vars
    BY <1>6
  <1> QED
    BY <1>1, <1>2, <1>3, <1>4, <1>5, <1>6 DEF Next, Step

\* Only a commit changes what is committed.
LEMMA OnlyCommit ==
    ASSUME [Next]_vars, ~UNCHANGED <<rows, audited>>
    PROVE  \E r \in Requests : Commit(r)
  BY DEF Next, Step, Receive, Abort, Load, Insert, Update, EnterName, EnterCode, DeadlockVictim

\* What a commit puts in a row has passed both indexes.
LEMMA NamesUniqueStep == IInv /\ [Next]_vars => NamesUnique'
  <1> SUFFICES ASSUME IInv, [Next]_vars PROVE NamesUnique'
    OBVIOUS
  <1>1. CASE UNCHANGED <<rows, audited>>
    BY <1>1 DEF IInv, NamesUnique, Existing
  <1>2. ASSUME NEW r \in Requests, Commit(r) PROVE NamesUnique'
    <2>1. CASE draft[r] = None
      BY <1>2, <2>1 DEF Commit, IInv, NamesUnique, Existing
    <2>2. CASE draft[r] # None
      <3>1. Row(r) \in Ids /\ rows' = [rows EXCEPT ![Row(r)] = draft[r]]
        BY <1>2, <2>2, RequestShape DEF Commit, IInv, Sessions
      <3>2. ASSUME NEW i \in Ids, i # Row(r), rows[i] # None
            PROVE  ~SameName(rows[i], draft[r]) /\ ~SameCode(rows[i], draft[r])
        BY <1>2, <2>2, <3>2 DEF Commit, IInv, NameEntries, CodeEntries
      <3>3. ASSUME NEW i \in Existing', NEW j \in Existing',
                   SameName(rows'[i], rows'[j]) \/ SameCode(rows'[i], rows'[j])
            PROVE  i = j
        <4>1. CASE i # Row(r) /\ j # Row(r)
          BY <3>1, <3>3, <4>1 DEF IInv, TypeOK, NamesUnique, Existing
        <4>2. CASE i = Row(r) /\ j # Row(r)
          BY <3>1, <3>2, <3>3, <4>2, SameSymmetric DEF IInv, TypeOK, Existing
        <4>3. CASE i # Row(r) /\ j = Row(r)
          BY <3>1, <3>2, <3>3, <4>3 DEF IInv, TypeOK, Existing
        <4> QED
          BY <4>1, <4>2, <4>3
      <3> QED
        BY <3>3 DEF NamesUnique
    <2> QED
      BY <2>1, <2>2
  <1> QED
    BY <1>1, <1>2, OnlyCommit

\* A commit audits the status it writes, and writes the one it audits.
LEMMA TrailStep == IInv /\ [Next]_vars => TrailEndsAtStatus'
  <1> SUFFICES ASSUME IInv, [Next]_vars PROVE TrailEndsAtStatus'
    OBVIOUS
  <1>1. CASE UNCHANGED <<rows, audited>>
    BY <1>1 DEF IInv, TrailEndsAtStatus, Existing
  <1>2. ASSUME NEW r \in Requests, Commit(r) PROVE TrailEndsAtStatus'
    <2> USE <1>2, RequestShape, ReferenceDataAssumption
        DEF Commit, IInv, TypeOK, Sessions, TrailEndsAtStatus, Existing
    <2>1. CASE request[r].op = "create"
      BY <2>1 DEF Drafts, Sets
    <2>2. CASE request[r].op = "update"
      BY <2>2 DEF Drafts, StatusOps
    <2>3. CASE request[r].op \in StatusOps
      BY <2>3 DEF Drafts, StatusWritten, Dirty, StatusOps
    <2> QED
      BY <2>1, <2>2, <2>3
  <1> QED
    BY <1>1, <1>2, OnlyCommit

\* The invariant is inductive.
LEMMA IInvStep == IInv /\ [Next]_vars => IInv'
  BY TypeStep, SessionsStep, DraftsStep, StatusWrittenStep, LocksStep, NameEntriesStep,
     CodeEntriesStep, ChangesDoneStep, NamesUniqueStep, TrailStep DEF IInv

-----------------------------------------------------------------------------
(* The theorems. *)

\* The invariant holds in every behaviour.
LEMMA IInvAlways == Spec => []IInv
  <1>1. Init => IInv
    BY InitIInv
  <1>2. IInv /\ [Next]_vars => IInv'
    BY IInvStep
  <1> QED
    BY <1>1, <1>2, PTL DEF Spec

\* Every variable of the reference tables and their requests is typed.
THEOREM TypeCorrect == Spec => []TypeOK
  <1>1. IInv => TypeOK
    BY DEF IInv
  <1> QED
    BY <1>1, IInvAlways, PTL

\* create_* and update_* keep names and codes unique, with no check of their own.
THEOREM NamesUniqueCorrect == Spec => []NamesUnique
  <1>1. IInv => NamesUnique
    BY DEF IInv
  <1> QED
    BY <1>1, IInvAlways, PTL

\* The journal of activations ends at the status of the row, however
\* activate_* and deactivate_* overlap.
THEOREM TrailCorrect == Spec => []TrailEndsAtStatus
  <1>1. IInv => TrailEndsAtStatus
    BY DEF IInv
  <1> QED
    BY <1>1, IInvAlways, PTL

\* A column of a category, a classification or a designation changes only in a
\* commit that says so in the journal.
THEOREM ChangesAuditedCorrect == Spec => ChangesAudited
  <1> DEFINE Told == \A i \in Existing : \A f \in {"name", "detail"} :
                 rows'[i][f] # rows[i][f] /\ rows[i].table # "departments" =>
                     \E c \in changes' \ changes : c.row = i /\ f \in c.fields
  <1>1. IInv /\ [Next]_vars => [Told]_vars
    <2> SUFFICES ASSUME IInv, Next PROVE Told
      OBVIOUS
    <2>1. CASE UNCHANGED <<rows, audited>>
      BY <2>1
    <2>2. ASSUME NEW r \in Requests, Commit(r),
                 NEW i \in Existing, NEW f \in {"name", "detail"},
                 rows'[i][f] # rows[i][f], rows[i].table # "departments"
          PROVE  \E c \in changes' \ changes : c.row = i /\ f \in c.fields
      <3>1. draft[r] # None /\ i = Row(r) /\ rows'[i] = draft[r]
        BY <2>2 DEF Commit, IInv, TypeOK, Existing
      <3>2. request[r].op # "create"
        BY <2>2, <3>1 DEF Commit, IInv, Sessions, Existing, Row
      <3>3. request[r].table # "departments"
        BY <2>2, <3>1, <3>2 DEF Commit, IInv, Sessions
      <3>4. request[r].op = "update" /\ request[r][f] # None
        BY <2>2, <3>1, <3>2, RequestShape, ReferenceDataAssumption
        DEF Commit, IInv, Sessions, Drafts
      <3> DEFINE c == [request |-> r, row |-> Row(r), fields |-> Sent(r)]
      <3>5. f \in Sent(r)
        BY <3>4 DEF Sent
      <3>6. c \in changes'
        BY <2>2, <3>3, <3>4, <3>5 DEF Commit, ChangeRows
      <3>7. c \notin changes
        BY <2>2 DEF Commit, IInv, ChangesDone
      <3> QED
        BY <3>1, <3>5, <3>6, <3>7
    <2> QED
      BY <2>1, <2>2, OnlyCommit
  <1> HIDE DEF Told
  <1>2. Spec => [][Told]_vars
    BY <1>1, IInvAlways, PTL DEF Spec
  <1> QED
    BY <1>2 DEF Told, ChangesAudited

=============================================================================
