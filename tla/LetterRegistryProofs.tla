------------------------ MODULE LetterRegistryProofs ------------------------
(***************************************************************************)
(* Safety of LetterRegistry for every set of departments, requests and     *)
(* payloads.                                                               *)
(***************************************************************************)
EXTENDS LetterRegistry, TLAPS

-----------------------------------------------------------------------------
(* The inductive invariant. *)

\* The stages of a Record whose outgoing letter has passed the access check.
Checked == {"find_existing", "allocate", "insert_counter", "refind"} \cup Holding

\* The stages between the insert of the letter and the commit.
Inserted == {"audit", "notify", "commit"}

\* create_letter and record_incoming_correspondence share only their tail.
Branch ==
    \A r \in Requests :
        /\ pc[r] = "validate" => request[r].kind = "create"
        /\ pc[r] \in {"find_outgoing", "find_existing", "refind"}
              => request[r].kind = "record"

\* Letters are the requests that committed; only a letter dispatched to the
\* recorder's department is ever recorded, only another department dispatched to.
Register ==
    /\ \A r \in Requests : pc[r] = "respond" => r \in letters
    /\ \A r \in letters : pc[r] \in {"respond", "done"}
    /\ \A r \in Requests :
          (pc[r] \in Checked \/ r \in letters) /\ request[r].target # None
              => DispatchedToCaller(r)
    /\ \A r \in Requests :
          (pc[r] \in Checked \/ r \in letters) /\ request[r].direction = "OUTGOING"
              => request[r].dispatch \in Departments \ {request[r].dept}

\* Who holds a counter row is between its allocation and its commit, and holds
\* the number the committed row would hand out next.
Locks ==
    /\ \A k \in Keys : \A r \in Requests :
          lock[k] = r => pc[r] \in Holding /\ Key(r) = k
    /\ \A r \in Requests : pc[r] \in Holding =>
          lock[Key(r)] = r /\ number[r] = NextNumber(Key(r))

\* The filed letters of a book occupy the lines below its next number.
Lines ==
    /\ \A l \in letters : number[l] \in 1 .. NextNumber(Key(l)) - 1
    /\ \A k \in Keys : \A n \in 1 .. NextNumber(k) - 1 :
          \E l \in letters : Key(l) = k /\ number[l] = n
    /\ \A l, m \in letters : Key(l) = Key(m) /\ number[l] = number[m] => l = m

\* Between a recording's insert and its commit nobody else's is committed: they
\* would need the counter row it holds.
Recordings ==
    /\ \A l, m \in letters :
          request[l].target # None /\ request[l].target = request[m].target
              => l = m
    /\ \A r \in Requests, l \in letters :
          pc[r] \in Inserted /\ request[r].target # None
              => request[l].target # request[r].target

IInv == TypeOK /\ Branch /\ Register /\ Locks /\ Lines /\ Recordings

\* What was said to the client of r agrees with the register.
Agrees(r) ==
    /\ outcome[r] # "reraised"
    /\ outcome[r] = "created" => answer[r] = r /\ r \in letters
    /\ outcome[r] = "existing" =>
          /\ answer[r] \in letters \ {r}
          /\ request[answer[r]].target = request[r].target
    /\ outcome[r] \in {"rejected", "integrity_error", "existing"}
          => r \notin letters

\* Only requests that are done were answered; a Record that lost the race on the
\* unique index lost it to a filed recording, which stays.
Answers ==
    \A r \in Requests :
        /\ outcome[r] # "none" => pc[r] = "done"
        /\ pc[r] = "refind" => RecordingsOf(request[r].target) # {}
        /\ Agrees(r)

\* Between the insert of a letter and its commit its rows are its audit row and
\* notifications it owes; nobody else has uncommitted rows.
Pending ==
    \A r \in Requests :
        IF pc[r] \in {"notify", "commit"}
        THEN AuditRow(r) \in pending[r]
             /\ pending[r] \subseteq {AuditRow(r)} \cup NoticesDue(r)
        ELSE pending[r] = {}

\* An INCOMING letter is dispatched to nobody.
Undispatched ==
    \A r \in Requests :
        (pc[r] \in Checked \/ r \in letters) /\ request[r].direction = "INCOMING"
            => request[r].dispatch = None

\* What the statements write besides the register, on top of IInv.
WInv == Answers /\ Pending /\ JournalMatchesRegister /\ NoticesReachable /\ Undispatched

-----------------------------------------------------------------------------
(* Typing. *)

\* The payload of a request that was received.
LEMMA ReceivedPayload ==
    ASSUME TypeOK, NEW r \in Requests, pc[r] # "idle"
    PROVE  /\ request[r] \in Payloads
           /\ request[r] \in Payload
           /\ Key(r) \in Keys
  BY ConstantsAssumption DEF TypeOK, Payload, Key, Keys

\* What a fresh read of a counter row returns.
LEMMA NextNumberType ==
    ASSUME TypeOK, NEW k \in Keys
    PROVE  NextNumber(k) \in Nat \ {0}
  BY DEF TypeOK, NextNumber

\* The notifications owed are rows: the outgoing letter a Record names was
\* received before it was committed.
LEMMA NoticesType ==
    ASSUME TypeOK, Register, NEW r \in Requests, pc[r] \in Checked
    PROVE  NoticesDue(r) \subseteq Rows
<1>1. pc[r] # "idle" /\ request[r] \in Payloads /\ request[r] \in Payload
  BY ReceivedPayload DEF Checked, Holding
<1>2. CASE request[r].kind = "record"
  <2>1. request[r].target # None
    BY <1>1, <1>2, ConstantsAssumption
  <2>2. DispatchedToCaller(r)
    BY <2>1 DEF Register
  <2>3. request[request[r].target] \in Payload /\ request[r].target \in Requests
    BY <2>2, ReceivedPayload DEF DispatchedToCaller, Register, TypeOK
  <2> QED
    BY <1>2, <2>3 DEF NoticesDue, Rows, Notices, Payload
<1>3. CASE request[r].kind # "record" /\ request[r].direction = "OUTGOING"
  <2>1. request[r].dispatch \in Departments
    BY <1>3 DEF Register
  <2> QED
    BY <1>1, <1>3, <2>1 DEF NoticesDue, Rows, Notices, Payload
<1>4. CASE request[r].kind # "record" /\ request[r].direction # "OUTGOING"
  BY <1>1, <1>4 DEF NoticesDue, Rows, Notices, Payload
<1> QED
  BY <1>2, <1>3, <1>4

\* The first state is typed.
LEMMA TypeInit == Init => TypeOK
  BY ConstantsAssumption
  DEF Init, TypeOK, Stages, Outcomes, Holding

\* Every action is typed, given that filed letters were received.
LEMMA TypeStep == TypeOK /\ Register /\ [Next]_vars => TypeOK'
<1> SUFFICES ASSUME TypeOK, Register, [Next]_vars PROVE TypeOK'
  OBVIOUS
<1> USE DEF TypeOK, database
<1>1. ASSUME NEW r \in Requests, NEW p \in Payloads, Receive(r, p) PROVE TypeOK'
  BY <1>1, ConstantsAssumption DEF Receive, Goto, Stages
<1>2. ASSUME NEW r \in Requests, Abort(r) PROVE TypeOK'
  BY <1>2 DEF Abort, Rollback, Release, Reply, Goto, Stages, Outcomes
<1>3. ASSUME NEW d \in Departments, SetDepartmentStatus(d) PROVE TypeOK'
  BY <1>3 DEF SetDepartmentStatus
<1>4. ASSUME NEW r \in Requests, Step(r) PROVE TypeOK'
  <2>1. CASE Authorize(r)
    BY <2>1 DEF Authorize, Reply, Goto, Stages, Outcomes
  <2>2. CASE Validate(r)
    BY <2>2 DEF Validate, Reply, Goto, Stages, Outcomes
  <2>3. CASE FindOutgoing(r)
    BY <2>3 DEF FindOutgoing, Reply, Goto, Stages, Outcomes
  <2>4. CASE FindExisting(r)
    BY <2>4 DEF FindExisting, RecordingsOf, Reply, Goto, Stages, Outcomes
  <2>5. CASE SelectForUpdate(r)
    <3>1. Key(r) \in Keys
      BY <2>5, ReceivedPayload DEF SelectForUpdate
    <3>2. NextNumber(Key(r)) \in Nat
      BY <3>1 DEF NextNumber
    <3> QED
      BY <2>5, <3>1, <3>2 DEF SelectForUpdate, Goto, Stages, Holding
  <2>6. CASE InsertCounter(r)
    BY <2>6 DEF InsertCounter, Reply, Goto, Stages, Holding, Outcomes
  <2>7. CASE InsertLetter(r)
    BY <2>7 DEF InsertLetter, Rollback, Release, Goto, Stages, Holding
  <2>8. CASE Refind(r)
    BY <2>8 DEF Refind, RecordingsOf, Reply, Goto, Stages, Outcomes
  <2>9. CASE Audit(r)
    <3>1. request[r] \in Payload
      BY <2>9, ReceivedPayload DEF Audit
    <3>2. AuditRow(r) \in Rows
      BY <3>1 DEF AuditRow, Rows, Audits, Payload
    <3> QED
      BY <2>9, <3>2 DEF Audit, Goto, Stages, Holding
  <2>10. CASE Notify(r)
    <3>1. NoticesDue(r) \subseteq Rows
      BY <2>10, NoticesType DEF Notify, Checked, Holding
    <3> QED
      BY <2>10, <3>1 DEF Notify, Goto, Stages, Holding
  <2>11. CASE Commit(r)
    <3>1. counter' \in [Keys -> Nat]
      BY <2>11, ReceivedPayload DEF Commit
    <3>2. lock' \in [Keys -> Requests \cup {None}]
      BY <2>11 DEF Commit, Release
    <3>3. journal' \subseteq Rows /\ pending' \in [Requests -> SUBSET Rows]
      BY <2>11 DEF Commit
    <3> QED
      BY <2>11, <3>1, <3>2, <3>3 DEF Commit, Goto, Stages
  <2>12. CASE Respond(r)
    BY <2>12 DEF Respond, Reply, Goto, Stages, Outcomes
  <2> QED
    BY <1>4, <2>1, <2>2, <2>3, <2>4, <2>5, <2>6, <2>7, <2>8, <2>9, <2>10,
       <2>11, <2>12 DEF Step
<1>5. CASE UNCHANGED vars
  BY <1>5 DEF vars
<1> QED
  BY <1>1, <1>2, <1>3, <1>4, <1>5 DEF Next

-----------------------------------------------------------------------------
(* Register. *)

\* A received payload stays, and so does a filed letter.
LEMMA Kept ==
    ASSUME TypeOK, [Next]_vars
    PROVE  /\ letters \subseteq letters'
           /\ \A q \in Requests : pc[q] # "idle" => request'[q] = request[q]
<1> USE DEF TypeOK, database, vars
<1>1. ASSUME NEW r \in Requests, NEW p \in Payloads, Receive(r, p)
      PROVE  letters' = letters /\ request' = [request EXCEPT ![r] = p] /\ pc[r] = "idle"
  BY <1>1 DEF Receive
<1>2. ASSUME NEW r \in Requests, Abort(r) PROVE letters' = letters /\ request' = request
  BY <1>2 DEF Abort
<1>3. ASSUME NEW d \in Departments, SetDepartmentStatus(d)
      PROVE  letters' = letters /\ request' = request
  BY <1>3 DEF SetDepartmentStatus
<1>4. ASSUME NEW r \in Requests, Step(r)
      PROVE  letters \subseteq letters' /\ request' = request
  BY <1>4 DEF Step, Authorize, Validate, FindOutgoing, FindExisting,
     SelectForUpdate, InsertCounter, InsertLetter, Refind, Audit, Notify,
     Commit, Respond
<1> QED
  BY <1>1, <1>2, <1>3, <1>4 DEF Next

\* The access a Record was granted stays granted.
LEMMA DispatchKept ==
    ASSUME TypeOK, Register, [Next]_vars, NEW q \in Requests, pc[q] # "idle",
           DispatchedToCaller(q)
    PROVE  DispatchedToCaller(q)'
<1>1. request[q].target \in letters /\ request'[q] = request[q]
  BY Kept DEF DispatchedToCaller
<1>2. pc[request[q].target] # "idle" /\ request[q].target \in Requests
  BY <1>1 DEF Register, TypeOK
<1> QED
  BY <1>1, <1>2, Kept DEF DispatchedToCaller

\* What it takes to keep Register in a step of r: r reaches a checked stage only
\* from another one or with its checks passed, and files its letter on the way
\* to "respond".
LEMMA RegisterKept ==
    ASSUME TypeOK, TypeOK', Register, [Next]_vars, NEW r \in Requests,
           \A q \in Requests \ {r} : pc'[q] = pc[q],
           letters' \subseteq letters \cup {r},
           r \in letters' <=> pc'[r] = "respond" \/ (r \in letters /\ pc'[r] = "done"),
           r \in letters => pc'[r] \in {"respond", "done"},
           r \in letters' => r \in letters \/ pc[r] \in Checked,
           pc'[r] \in Checked =>
              \/ pc[r] \in Checked
              \/ /\ pc[r] # "idle"
                 /\ request[r].target # None => DispatchedToCaller(r)
                 /\ request[r].direction = "OUTGOING" =>
                       request[r].dispatch \in Departments \ {request[r].dept}
    PROVE  Register'
<1>1. ASSUME NEW q \in Requests, pc'[q] \in Checked \/ q \in letters'
      PROVE  pc[q] # "idle" /\ request'[q] = request[q]
  <2>1. pc[q] # "idle"
    BY <1>1 DEF Register, Checked, Holding, TypeOK
  <2> QED
    BY <2>1, Kept
<1>2. ASSUME NEW q \in Requests, pc'[q] \in Checked \/ q \in letters',
             request'[q].target # None
      PROVE  DispatchedToCaller(q)'
  <2>1. DispatchedToCaller(q)
    BY <1>1, <1>2 DEF Register
  <2> QED
    BY <1>1, <1>2, <2>1, DispatchKept
<1>3. ASSUME NEW q \in Requests, pc'[q] \in Checked \/ q \in letters',
             request'[q].direction = "OUTGOING"
      PROVE  request'[q].dispatch \in Departments \ {request'[q].dept}
  BY <1>1, <1>3 DEF Register
<1>4. \A q \in Requests : pc'[q] = "respond" => q \in letters'
  BY Kept DEF Register
<1>5. \A q \in letters' : pc'[q] \in {"respond", "done"}
  BY DEF Register, TypeOK
<1> QED
  BY <1>2, <1>3, <1>4, <1>5 DEF Register

\* A request stays on the operation its payload names.
LEMMA BranchStep == IInv /\ [Next]_vars => Branch'
<1> SUFFICES ASSUME TypeOK, TypeOK', Branch, [Next]_vars PROVE Branch'
  BY TypeStep DEF IInv
<1> USE DEF Goto, Reply, database, TypeOK, Branch
<1>1. ASSUME NEW r \in Requests, NEW p \in Payloads, Receive(r, p) PROVE Branch'
  BY <1>1 DEF Receive
<1>2. ASSUME NEW r \in Requests, Abort(r) PROVE Branch'
  BY <1>2 DEF Abort
<1>3. ASSUME NEW d \in Departments, SetDepartmentStatus(d) PROVE Branch'
  BY <1>3 DEF SetDepartmentStatus
<1>4. ASSUME NEW r \in Requests, Step(r) PROVE Branch'
  <2>1. CASE Authorize(r)
    <3>1. request[r] \in Payload
      BY <2>1, ReceivedPayload DEF Authorize
    <3> QED
      BY <2>1, <3>1 DEF Authorize, Payload
  <2>2. CASE InsertLetter(r)
    <3>1. request[r] \in Payloads
      BY <2>2, ReceivedPayload DEF InsertLetter
    <3>2. pc'[r] = "refind" => request[r].target # None
      BY <2>2 DEF InsertLetter, IndexConflict
    <3> QED
      BY <2>2, <3>1, <3>2, ConstantsAssumption DEF InsertLetter
  <2>3. CASE SelectForUpdate(r) \/ InsertCounter(r)
    BY <2>3 DEF SelectForUpdate, InsertCounter
  <2>4. CASE Validate(r) \/ FindOutgoing(r) \/ FindExisting(r) \/ Refind(r)
    BY <2>4 DEF Validate, FindOutgoing, FindExisting, Refind
  <2>5. CASE Audit(r) \/ Notify(r) \/ Commit(r) \/ Respond(r)
    BY <2>5 DEF Audit, Notify, Commit, Respond
  <2> QED
    BY <1>4, <2>1, <2>2, <2>3, <2>4, <2>5 DEF Step
<1>5. CASE UNCHANGED vars
  BY <1>5 DEF vars
<1> QED
  BY <1>1, <1>2, <1>3, <1>4, <1>5 DEF Next

\* Only a commit files a letter, and filed letters stay.
LEMMA RegisterStep == IInv /\ [Next]_vars => Register'
<1> SUFFICES ASSUME TypeOK, TypeOK', Branch, Register, [Next]_vars PROVE Register'
  BY TypeStep DEF IInv
<1> USE DEF Goto, Reply, database, Checked, Holding, TypeOK
<1>1. ASSUME NEW r \in Requests, NEW p \in Payloads, Receive(r, p) PROVE Register'
  <2>1. r \notin letters
    BY <1>1 DEF Receive, Register
  <2> QED
    BY <1>1, <2>1, RegisterKept DEF Receive
<1>2. ASSUME NEW r \in Requests, Abort(r) PROVE Register'
  <2>1. r \notin letters
    BY <1>2 DEF Abort, Register
  <2> QED
    BY <1>2, <2>1, RegisterKept DEF Abort
<1>3. ASSUME NEW d \in Departments, SetDepartmentStatus(d) PROVE Register'
  BY <1>3 DEF SetDepartmentStatus, Register, DispatchedToCaller
<1>4. ASSUME NEW r \in Requests, Step(r) PROVE Register'
  <2> USE DEF Register
  <2>1. CASE Authorize(r)
    BY <2>1, RegisterKept DEF Authorize
  <2>2. CASE Validate(r)
    <3>1. request[r].target = None
      BY <2>2, ReceivedPayload, ConstantsAssumption DEF Validate, Branch
    <3>2. ValidDirection(r) /\ request[r].direction = "OUTGOING" =>
             request[r].dispatch \in Departments \ {request[r].dept}
      BY DEF ValidDirection
    <3> QED
      BY <2>2, <3>1, <3>2, RegisterKept DEF Validate
  <2>3. CASE FindOutgoing(r)
    <3>1. request[r].direction = "INCOMING"
      BY <2>3, ReceivedPayload, ConstantsAssumption DEF FindOutgoing, Branch
    <3> QED
      BY <2>3, <3>1, RegisterKept DEF FindOutgoing
  <2>4. CASE FindExisting(r) \/ Refind(r)
    BY <2>4, RegisterKept DEF FindExisting, Refind
  <2>5. CASE SelectForUpdate(r) \/ InsertCounter(r)
    BY <2>5, RegisterKept DEF SelectForUpdate, InsertCounter
  <2>6. CASE InsertLetter(r) \/ Audit(r) \/ Notify(r)
    BY <2>6, RegisterKept DEF InsertLetter, Audit, Notify
  <2>7. CASE Commit(r)
    BY <2>7, RegisterKept DEF Commit
  <2>8. CASE Respond(r)
    BY <2>8, RegisterKept DEF Respond
  <2> QED
    BY <1>4, <2>1, <2>2, <2>3, <2>4, <2>5, <2>6, <2>7, <2>8 DEF Step
<1>5. CASE UNCHANGED vars
  BY <1>5 DEF vars, Register, DispatchedToCaller
<1> QED
  BY <1>1, <1>2, <1>3, <1>4, <1>5 DEF Next

-----------------------------------------------------------------------------
(* Locks. *)

\* Steps that neither take, use nor release a counter row.
LEMMA LocksKept ==
    ASSUME TypeOK, TypeOK', Locks, NEW r \in Requests,
           \A q \in Requests \ {r} : pc'[q] = pc[q] /\ request'[q] = request[q],
           request'[r] = request[r] \/ pc[r] \notin Holding,
           pc'[r] \in Holding <=> pc[r] \in Holding,
           lock' = lock, counter' = counter, number' = number
    PROVE  Locks'
<1>1. ASSUME NEW k \in Keys, NEW q \in Requests, lock'[k] = q
      PROVE  pc'[q] \in Holding /\ Key(q)' = k
  BY <1>1 DEF Locks, Key
<1>2. ASSUME NEW q \in Requests, pc'[q] \in Holding
      PROVE  lock'[Key(q)'] = q /\ number'[q] = NextNumber(Key(q))'
  BY <1>2 DEF Locks, Key, NextNumber
<1> QED
  BY <1>1, <1>2 DEF Locks

\* A rollback gives up what r held.
LEMMA LocksRolledBack ==
    ASSUME TypeOK, TypeOK', Locks, NEW r \in Requests, Rollback(r),
           \A q \in Requests \ {r} : pc'[q] = pc[q],
           pc'[r] \notin Holding, request' = request, counter' = counter
    PROVE  Locks'
<1>1. ASSUME NEW k \in Keys, NEW q \in Requests, lock'[k] = q
      PROVE  pc'[q] \in Holding /\ Key(q)' = k
  <2>1. lock[k] = q /\ q # r
    BY <1>1, ConstantsAssumption DEF Rollback, Release, TypeOK
  <2> QED
    BY <2>1 DEF Locks, Key
<1>2. ASSUME NEW q \in Requests, pc'[q] \in Holding
      PROVE  lock'[Key(q)'] = q /\ number'[q] = NextNumber(Key(q))'
  <2>1. q # r /\ pc[q] \in Holding /\ Key(q)' = Key(q) /\ Key(q) \in Keys
    BY <1>2, ReceivedPayload DEF Key, Holding
  <2>2. lock[Key(q)] = q /\ number[q] = NextNumber(Key(q))
    BY <2>1 DEF Locks
  <2>3. lock'[Key(q)] = q /\ number'[q] = number[q]
    BY <2>1, <2>2 DEF Rollback, Release, TypeOK
  <2> QED
    BY <2>1, <2>2, <2>3 DEF NextNumber
<1> QED
  BY <1>1, <1>2 DEF Locks

\* A free counter row is taken together with its next number.
LEMMA LocksTaken ==
    ASSUME TypeOK, TypeOK', Locks, NEW r \in Requests, pc[r] \notin Holding,
           pc[r] # "idle", CounterFree(Key(r)),
           lock' = [lock EXCEPT ![Key(r)] = r],
           number' = [number EXCEPT ![r] = NextNumber(Key(r))],
           pc' = [pc EXCEPT ![r] = "insert_letter"],
           request' = request, counter' = counter
    PROVE  Locks'
<1>1. ASSUME NEW k \in Keys, NEW q \in Requests, lock'[k] = q
      PROVE  pc'[q] \in Holding /\ Key(q)' = k
  BY <1>1 DEF Locks, Key, Holding, TypeOK
<1>2. ASSUME NEW q \in Requests, pc'[q] \in Holding
      PROVE  lock'[Key(q)'] = q /\ number'[q] = NextNumber(Key(q))'
  <2>1. Key(q)' = Key(q) /\ NextNumber(Key(q))' = NextNumber(Key(q))
    BY DEF Key, NextNumber
  <2>2. CASE q = r
    BY <2>1, <2>2, ReceivedPayload DEF TypeOK
  <2>3. CASE q # r
    <3>1. pc[q] \in Holding
      BY <1>2, <2>3 DEF TypeOK
    <3>2. Key(q) # Key(r)
      BY <3>1, ConstantsAssumption DEF Locks, CounterFree
    <3> QED
      BY <2>1, <2>3, <3>1, <3>2, ReceivedPayload DEF Locks, TypeOK, Holding
  <2> QED
    BY <2>2, <2>3
<1> QED
  BY <1>1, <1>2 DEF Locks

\* A commit advances only the row it releases.
LEMMA LocksCommitted ==
    ASSUME TypeOK, TypeOK', Locks, NEW r \in Requests, Commit(r)
    PROVE  Locks'
<1>0. Key(r) \in Keys /\ pc[r] \in Holding /\ request' = request
  BY ReceivedPayload DEF Commit, Holding
<1>1. ASSUME NEW k \in Keys, NEW q \in Requests, lock'[k] = q
      PROVE  pc'[q] \in Holding /\ Key(q)' = k
  <2>1. lock[k] = q /\ q # r
    BY <1>1, ConstantsAssumption DEF Commit, Release, TypeOK
  <2> QED
    BY <1>0, <2>1 DEF Locks, Key, Commit, Goto, TypeOK
<1>2. ASSUME NEW q \in Requests, pc'[q] \in Holding
      PROVE  lock'[Key(q)'] = q /\ number'[q] = NextNumber(Key(q))'
  <2>1. q # r /\ pc[q] \in Holding
    BY <1>2 DEF Commit, Goto, TypeOK, Holding
  <2>2. Key(q)' = Key(q) /\ Key(q) \in Keys
    BY <1>0, <2>1, ReceivedPayload DEF Key, Holding
  <2>3. lock[Key(q)] = q /\ number[q] = NextNumber(Key(q)) /\ Key(q) # Key(r)
    BY <1>0, <2>1 DEF Locks
  <2>4. lock'[Key(q)] = q
    BY <2>1, <2>2, <2>3 DEF Commit, Release
  <2>5. counter'[Key(q)] = counter[Key(q)] /\ number' = number
    BY <1>0, <2>2, <2>3 DEF Commit, TypeOK
  <2> QED
    BY <2>2, <2>3, <2>4, <2>5 DEF NextNumber
<1> QED
  BY <1>1, <1>2 DEF Locks

\* The number under a lock is the one the committed row hands out next.
LEMMA LocksStep == IInv /\ [Next]_vars => Locks'
<1> SUFFICES ASSUME TypeOK, TypeOK', Locks, [Next]_vars PROVE Locks'
  BY TypeStep DEF IInv
<1> USE DEF Goto, Reply, database
<1>1. ASSUME NEW r \in Requests, NEW p \in Payloads, Receive(r, p) PROVE Locks'
  BY <1>1, LocksKept DEF Receive, TypeOK, Holding
<1>2. ASSUME NEW r \in Requests, Abort(r) PROVE Locks'
  BY <1>2, LocksRolledBack DEF Abort, TypeOK, Holding
<1>3. ASSUME NEW d \in Departments, SetDepartmentStatus(d) PROVE Locks'
  BY <1>3 DEF SetDepartmentStatus, Locks, Key, NextNumber
<1>4. ASSUME NEW r \in Requests, Step(r) PROVE Locks'
  <2>1. CASE Authorize(r) \/ Validate(r)
    BY <2>1, LocksKept DEF Authorize, Validate, TypeOK, Holding
  <2>2. CASE FindOutgoing(r) \/ FindExisting(r) \/ Refind(r)
    BY <2>2, LocksKept DEF FindOutgoing, FindExisting, Refind, TypeOK, Holding
  <2>3. CASE SelectForUpdate(r)
    <3>1. CASE counter[Key(r)] = 0
      BY <2>3, <3>1, LocksKept DEF SelectForUpdate, TypeOK, Holding
    <3>2. CASE counter[Key(r)] # 0
      BY <2>3, <3>2, LocksTaken DEF SelectForUpdate, Holding
    <3> QED
      BY <3>1, <3>2
  <2>4. CASE InsertCounter(r)
    <3>1. CASE counter[Key(r)] = 0
      <4>1. NextNumber(Key(r)) = 1
        BY <3>1 DEF NextNumber
      <4> QED
        BY <2>4, <3>1, <4>1, LocksTaken DEF InsertCounter, Holding
    <3>2. CASE counter[Key(r)] # 0
      BY <2>4, <3>2, LocksKept DEF InsertCounter, TypeOK, Holding
    <3> QED
      BY <3>1, <3>2
  <2>5. CASE InsertLetter(r)
    <3>1. CASE IndexConflict(r)
      BY <2>5, <3>1, LocksRolledBack DEF InsertLetter, TypeOK, Holding
    <3>2. CASE ~IndexConflict(r)
      BY <2>5, <3>2, LocksKept DEF InsertLetter, TypeOK, Holding
    <3> QED
      BY <3>1, <3>2
  <2>6. CASE Audit(r) \/ Notify(r) \/ Respond(r)
    BY <2>6, LocksKept DEF Audit, Notify, Respond, TypeOK, Holding
  <2>7. CASE Commit(r)
    BY <2>7, LocksCommitted
  <2> QED
    BY <1>4, <2>1, <2>2, <2>3, <2>4, <2>5, <2>6, <2>7 DEF Step
<1>5. CASE UNCHANGED vars
  BY <1>5 DEF vars, Locks, Key, NextNumber
<1> QED
  BY <1>1, <1>2, <1>3, <1>4, <1>5 DEF Next

-----------------------------------------------------------------------------
(* Lines and Recordings: only a commit writes to the register. *)

\* Before its commit no step changes a filed letter, its number or a counter.
LEMMA RegisterUntouched ==
    ASSUME TypeOK, Register, [Next]_vars, \A r \in Requests : ~ Commit(r)
    PROVE  /\ letters' = letters /\ counter' = counter
           /\ \A l \in letters : number'[l] = number[l] /\ request'[l] = request[l]
<1> USE DEF Goto, Reply, database, TypeOK
<1>1. \A l \in letters : request'[l] = request[l]
  BY Kept DEF Register
<1>2. ASSUME NEW r \in Requests, Step(r)
      PROVE  /\ letters' = letters /\ counter' = counter
             /\ \A l \in letters : number'[l] = number[l]
  <2>1. CASE SelectForUpdate(r) \/ InsertCounter(r) \/ InsertLetter(r)
    <3>1. r \notin letters
      BY <2>1 DEF SelectForUpdate, InsertCounter, InsertLetter, Register
    <3> QED
      BY <2>1, <3>1 DEF SelectForUpdate, InsertCounter, InsertLetter, Rollback
  <2>2. CASE Authorize(r) \/ Validate(r) \/ FindOutgoing(r) \/ FindExisting(r)
    BY <2>2 DEF Authorize, Validate, FindOutgoing, FindExisting
  <2>3. CASE Refind(r) \/ Audit(r) \/ Notify(r) \/ Respond(r)
    BY <2>3 DEF Refind, Audit, Notify, Respond
  <2> QED
    BY <1>2, <2>1, <2>2, <2>3 DEF Step
<1>3. ASSUME NEW r \in Requests, Abort(r)
      PROVE  /\ letters' = letters /\ counter' = counter
             /\ \A l \in letters : number'[l] = number[l]
  <2>1. r \notin letters
    BY <1>3 DEF Abort, Register
  <2> QED
    BY <1>3, <2>1 DEF Abort, Rollback
<1>4. ASSUME NEW r \in Requests, NEW p \in Payloads, Receive(r, p)
      PROVE  letters' = letters /\ counter' = counter /\ number' = number
  BY <1>4 DEF Receive
<1>5. ASSUME NEW d \in Departments, SetDepartmentStatus(d)
      PROVE  letters' = letters /\ counter' = counter /\ number' = number
  BY <1>5 DEF SetDepartmentStatus
<1>6. CASE UNCHANGED vars
  BY <1>6 DEF vars
<1> QED
  BY <1>1, <1>2, <1>3, <1>4, <1>5, <1>6 DEF Next

\* A commit takes the next line of its book; nothing else writes one.
LEMMA LinesStep == IInv /\ [Next]_vars => Lines'
<1> SUFFICES ASSUME TypeOK, TypeOK', Register, Locks, Lines, [Next]_vars PROVE Lines'
  BY TypeStep DEF IInv
<1>1. ASSUME NEW r \in Requests, Commit(r) PROVE Lines'
  <2>1. /\ Key(r) \in Keys /\ r \notin letters
        /\ number[r] = NextNumber(Key(r)) /\ number[r] \in Nat \ {0}
    BY <1>1, ReceivedPayload, NextNumberType DEF Commit, Locks, Register, Holding
  <2>2. /\ letters' = letters \cup {r} /\ number' = number
        /\ \A l \in Requests : Key(l)' = Key(l)
    BY <1>1 DEF Commit, Key
  <2>3. \A k \in Keys :
           NextNumber(k)' = IF k = Key(r) THEN number[r] + 1 ELSE NextNumber(k)
    BY <1>1, <2>1 DEF Commit, NextNumber, TypeOK
  <2>4. \A l \in letters : Key(l) \in Keys /\ l \in Requests /\ number[l] \in Nat
    BY ReceivedPayload DEF Register, TypeOK
  <2>5. \A k \in Keys : NextNumber(k) \in Nat \ {0}
    BY NextNumberType
  <2>6. ASSUME NEW l \in letters' PROVE number'[l] \in 1 .. NextNumber(Key(l))' - 1
    BY <2>1, <2>2, <2>3, <2>4, <2>5 DEF Lines
  <2>7. ASSUME NEW k \in Keys, NEW n \in 1 .. NextNumber(k)' - 1
        PROVE  \E l \in letters' : Key(l)' = k /\ number'[l] = n
    <3>1. CASE k = Key(r) /\ n = number[r]
      BY <2>1, <2>2, <3>1, <2>4
    <3>2. CASE k # Key(r) \/ n # number[r]
      <4>1. n \in 1 .. NextNumber(k) - 1
        BY <2>1, <2>3, <2>5, <3>2
      <4> QED
        BY <2>2, <2>4, <4>1 DEF Lines
    <3> QED
      BY <3>1, <3>2
  <2>8. ASSUME NEW l \in letters', NEW m \in letters',
               Key(l)' = Key(m)', number'[l] = number'[m]
        PROVE  l = m
    BY <2>1, <2>2, <2>4, <2>5, <2>8 DEF Lines
  <2> QED
    BY <2>6, <2>7, <2>8 DEF Lines
<1>2. CASE \A r \in Requests : ~ Commit(r)
  <2>1. /\ letters' = letters /\ counter' = counter
        /\ \A l \in letters : number'[l] = number[l] /\ Key(l)' = Key(l)
    BY <1>2, RegisterUntouched DEF Key
  <2> QED
    BY <2>1 DEF Lines, NextNumber
<1> QED
  BY <1>1, <1>2

\* Two recordings of the same dispatched letter contend for one counter row.
LEMMA RecordersShareKey ==
    ASSUME TypeOK, Register, NEW q \in Requests, NEW r \in Requests,
           pc[q] \in Holding, pc[r] \in Holding,
           request[q].target # None, request[q].target = request[r].target
    PROVE  Key(q) = Key(r)
<1>1. DispatchedToCaller(q) /\ DispatchedToCaller(r)
  BY DEF Register, Checked
<1>2. request[q] \in Payloads /\ request[r] \in Payloads
  BY ReceivedPayload DEF Holding
<1>3. request[q].direction = "INCOMING" /\ request[r].direction = "INCOMING"
  BY <1>2, ConstantsAssumption
<1> QED
  BY <1>1, <1>3 DEF DispatchedToCaller, Key

\* The counter row keeps two recordings of one letter apart.
LEMMA RecordingsStep == IInv /\ [Next]_vars => Recordings'
<1> SUFFICES ASSUME TypeOK, TypeOK', Register, Locks, Recordings, [Next]_vars
             PROVE  Recordings'
  BY TypeStep DEF IInv
<1> USE DEF Inserted
<1>1. ASSUME NEW r \in Requests, Commit(r) PROVE Recordings'
  <2>1. letters' = letters \cup {r} /\ request' = request /\ pc[r] = "commit"
    BY <1>1 DEF Commit
  <2>2. pc' = [pc EXCEPT ![r] = "respond"]
    BY <1>1 DEF Commit, Goto
  <2>3. ASSUME NEW q \in Requests, pc'[q] \in Inserted, request[q].target # None
        PROVE  request[r].target # request[q].target
    <3>1. q # r /\ pc[q] \in Holding /\ pc[r] \in Holding
      BY <2>1, <2>2, <2>3 DEF Holding, TypeOK
    <3>2. Key(q) # Key(r)
      BY <3>1 DEF Locks
    <3> QED
      BY <2>3, <3>1, <3>2, RecordersShareKey
  <2>4. ASSUME NEW l \in letters, request[r].target # None
        PROVE  request[l].target # request[r].target
    BY <2>1, <2>4 DEF Recordings
  <2>5. ASSUME NEW q \in Requests, pc'[q] \in Inserted PROVE pc[q] \in Inserted
    BY <2>2, <2>5 DEF TypeOK
  <2> QED
    BY <2>1, <2>3, <2>4, <2>5 DEF Recordings
<1>2. CASE \A r \in Requests : ~ Commit(r)
  <2>1. letters' = letters /\ \A l \in letters : request'[l] = request[l]
    BY <1>2, RegisterUntouched
  <2>2. ASSUME NEW q \in Requests, NEW l \in letters,
               pc'[q] \in Inserted, request'[q].target # None
        PROVE  request[l].target # request'[q].target
    <3>1. CASE pc[q] \in Inserted
      <4>1. request'[q] = request[q]
        BY <3>1, Kept
      <4> QED
        BY <2>2, <3>1, <4>1 DEF Recordings
    <3>2. CASE pc[q] \notin Inserted
      <4>1. InsertLetter(q) /\ ~ IndexConflict(q) /\ request'[q] = request[q]
        BY <1>2, <2>2, <3>2
        DEF Next, vars, Step, Receive, Abort, SetDepartmentStatus, Authorize,
            Validate, FindOutgoing, FindExisting, SelectForUpdate,
            InsertCounter, InsertLetter, Refind, Audit, Notify, Respond,
            Goto, Reply, TypeOK
      <4> QED
        BY <2>2, <4>1 DEF IndexConflict, RecordingsOf
    <3> QED
      BY <3>1, <3>2
  <2> QED
    BY <2>1, <2>2 DEF Recordings
<1> QED
  BY <1>1, <1>2

-----------------------------------------------------------------------------
(* What the statements write besides the register. *)

\* Filed recordings stay filed.
LEMMA RecordingsStay ==
    ASSUME TypeOK, Register, [Next]_vars, NEW o
    PROVE  RecordingsOf(o) \subseteq RecordingsOf(o)'
<1>1. \A l \in letters : l \in letters' /\ request'[l] = request[l]
  BY Kept DEF Register, TypeOK
<1> QED
  BY <1>1 DEF RecordingsOf

\* What it takes to keep Answers when r moves: r alone may be answered, and
\* what it is told agrees with the register.
LEMMA AnswersKept ==
    ASSUME TypeOK, TypeOK', Register, Answers, [Next]_vars, NEW r \in Requests,
           \A q \in Requests \ {r} :
              /\ pc'[q] = pc[q] /\ outcome'[q] = outcome[q] /\ answer'[q] = answer[q]
              /\ q \in letters' => q \in letters,
           outcome'[r] # "none" => pc'[r] = "done",
           pc'[r] = "refind" => RecordingsOf(request[r].target)' # {},
           Agrees(r)'
    PROVE  Answers'
<1> SUFFICES ASSUME NEW q \in Requests \ {r}
             PROVE  /\ pc'[q] = "refind" => RecordingsOf(request[q].target)' # {}
                    /\ Agrees(q)'
  BY DEF Answers
<1>1. ASSUME pc'[q] = "refind" PROVE RecordingsOf(request[q].target)' # {}
  <2>1. RecordingsOf(request[q].target) # {} /\ request'[q] = request[q]
    BY <1>1, Kept DEF Answers
  <2> QED
    BY <2>1, RecordingsStay
<1>2. Agrees(q)'
  <2>1. Agrees(q) /\ letters \subseteq letters'
    BY Kept DEF Answers
  <2>2. ASSUME outcome[q] = "existing"
        PROVE  /\ answer[q] \in letters' \ {q}
               /\ request'[answer[q]].target = request'[q].target
    <3>1. answer[q] \in letters \ {q} /\ pc[q] = "done"
      BY <2>2 DEF Answers, Agrees
    <3>2. pc[answer[q]] # "idle" /\ answer[q] \in Requests
      BY <3>1 DEF Register, TypeOK
    <3> QED
      BY <2>1, <2>2, <3>1, <3>2, Kept DEF Agrees
  <2> QED
    BY <2>1, <2>2 DEF Agrees
<1> QED
  BY <1>1, <1>2

\* Answers are given from the register, at the end of a request.
LEMMA AnswersStep == IInv /\ Answers /\ [Next]_vars => Answers'
<1> SUFFICES ASSUME TypeOK, TypeOK', Register, Recordings, Answers, [Next]_vars
             PROVE  Answers'
  BY TypeStep DEF IInv
<1> USE DEF Goto, Reply, database
<1>0. \A q \in Requests : outcome[q] = "none" => Agrees(q)
  BY DEF Agrees
<1>1. ASSUME NEW r \in Requests, NEW p \in Payloads, Receive(r, p) PROVE Answers'
  <2>1. outcome'[r] = "none" /\ pc'[r] = "authorize"
    BY <1>1 DEF Receive, Answers, TypeOK
  <2> QED
    BY <1>1, <2>1, AnswersKept DEF Receive, Agrees
<1>2. ASSUME NEW r \in Requests, Abort(r) PROVE Answers'
  <2>1. outcome'[r] = "failed" /\ pc'[r] = "done"
    BY <1>2 DEF Abort, TypeOK
  <2> QED
    BY <1>2, <2>1, AnswersKept DEF Abort, Agrees
<1>3. ASSUME NEW d \in Departments, SetDepartmentStatus(d) PROVE Answers'
  BY <1>3 DEF SetDepartmentStatus, Answers, Agrees, RecordingsOf
<1>4. ASSUME NEW r \in Requests, Step(r) PROVE Answers'
  <2>0. pc[r] # "done" /\ outcome[r] = "none"
    BY <1>4 DEF Answers, Step, Authorize, Validate, FindOutgoing, FindExisting,
       SelectForUpdate, InsertCounter, InsertLetter, Refind, Audit, Notify,
       Commit, Respond
  <2>1. ASSUME letters' = letters, request' = request,
               pc[r] \notin {"respond", "done"},
               \A q \in Requests \ {r} :
                  pc'[q] = pc[q] /\ outcome'[q] = outcome[q] /\ answer'[q] = answer[q],
               \/ outcome'[r] = outcome[r]
               \/ pc'[r] = "done" /\ outcome'[r] \in {"rejected", "integrity_error", "failed"}
               \/ /\ pc'[r] = "done" /\ outcome'[r] = "existing"
                  /\ answer'[r] \in RecordingsOf(request[r].target),
               pc'[r] = "refind" => RecordingsOf(request[r].target) # {}
        PROVE  Answers'
    <3>1. r \notin letters
      BY <2>1 DEF Register
    <3>2. Agrees(r)'
      BY <2>0, <2>1, <3>1 DEF Agrees, RecordingsOf
    <3>3. RecordingsOf(request[r].target)' = RecordingsOf(request[r].target)
      BY <2>1 DEF RecordingsOf
    <3> QED
      BY <2>0, <2>1, <3>2, <3>3, AnswersKept
  <2>2. CASE Authorize(r) \/ Validate(r) \/ FindOutgoing(r)
    BY <2>1, <2>2 DEF Authorize, Validate, FindOutgoing, TypeOK
  <2>3. CASE FindExisting(r)
    BY <2>1, <2>3 DEF FindExisting, RecordingsOf, TypeOK
  <2>4. CASE SelectForUpdate(r) \/ InsertCounter(r)
    BY <2>1, <2>4 DEF SelectForUpdate, InsertCounter, TypeOK
  <2>5. CASE InsertLetter(r)
    BY <2>1, <2>5 DEF InsertLetter, IndexConflict, TypeOK
  <2>6. CASE Refind(r)
    <3>1. RecordingsOf(request[r].target) # {}
      BY <2>6 DEF Refind, Answers
    <3> QED
      BY <2>1, <2>6, <3>1 DEF Refind, TypeOK
  <2>7. CASE Audit(r) \/ Notify(r)
    BY <2>1, <2>7 DEF Audit, Notify, TypeOK
  <2>8. CASE Commit(r)
    BY <2>0, <2>8, AnswersKept DEF Commit, Agrees, TypeOK
  <2>9. CASE Respond(r)
    <3>1. r \in letters /\ letters' = letters
      BY <2>9 DEF Respond, Register
    <3>2. Agrees(r)'
      BY <2>9, <3>1 DEF Respond, Agrees, TypeOK
    <3> QED
      BY <2>9, <3>1, <3>2, AnswersKept DEF Respond, TypeOK
  <2> QED
    BY <1>4, <2>2, <2>3, <2>4, <2>5, <2>6, <2>7, <2>8, <2>9 DEF Step
<1>5. CASE UNCHANGED vars
  BY <1>5 DEF vars, Answers, Agrees, RecordingsOf
<1> QED
  BY <1>1, <1>2, <1>3, <1>4, <1>5 DEF Next

\* The rows a request owes are fixed once it passed its access check.
LEMMA RowsKept ==
    ASSUME TypeOK, Register, [Next]_vars, NEW q \in Requests, pc[q] \in Checked
    PROVE  AuditRow(q)' = AuditRow(q) /\ NoticesDue(q)' = NoticesDue(q)
<1>1. pc[q] # "idle" /\ request'[q] = request[q] /\ request[q] \in Payloads
  BY Kept, ReceivedPayload DEF Checked, Holding
<1>2. CASE request[q].kind = "record"
  <2>1. DispatchedToCaller(q)
    BY <1>1, <1>2, ConstantsAssumption DEF Register
  <2>2. request'[request[q].target] = request[request[q].target]
    BY <2>1, Kept DEF DispatchedToCaller, Register, TypeOK
  <2> QED
    BY <1>1, <1>2, <2>2 DEF AuditRow, NoticesDue
<1>3. CASE request[q].kind # "record"
  BY <1>1, <1>3 DEF AuditRow, NoticesDue
<1> QED
  BY <1>2, <1>3

\* What it takes to keep Pending when r moves.
LEMMA PendingKept ==
    ASSUME TypeOK, Register, Pending, [Next]_vars, NEW r \in Requests,
           \A q \in Requests \ {r} : pc'[q] = pc[q] /\ pending'[q] = pending[q],
           IF pc'[r] \in {"notify", "commit"}
           THEN /\ pc[r] \in Checked
                /\ AuditRow(r) \in pending'[r]
                /\ pending'[r] \subseteq {AuditRow(r)} \cup NoticesDue(r)
           ELSE pending'[r] = {}
    PROVE  Pending'
<1>1. \A q \in Requests : pc[q] \in {"notify", "commit"} => pc[q] \in Checked
  BY DEF Checked, Holding
<1> QED
  BY <1>1, RowsKept DEF Pending

\* Rows are written after the insert and are gone at the end of the transaction.
LEMMA PendingStep == IInv /\ Pending /\ [Next]_vars => Pending'
<1> SUFFICES ASSUME TypeOK, TypeOK', Register, Pending, [Next]_vars PROVE Pending'
  BY TypeStep DEF IInv
<1> USE DEF Goto, Reply, database, TypeOK
<1>1. ASSUME NEW r \in Requests, NEW p \in Payloads, Receive(r, p) PROVE Pending'
  BY <1>1, PendingKept DEF Receive, Pending
<1>2. ASSUME NEW r \in Requests, Abort(r) PROVE Pending'
  BY <1>2, PendingKept DEF Abort, Rollback
<1>3. ASSUME NEW d \in Departments, SetDepartmentStatus(d) PROVE Pending'
  BY <1>3 DEF SetDepartmentStatus, Pending, AuditRow, NoticesDue
<1>4. ASSUME NEW r \in Requests, Step(r) PROVE Pending'
  <2>1. CASE Authorize(r) \/ Validate(r) \/ FindOutgoing(r) \/ FindExisting(r)
    BY <2>1, PendingKept DEF Authorize, Validate, FindOutgoing, FindExisting, Pending
  <2>2. CASE SelectForUpdate(r) \/ InsertCounter(r)
    BY <2>2, PendingKept DEF SelectForUpdate, InsertCounter, Pending
  <2>3. CASE InsertLetter(r)
    BY <2>3, PendingKept DEF InsertLetter, Rollback, Pending
  <2>4. CASE Refind(r) \/ Respond(r)
    BY <2>4, PendingKept DEF Refind, Respond, Pending
  <2>5. CASE Audit(r)
    <3>1. pending[r] = {} /\ pc[r] \in Checked
      BY <2>5 DEF Audit, Pending, Checked, Holding
    <3>2. pending'[r] = {AuditRow(r)}
      BY <2>5, <3>1 DEF Audit
    <3> QED
      BY <2>5, <3>1, <3>2, PendingKept DEF Audit
  <2>6. CASE Notify(r)
    <3>1. /\ pc[r] \in Checked /\ AuditRow(r) \in pending[r]
          /\ pending[r] \subseteq {AuditRow(r)} \cup NoticesDue(r)
      BY <2>6 DEF Notify, Pending, Checked, Holding
    <3>2. /\ AuditRow(r) \in pending'[r]
          /\ pending'[r] \subseteq {AuditRow(r)} \cup NoticesDue(r)
      BY <2>6, <3>1 DEF Notify
    <3> QED
      BY <2>6, <3>1, <3>2, PendingKept DEF Notify
  <2>7. CASE Commit(r)
    BY <2>7, PendingKept DEF Commit
  <2> QED
    BY <1>4, <2>1, <2>2, <2>3, <2>4, <2>5, <2>6, <2>7 DEF Step
<1>5. CASE UNCHANGED vars
  BY <1>5 DEF vars, Pending, AuditRow, NoticesDue
<1> QED
  BY <1>1, <1>2, <1>3, <1>4, <1>5 DEF Next

\* The journal is written by commits only.
LEMMA JournalUntouched ==
    ASSUME [Next]_vars, \A r \in Requests : ~ Commit(r)
    PROVE  journal' = journal
  BY DEF Next, vars, database, Step, Receive, Abort, SetDepartmentStatus,
     Authorize, Validate, FindOutgoing, FindExisting, SelectForUpdate,
     InsertCounter, InsertLetter, Refind, Audit, Notify, Respond

\* The rows a commit adds: the letter's audit row, and notifications that name
\* the letter itself or the dispatched one it records.
LEMMA CommittedRows ==
    ASSUME TypeOK, Register, Pending, NEW r \in Requests, Commit(r)
    PROVE  /\ request' = request /\ letters' = letters \cup {r} /\ r \notin letters
           /\ journal' = journal \cup pending[r]
           /\ AuditRow(r) \in pending[r] /\ AuditRow(r).letter = r
           /\ AuditRow(r).event \in Audits
           /\ \A row \in pending[r] \ {AuditRow(r)} :
                 /\ row.event \in Notices /\ row.letter \in letters \cup {r}
                 /\ row.event = "LETTER_RECORDED" => row.letter = request[r].target
                 /\ IF row.event = "LETTER_DISPATCHED"
                    THEN request[row.letter].dispatch = row.dept
                    ELSE request[row.letter].dept = row.dept
<1>1. pc[r] = "commit" /\ r \notin letters
  BY DEF Commit, Register
<1>2. /\ AuditRow(r) \in pending[r]
      /\ pending[r] \subseteq {AuditRow(r)} \cup NoticesDue(r)
  BY <1>1 DEF Pending
<1>3. request[r] \in Payloads /\ request[r].kind = "record" => DispatchedToCaller(r)
  BY <1>1, ReceivedPayload, ConstantsAssumption DEF Register, Checked, Holding
<1>4. request[r] \in Payloads
  BY <1>1, ReceivedPayload
<1>5. \A row \in NoticesDue(r) :
         /\ row.event \in Notices /\ row.letter \in letters \cup {r}
         /\ row.event = "LETTER_RECORDED" => row.letter = request[r].target
         /\ IF row.event = "LETTER_DISPATCHED"
            THEN request[row.letter].dispatch = row.dept
            ELSE request[row.letter].dept = row.dept
  BY <1>3, <1>4 DEF NoticesDue, Notices, DispatchedToCaller
<1> QED
  BY <1>1, <1>2, <1>5 DEF Commit, AuditRow, Audits

\* A commit adds to the journal what it adds to the register.
LEMMA JournalStep ==
    IInv /\ Pending /\ JournalMatchesRegister /\ [Next]_vars => JournalMatchesRegister'
<1> SUFFICES ASSUME TypeOK, Register, Pending, JournalMatchesRegister, [Next]_vars
             PROVE  JournalMatchesRegister'
  BY DEF IInv
<1>1. ASSUME NEW r \in Requests, Commit(r) PROVE JournalMatchesRegister'
  <2>1. \A row \in journal' : row.letter \in letters'
    BY <1>1, CommittedRows DEF JournalMatchesRegister
  <2>2. \A row : row.event \in Notices => row.event \notin Audits
    BY DEF Notices, Audits
  <2>4. ASSUME NEW row \in journal', row.event = "LETTER_RECORDED"
        PROVE  RecordingsOf(row.letter)' # {}
    <3>1. /\ letters' = letters \cup {r} /\ request' = request
          /\ journal' = journal \cup pending[r]
      BY <1>1, CommittedRows
    <3>2. CASE row \in journal
      BY <2>4, <3>1, <3>2 DEF JournalMatchesRegister, RecordingsOf
    <3>3. CASE row \in pending[r]
      <4>1. row # AuditRow(r)
        BY <2>4 DEF AuditRow
      <4>2. row.letter = request[r].target
        BY <1>1, <2>4, <3>3, <4>1, CommittedRows
      <4> QED
        BY <3>1, <4>2 DEF RecordingsOf
    <3> QED
      BY <3>1, <3>2, <3>3
  <2>3. ASSUME NEW l \in letters'
        PROVE  {row \in journal' : row.letter = l /\ row.event \in Audits} = {AuditRow(l)'}
    <3>1. AuditRow(l)' = AuditRow(l)
      BY <1>1, CommittedRows DEF AuditRow
    <3>2. CASE l = r
      <4>1. \A row \in journal : row.letter # r
        BY <1>1, CommittedRows DEF JournalMatchesRegister
      <4> QED
        BY <1>1, <2>2, <3>1, <3>2, <4>1, CommittedRows
    <3>3. CASE l # r
      <4>1. {row \in journal : row.letter = l /\ row.event \in Audits} = {AuditRow(l)}
        BY <1>1, <2>3, <3>3, CommittedRows DEF JournalMatchesRegister
      <4>2. \A row \in pending[r] : ~ (row.letter = l /\ row.event \in Audits)
        BY <1>1, <2>2, <3>3, CommittedRows
      <4> QED
        BY <1>1, <3>1, <4>1, <4>2, CommittedRows
    <3> QED
      BY <3>2, <3>3
  <2> QED
    BY <2>1, <2>3, <2>4 DEF JournalMatchesRegister
<1>2. CASE \A r \in Requests : ~ Commit(r)
  <2>1. journal' = journal /\ letters' = letters /\ \A l \in letters : request'[l] = request[l]
    BY <1>2, JournalUntouched, RegisterUntouched
  <2> QED
    BY <2>1 DEF JournalMatchesRegister, AuditRow, RecordingsOf
<1> QED
  BY <1>1, <1>2

\* Who may open the letter of a notification does not change.
LEMMA NoticesStep ==
    IInv /\ Pending /\ JournalMatchesRegister /\ NoticesReachable /\ [Next]_vars
        => NoticesReachable'
<1> SUFFICES ASSUME TypeOK, Register, Pending, JournalMatchesRegister,
                    NoticesReachable, [Next]_vars
             PROVE  NoticesReachable'
  BY DEF IInv
<1>1. ASSUME NEW r \in Requests, Commit(r) PROVE NoticesReachable'
  <2>1. AuditRow(r).event \notin Notices
    BY DEF AuditRow, Notices
  <2> QED
    BY <1>1, <2>1, CommittedRows DEF NoticesReachable
<1>2. CASE \A r \in Requests : ~ Commit(r)
  <2>1. journal' = journal /\ letters' = letters /\ \A l \in letters : request'[l] = request[l]
    BY <1>2, JournalUntouched, RegisterUntouched
  <2> QED
    BY <2>1 DEF NoticesReachable, JournalMatchesRegister
<1> QED
  BY <1>1, <1>2

\* An INCOMING letter that is checked was not dispatched.
LEMMA UndispatchedStep == IInv /\ Undispatched /\ [Next]_vars => Undispatched'
<1> SUFFICES ASSUME TypeOK, TypeOK', Branch, Register, Undispatched, [Next]_vars
             PROVE  Undispatched'
  BY TypeStep DEF IInv
<1> SUFFICES ASSUME NEW q \in Requests, pc'[q] \in Checked \/ q \in letters',
                    request'[q].direction = "INCOMING"
             PROVE  request'[q].dispatch = None
  BY DEF Undispatched
<1>1. CASE pc[q] \in Checked \/ q \in letters
  <2>1. request'[q] = request[q]
    BY <1>1, Kept DEF Checked, Holding, Register
  <2> QED
    BY <1>1, <2>1 DEF Undispatched
<1>2. CASE ~ (pc[q] \in Checked \/ q \in letters)
  <2>1. (Validate(q) /\ ValidDirection(q)) \/ FindOutgoing(q)
    BY <1>2 DEF Next, vars, database, Checked, Holding, TypeOK, Step, Receive, Abort,
       SetDepartmentStatus, Authorize, Validate, FindOutgoing, FindExisting,
       SelectForUpdate, InsertCounter, InsertLetter, Refind, Audit, Notify,
       Commit, Respond, Goto, Reply
  <2>2. request' = request
    BY <2>1 DEF Validate, FindOutgoing
  <2>3. CASE Validate(q) /\ ValidDirection(q)
    BY <2>2, <2>3 DEF ValidDirection
  <2>4. CASE FindOutgoing(q)
    BY <2>2, <2>4, ReceivedPayload, ConstantsAssumption DEF FindOutgoing, Branch
  <2> QED
    BY <2>1, <2>3, <2>4
<1> QED
  BY <1>1, <1>2

-----------------------------------------------------------------------------
(* The theorems. *)

\* IInv is inductive.
LEMMA IInvInvariant == Spec => []IInv
<1>1. Init => IInv
  <2> SUFFICES ASSUME Init PROVE IInv
    OBVIOUS
  <2>1. TypeOK
    BY TypeInit
  <2>2. Branch /\ Register
    BY ConstantsAssumption DEF Init, Branch, Register, Checked, Holding
  <2>3. Locks
    BY ConstantsAssumption DEF Init, Locks, Holding
  <2>4. Lines /\ Recordings
    BY DEF Init, Lines, Recordings, Inserted, NextNumber
  <2> QED
    BY <2>1, <2>2, <2>3, <2>4 DEF IInv
<1>2. IInv /\ [Next]_vars => IInv'
  BY TypeStep, BranchStep, RegisterStep, LocksStep, LinesStep, RecordingsStep
  DEF IInv
<1> QED
  BY <1>1, <1>2, PTL DEF Spec

\* So is WInv.
LEMMA WInvInvariant == Spec => []WInv
<1>1. Init => WInv
  <2> SUFFICES ASSUME Init PROVE WInv
    OBVIOUS
  <2>1. Answers
    BY ConstantsAssumption DEF Init, Answers, Agrees
  <2>2. Pending /\ JournalMatchesRegister /\ NoticesReachable
    BY DEF Init, Pending, JournalMatchesRegister, NoticesReachable
  <2>3. Undispatched
    BY DEF Init, Undispatched, Checked, Holding
  <2> QED
    BY <2>1, <2>2, <2>3 DEF WInv
<1>2. IInv /\ WInv /\ [Next]_vars => WInv'
  BY AnswersStep, PendingStep, JournalStep, NoticesStep, UndispatchedStep DEF WInv
<1> QED
  BY <1>1, <1>2, IInvInvariant, PTL DEF Spec

\* The database, the transactions and the requests keep their types.
THEOREM TypeCorrect == Spec => []TypeOK
<1>1. IInv => TypeOK
  BY DEF IInv
<1> QED
  BY <1>1, IInvInvariant, PTL

\* Diary numbers are gapless and unique per department and direction, for any
\* number of concurrent registrations, aborted or not.
THEOREM DiaryCorrect == Spec => []DiaryGapless
<1>1. IInv => DiaryGapless
  <2> SUFFICES ASSUME TypeOK, Lines, NEW k \in Keys
               PROVE  /\ {number[l] : l \in FiledIn(k)} = 1 .. NextNumber(k) - 1
                      /\ \A l, m \in FiledIn(k) : number[l] = number[m] => l = m
    BY DEF IInv, DiaryGapless
  <2>1. \A l \in FiledIn(k) : number[l] \in 1 .. NextNumber(k) - 1
    BY DEF FiledIn, Lines
  <2>2. \A n \in 1 .. NextNumber(k) - 1 : \E l \in FiledIn(k) : number[l] = n
    BY DEF FiledIn, Lines
  <2>3. \A l, m \in FiledIn(k) : number[l] = number[m] => l = m
    BY DEF FiledIn, Lines
  <2> QED
    BY <2>1, <2>2, <2>3
<1> QED
  BY <1>1, IInvInvariant, PTL

\* A dispatched letter is recorded at most once, by its destination.
THEOREM RecordedOnceCorrect == Spec => []RecordedOnce
<1>1. IInv => RecordedOnce
  BY DEF IInv, TypeOK, Register, Recordings, RecordedOnce, DispatchedToCaller
<1> QED
  BY <1>1, IInvInvariant, PTL

\* What clients are told about a letter is so in the register, and the race guard
\* of Record always finds the letter it lost to.
THEOREM AnswersCorrect == Spec => []AnswersAgree
<1>1. WInv => AnswersAgree
  BY DEF WInv, Answers, AnswersAgree, Agrees
<1> QED
  BY <1>1, WInvInvariant, PTL

\* Each filed letter has its audit row and no other, and no row outlives a
\* transaction that was rolled back, not even the receipt of a Record, whose
\* letter is the dispatched one.
THEOREM JournalCorrect == Spec => []JournalMatchesRegister
<1>1. WInv => JournalMatchesRegister
  BY DEF WInv
<1> QED
  BY <1>1, WInvInvariant, PTL

\* Every notification leads its recipients to a letter they may act on.
THEOREM NoticesCorrect == Spec => []NoticesReachable
<1>1. WInv => NoticesReachable
  BY DEF WInv
<1> QED
  BY <1>1, WInvInvariant, PTL
=============================================================================
