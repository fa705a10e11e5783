--------------------------- MODULE LetterRegistry ---------------------------
(***************************************************************************)
(* The registration core of the Letter Registry System backend: the two    *)
(* endpoints that put a letter in a department's register,                  *)
(*                                                                         *)
(*    POST /letters              LetterService.create_letter               *)
(*    POST /letters/{id}/record  LetterService.                            *)
(*                                    record_incoming_correspondence       *)
(*                                                                         *)
(* run by any number of concurrent requests.  Each request owns one         *)
(* database session and one READ COMMITTED transaction, so a request is     *)
(* modelled as the sequence of its statements, and what other requests see  *)
(* changes only when one of them commits.  The two mechanisms the code      *)
(* relies on are explicit: the row lock of SELECT ... FOR UPDATE on the     *)
(* department's counter and the partial unique index on                     *)
(* letters.recorded_from_letter_id.                                         *)
(*                                                                         *)
(* A letter is identified with the request that inserts it: a request       *)
(* inserts at most one.                                                     *)
(***************************************************************************)
EXTENDS Naturals, FiniteSets

CONSTANTS
    Departments,    \* rows of the departments table
    Requests,       \* HTTP requests; also the identities of the letters
    Payloads,       \* what the clients may send
    None            \* SQL NULL

Directions == {"INCOMING", "OUTGOING"}

\* A counter row: (department_id, direction) is its primary key.
Keys == Departments \X Directions

\* dept is the caller's own department.  A record names its outgoing letter in
\* target; a create may name a dispatch department and a letter it continues.
Payload ==
    [kind : {"create", "record"}, dept : Departments, direction : Directions,
     dispatch : Departments \cup {None}, target : Requests \cup {None},
     continues : Requests \cup {None}]

ASSUME ConstantsAssumption ==
    /\ None \notin Departments \cup Requests \cup Payloads
    /\ Payloads \subseteq Payload
    /\ \A p \in Payloads :
          IF p.kind = "record"
          THEN /\ p.direction = "INCOMING"
               /\ p.dispatch = None /\ p.continues = None
               /\ p.target # None
          ELSE p.target = None

VARIABLES
    \* The database, as committed.
    departmentActive,   \* departments whose status is ACTIVE
    letters,            \* rows of letters
    counter,            \* next_number of each counter row, 0 when there is none
    journal,            \* rows of audit_logs and notifications
    \* The open transactions.
    lock,               \* who holds a counter row, or its uncommitted insert
    pending,            \* audit and notification rows not yet committed
    \* The requests.
    request,            \* the payload received
    pc,                 \* the statement the request is about to run
    number,             \* the diary number allocated to its letter, 0 if none
    outcome,            \* what the client was told
    answer              \* the letter the client was told about

database == <<departmentActive, letters, counter, journal>>
vars == <<database, lock, pending, request, pc, number, outcome, answer>>

\* The stages of a request that holds its counter row's lock.
Holding == {"insert_letter", "audit", "notify", "commit"}

Stages == {"idle", "authorize", "validate", "find_outgoing", "find_existing",
           "allocate", "insert_counter", "refind", "respond", "done"} \cup Holding

Outcomes == {"none", "created", "existing", "rejected", "failed",
             "integrity_error", "reraised"}

Audits == {"LETTER_CREATED", "LETTER_RECORDED_FROM_DISPATCH"}
Notices == {"LETTER_REGISTERED", "LETTER_DISPATCHED", "LETTER_RECORDED"}

\* One row of audit_logs (dept: the actor's) or of notifications (dept: the
\* department whose admins receive it).
Rows == [event : Audits \cup Notices, letter : Requests, dept : Departments]

TypeOK ==
    /\ departmentActive \subseteq Departments
    /\ letters \subseteq Requests
    /\ counter \in [Keys -> Nat]
    /\ journal \subseteq Rows
    /\ lock \in [Keys -> Requests \cup {None}]
    /\ pending \in [Requests -> SUBSET Rows]
    /\ request \in [Requests -> Payloads \cup {None}]
    /\ pc \in [Requests -> Stages]
    /\ number \in [Requests -> Nat]
    /\ outcome \in [Requests -> Outcomes]
    /\ answer \in [Requests -> Requests \cup {None}]
    /\ \A r \in Requests : request[r] = None <=> pc[r] = "idle"

Init ==
    /\ departmentActive = Departments
    /\ letters = {}
    /\ counter = [k \in Keys |-> 0]
    /\ journal = {}
    /\ lock = [k \in Keys |-> None]
    /\ pending = [r \in Requests |-> {}]
    /\ request = [r \in Requests |-> None]
    /\ pc = [r \in Requests |-> "idle"]
    /\ number = [r \in Requests |-> 0]
    /\ outcome = [r \in Requests |-> "none"]
    /\ answer = [r \in Requests |-> None]

-----------------------------------------------------------------------------
(* Operators on the state. *)

Key(r) == <<request[r].dept, request[r].direction>>

\* The number a fresh read of the counter row hands out.
NextNumber(k) == IF counter[k] = 0 THEN 1 ELSE counter[k]

\* LetterRepository.find_by_recorded_from_letter_id: committed recordings of o.
RecordingsOf(o) == {l \in letters : request[l].target = o}

\* Move request r to stage s.
Goto(r, s) == pc' = [pc EXCEPT ![r] = s]

\* The endpoint replies; get_db closes the session.
Reply(r, o, l) ==
    /\ Goto(r, "done")
    /\ outcome' = [outcome EXCEPT ![r] = o]
    /\ answer' = [answer EXCEPT ![r] = l]

\* Seeded fault: a session that is never closed keeps its row locks.
LeakyRelease(r) == UNCHANGED lock

\* The transaction of r ends without a commit: its locks, its counter row and
\* its uncommitted rows are gone.
Release(r) == lock' = [k \in Keys |-> IF lock[k] = r THEN None ELSE lock[k]]

Rollback(r) ==
    /\ Release(r)
    /\ pending' = [pending EXCEPT ![r] = {}]
    /\ number' = [number EXCEPT ![r] = 0]

\* The recorder's department is ACTIVE (the caller acts in its own department).
AssertDepartmentAccess(r) == request[r].dept \in departmentActive

\* Seeded fault: a department may dispatch to itself.
SelfDispatchAllowed(r) ==
    LET p == request[r] IN
    IF p.direction = "INCOMING" THEN p.dispatch = None ELSE p.dispatch \in departmentActive

\* An OUTGOING letter names another, ACTIVE department; an INCOMING one none.
ValidDirection(r) ==
    LET p == request[r] IN
    IF p.direction = "INCOMING"
    THEN p.dispatch = None
    ELSE p.dispatch # p.dept /\ p.dispatch \in departmentActive

\* _get_for_access on the continued letter: in the caller's own department.
MayContinue(r) ==
    LET c == request[r].continues IN
    c # None => c \in letters /\ request[c].dept = request[r].dept

\* assert_dispatch_recipient_access; the department's status was cached when
\* the caller was authorized.
DispatchedToCaller(r) ==
    LET o == request[r].target IN
    /\ o \in letters
    /\ request[o].direction = "OUTGOING"
    /\ request[o].dispatch = request[r].dept

\* Seeded fault: the counter is read without FOR UPDATE.
UnlockedCounter(k) == TRUE

\* Nobody else holds the counter row, or an uncommitted insert of it.
CounterFree(k) == lock[k] = None

\* The insert of a recording waits for an uncommitted one of the same
\* recorded_from_letter_id to commit or roll back.
IndexFree(r) ==
    \A q \in Requests \ {r} :
        pc[q] \in {"audit", "notify", "commit"} /\ request[q].target # None
            => request[q].target # request[r].target

\* Seeded fault: the migration that adds the unique index is missing.
NoUniqueIndex(r) == FALSE

\* The insert violates the unique index on recorded_from_letter_id.
IndexConflict(r) ==
    /\ request[r].target # None
    /\ RecordingsOf(request[r].target) # {}

AuditRow(r) ==
    [event |-> IF request[r].kind = "create"
               THEN "LETTER_CREATED" ELSE "LETTER_RECORDED_FROM_DISPATCH",
     letter |-> r, dept |-> request[r].dept]

\* Seeded fault: the receipt links to the new incoming letter, which the
\* dispatching department cannot open.
NoticesToOwnLetter(r) ==
    LET p == request[r] IN
    {[event |-> IF p.kind = "record" THEN "LETTER_RECORDED" ELSE "LETTER_REGISTERED",
      letter |-> r,
      dept |-> IF p.kind = "record" THEN request[p.target].dept ELSE p.dept]}

\* Seeded fault: a dispatch notification for every created letter.
AlwaysDispatched(r) ==
    {[event |-> "LETTER_DISPATCHED", letter |-> r, dept |-> request[r].dispatch]}

\* The notifications r owes: its own department's admins, and the destination's
\* when it dispatches; the dispatching department's when it records.
NoticesDue(r) ==
    LET p == request[r] IN
    IF p.kind = "record"
    THEN {[event |-> "LETTER_RECORDED", letter |-> p.target,
           dept |-> request[p.target].dept]}
    ELSE {[event |-> "LETTER_REGISTERED", letter |-> r, dept |-> p.dept]}
         \cup (IF p.direction = "OUTGOING"
               THEN {[event |-> "LETTER_DISPATCHED", letter |-> r,
                      dept |-> p.dispatch]}
               ELSE {})

-----------------------------------------------------------------------------
(* The environment. *)

\* A client sends a request.
Receive(r, p) ==
    /\ pc[r] = "idle"
    /\ request' = [request EXCEPT ![r] = p]
    /\ Goto(r, "authorize")
    /\ UNCHANGED <<database, lock, pending, number, outcome, answer>>

\* A system administrator activates or deactivates a department meanwhile.
SetDepartmentStatus(d) ==
    /\ departmentActive' = IF d \in departmentActive
                           THEN departmentActive \ {d}
                           ELSE departmentActive \cup {d}
    /\ UNCHANGED <<letters, counter, journal, lock, pending, request, pc,
                   number, outcome, answer>>

\* A statement fails, the process dies or the connection is lost before the
\* commit: the whole transaction is rolled back.
Abort(r) ==
    /\ pc[r] \notin {"idle", "respond", "done"}
    /\ Rollback(r)
    /\ Reply(r, "failed", None)
    /\ UNCHANGED <<database, request>>

-----------------------------------------------------------------------------
(* The statements of a request. *)

Authorize(r) ==
    /\ pc[r] = "authorize"
    /\ IF AssertDepartmentAccess(r)
       THEN /\ Goto(r, IF request[r].kind = "create"
                       THEN "validate" ELSE "find_outgoing")
            /\ UNCHANGED <<outcome, answer>>
       ELSE Reply(r, "rejected", None)
    /\ UNCHANGED <<database, lock, pending, request, number>>

\* create_letter's checks.  The reference data it also looks up, and the
\* classification of the continued letter, may be refused for reasons kept
\* outside this module.
Validate(r) ==
    /\ pc[r] = "validate"
    /\ \/ /\ ValidDirection(r) /\ MayContinue(r)
          /\ Goto(r, "allocate")
          /\ UNCHANGED <<outcome, answer>>
       \/ Reply(r, "rejected", None)
    /\ UNCHANGED <<database, lock, pending, request, number>>

FindOutgoing(r) ==
    /\ pc[r] = "find_outgoing"
    /\ IF DispatchedToCaller(r)
       THEN Goto(r, "find_existing") /\ UNCHANGED <<outcome, answer>>
       ELSE Reply(r, "rejected", None)
    /\ UNCHANGED <<database, lock, pending, request, number>>

\* A repeated Record returns the incoming letter that is already there.
FindExisting(r) ==
    LET recordings == RecordingsOf(request[r].target) IN
    /\ pc[r] = "find_existing"
    /\ IF recordings = {}
       THEN Goto(r, "allocate") /\ UNCHANGED <<outcome, answer>>
       ELSE \E l \in recordings : Reply(r, "existing", l)
    /\ UNCHANGED <<database, lock, pending, request, number>>

\* next_number: SELECT ... FOR UPDATE.  A row that is not there, or not yet
\* committed, is neither seen nor locked.
SelectForUpdate(r) ==
    LET k == Key(r) IN
    /\ pc[r] = "allocate"
    /\ IF counter[k] = 0
       THEN Goto(r, "insert_counter") /\ UNCHANGED <<lock, number>>
       ELSE /\ CounterFree(k)
            /\ lock' = [lock EXCEPT ![k] = r]
            /\ number' = [number EXCEPT ![r] = NextNumber(k)]
            /\ Goto(r, "insert_letter")
    /\ UNCHANGED <<database, pending, request, outcome, answer>>

\* next_number: the lazy INSERT of the counter row.  It waits for a competing
\* insert; if that one commits, the IntegrityError is caught nowhere.
InsertCounter(r) ==
    LET k == Key(r) IN
    /\ pc[r] = "insert_counter"
    /\ CounterFree(k)
    /\ IF counter[k] = 0
       THEN /\ lock' = [lock EXCEPT ![k] = r]
            /\ number' = [number EXCEPT ![r] = 1]
            /\ Goto(r, "insert_letter")
            /\ UNCHANGED <<outcome, answer>>
       ELSE /\ Reply(r, "integrity_error", None)
            /\ UNCHANGED <<lock, number>>
    /\ UNCHANGED <<database, pending, request>>

\* The flush of the letter row.  Losing the race on the unique index rolls the
\* transaction back, the number it allocated included.
InsertLetter(r) ==
    /\ pc[r] = "insert_letter"
    /\ IndexFree(r)
    /\ IF IndexConflict(r)
       THEN Rollback(r) /\ Goto(r, "refind")
       ELSE Goto(r, "audit") /\ UNCHANGED <<lock, pending, number>>
    /\ UNCHANGED <<database, request, outcome, answer>>

\* Seeded fault: the guard answers with its own rolled-back letter.
RefindSelf(r) ==
    /\ pc[r] = "refind"
    /\ Reply(r, "existing", r)
    /\ UNCHANGED <<database, lock, pending, request, number>>

\* After the rollback: the winner's letter, or the error raised again.
Refind(r) ==
    LET recordings == RecordingsOf(request[r].target) IN
    /\ pc[r] = "refind"
    /\ IF recordings = {}
       THEN Reply(r, "reraised", None)
       ELSE \E l \in recordings : Reply(r, "existing", l)
    /\ UNCHANGED <<database, lock, pending, request, number>>

Audit(r) ==
    /\ pc[r] = "audit"
    /\ pending' = [pending EXCEPT ![r] = @ \cup {AuditRow(r)}]
    /\ Goto(r, "notify")
    /\ UNCHANGED <<database, lock, request, number, outcome, answer>>

\* Seeded fault: the receipt of a Record is committed by a session of its own.
ReceiptOutside(r) ==
    /\ pc[r] = "notify"
    /\ journal' = IF request[r].kind = "record" THEN journal \cup NoticesDue(r) ELSE journal
    /\ Goto(r, "commit")
    /\ UNCHANGED <<departmentActive, letters, counter, lock, pending, request,
                   number, outcome, answer>>

\* Each notification is written in a SAVEPOINT of its own and may be lost.
Notify(r) ==
    /\ pc[r] = "notify"
    /\ \E written \in SUBSET NoticesDue(r) :
          pending' = [pending EXCEPT ![r] = @ \cup written]
    /\ Goto(r, "commit")
    /\ UNCHANGED <<database, lock, request, number, outcome, answer>>

Commit(r) ==
    /\ pc[r] = "commit"
    /\ letters' = letters \cup {r}
    /\ counter' = [counter EXCEPT ![Key(r)] = number[r] + 1]
    /\ journal' = journal \cup pending[r]
    /\ pending' = [pending EXCEPT ![r] = {}]
    /\ Release(r)
    /\ Goto(r, "respond")
    /\ UNCHANGED <<departmentActive, request, number, outcome, answer>>

\* refresh and reply.  When either fails the client is told of a failure, and
\* the letter is filed all the same.
Respond(r) ==
    /\ pc[r] = "respond"
    /\ \/ Reply(r, "created", r)
       \/ Reply(r, "failed", None)
    /\ UNCHANGED <<database, lock, pending, request, number>>

-----------------------------------------------------------------------------
Step(r) ==
    \/ Authorize(r)
    \/ Validate(r)
    \/ FindOutgoing(r)
    \/ FindExisting(r)
    \/ SelectForUpdate(r)
    \/ InsertCounter(r)
    \/ InsertLetter(r)
    \/ Refind(r)
    \/ Audit(r)
    \/ Notify(r)
    \/ Commit(r)
    \/ Respond(r)

Next ==
    \/ \E r \in Requests :
          \/ \E p \in Payloads : Receive(r, p)
          \/ Step(r)
          \/ Abort(r)
    \/ \E d \in Departments : SetDepartmentStatus(d)

Spec == Init /\ [][Next]_vars

\* A handler that was started keeps running its statements.  Nothing obliges a
\* client to call, a statement to fail or an administrator to act.
FairSpec == Spec /\ \A r \in Requests : WF_vars(Step(r))


-----------------------------------------------------------------------------
(* Properties. *)

\* The letters filed in the book of k.
FiledIn(k) == {l \in letters : Key(l) = k}

\* Diary numbers of a department and direction run 1, 2, 3, ... with no gap and
\* no repetition, whatever was rolled back or lost a race (next_number's
\* docstring, "no permanent gap"; letter_service.py's allocation before insert).
DiaryGapless ==
    \A k \in Keys :
        /\ {number[l] : l \in FiledIn(k)} = 1 .. NextNumber(k) - 1
        /\ \A l, m \in FiledIn(k) : number[l] = number[m] => l = m

\* A dispatched letter has at most one recording, and it is an INCOMING letter
\* of the department it was dispatched to (unique index, Record's re-check).
RecordedOnce ==
    \A l, m \in letters : request[l].target # None =>
        LET o == request[l].target IN
        /\ o \in letters /\ request[o].dispatch = request[l].dept
        /\ request[m].target = o => l = m

\* What clients are told agrees with the register: whoever succeeds in recording
\* the same dispatched letter is shown the same filed letter, the one told
\* "created" is the one who made it, and the race guard of Record never runs
\* into the error its comment calls unreachable.
AnswersAgree ==
    \A r \in Requests :
        /\ outcome[r] # "reraised"
        /\ outcome[r] = "created" => answer[r] = r /\ r \in letters
        /\ outcome[r] = "existing" =>
              /\ answer[r] \in letters \ {r}
              /\ request[answer[r]].target = request[r].target
        /\ outcome[r] \in {"rejected", "integrity_error", "existing"}
              => r \notin letters

\* The journal is atomic with the register: each filed letter has exactly its
\* own audit row, and no row, audit or notification, outlives a transaction that
\* was rolled back (AuditService.record, "mandatory").  The receipt of a Record
\* names the dispatched letter, filed in any case: it takes a filed recording.
JournalMatchesRegister ==
    /\ \A row \in journal :
          /\ row.letter \in letters
          /\ row.event = "LETTER_RECORDED" => RecordingsOf(row.letter) # {}
    /\ \A l \in letters :
          {row \in journal : row.letter = l /\ row.event \in Audits}
              = {AuditRow(l)}

\* A notification links its recipients to a letter they can act on: their own
\* department's, or, for LETTER_DISPATCHED, one they may record
\* (notify_correspondence_recorded's docstring).
NoticesReachable ==
    \A row \in journal : row.event \in Notices =>
        IF row.event = "LETTER_DISPATCHED"
        THEN request[row.letter].dispatch = row.dept
        ELSE request[row.letter].dept = row.dept

\* Every request that is received is answered, however many others contend for
\* the same counter row and whoever aborts.
EveryRequestAnswered ==
    \A r \in Requests : pc[r] = "authorize" ~> pc[r] = "done"

\* The endpoint's docstring: a second Record of a letter returns the existing
\* recording, "never a duplicate row and never an error": no Record meets the
\* IntegrityError nobody catches once its letter has been recorded.
RecordNeverErrs ==
    [][\A r \in Requests :
          /\ pc[r] # "idle" /\ request[r].kind = "record"
          /\ RecordingsOf(request[r].target) # {}
          /\ outcome[r] = "none"
          => outcome'[r] # "integrity_error"]_vars

-----------------------------------------------------------------------------
(* The registers implement the diary books. *)

\* The lines of the book of k: the letter that has each diary number.
BookOf(k) ==
    [n \in 1 .. NextNumber(k) - 1 |-> CHOOSE l \in FiledIn(k) : number[l] = n]

Diary == [k \in Keys |-> BookOf(k)]

SentTo == [l \in Requests |-> IF l \in letters THEN request[l].dispatch ELSE None]

RecordedAs ==
    [o \in Requests |-> IF RecordingsOf(o) = {} THEN None
                        ELSE CHOOSE l \in RecordingsOf(o) : TRUE]

Book == INSTANCE DiaryBook WITH
    Letters <- Requests, diary <- Diary, sentTo <- SentTo, recording <- RecordedAs

\* Every commit writes one line in one book, every other step writes none.
ImplementsDiaryBook == Book!Spec

=============================================================================
