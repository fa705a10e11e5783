# Letter Registry System: TLA+ models and proofs

The Letter Registry System registers the letters a public office receives and
sends. A FastAPI backend (`src/backend/app`) keeps everything in PostgreSQL
through SQLAlchemy; a React client (`src/frontend/src`) drives it. This directory
holds TLA+ modules that model the parts of the system whose correctness depends
on the order in which things happen, TLC configurations that check small
instances of them, and TLAPS proofs that hold for every instance.

All paths below are relative to `src/backend/app` unless they start with
`frontend/`.

## 1. How the program executes

* Every HTTP request gets its own SQLAlchemy session (`database/session.py:50-60`)
  and so its own PostgreSQL transaction. Handlers are synchronous and run in a
  thread pool: any two requests interleave between any two SQL statements.
* The engine sets no isolation level, so PostgreSQL's default READ COMMITTED
  applies: each statement sees what was committed when the statement started.
  There is no version column on any table.
* `autoflush=False, expire_on_commit=False` (`database/session.py:38-46`): a row
  that a session has loaded keeps its attribute values in the identity map until
  a refresh or a rollback, even when another session commits a change. A decision
  taken on a loaded row may therefore be stale, and a later UPDATE of that row
  overwrites only the columns the session changed.
* Closing the session without commit rolls back: locks, inserted rows and counter
  updates disappear together.
* An unhandled exception becomes a 500 and rolls back. An exception after
  `session.commit()` (in `session.refresh`, or when the reply is lost) also
  becomes an error for the client, with the work already durable.

## 2. Inventory

| Component | State | Operations | Interacts with | What makes it correct |
|---|---|---|---|---|
| Letter registration (`services/letter_service.py`, `repositories/letter_sequence_repository.py`) | `letters`, `letter_number_sequences` | `create_letter`, `record_incoming_correspondence` | departments (status), audit and notifications (same transaction) | diary numbers gapless and unique per department and direction; a dispatch recorded once, by its destination; truthful answers; audit atomic with the letter |
| Letter maintenance (`update_letter`, `archive_letter`) | columns and `status` of a letter | update, archive | audit | the audit trail describes real transitions; archived letters stay readable |
| Letter access and search (`services/authorization.py`, `repositories/letter_repository.py`) | none of its own | `assert_letter_access`, `letter_visibility_filter`, list, aggregate | users, departments, classifications | the list filter and the single-letter check agree; pages and counts agree |
| Accounts (`services/user_service.py`, `admin_service.py`, `auth_service.py`, `bootstrap_service.py`) | `users`, `user_authorizations` | authorize, revoke, signup, login, approve, deactivate, reactivate, change department, bootstrap | departments, audit | one account per authorization and address; no activation without approval; status, authorization and audit agree |
| Documents (`services/document_service.py`, `document_storage.py`, `document_validation.py`) | `letter_documents`, files under the storage root | upload, list, download | letters (access), audit | no committed row without its file |
| Reference data (departments, categories, classifications, designations) | four tables with a status | create, update, activate, deactivate | letters and accounts validate against it | unique names; idempotent transitions audited once |
| Notifications (`services/notification_service.py`, `frontend/src/components/Notification*.jsx`) | `notifications`; the bell's counter | generate, list, unread count, mark read, mark all read | letters; polled by the client | best effort never fails a registration; links only to usable letters; the bell converges to the server's count |
| Audit (`services/audit_service.py`) | `audit_logs` | record | every writer | append only, atomic with what it describes |
| Client session (`frontend/src/context/AuthContext.jsx`, `services/apiClient.js`) | token, user, status | restore, login, logout, 401 interceptor | backend auth | a late answer never ends or revives another session |
| Registry list (`frontend/src/pages/LetterListPage.jsx`) | query, page, rows | fetch, page, filter | backend list | the rows shown belong to the query shown |
| HTTP layer (`api/`) | none | endpoint functions, error mapping, role dependencies | services | every service error maps to a status |
| Schemas, configuration, migrations, tests, styling, static pages | – | – | – | not behaviour over time |

The behaviours that are hard to test are listed one by one under `hazards` in
`PROJECT.json`, each at the line where it bites.

## 3. Plan

The modules, in order of importance.

| Module | Models | Status |
|---|---|---|
| `LetterRegistry`, `DiaryBook` | registration, detailed and abstract | modelled; `LetterRegistryProofs`, `DiaryBookProofs` (section 4) |
| `Accounts` | authorizations, signup, account status | modelled; `AccountsProofs` (section 5) |
| `Documents` | files and rows written by one request | modelled; `DocumentsProofs` (section 6) |
| `LetterMaintenance` | update and archive against the audit trail | modelled; `LetterMaintenanceProofs` (section 7) |
| `LetterAccess` | list filter, aggregates and single-letter check | modelled; `LetterAccessProofs` (section 8) |
| `ReferenceData` | creation, update, activation and deactivation in the four reference tables, their unique names, and what is audited | modelled; `ReferenceDataProofs` (section 9) |
| `ClientSession` | restore, login, logout and the 401 interceptor of the client | modelled (section 10) |
| `NotificationBell` | marking as read on the server, polling and reordered answers in the client | modelled (section 10) |
| `RegistryList` | overlapping fetches of the list page | modelled (section 10) |
| `Client` | the composition of the three in one tab | modelled; `ClientProofs` (section 10) |

Not planned: the pages of the client that only render what one request answers.
Open: `NotificationsPage` beside the panel, and the dashboard's overlapping
fetches.

Every invariant, action property and refinement of the passing runs has a theorem;
what is left to TLC is liveness (section 11). Open for proofs: whatever the two open
models above will need.

Each module with theorems is written for the provers too: no RECURSIVE operator,
parameters under a named assumption, one action per statement of the code.

## 4. Registration

### 4.1 What is modelled

`LetterRegistry` runs any number of concurrent requests through the statements
of `create_letter` and `record_incoming_correspondence`. A request is one
transaction; the stage it is in (`pc`) is the statement it is about to run.

| State | In the code |
|---|---|
| `departmentActive` | `departments.status` |
| `letters`, `request[l]`, `number[l]` | the committed rows of `letters`; the payload of a letter's request holds its columns; `number` is `diary_number` (stored as text, compared here as the number it prints) |
| `counter[k]` | the committed `next_number` of the row `k`, 0 for "no row" |
| `lock[k]` | the transaction that holds row `k` FOR UPDATE, or whose INSERT of row `k` is uncommitted |
| `pending[r]`, `journal` | audit and notification rows before and after the commit |
| `outcome`, `answer` | the reply: 201, 200 with the existing letter, a 4xx refusal, or a 5xx, split by cause |

| Action | In the code |
|---|---|
| `Receive` | the request arrives; the payload is what the schemas let through |
| `Authorize` | `assert_department_access` of the caller's own department |
| `Validate` | the reference-data, direction, designation and continuation checks of `create_letter`. Reference data outside this module may refuse any create |
| `FindOutgoing`, `FindExisting` | the 404 and the idempotency read of Record |
| `SelectForUpdate`, `InsertCounter` | `next_number`: the locking read, and the lazy INSERT with its unguarded primary key |
| `InsertLetter`, `Refind` | the flush against `uq_letters_recorded_from_letter_id`, and the race guard after its rollback |
| `Audit`, `Notify`, `Commit`, `Respond` | the tail both operations share; each notification has its own SAVEPOINT and may vanish alone; a reply may fail after the commit |
| `Abort` | any statement fails, the worker dies, the connection drops: rollback |
| `SetDepartmentStatus` | an administrator activates or deactivates a department between any two statements |

A client's retry is another request with the same payload.

`DiaryBook` is the promise: each department has one book per direction; a letter
takes the next line of one book and keeps it; a dispatched letter is recorded at
most once, in its destination's INCOMING book. It has no sessions, locks or
failures. `LetterRegistry` maps `counter` and `number` to the lines of the books,
so only `Commit` is visible.

### 4.2 What is checked

| Run | Shows |
|---|---|
| `registration` | on three interchangeable requests in two departments: `TypeOK`, `DiaryGapless`, `RecordedOnce`, `AnswersAgree`, `JournalMatchesRegister`, `NoticesReachable`; and, as a property, the refinement `ImplementsDiaryBook` |
| `registration_live` | three contending requests: every request that arrives is answered |
| `record_never_errs` | expected to fail: see 4.4 |

*Bounds.* Three requests are a dispatch and the two Records that race for it, or
two Records and a walk-in letter on the same counter row, or a dispatch, its
reply and the reply's recording. Two departments are the least a dispatch needs.
Nothing else is bounded: numbers, aborts and status changes are limited only by
the requests. Payloads include the misuse the code must refuse (a dispatch to
oneself, a Record by the wrong department or of a letter that was never
dispatched, a reply to a letter not in the caller's department). Requests are a
symmetry set except for liveness.

*Fairness.* `FairSpec` assumes weak fairness of each request's own steps: a thread
that was started keeps running, and a lock wait ends when the lock is free. It
assumes nothing of clients, failures or administrators. A request waits for a
lock only while a finite number of others go first, so weak fairness suffices.
That no request waits for ever is `registration_live`'s to show. TLC's deadlock check
shows nothing here, because an administrator can always switch a department.

### 4.3 What is proved

`LetterRegistryProofs`, for every set of departments, requests and payloads
satisfying `ConstantsAssumption` (payloads are what the schemas accept):
`TypeCorrect`, `DiaryCorrect`, `RecordedOnceCorrect`, `AnswersCorrect`,
`JournalCorrect` and `NoticesCorrect`; `DiaryBookProofs`, under the same assumption,
`DiaryBookImplemented`: the refinement of `DiaryBook`.

None of these is inductive. For the register itself `IInv` adds to TypeOK:

* `Branch`: which of the two operations a stage belongs to;
* `Register`: filed letters are exactly the committed requests; a Record past its
  access check, or filed, names a committed letter dispatched to its department;
* `Locks`: the holder of a counter row is between allocation and commit and holds
  the number the committed row would hand out, and conversely. This is the heart
  of the argument: it is why an abort leaves no gap and why a commit closes none;
* `Lines`: `DiaryGapless` stated point by point;
* `Recordings`: while one recording is between its insert and its commit no
  recording of the same letter is committed. It follows from `Locks`, because all
  recorders of one letter belong to its destination and share one counter row
  (`RecordersShareKey`). The unique index thus only ever sees committed rivals.

Each part has a lemma saying a step preserves it, with one step per action.
TypeOK needs `Register` too: the rows a notification writes name the department
of the outgoing letter, which must have been received.

What the statements write besides the register is a second invariant, `WInv`, shown
by steps that may assume `IInv` before and after:

* `Answers`: `AnswersAgree` with the stage that gave the answer. A Record that
  re-reads after losing the race (`refind`) finds a filed recording: the index
  refused it because of one, and letters are not deleted. This is why the branch that
  re-raises is dead;
* `Pending`: between its insert and its commit a request has its audit row and some
  of the notifications it owes, and nobody else has uncommitted rows, so a commit
  brings the journal exactly what the letter calls for. A receipt comes with the
  commit of the Record that owes it; the dispatched letter it names is filed in any
  case, which is why `JournalMatchesRegister` asks for a filed recording as well;
* `Undispatched`: an INCOMING letter is dispatched to nobody, so a recording owes no
  dispatch notice.

*Refinement.* `BookOf(k)` is the sequence whose line n is the filed letter of book k
with number n, and `RecordedAs[o]` the filed recording of o. Both are CHOICEs, and
`IInv` leaves them no choice: by `Lines` each number up to the counter has one letter
(`BookLinesHold`), by `Recordings` a letter has one recording
(`RecordingsPinnedHold`). A step that commits nothing leaves both alone
(`BooksKept`). A commit appends one letter to one book (`CommitEnters`): by `Locks`
its number is the one the counter row would hand out, which is the length of the book
plus one. That is `DiaryBook`'s step for a Record (`RecordStep`) or for a create
(`CreateStep`).

### 4.4 Divergence found

`record_never_errs`: the Record endpoint's docstring promises that a second call for
the same outgoing letter returns the existing recording, "never a duplicate row and
never an error". When the department's INCOMING counter row has never been used,
`SELECT ... FOR UPDATE` locks nothing, two simultaneous Records both insert the row,
and when one has committed its recording the other's `IntegrityError` is raised
outside the `try` that guards the letter's insert: a 500. The property speaks of
Records whose letter has been recorded when they fail. (A Record also fails so when
it loses the row to a walk-in letter; the docstring does not speak of that.) Nothing
is corrupted (all of 4.2 holds), and a retry succeeds.

### 4.5 Left out

Letter text, sender data and reference numbers (copied, never compared), the
visibility of a continued letter beyond its department (a nondeterministic
refusal), the text form of a diary number, the exact recipients of a
notification (a department's active admins are one addressee).

## 5. Accounts

### 5.1 What is modelled

`Accounts` interleaves the transactions that create accounts and change their
status. An ADMIN manages the USERs of its department (`user_service.py`), a
SYSTEM_ADMIN manages ADMINs (`admin_service.py`), anybody may sign up
(`auth_service.py`), and an operator may run the bootstrap command
(`bootstrap_service.py`). The operations of the two services are the same up to
the role managed, which is the field `role` of a request.

| State | In the code |
|---|---|
| `users[u]` | the rows of `users`; `origin` is the authorization the signup consumed, which the code does not store |
| `authorizations[a]` | the rows of `user_authorizations`; `older` carries the order of `created_at`, which is the start of the inserting transaction |
| `journal` | the rows of `audit_logs` on both |
| `lock[a]` | the signup that holds row `a` FOR UPDATE |
| `pc`, `loaded`, `candidates` | a request's next statement, the row its session loaded or prepared, and the rows its locking read has yet to try |

| Action | In the code |
|---|---|
| `CheckAuthorize`, `WriteAuthorize` | `authorize_user`, `authorize_admin`: the reads that refuse, then the insert |
| `CheckRevoke`, `WriteRevoke` | `revoke_authorization`: decided on the row loaded; the UPDATE waits for a signup that holds the row |
| `FindActive`, `LockActive`, `NotAuthorized` | `find_and_lock_active`: the snapshot, then row by row the lock and the WHERE clause evaluated again |
| `InsertUser`, `CommitUser` | the flush against `uq_users_email_lower`, and the commit that also consumes the authorization |
| `CheckBootstrap` | `create_system_admin`, which then shares the two steps above |
| `CheckLifecycle`, `WriteLifecycle` | approve, deactivate, reactivate: the checks, then an UPDATE of the status if it differs from the one loaded |
| `CheckMove`, `WriteMove` | `change_admin_department` |
| `Receive`, `Abort`, `SetDepartmentStatus` | the environment: requests, failures and dying workers, departments switched on and off |

The reads of one operation that come before its write are one step. They take no
locks and what they found may be stale by the time of the write, which the step
between check and write allows already.

### 5.2 What is checked

| Run | Shows |
|---|---|
| `accounts` | four interchangeable requests of every kind: `TypeOK`, `OneAccountPerAddress`, `AccountsAuthorized`, `RevocationFinal`, `ConsumesActive` |
| `accounts_live` | `EveryRequestEnds` for requests that wait for each other's row lock and index entry |
| `revoke_used` | expected to fail: see 5.4 |

*Bounds.* Four requests are the least in which an address is authorized twice (as
ADMIN and as USER, or by two administrators at once), signed up for, and then
revoked, approved or bootstrapped. One address suffices for uniqueness to be at
stake; the second belongs to the operator. Two founders, a SYSTEM_ADMIN and an
ADMIN, are the callers; deactivating the ADMIN and bootstrapping while no
SYSTEM_ADMIN serves are among the payloads. Requests are a symmetry set, except
for liveness, which has three.

*Fairness.* Weak fairness of each request's own steps, as in 4.2. A signup waits
for an authorization's row while it holds nothing and for an index entry while it
holds one authorization; whoever holds the index entry waits for nothing. Deadlock
is checked.

### 5.3 What is proved

`AccountsProofs` proves `TypeCorrect`, `OneAccountCorrect`,
`AccountsAuthorizedCorrect`, `ConsumesActiveCorrect` and `RevocationCorrect` from
`AccountsAssumption` (founders are ACTIVE and of distinct addresses, payloads are
what the schemas accept). The inductive invariant `IInv` is TypeOK with

* `Sessions`: what a stage says of payload and loaded row; a request that is not
  done has inserted nothing;
* `Targets`: the row a writer is about to update exists and has the role, or the
  creator, that was checked. Statuses may have changed since, so nothing is said
  of them;
* `Locked`: a signup between lock and commit holds an ACTIVE authorization that
  agrees with the account it inserts. A revocation waits for the lock and another
  signup cannot have it, so the row is still ACTIVE when it is consumed;
* `Index`: an uncommitted insert has its address to itself;
* `Origins`: `AccountsAuthorized` point by point, stating "no longer ACTIVE"
  where one would like to say USED. USED is not invariant (5.4); that an
  authorization never becomes ACTIVE again is, and is what keeps two accounts
  from sharing one.

`RowsKept` (rows are never deleted and keep their identity), `OneMoves` (a step
moves one request) and `StageOf` (from which stage to which) carry the case
analysis.

`RevocationFinal` has an invariant of its own on top, `Revocations`: the revoked
authorizations and the audit rows of revocations name each other, each row by the
creator of what it revokes. The step that could break it is a signup's: it
consumes the row it locked, which `Locked` says is ACTIVE, so never a revoked one.

### 5.4 Divergence found

`revoke_used`: `revoke_authorization` promises to reject an authorization that
produced an account. It tests the status it loaded, and the UPDATE, which waits
for the signup's lock, is unconditional: the signup's USED becomes REVOKED, audited
as a revocation of an ACTIVE one, with the account in place.

Known, and part of the model without a run of its own: `reactivate_admin` and
`reactivate_user` accept any status, so an account that is PENDING_APPROVAL
becomes ACTIVE without approval and without an audit row
(`src/docs/architecture/admin-management.md:327-328` counts on the contrary). Two
approvals that both loaded PENDING_APPROVAL both succeed, and the journal holds
two approvals of one account, although `approve_admin`'s docstring (`services/admin_service.py`,
lines 120-122) calls approval a one-time event and promises to reject the second,
and `src/docs/architecture/audit-notifications.md` (1160-1169) promises a row for a
genuine transition only. An approval that was checked before a deactivation
overturns it; two SYSTEM_ADMINs can be bootstrapped at once.

### 5.5 Left out

Login and the token (login writes nothing; every request reloads the account,
which `Authenticated` models), passwords and names. `expires_at` is tested by the
queries and set by no code, so no authorization expires.

## 6. Documents

### 6.1 What is modelled

`Documents` follows an upload through the file system and the transaction, and a
download through row and file. No transaction spans the two.

| State | In the code |
|---|---|
| `rows` | committed rows of `letter_documents` |
| `temporary`, `file` | what is at the document's temporary and final path: nothing, a part, or all of it |
| `orphanLog` | files whose clean-up failed, named in the log |
| `upload`, `target`, `pc`, `outcome` | requests, their stages and the answers |

| Action | In the code |
|---|---|
| `Admit` | `get_letter` and `validate_upload`; `Valid` is the agreement of extension, size and signature |
| `Stage`, `Fsync`, `Replace`, `StorageFails` | `write_document_file` |
| `Insert`, `Commit`, `Refresh`, `DatabaseFails` | the try block of `upload_document`, up to the refresh after the commit |
| `Cleanup`, `CleanupFails` | the except block: `delete_document_file` |
| `FindDocument`, `OpenFile` | the download endpoint |
| `Crash` | the worker dies at any stage |

### 6.2 What is checked and proved

| Run | Shows |
|---|---|
| `documents` | two uploads, two downloads, a crash or failure at every step: `TypeOK`, `NoPartialFile`, `AcknowledgedServed`, `OrphansExplained`, `RowAfterFile` |
| `row_has_file` | expected to fail: see below |

*Bounds.* Documents do not share paths, so two of each request show all there is
to see between them: two downloads of one document at different times, and two
uploads of which one fails. The contents are one of each reason to be refused and
a valid one. A request is handled once, so the system comes to rest, and deadlock
is not checked.

`DocumentsProofs` proves all of the above for any number of requests and any
contents. `IInv` adds `UploadOrder` (what a stage says of row and file),
`Answers` ("created" is answered last and its document stays) and
`DownloadOrder` (a download that missed the file will go on missing it). That last
part needs that no answer of an upload is followed by another step of it, which is
why `Answers` speaks of all requests.

*Divergence.* `row_has_file`: the refresh after the commit is inside the try block.
When it raises, or the commit's acknowledgement is lost, the compensation deletes
the file of a committed row: the worse of the two failures that comment and
document say the ordering avoids. The client was told of an error, so
`AcknowledgedServed` holds.

*Left out.* Listing (reads rows only), audit rows of uploads, the sharing of
directories between documents, power loss between rename and directory flush.

## 7. Letter maintenance

`LetterMaintenance` is one registered letter under concurrent `update_letter` and
`archive_letter`. Letters share no columns, so one stands for all.

| State | In the code |
|---|---|
| `letter` | the audited columns and `sender_designation` of the committed row |
| `trail` | its audit rows: a set, ordered by nothing but their `createdAt` |
| `active` | reference rows that are ACTIVE |
| `loaded[r]` | the row as r's session read it: the identity map is not refreshed |
| `began[r]` | `now()` in r's transaction, which is the time it began; `created_at` of r's audit rows |
| `clock`, `committed[r]` | time, and when r committed: the latter is history, no column stores it |

| Action | In the code |
|---|---|
| `Receive` | the request arrives; `get_current_user`'s SELECT begins its transaction |
| `Load` | `_get_for_access` and the validation of the reference data, which may refuse |
| `Write` | the flush (an UPDATE of the columns that changed, `UpdatedRow`), the audit rows (`UpdateRows`, `ChangeRows`) and the commit |
| `Abort`, `SetReferenceStatus` | the environment |

Run `maintenance` checks `TypeOK` and:

- `TrailExplainsRow`: the value of an audited field is the new value of an audit row
  of that field, and no audit row of a transaction that began after that row was
  committed says otherwise. This is all that `created_at` can promise; it fails when
  an update takes another column's committed change back.
- `OldValuesReal`: the old value of an audit row was the field's value at some time
  while its transaction ran.
- `ArchivedForever`: an update that read the letter before does not undo archiving.

Three requests are the least in which one update is read before and written after
two others. The payloads change the classification to and fro, assign a new
designation, echo the old one with another text (which must not override it), set a
first category, and archive. Requests that end leave only the environment to act.

*Known*, part of the model and excluded by no property:

- Timeline: `src/docs/architecture/audit-notifications.md`
  (lines 875-880) defines the letter's timeline as its audit rows `ORDER BY
  created_at`. That column has the server default `now()`, the start of the
  transaction. An update that begins first and commits last has the older row and the
  value that stands, so the timeline ends with a value the letter does not have;
  `TrailExplainsRow` therefore speaks only of rows whose order the column can tell.
- Archiving: two archivings that overlap both write
  LETTER_ARCHIVED, where the same document (1150-1153) and the comment in
  `archive_letter` promise a row for a genuine transition only.

*Proved.* `LetterMaintenanceProofs`, for any number of requests, reference rows and
values, under `MaintenanceAssumption`: `TypeCorrect`, `TrailCorrect`,
`OldValuesCorrect` and `ArchivedCorrect`. The invariant `IInv` adds three parts.
`Times`: an audit row's `createdAt` is before its commit, and its request is over.
`LastCommitted`: of the rows of a field, the one committed last has the letter's
value, because a write adds a row for exactly the audited columns its UPDATE sets;
columns it leaves out keep both their value and their rows, whatever was loaded. With
`Times` this gives `TrailExplainsRow`. `Sessions`: each value a request loaded is one
the field has had since the request's transaction began (`Had`), which later commits
do not change (`HadGrows`); old values are taken from it, hence `OldValuesReal`.

Left out: text columns that have no audit event of their own, and the letter's
department, which never changes.

## 8. Letter access

`LetterAccess` states the access policy in the forms in which the code has it
and lets everything the policy depends on change.

| Definition | In the code |
|---|---|
| `DepartmentAccess`, `CanView` | `assert_department_access`, `assert_letter_access` |
| `VisibilityFilter`, `RestrictsIsFalse`, `Matching`, `RecipientDepartment` | `letter_visibility_filter`, whose LEFT JOIN yields NULL for an unclassified letter, and the conditions shared by list and aggregates |
| `Aggregate` | the GROUP BY of the dashboard |
| `Precedes`, `Listings`, `PageOf` | ORDER BY, LIMIT, OFFSET; `Listings` is every order SQL allows |
| `Receive`, `Count`, `Fetch` | `GET /letters`: two statements with a snapshot each |
| `File`, `Reclassify`, `SetRestrictsAccess`, `SetDepartmentStatus` | what other transactions commit in between |

Run `access` checks, in every state of a registry of three letters, that list and
single-letter check agree for each role and each department asked for
(`ListMatchesCheck`), that the buckets of the aggregates count the letters that
could be opened (`AggregatesMatchCheck`), and that turning the pages of an
unchanged registry shows each letter once (`PagesPartition`). Two letters have the
same date, so a page boundary meets a tie; three letters on pages of two make the
last page a short one. The four callers are a SYSTEM_ADMIN, an ADMIN and a USER of
one department and a USER of another.

Known: the list and the dashboard never ask for the status of the caller's
department, although the service's docstring says that an inactive one blocks "even
a plain read" (`services/letter_service.py:12-17`). `ListMatchesCheck` and
`AggregatesMatchCheck` are therefore stated for callers of ACTIVE departments.

Known: count and page have different snapshots, so a page may hold more rows than
the total it comes with. `Receive`, `Count` and `Fetch` show that and no more: the
three properties speak of each snapshot by itself.

*Proved.* `LetterAccessProofs`, for any users, departments, classifications, page size
and set of letters, however large, under `AccessAssumption`: `TypeCorrect`,
`ListCorrect`, `AggregatesCorrect` and `PagesCorrect`. The invariant is TypeOK and
that the letters filed so far are finitely many, without which a listing would not
exist. List and aggregates agree with the single-letter check by the case analysis of
the roles; the policy has no state besides what it reads, so TypeOK suffices. The
pages are harder, because each is a query that may be answered in any order SQL
allows: the secondary sort key makes `Precedes` a strict total order, in which the
position of a letter in a listing is the number of letters that do not come after it;
so all listings are the same one, and its pages are slices of the row numbers
(`Slices`), which cover them and do not overlap. Without the secondary key the first
of these facts fails (`PrecedesByDate`, the seeded fault, puts a letter on two pages).

Left out: text, date, direction and status filters (further conjuncts of the
conditions that list and aggregates share), and roles and departments of accounts
that change while a list is read (every request loads its caller once).

## 9. Reference data

### 9.1 What is modelled

`ReferenceData` runs overlapping requests of SYSTEM_ADMINs on the four reference
tables through the statements their services share. No service looks before it
writes: names and codes are unique because the indexes are. The module therefore
models what PostgreSQL does to a statement that meets another transaction's row or
index entry: it waits until that transaction ends, and one of the transactions
that wait for each other is failed.

| State | In the code |
|---|---|
| `rows` | the committed rows of `departments`, `categories`, `classifications`, `designations`; `detail` stands for `code`, or for the columns that have no index |
| `audited[i]` | the status given by the newest CREATED, ACTIVATED or DEACTIVATED audit row of row `i` |
| `changes` | the UPDATED audit rows with their `changed_fields` |
| `loaded[r]`, `draft[r]` | the row as r's session read it; the row version it has written and not committed |

| Action | In the code |
|---|---|
| `Load` | `get_department` and its like, which answer 404 |
| `Insert`, `Update` | the INSERT or UPDATE of the flush: only the columns that differ from the row loaded, and none if nothing differs; an UPDATE waits for whoever has written the row |
| `EnterName`, `EnterCode` | the statement's entry in the unique indexes; an `IntegrityError` becomes a 409 |
| `Commit` | the audit row, as the service decides it from payload and loaded row, and the commit |
| `DeadlockVictim` | the statement PostgreSQL fails to break a circle of waits |
| `Receive`, `Abort` | requests, failing statements and dying workers |

Designations compare names by `lower()`, categories and classifications and
departments by equality; departments alone have a unique code; and
`update_department` writes no audit row.

### 9.2 What is checked

Run `reference_data`: `TypeOK`; `NamesUnique`; `TrailEndsAtStatus`; `ChangesAudited` (a column changes only in a commit whose audit
row names it, although what is audited comes from the payload and what changes from
the row loaded); and, under fairness, `EveryRequestEnds`.

*Bounds.* Three requests are a row's creation and two that race for its name, or
two renamings that swap two names and a third that wants one of them. The payloads
have names that differ by case only, codes given up and taken over, and both status
changes of one department. Classifications take the steps of categories and are
left to the proofs.

*Fairness.* Weak fairness of each request's own statements; being the victim of a
deadlock is one, because PostgreSQL looks for circles whenever a wait lasts
(`deadlock_timeout`). A wait has no other end than the other transaction's, so the
property fails if an error path leaves the session open. Requests that end leave
nothing to do, so deadlock is not checked as such.

### 9.3 What is proved

`ReferenceDataProofs` proves `TypeCorrect`, `NamesUniqueCorrect`, `TrailCorrect`
and `ChangesAuditedCorrect` from `ReferenceDataAssumption`, for any
number of requests and any folding of names. `IInv` adds

* `Sessions`, `Drafts`: what a stage says of payload, loaded row and draft. The
  draft agrees with the committed row in every column the request does not change;
* `Locks`: one request at a time has a draft of a row. That is why the committed
  row under a draft stays as it was;
* `NameEntries`, `CodeEntries`: a draft past an index entry has the name (the
  code) to itself among the committed rows and the other drafts past it. These
  carry uniqueness from the statement to the commit;
* `StatusWritten`: a status written differs from the committed one, so a
  status is audited exactly where it changes;
* `ChangesDone`: audit rows are those of requests that ended, hence new in the
  step that writes them.

### 9.4 Known

* Two renamings that swap two names, or a creation that overlaps both, deadlock.
  PostgreSQL raises an `OperationalError` in one of them; only `IntegrityError` is
  caught, so the client gets a 500.
* Two deactivations that overlap both write an audit row.
* `update_department` writes no audit row, where
  `src/docs/architecture/department-management.md`, section 10, plans one; its own
  docstring promises none.
* Activating a row that was loaded ACTIVE answers 200 even if it was deactivated
  meanwhile.
* `created_at` of an audit row is the start of its transaction, so sorting the
  journal by it may differ from commit order, which is the order of this module.

## 10. The client

### 10.1 What is modelled

`Client` is one browser tab: the session (`ClientSession`) and, mounted only while
somebody is signed in, the notification bell with its panel (`NotificationBell`)
and the letter registry (`RegistryList`). They share the calls under way. A call is
sent with the token stored at that moment, handled by the server at some later
moment, and its answer delivered at some later one; calls overtake each other and
are never cancelled, which is how `services/apiClient.js` and its callers work.

| State | In the code |
|---|---|
| `stored` | the token in `localStorage` |
| `status`, `user`, `restoreError` | the state of `AuthContext` |
| `calls` | requests under way: what was asked, with which token, who still listens (`reach`), and the answer once the server has given it |
| `issued`, `refused` | the server's view of tokens: issued, and no longer accepted |
| `sent`, `read` | the notifications of the server |
| `visible`, `badge`, `panel` | the tab's visibility; `unreadCount`; the open panel with its items and the one being marked |
| `pages` | `total_pages` of each filter on the server |
| `query`, `shown`, `loading`, `failed` | the URL's query and the state of `LetterListPage` |
| `mixed`, `newest`, `late` | history variables for the two exceptions in 10.4 |

| Action | In the code |
|---|---|
| `SubmitLogin`, `RetryRestore`, `Logout`, `Reload` | what the user does with the session |
| `RestoreAnswered`, `LoginAnswered`, `Unauthorized` with `ClearSession` | the continuations of `restoreSession` and `login`, and the response interceptor |
| `Refuse`, `ServeMe`, `ServeLogin`, `ServeBell`, `ServeLetters` | `get_current_user` and the endpoints |
| `Poll`, `Hide`, `Show` | the interval and `visibilitychange` |
| `OpenPanel`, `ClosePanel`, `MarkRead`, `MarkAllRead` and their `...Answered` | `NotificationPanel` |
| `Visit`, `Refresh`, `LettersAnswered` | `LetterListPage`: URL changes, and the answer with its clamp |
| `LeaveList`, `LettersDropped` | going to another page, and the answer that comes after: nothing is shown, but the clamp's `setSearchParams` still navigates, with the old page's query, from wherever the tab is by then |
| `Follow`, `Mount`, `Unmount` | `ProtectedRoute`: the shell comes and goes with the status |
| `Fail`, `StopAccepting`, `OtherTab`, `Notify`, `Refile` | the environment: lost calls and answers, failing servers, expiry and deactivation, other tabs, other users |

### 10.2 What is checked

Run `client`:

| Property | Says |
|---|---|
| `IdentityMatchesToken` | a tab that shows a user holds a token of that user |
| `PanelTruthful` | what the panel shows as read is read |
| `ListAtRest` | once no fetch is under way the page shows the query of its URL, not beyond the last page |
| `BootEnds` | the boot screen goes away |
| `BadgeConverges` | in the end the badge of a visible tab is the number of unread notifications, and stays so |
| `DeadSessionEnds` | a token the server refuses does not leave a visible tab signed in |

*Bounds.* `MaxCalls` = 2 calls under way let any two overtake each other: a poll
and a mark, a late 401 and a restore, two fetches. `MaxEvents` = 3 bounds what
people, other tabs and the network do; polls, new notifications, closing the panel
and everything the server and the answers do are not counted. Three events are, for
example, open the panel, mark, and mark all; or visit, have a letter archived, and
visit another page; or lose the first restore, retry and lose it again. Leaving the
list is not counted either, so that its late answer meets a list opened since: visit
a page, have its letters archived, leave and visit another filter. Two accounts
have a token each; both notifications belong to one of them, so a foreign badge
shows.

*Fairness.* The server handles every call, every answer is delivered, and the
interval fires again and again while the tab is visible: browsers throttle timers
but do not stop them there. Nothing is assumed of users, nor of the order of
answers. With the events bounded, convergence says what happens once people and
the network leave the tab alone. A tab may rest signed out, so deadlock is not
checked.

### 10.3 What is proved

`ClientProofs` proves `TypeCorrect`, `IdentityCorrect`, `PanelCorrect` and
`ListCorrect` from the named assumptions, for any number of accounts, tokens,
notifications, filters, calls and events.

*Identity.* The invariant `IInv` adds that a restore, unless a
login overlapped it, is the only call under way and was sent with the token that is
still stored (`RestoreAlone`); that while a retry is offered only logins are under
way (`OnlyLogins`); that the shell's calls are detached while nobody is signed in
(`ShellSignedIn`); and that logins answer with tokens. `MoveKeeps` is the argument
for all steps that leave the session alone: a step may answer calls, end them,
detach them, or start calls of a signed-in shell, and nothing else.

*What the shell shows.* `ShellInv`, on top of `IInv`, has these parts:

* `CallsFit`: each call has the shape of its kind, and its answer, right when it was
  given, is right now: notifications are sent and read, never the reverse
  (`FitGrows`). Only so can an answer that was overtaken still be shown;
* `PanelCalls`: the calls that an open panel listens to are its one listing, before
  anything is listed, or marks of what was listed;
* `PanelOwn`, unless `mixed`: these calls carry the stored token, and what the panel
  shows as read is read. An answered "Mark all read" has marked all that is listed,
  because the panel's items stay the ones it had when the call was made, and those
  had been sent.
  `LoginAlone` is needed here: an answered login changes the stored token, and there
  is no open panel then;
* `NewestAsks`: the newest fetch of the list asks for the query in the URL until it
  is answered or the page is left. A late answer of a page left before moves the URL
  only together with a new fetch for it;
* `AnswerShown`: after that its answer is what is shown, clamped to the last page,
  unless it failed or an older answer came later.

### 10.4 Known

Two exceptions are built into the properties by history variables, because the code
behaves otherwise:

* `mixed`: a restore that is retried while a login is under way (the first restore
  cannot overlap one, the boot screen hides the form) may answer after the login,
  or after a logout that followed it, and then signs its user in with no token
  or another's. Another tab that signs in as somebody else replaces the token
  under this tab's user; "Mark all read" then marks the other account's rows.
* `late`: an answer that was overtaken by a newer one is shown over it, an older
  failure hides the newer answer, and an older answer beyond its last page moves
  the URL back to its own query.

An answer that outlives its page needs no exception: it may move the URL of a list
opened since, to the filter of the page that was left and even in another session,
which a user would not expect; but the list then fetches that query, and
`ListAtRest` covers it.

Also: a late 401 of a call sent with an earlier token ends a newer session (the
user has to sign in again; identities still match). `NotificationsPage` marks
without telling the bell, whose badge is right only after the next poll
(`src/docs/architecture/document-notification-ui.md:661-666` would never leave it
stale). A call without a token is answered 401 or 403, depending on the release
of FastAPI; both are modelled.

### 10.5 Left out

`NotificationsPage`; recording a letter from a notification (a request of section 4
whose answer changes the item only); the panel's page size, which cuts the list
and not the count; the registry's reference-data options; and the pages that show the answer of one request.

## 11. What rests on what

Everything under "proved" holds for all values of the constants that satisfy the
named assumption of its module; TLC evaluates these assumptions in every run. The
proofs use the modules the runs check, unchanged. Every invariant, every action
property and the refinement that a passing run checks is stated by a theorem.

Only model-checked, at the bounds given, is liveness: `EveryRequestAnswered`,
`EveryRequestEnds`, `BootEnds`, `BadgeConverges` and `DeadSessionEnds`. Weak fairness
speaks of ENABLED, which the installed provers do not reason about. The three runs
that are expected to fail are counterexamples and need no proof.

All models rest on the same reading of PostgreSQL, which is outside the
repository: READ COMMITTED statements, FOR UPDATE and UPDATE that wait for a row's
holder and then evaluate the WHERE clause again, unique indexes that make an
insert wait for an uncommitted one, and transactions that vanish when their
connection closes.
