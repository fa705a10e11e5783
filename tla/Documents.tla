----------------------------- MODULE Documents ------------------------------
(***************************************************************************)
(* Attachments of letters: DocumentService.upload_document, the storage     *)
(* functions it calls, and the download endpoint.                            *)
(*                                                                         *)
(* A document is two things no transaction spans: a row of letter_documents *)
(* and a file below the storage root.  The code writes the file first, in   *)
(* two steps (a temporary file, then a rename), commits the row, and deletes *)
(* the file again when the database fails.  A request may die between any    *)
(* two of these steps, and each of them may fail.                            *)
(*                                                                         *)
(* A document is identified with the request that uploads it: its id, and    *)
(* so its path, is a fresh UUID of that request.                             *)
(***************************************************************************)
EXTENDS FiniteSets

CONSTANTS
    Uploads,        \* upload requests; also the documents
    Downloads,      \* download requests
    Contents,       \* what clients send: [extension, content, size]
    None

Extensions == {"pdf", "jpg", "jpeg", "png", "txt", "exe"}
MimeTypes == {"application/pdf", "image/jpeg", "image/png", "text/plain"}

Content ==
    [extension : Extensions, content : MimeTypes \cup {"unrecognized"},
     size : {"empty", "accepted", "too_large"}]

ASSUME DocumentsAssumption ==
    /\ Uploads \cap Downloads = {}
    /\ None \notin Uploads \cup Downloads \cup MimeTypes \cup Content
    /\ Contents \subseteq Content

VARIABLES
    rows,       \* committed rows of letter_documents
    file,       \* what is at each document's final path
    temporary,  \* what is at its temporary path
    upload,     \* [Uploads -> the content received or None]
    target,     \* [Downloads -> the document asked for or None]
    orphanLog,  \* files that delete_document_file could not remove and logged
    pc,         \* what each request does next
    outcome     \* what its client was told

storage == <<file, temporary, orphanLog>>
vars == <<rows, storage, upload, target, pc, outcome>>

Stages == {"idle", "access", "stage", "fsync", "replace", "insert", "commit",
           "refresh", "cleanup", "open", "done"}
FileStates == {"absent", "partial", "complete"}
Outcomes == {"none", "refused", "storage_error", "error", "created", "not_found",
             "served", "unavailable"}

TypeOK ==
    /\ rows \subseteq Uploads
    /\ file \in [Uploads -> FileStates]
    /\ temporary \in [Uploads -> FileStates]
    /\ upload \in [Uploads -> Contents \cup {None}]
    /\ target \in [Downloads -> Uploads \cup {None}]
    /\ orphanLog \subseteq Uploads
    /\ pc \in [Uploads \cup Downloads -> Stages]
    /\ outcome \in [Uploads \cup Downloads -> Outcomes]

Init ==
    /\ rows = {}
    /\ file = [u \in Uploads |-> "absent"]
    /\ temporary = [u \in Uploads |-> "absent"]
    /\ upload = [u \in Uploads |-> None]
    /\ target = [d \in Downloads |-> None]
    /\ orphanLog = {}
    /\ pc = [r \in Uploads \cup Downloads |-> "idle"]
    /\ outcome = [r \in Uploads \cup Downloads |-> "none"]

-----------------------------------------------------------------------------
(* Validation. *)

MimeTypeByExtension ==
    [e \in Extensions \ {"exe"} |->
        CASE e = "pdf" -> "application/pdf"
          [] e \in {"jpg", "jpeg"} -> "image/jpeg"
          [] e = "png" -> "image/png"
          [] e = "txt" -> "text/plain"]

\* validate_upload: extension, size, signature, and their agreement.
Valid(c) ==
    /\ c.extension \in DOMAIN MimeTypeByExtension
    /\ c.size = "accepted"
    /\ c.content = MimeTypeByExtension[c.extension]

-----------------------------------------------------------------------------
(* Uploading. *)

Goto(r, s) == pc' = [pc EXCEPT ![r] = s]

Reply(r, o) ==
    /\ Goto(r, "done")
    /\ outcome' = [outcome EXCEPT ![r] = o]

ReceiveUpload(u, c) ==
    /\ pc[u] = "idle"
    /\ upload' = [upload EXCEPT ![u] = c]
    /\ Goto(u, "access")
    /\ UNCHANGED <<rows, storage, target, outcome>>

\* Seeded fault: the row is inserted before the file is written.
AdmitRowFirst(u) ==
    /\ pc[u] = "access"
    /\ Valid(upload[u])
    /\ Goto(u, "insert")
    /\ UNCHANGED <<rows, storage, upload, target, outcome>>

\* get_letter may refuse the letter, validate_upload the content.
Admit(u) ==
    /\ pc[u] = "access"
    /\ \/ Valid(upload[u]) /\ Goto(u, "stage") /\ UNCHANGED outcome
       \/ Reply(u, "refused")
    /\ UNCHANGED <<rows, storage, upload, target>>

\* Seeded fault: the bytes are written to the final path directly.
StageInPlace(u) ==
    /\ pc[u] = "stage"
    /\ file' = [file EXCEPT ![u] = "partial"]
    /\ temporary' = [temporary EXCEPT ![u] = "partial"]
    /\ Goto(u, "fsync")
    /\ UNCHANGED <<rows, orphanLog, upload, target, outcome>>

\* write_document_file: the temporary file is created and filled ...
Stage(u) ==
    /\ pc[u] = "stage"
    /\ temporary' = [temporary EXCEPT ![u] = "partial"]
    /\ Goto(u, "fsync")
    /\ UNCHANGED <<rows, file, orphanLog, upload, target, outcome>>

\* ... flushed to disk ...
Fsync(u) ==
    /\ pc[u] = "fsync"
    /\ temporary' = [temporary EXCEPT ![u] = "complete"]
    /\ Goto(u, "replace")
    /\ UNCHANGED <<rows, file, orphanLog, upload, target, outcome>>

\* ... and renamed into place.
Replace(u) ==
    /\ pc[u] = "replace"
    /\ file' = [file EXCEPT ![u] = temporary[u]]
    /\ temporary' = [temporary EXCEPT ![u] = "absent"]
    /\ Goto(u, "insert")
    /\ UNCHANGED <<rows, orphanLog, upload, target, outcome>>

\* An OSError in any of the three removes the temporary file, if it can.
StorageFails(u) ==
    /\ pc[u] \in {"stage", "fsync", "replace"}
    /\ \E left \in {"absent", temporary[u]} :
          temporary' = [temporary EXCEPT ![u] = left]
    /\ Reply(u, "storage_error")
    /\ UNCHANGED <<rows, file, orphanLog, upload, target>>

\* The flush of the row and its audit row.
Insert(u) ==
    /\ pc[u] = "insert"
    /\ Goto(u, "commit")
    /\ UNCHANGED <<rows, storage, upload, target, outcome>>

Commit(u) ==
    /\ pc[u] = "commit"
    /\ rows' = rows \cup {u}
    /\ Goto(u, "refresh")
    /\ UNCHANGED <<storage, upload, target, outcome>>

\* The refresh after the commit is the last thing inside the try block.
Refresh(u) ==
    /\ pc[u] = "refresh"
    /\ Reply(u, "created")
    /\ UNCHANGED <<rows, storage, upload, target>>

\* The flush, the audit, the commit, its acknowledgement or the refresh raises.
DatabaseFails(u) ==
    /\ pc[u] \in {"insert", "commit", "refresh"}
    /\ Goto(u, "cleanup")
    /\ UNCHANGED <<rows, storage, upload, target, outcome>>

\* Seeded fault: the exception is swallowed after the compensation.
CleanupSwallows(u) ==
    /\ pc[u] = "cleanup"
    /\ file' = [file EXCEPT ![u] = "absent"]
    /\ Reply(u, "created")
    /\ UNCHANGED <<rows, temporary, orphanLog, upload, target>>

\* Seeded fault: the compensation is forgotten.
NoCleanup(u) ==
    /\ pc[u] = "cleanup"
    /\ Reply(u, "error")
    /\ UNCHANGED <<rows, storage, upload, target>>

\* The compensation: delete_document_file.  It never looks at the database.
Cleanup(u) ==
    /\ pc[u] = "cleanup"
    /\ file' = [file EXCEPT ![u] = "absent"]
    /\ Reply(u, "error")
    /\ UNCHANGED <<rows, temporary, orphanLog, upload, target>>

\* delete_document_file fails, logs the orphan and goes on.
CleanupFails(u) ==
    /\ pc[u] = "cleanup"
    /\ orphanLog' = orphanLog \cup {u}
    /\ Reply(u, "error")
    /\ UNCHANGED <<rows, file, temporary, upload, target>>

\* The worker dies: what is on disk stays, the open transaction does not.
Crash(r) ==
    /\ pc[r] \notin {"idle", "done"}
    /\ Goto(r, "done")
    /\ UNCHANGED <<rows, storage, upload, target, outcome>>

-----------------------------------------------------------------------------
(* Downloading. *)

ReceiveDownload(d, u) ==
    /\ pc[d] = "idle"
    /\ target' = [target EXCEPT ![d] = u]
    /\ Goto(d, "access")
    /\ UNCHANGED <<rows, storage, upload, outcome>>

\* get_document: the letter may be refused, the row may be missing.
FindDocument(d) ==
    /\ pc[d] = "access"
    /\ \/ target[d] \in rows /\ Goto(d, "open") /\ UNCHANGED outcome
       \/ target[d] \notin rows /\ Reply(d, "not_found")
       \/ Reply(d, "refused")
    /\ UNCHANGED <<rows, storage, upload, target>>

\* Seeded fault: a missing file is an exception nobody translates.
OpenUnhandled(d) ==
    /\ pc[d] = "open"
    /\ Reply(d, IF file[target[d]] = "absent" THEN "traceback" ELSE "served")
    /\ UNCHANGED <<rows, storage, upload, target>>

\* The endpoint streams the file, if it is there.
OpenFile(d) ==
    /\ pc[d] = "open"
    /\ Reply(d, IF file[target[d]] = "absent" THEN "unavailable" ELSE "served")
    /\ UNCHANGED <<rows, storage, upload, target>>

-----------------------------------------------------------------------------
Upload(u) ==
    \/ Admit(u)
    \/ Stage(u) \/ Fsync(u) \/ Replace(u) \/ StorageFails(u)
    \/ Insert(u) \/ Commit(u) \/ Refresh(u) \/ DatabaseFails(u)
    \/ Cleanup(u) \/ CleanupFails(u)

Next ==
    \/ \E u \in Uploads :
          \/ \E c \in Contents : ReceiveUpload(u, c)
          \/ Upload(u)
    \/ \E d \in Downloads :
          \/ \E u \in Uploads : ReceiveDownload(d, u)
          \/ FindDocument(d)
          \/ OpenFile(d)
    \/ \E r \in Uploads \cup Downloads : Crash(r)

Spec == Init /\ [][Next]_vars

-----------------------------------------------------------------------------
(* Properties. *)

\* What can be read at a final path is always a whole file, whenever the writer
\* died (write_document_file's docstring), and it is of the type its row claims.
NoPartialFile ==
    \A u \in Uploads : file[u] # "absent" =>
        file[u] = "complete" /\ Valid(upload[u])

\* A document whose upload was answered 201 is there for good: its row, its
\* file, and every download of it that got past the access check.
AcknowledgedServed ==
    \A u \in Uploads : outcome[u] = "created" =>
        /\ u \in rows /\ file[u] = "complete"
        /\ \A d \in Downloads : target[d] = u => outcome[d] # "unavailable"

\* A file without a row is the upload's own doing and under way, or left by a
\* crash, or named in the log by a clean-up that failed: an upload whose client
\* was told of a database error leaves no other behind.
OrphansExplained ==
    \A u \in Uploads : file[u] # "absent" /\ u \notin rows =>
        \/ pc[u] \in {"insert", "commit", "cleanup"}
        \/ pc[u] = "done" /\ outcome[u] = "none"
        \/ u \in orphanLog

\* Write-then-commit: a row becomes visible only when its file is in place.
RowAfterFile ==
    [][\A u \in rows' \ rows : file[u] = "complete"]_vars

\* document_service.py and docs/architecture/document-management.md, 23: no row
\* ever references a file that is not there.
RowHasFile == \A u \in rows : file[u] = "complete"

=============================================================================
