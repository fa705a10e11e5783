-------------------------- MODULE DocumentsProofs ---------------------------
(***************************************************************************)
(* Safety of Documents for every set of uploads, downloads and contents.   *)
(***************************************************************************)
EXTENDS Documents, TLAPS

-----------------------------------------------------------------------------
(* The inductive invariant. *)

\* The stages before the rename, and those between it and the answer.
Writing == {"stage", "fsync", "replace"}
Stored == {"insert", "commit", "refresh", "cleanup"}

\* What the stage of an upload says of its content, its file and its row.
UploadOrder ==
    \A u \in Uploads :
        /\ pc[u] # "open"
        /\ pc[u] \in {"idle", "access"} \cup Writing => file[u] = "absent" /\ u \notin rows
        /\ pc[u] \in Writing \cup Stored => Valid(upload[u])
        /\ pc[u] = "replace" => temporary[u] = "complete"
        /\ pc[u] \in Stored => file[u] = "complete"
        /\ pc[u] \in {"insert", "commit"} => u \notin rows
        /\ pc[u] = "refresh" => u \in rows

\* An answer is the last thing a request does, and "created" is for good.
Answers ==
    /\ \A r \in Uploads \cup Downloads : outcome[r] # "none" => pc[r] = "done"
    /\ \A u \in Uploads : outcome[u] = "created" => u \in rows /\ file[u] = "complete"

\* A download that found the row may miss the file, but then it is gone for good.
DownloadOrder ==
    \A d \in Downloads :
        /\ pc[d] \in {"idle", "access", "open", "done"}
        /\ pc[d] \in {"access", "open"} => target[d] \in Uploads
        /\ pc[d] = "open" \/ outcome[d] = "served" => target[d] \in rows
        /\ outcome[d] = "unavailable" => target[d] \in rows /\ file[target[d]] = "absent"

IInv ==
    /\ TypeOK
    /\ UploadOrder
    /\ Answers
    /\ DownloadOrder
    /\ NoPartialFile
    /\ OrphansExplained

USE DEF Goto, Reply, storage, vars

-----------------------------------------------------------------------------
(* Types. *)

\* The empty shelf satisfies the invariant.
LEMMA InitIInv == Init => IInv
  BY DocumentsAssumption, SMTT(30)
  DEF Init, IInv, TypeOK, UploadOrder, Answers, DownloadOrder, NoPartialFile,
      OrphansExplained, Writing, Stored, Stages, FileStates, Outcomes

\* Every action is typed, whatever the rest of the invariant says.
LEMMA TypeStep == TypeOK /\ [Next]_vars => TypeOK'
  <1> SUFFICES ASSUME TypeOK, [Next]_vars PROVE TypeOK'
    OBVIOUS
  <1> USE DocumentsAssumption DEF TypeOK, Stages, FileStates, Outcomes
  <1>1. ASSUME NEW u \in Uploads, NEW c \in Contents, ReceiveUpload(u, c) PROVE TypeOK'
    BY <1>1 DEF ReceiveUpload
  <1>2. ASSUME NEW u \in Uploads, Admit(u) PROVE TypeOK'
    BY <1>2 DEF Admit
  <1>3. ASSUME NEW u \in Uploads, Stage(u) PROVE TypeOK'
    BY <1>3 DEF Stage
  <1>4. ASSUME NEW u \in Uploads, Fsync(u) PROVE TypeOK'
    BY <1>4 DEF Fsync
  <1>5. ASSUME NEW u \in Uploads, Replace(u) PROVE TypeOK'
    BY <1>5 DEF Replace
  <1>6. ASSUME NEW u \in Uploads, StorageFails(u) PROVE TypeOK'
    BY <1>6 DEF StorageFails
  <1>7. ASSUME NEW u \in Uploads, Insert(u) \/ DatabaseFails(u) PROVE TypeOK'
    BY <1>7 DEF Insert, DatabaseFails
  <1>8. ASSUME NEW u \in Uploads, Commit(u) \/ Refresh(u) PROVE TypeOK'
    BY <1>8 DEF Commit, Refresh
  <1>9. ASSUME NEW u \in Uploads, Cleanup(u) \/ CleanupFails(u) PROVE TypeOK'
    BY <1>9 DEF Cleanup, CleanupFails
  <1>10. ASSUME NEW d \in Downloads, NEW u \in Uploads, ReceiveDownload(d, u) PROVE TypeOK'
    BY <1>10 DEF ReceiveDownload
  <1>11. ASSUME NEW d \in Downloads, FindDocument(d) \/ OpenFile(d) PROVE TypeOK'
    BY <1>11 DEF FindDocument, OpenFile
  <1>12. ASSUME NEW r \in Uploads \cup Downloads, Crash(r) PROVE TypeOK'
    BY <1>12 DEF Crash
  <1>13. CASE UNCHANGED vars
    BY <1>13
  <1> QED
    BY <1>1, <1>2, <1>3, <1>4, <1>5, <1>6, <1>7, <1>8, <1>9, <1>10, <1>11, <1>12, <1>13
    DEF Next, Upload

-----------------------------------------------------------------------------
(* Each part is kept by every step. *)

\* Row and file stand where the stage of the upload says.
LEMMA UploadOrderStep == IInv /\ [Next]_vars => UploadOrder'
  <1> SUFFICES ASSUME IInv, [Next]_vars PROVE UploadOrder'
    OBVIOUS
  <1> USE DocumentsAssumption DEF IInv, TypeOK, UploadOrder, Writing, Stored
  <1>1. ASSUME NEW u \in Uploads, NEW c \in Contents, ReceiveUpload(u, c) PROVE UploadOrder'
    BY <1>1 DEF ReceiveUpload
  <1>2. ASSUME NEW u \in Uploads, Admit(u) PROVE UploadOrder'
    BY <1>2 DEF Admit
  <1>3. ASSUME NEW u \in Uploads, Stage(u) \/ Fsync(u) PROVE UploadOrder'
    BY <1>3 DEF Stage, Fsync
  <1>4. ASSUME NEW u \in Uploads, Replace(u) PROVE UploadOrder'
    BY <1>4 DEF Replace
  <1>5. ASSUME NEW u \in Uploads, StorageFails(u) PROVE UploadOrder'
    BY <1>5 DEF StorageFails
  <1>6. ASSUME NEW u \in Uploads, Insert(u) \/ DatabaseFails(u) PROVE UploadOrder'
    BY <1>6 DEF Insert, DatabaseFails
  <1>7. ASSUME NEW u \in Uploads, Commit(u) PROVE UploadOrder'
    BY <1>7 DEF Commit
  <1>8. ASSUME NEW u \in Uploads, Refresh(u) PROVE UploadOrder'
    BY <1>8 DEF Refresh
  <1>9. ASSUME NEW u \in Uploads, Cleanup(u) \/ CleanupFails(u) PROVE UploadOrder'
    BY <1>9 DEF Cleanup, CleanupFails
  <1>10. ASSUME NEW d \in Downloads, NEW u \in Uploads, ReceiveDownload(d, u) PROVE UploadOrder'
    BY <1>10 DEF ReceiveDownload
  <1>11. ASSUME NEW d \in Downloads, FindDocument(d) \/ OpenFile(d) PROVE UploadOrder'
    BY <1>11 DEF FindDocument, OpenFile
  <1>12. ASSUME NEW r \in Uploads \cup Downloads, Crash(r) PROVE UploadOrder'
    BY <1>12 DEF Crash
  <1>13. CASE UNCHANGED vars
    BY <1>13
  <1> QED
    BY <1>1, <1>2, <1>3, <1>4, <1>5, <1>6, <1>7, <1>8, <1>9, <1>10, <1>11, <1>12, <1>13
    DEF Next, Upload

\* What was answered is what was committed.
LEMMA AnswersStep == IInv /\ [Next]_vars => Answers'
  <1> SUFFICES ASSUME IInv, [Next]_vars PROVE Answers'
    OBVIOUS
  <1> USE DocumentsAssumption DEF IInv, TypeOK, UploadOrder, Answers, Writing, Stored
  <1>1. ASSUME NEW u \in Uploads, NEW c \in Contents, ReceiveUpload(u, c) PROVE Answers'
    BY <1>1 DEF ReceiveUpload
  <1>2. ASSUME NEW u \in Uploads, Admit(u) PROVE Answers'
    BY <1>2 DEF Admit
  <1>3. ASSUME NEW u \in Uploads, Stage(u) \/ Fsync(u) PROVE Answers'
    BY <1>3 DEF Stage, Fsync
  <1>4. ASSUME NEW u \in Uploads, Replace(u) PROVE Answers'
    BY <1>4 DEF Replace
  <1>5. ASSUME NEW u \in Uploads, StorageFails(u) PROVE Answers'
    BY <1>5 DEF StorageFails
  <1>6. ASSUME NEW u \in Uploads, Insert(u) \/ DatabaseFails(u) PROVE Answers'
    BY <1>6 DEF Insert, DatabaseFails
  <1>7. ASSUME NEW u \in Uploads, Commit(u) PROVE Answers'
    BY <1>7 DEF Commit
  <1>8. ASSUME NEW u \in Uploads, Refresh(u) PROVE Answers'
    BY <1>8 DEF Refresh
  <1>9. ASSUME NEW u \in Uploads, Cleanup(u) \/ CleanupFails(u) PROVE Answers'
    BY <1>9 DEF Cleanup, CleanupFails
  <1>10. ASSUME NEW d \in Downloads, NEW u \in Uploads, ReceiveDownload(d, u) PROVE Answers'
    BY <1>10 DEF ReceiveDownload
  <1>11. ASSUME NEW d \in Downloads, FindDocument(d) \/ OpenFile(d) PROVE Answers'
    BY <1>11 DEF FindDocument, OpenFile
  <1>12. ASSUME NEW r \in Uploads \cup Downloads, Crash(r) PROVE Answers'
    BY <1>12 DEF Crash
  <1>13. CASE UNCHANGED vars
    BY <1>13
  <1> QED
    BY <1>1, <1>2, <1>3, <1>4, <1>5, <1>6, <1>7, <1>8, <1>9, <1>10, <1>11, <1>12, <1>13
    DEF Next, Upload

\* A download streams only after it found row and file.
LEMMA DownloadOrderStep == IInv /\ [Next]_vars => DownloadOrder'
  <1> SUFFICES ASSUME IInv, [Next]_vars PROVE DownloadOrder'
    OBVIOUS
  <1> USE DocumentsAssumption DEF IInv, TypeOK, UploadOrder, Answers, DownloadOrder, Writing, Stored
  <1>1. ASSUME NEW u \in Uploads, NEW c \in Contents, ReceiveUpload(u, c) PROVE DownloadOrder'
    BY <1>1 DEF ReceiveUpload
  <1>2. ASSUME NEW u \in Uploads, Admit(u) PROVE DownloadOrder'
    BY <1>2 DEF Admit
  <1>3. ASSUME NEW u \in Uploads, Stage(u) \/ Fsync(u) PROVE DownloadOrder'
    BY <1>3 DEF Stage, Fsync
  <1>4. ASSUME NEW u \in Uploads, Replace(u) PROVE DownloadOrder'
    BY <1>4 DEF Replace
  <1>5. ASSUME NEW u \in Uploads, StorageFails(u) PROVE DownloadOrder'
    BY <1>5 DEF StorageFails
  <1>6. ASSUME NEW u \in Uploads, Insert(u) \/ DatabaseFails(u) PROVE DownloadOrder'
    BY <1>6 DEF Insert, DatabaseFails
  <1>7. ASSUME NEW u \in Uploads, Commit(u) PROVE DownloadOrder'
    BY <1>7 DEF Commit
  <1>8. ASSUME NEW u \in Uploads, Refresh(u) PROVE DownloadOrder'
    BY <1>8 DEF Refresh
  <1>9. ASSUME NEW u \in Uploads, Cleanup(u) \/ CleanupFails(u) PROVE DownloadOrder'
    BY <1>9 DEF Cleanup, CleanupFails
  <1>10. ASSUME NEW d \in Downloads, NEW u \in Uploads, ReceiveDownload(d, u) PROVE DownloadOrder'
    BY <1>10 DEF ReceiveDownload
  <1>11. ASSUME NEW d \in Downloads, FindDocument(d) \/ OpenFile(d) PROVE DownloadOrder'
    BY <1>11 DEF FindDocument, OpenFile
  <1>12. ASSUME NEW r \in Uploads \cup Downloads, Crash(r) PROVE DownloadOrder'
    BY <1>12 DEF Crash
  <1>13. CASE UNCHANGED vars
    BY <1>13
  <1> QED
    BY <1>1, <1>2, <1>3, <1>4, <1>5, <1>6, <1>7, <1>8, <1>9, <1>10, <1>11, <1>12, <1>13
    DEF Next, Upload

\* The final path is only ever written by os.replace of a flushed file.
LEMMA NoPartialFileStep == IInv /\ [Next]_vars => NoPartialFile'
  <1> SUFFICES ASSUME IInv, [Next]_vars PROVE NoPartialFile'
    OBVIOUS
  <1> USE DocumentsAssumption DEF IInv, TypeOK, UploadOrder, NoPartialFile, Writing, Stored
  <1>1. ASSUME NEW u \in Uploads, NEW c \in Contents, ReceiveUpload(u, c) PROVE NoPartialFile'
    BY <1>1 DEF ReceiveUpload
  <1>2. ASSUME NEW u \in Uploads, Admit(u) PROVE NoPartialFile'
    BY <1>2 DEF Admit
  <1>3. ASSUME NEW u \in Uploads, Stage(u) \/ Fsync(u) PROVE NoPartialFile'
    BY <1>3 DEF Stage, Fsync
  <1>4. ASSUME NEW u \in Uploads, Replace(u) PROVE NoPartialFile'
    BY <1>4 DEF Replace
  <1>5. ASSUME NEW u \in Uploads, StorageFails(u) PROVE NoPartialFile'
    BY <1>5 DEF StorageFails
  <1>6. ASSUME NEW u \in Uploads, Insert(u) \/ DatabaseFails(u) PROVE NoPartialFile'
    BY <1>6 DEF Insert, DatabaseFails
  <1>7. ASSUME NEW u \in Uploads, Commit(u) PROVE NoPartialFile'
    BY <1>7 DEF Commit
  <1>8. ASSUME NEW u \in Uploads, Refresh(u) PROVE NoPartialFile'
    BY <1>8 DEF Refresh
  <1>9. ASSUME NEW u \in Uploads, Cleanup(u) \/ CleanupFails(u) PROVE NoPartialFile'
    BY <1>9 DEF Cleanup, CleanupFails
  <1>10. ASSUME NEW d \in Downloads, NEW u \in Uploads, ReceiveDownload(d, u) PROVE NoPartialFile'
    BY <1>10 DEF ReceiveDownload
  <1>11. ASSUME NEW d \in Downloads, FindDocument(d) \/ OpenFile(d) PROVE NoPartialFile'
    BY <1>11 DEF FindDocument, OpenFile
  <1>12. ASSUME NEW r \in Uploads \cup Downloads, Crash(r) PROVE NoPartialFile'
    BY <1>12 DEF Crash
  <1>13. CASE UNCHANGED vars
    BY <1>13
  <1> QED
    BY <1>1, <1>2, <1>3, <1>4, <1>5, <1>6, <1>7, <1>8, <1>9, <1>10, <1>11, <1>12, <1>13
    DEF Next, Upload

\* A file loses its chance of a row by a crash or by a logged failure.
LEMMA OrphansExplainedStep == IInv /\ [Next]_vars => OrphansExplained'
  <1> SUFFICES ASSUME IInv, [Next]_vars PROVE OrphansExplained'
    OBVIOUS
  <1> USE DocumentsAssumption DEF IInv, TypeOK, UploadOrder, Answers, OrphansExplained, Writing, Stored
  <1>1. ASSUME NEW u \in Uploads, NEW c \in Contents, ReceiveUpload(u, c) PROVE OrphansExplained'
    BY <1>1 DEF ReceiveUpload
  <1>2. ASSUME NEW u \in Uploads, Admit(u) PROVE OrphansExplained'
    BY <1>2 DEF Admit
  <1>3. ASSUME NEW u \in Uploads, Stage(u) \/ Fsync(u) PROVE OrphansExplained'
    BY <1>3 DEF Stage, Fsync
  <1>4. ASSUME NEW u \in Uploads, Replace(u) PROVE OrphansExplained'
    BY <1>4 DEF Replace
  <1>5. ASSUME NEW u \in Uploads, StorageFails(u) PROVE OrphansExplained'
    BY <1>5 DEF StorageFails
  <1>6. ASSUME NEW u \in Uploads, Insert(u) \/ DatabaseFails(u) PROVE OrphansExplained'
    BY <1>6 DEF Insert, DatabaseFails
  <1>7. ASSUME NEW u \in Uploads, Commit(u) PROVE OrphansExplained'
    BY <1>7 DEF Commit
  <1>8. ASSUME NEW u \in Uploads, Refresh(u) PROVE OrphansExplained'
    BY <1>8 DEF Refresh
  <1>9. ASSUME NEW u \in Uploads, Cleanup(u) \/ CleanupFails(u) PROVE OrphansExplained'
    BY <1>9 DEF Cleanup, CleanupFails
  <1>10. ASSUME NEW d \in Downloads, NEW u \in Uploads, ReceiveDownload(d, u) PROVE OrphansExplained'
    BY <1>10 DEF ReceiveDownload
  <1>11. ASSUME NEW d \in Downloads, FindDocument(d) \/ OpenFile(d) PROVE OrphansExplained'
    BY <1>11 DEF FindDocument, OpenFile
  <1>12. ASSUME NEW r \in Uploads \cup Downloads, Crash(r) PROVE OrphansExplained'
    BY <1>12 DEF Crash
  <1>13. CASE UNCHANGED vars
    BY <1>13
  <1> QED
    BY <1>1, <1>2, <1>3, <1>4, <1>5, <1>6, <1>7, <1>8, <1>9, <1>10, <1>11, <1>12, <1>13
    DEF Next, Upload

-----------------------------------------------------------------------------
(* The theorems. *)

\* IInv is inductive.
LEMMA IInvInvariant == Spec => []IInv
  <1>1. Init => IInv
    BY InitIInv
  <1>2. IInv /\ [Next]_vars => IInv'
    BY TypeStep, UploadOrderStep, AnswersStep, DownloadOrderStep, NoPartialFileStep,
       OrphansExplainedStep
    DEF IInv
  <1> QED
    BY <1>1, <1>2, PTL DEF Spec

\* Every reachable state is well typed.
THEOREM TypeCorrect == Spec => []TypeOK
  BY IInvInvariant, PTL DEF IInv

\* A final path never shows part of a file, nor one its name lies about, whoever
\* wrote it died or failed at whatever point.
THEOREM NoPartialFileCorrect == Spec => []NoPartialFile
  BY IInvInvariant, PTL DEF IInv

\* A file without a row is under way, left by a crash, or named in the log.
THEOREM OrphansExplainedCorrect == Spec => []OrphansExplained
  BY IInvInvariant, PTL DEF IInv

\* A document whose upload was answered 201 keeps its row and its file, and no
\* download of it finds the file missing.
THEOREM AcknowledgedServedCorrect == Spec => []AcknowledgedServed
  <1>1. IInv => AcknowledgedServed
    BY DEF IInv, Answers, DownloadOrder, AcknowledgedServed
  <1> QED
    BY <1>1, IInvInvariant, PTL

\* A row becomes visible only when its file is in place.
THEOREM RowAfterFileCorrect == Spec => RowAfterFile
  <1>1. IInv /\ [Next]_vars => [\A u \in rows' \ rows : file[u] = "complete"]_vars
    <2> SUFFICES ASSUME IInv, [Next]_vars, NEW u \in rows', u \notin rows
                 PROVE file[u] = "complete"
      OBVIOUS
    <2>1. PICK v \in Uploads : Commit(v)
      BY DEF Next, Upload, ReceiveUpload, Admit, Stage, Fsync, Replace, StorageFails,
             Insert, Refresh, DatabaseFails, Cleanup, CleanupFails, ReceiveDownload,
             FindDocument, OpenFile, Crash
    <2> QED
      BY <2>1 DEF Commit, IInv, UploadOrder, Stored
  <1> QED
    BY <1>1, IInvInvariant, PTL DEF Spec, RowAfterFile

=============================================================================
