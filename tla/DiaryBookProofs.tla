--------------------------- MODULE DiaryBookProofs ---------------------------
(***************************************************************************)
(* The registration endpoints implement the diary books, for every set of  *)
(* departments, requests and payloads.                                     *)
(***************************************************************************)
EXTENDS LetterRegistryProofs, SequenceTheorems

-----------------------------------------------------------------------------
(* The mapping. *)

\* The lines of each book are its filed letters in the order of their numbers.
BookLines ==
    \A k \in Keys :
        /\ BookOf(k) \in Seq(Requests)
        /\ Len(BookOf(k)) = NextNumber(k) - 1
        /\ \A n \in 1 .. NextNumber(k) - 1 :
              BookOf(k)[n] \in FiledIn(k) /\ number[BookOf(k)[n]] = n
        /\ \A l \in FiledIn(k) :
              number[l] \in 1 .. NextNumber(k) - 1 /\ BookOf(k)[number[l]] = l

\* The letter shown as the recording of o is the only one.
RecordingsPinned ==
    \A o \in Requests :
        /\ RecordingsOf(o) = {} => RecordedAs[o] = None
        /\ \A l \in RecordingsOf(o) : RecordedAs[o] = l

\* Diary numbers are unique, so the choice of a line's letter is no choice.
LEMMA BookLinesHold == TypeOK /\ Lines => BookLines
<1> SUFFICES ASSUME TypeOK, Lines, NEW k \in Keys
             PROVE  /\ BookOf(k) \in Seq(Requests)
                    /\ Len(BookOf(k)) = NextNumber(k) - 1
                    /\ \A n \in 1 .. NextNumber(k) - 1 :
                          BookOf(k)[n] \in FiledIn(k) /\ number[BookOf(k)[n]] = n
                    /\ \A l \in FiledIn(k) :
                          /\ number[l] \in 1 .. NextNumber(k) - 1
                          /\ BookOf(k)[number[l]] = l
  BY DEF BookLines
<1>1. NextNumber(k) - 1 \in Nat
  BY NextNumberType
<1>2. ASSUME NEW n \in 1 .. NextNumber(k) - 1
      PROVE  BookOf(k)[n] \in FiledIn(k) /\ number[BookOf(k)[n]] = n
  <2>1. \E l \in FiledIn(k) : number[l] = n
    BY DEF Lines, FiledIn
  <2>2. BookOf(k)[n] = CHOOSE l \in FiledIn(k) : number[l] = n
    BY DEF BookOf
  <2> QED
    BY <2>1, <2>2
<1>3. FiledIn(k) \subseteq Requests
  BY DEF FiledIn, TypeOK
<1>4. BookOf(k) \in [1 .. NextNumber(k) - 1 -> Requests]
  BY <1>2, <1>3 DEF BookOf
<1>5. BookOf(k) \in Seq(Requests)
  BY <1>1, <1>4, SeqDef
<1>6. Len(BookOf(k)) = NextNumber(k) - 1
  BY <1>1, <1>4, <1>5, LenProperties
<1>7. ASSUME NEW l \in FiledIn(k)
      PROVE  number[l] \in 1 .. NextNumber(k) - 1 /\ BookOf(k)[number[l]] = l
  <2>1. number[l] \in 1 .. NextNumber(k) - 1
    BY DEF FiledIn, Lines
  <2>2. BookOf(k)[number[l]] \in FiledIn(k) /\ number[BookOf(k)[number[l]]] = number[l]
    BY <1>2, <2>1
  <2> QED
    BY <2>1, <2>2 DEF FiledIn, Lines
<1> QED
  BY <1>2, <1>5, <1>6, <1>7

\* A dispatched letter has one recording at most.
LEMMA RecordingsPinnedHold == ConstantsAssumption /\ Recordings => RecordingsPinned
<1> SUFFICES ASSUME ConstantsAssumption, Recordings, NEW o \in Requests
             PROVE  /\ RecordingsOf(o) = {} => RecordedAs[o] = None
                    /\ \A l \in RecordingsOf(o) : RecordedAs[o] = l
  BY DEF RecordingsPinned
<1>1. RecordingsOf(o) = {} => RecordedAs[o] = None
  BY DEF RecordedAs
<1>2. ASSUME NEW l \in RecordingsOf(o) PROVE RecordedAs[o] = l
  <2>1. RecordedAs[o] = CHOOSE m \in RecordingsOf(o) : TRUE
    BY <1>2 DEF RecordedAs
  <2>2. RecordedAs[o] \in RecordingsOf(o)
    BY <1>2, <2>1
  <2>3. o # None
    BY DEF ConstantsAssumption
  <2> QED
    BY <1>2, <2>2, <2>3 DEF RecordingsOf, Recordings
<1> QED
  BY <1>1, <1>2

\* A letter on a line is filed, and has passed its checks.
LEMMA FiledAreLetters ==
    ASSUME BookLines, NEW l \in Book!Filed
    PROVE  l \in letters
<1>1. PICK k \in Book!Books : l \in {Diary[k][n] : n \in 1 .. Len(Diary[k])}
  BY DEF Book!Filed
<1>2. k \in Keys /\ Diary[k] = BookOf(k)
  BY DEF Book!Books, Keys, Directions, Diary
<1> QED
  BY <1>1, <1>2 DEF BookLines, FiledIn

-----------------------------------------------------------------------------
(* The steps. *)

\* No book, and nothing said of a filed letter, changes but by a commit.
LEMMA BooksKept ==
    ASSUME TypeOK, Register, BookLines, BookLines', RecordingsPinned, RecordingsPinned',
           [Next]_vars, \A r \in Requests : ~ Commit(r)
    PROVE  UNCHANGED Book!bookVars
<1>1. /\ letters' = letters /\ counter' = counter
      /\ \A l \in letters : number'[l] = number[l] /\ request'[l] = request[l]
  BY RegisterUntouched
<1>2. \A k \in Keys : FiledIn(k)' = FiledIn(k) /\ NextNumber(k)' = NextNumber(k)
  BY <1>1 DEF FiledIn, Key, NextNumber
<1>3. ASSUME NEW k \in Keys PROVE BookOf(k)' = BookOf(k)
  <2>1. ASSUME NEW n \in 1 .. Len(BookOf(k)) PROVE BookOf(k)'[n] = BookOf(k)[n]
    <3>1. BookOf(k)[n] \in FiledIn(k) /\ number[BookOf(k)[n]] = n
      BY DEF BookLines
    <3>2. BookOf(k)[n] \in FiledIn(k)' /\ number'[BookOf(k)[n]] = n
      BY <1>1, <1>2, <3>1 DEF FiledIn
    <3> QED
      BY <3>2 DEF BookLines
  <2>2. BookOf(k) \in Seq(Requests) /\ BookOf(k)' \in Seq(Requests)
    BY DEF BookLines
  <2>3. Len(BookOf(k)) = Len(BookOf(k)')
    BY <1>2 DEF BookLines
  <2> QED
    BY <2>1, <2>2, <2>3, SeqEqual
<1>4. Diary' = Diary
  BY <1>3 DEF Diary
<1>5. SentTo' = SentTo
  BY <1>1 DEF SentTo
<1>6. ASSUME NEW o \in Requests PROVE RecordedAs'[o] = RecordedAs[o]
  <2>1. RecordingsOf(o)' = RecordingsOf(o)
    BY <1>1 DEF RecordingsOf
  <2> QED
    BY <2>1 DEF RecordingsPinned
<1>7. RecordedAs' = RecordedAs
  BY <1>6 DEF RecordedAs
<1> QED
  BY <1>4, <1>5, <1>7 DEF Book!bookVars

\* A commit takes the next line of its book.
LEMMA CommitEnters ==
    ASSUME TypeOK, Register, Locks, BookLines, BookLines', NEW r \in Requests, Commit(r)
    PROVE  Book!Enter(r, Key(r))
<1>1. /\ Key(r) \in Keys /\ r \notin letters /\ number[r] = NextNumber(Key(r))
      /\ number[r] \in Nat \ {0}
  BY ReceivedPayload, NextNumberType DEF Commit, Locks, Register, Holding
<1>2. letters' = letters \cup {r} /\ number' = number /\ request' = request
  BY DEF Commit
<1>3. \A k \in Keys :
         /\ NextNumber(k)' = IF k = Key(r) THEN NextNumber(k) + 1 ELSE NextNumber(k)
         /\ FiledIn(k)' = IF k = Key(r) THEN FiledIn(k) \cup {r} ELSE FiledIn(k)
         /\ NextNumber(k) \in Nat
  BY <1>1, <1>2, NextNumberType DEF Commit, NextNumber, TypeOK, FiledIn, Key
<1>4. \A k \in Keys : BookOf(k) \in Seq(Requests) /\ BookOf(k)' \in Seq(Requests)
  BY DEF BookLines
<1>5. ASSUME NEW k \in Keys, NEW n \in 1 .. Len(BookOf(k)) PROVE BookOf(k)'[n] = BookOf(k)[n]
  <2>1. BookOf(k)[n] \in FiledIn(k) /\ number[BookOf(k)[n]] = n
    BY DEF BookLines
  <2>2. BookOf(k)[n] \in FiledIn(k)' /\ number'[BookOf(k)[n]] = n
    BY <1>2, <1>3, <2>1
  <2> QED
    BY <2>2 DEF BookLines
<1>6. ASSUME NEW k \in Keys, k # Key(r) PROVE BookOf(k)' = BookOf(k)
  <2>1. Len(BookOf(k)) = Len(BookOf(k)')
    BY <1>3, <1>6 DEF BookLines
  <2> QED
    BY <1>4, <1>5, <2>1, SeqEqual
<1>7. ASSUME NEW k \in Keys, k = Key(r) PROVE BookOf(k)' = Append(BookOf(k), r)
  <2> DEFINE b == BookOf(k)
             c == Append(b, r)
             d == BookOf(k)'
  <2>1. b \in Seq(Requests) /\ d \in Seq(Requests)
    BY <1>4
  <2>2. /\ c \in Seq(Requests) /\ Len(c) = Len(b) + 1 /\ c[Len(b) + 1] = r
        /\ \A n \in 1 .. Len(b) : c[n] = b[n]
    BY <2>1, AppendProperties
  <2>3. Len(b) = number[r] - 1 /\ Len(d) = Len(b) + 1
    BY <1>1, <1>3, <1>7 DEF BookLines
  <2>4. d[number[r]] = r
    <3>1. r \in FiledIn(k)'
      BY <1>3, <1>7
    <3> QED
      BY <1>2, <3>1 DEF BookLines
  <2>5. \A n \in 1 .. Len(b) : d[n] = b[n]
    BY <1>5
  <2>6. \A n \in 1 .. Len(d) : n \in 1 .. Len(b) \/ n = number[r]
    BY <1>1, <2>3
  <2> HIDE DEF b, c, d
  <2>7. d = c
    <3>1. \A n \in 1 .. Len(d) : d[n] = c[n]
      BY <1>1, <2>2, <2>3, <2>4, <2>5, <2>6
    <3> QED
      BY <2>1, <2>2, <2>3, <3>1, SeqEqual
  <2> QED
    BY <2>7 DEF b, c, d
<1>8. Diary' = [Diary EXCEPT ![Key(r)] = Append(@, r)]
  <2>1. ASSUME NEW k \in Keys
        PROVE  BookOf(k)' = IF k = Key(r) THEN Append(BookOf(k), r) ELSE BookOf(k)
    BY <1>6, <1>7
  <2> QED
    BY <1>1, <2>1 DEF Diary
<1>9. r \notin Book!Filed
  BY <1>1, FiledAreLetters
<1> QED
  BY <1>8, <1>9 DEF Book!Enter

\* The commit of a Record is the recording of the letter it names.
LEMMA RecordStep ==
    ASSUME IInv, WInv, BookLines, BookLines', RecordingsPinned, RecordingsPinned',
           NEW r \in Requests, Commit(r), request[r].kind = "record"
    PROVE  Book!Next
<1> DEFINE o == request[r].target
<1>1. /\ request[r] \in Payloads /\ pc[r] = "commit" /\ r \notin letters
      /\ request' = request /\ letters' = letters \cup {r}
  BY ReceivedPayload DEF IInv, Commit, Register
<1>2. /\ o # None /\ request[r].direction = "INCOMING" /\ request[r].dispatch = None
  BY <1>1, ConstantsAssumption
<1>3. DispatchedToCaller(r)
  BY <1>1, <1>2 DEF IInv, Register, Checked, Holding
<1>4. o \in letters /\ o \in Requests /\ o # r
  BY <1>1, <1>3 DEF DispatchedToCaller, IInv, TypeOK
<1>5. SentTo[o] = request[r].dept
  BY <1>3, <1>4 DEF SentTo, DispatchedToCaller
<1>6. SentTo[o] # None
  BY <1>1, <1>5, ConstantsAssumption DEF Payload
<1>7. RecordingsOf(o) = {} /\ RecordingsOf(o)' = {r}
  BY <1>1, <1>2 DEF IInv, Recordings, Inserted, RecordingsOf
<1>8. RecordedAs[o] = None /\ RecordedAs'[o] = r
  <2>1. ASSUME NEW q \in Requests, q = o PROVE RecordedAs[q] = None /\ RecordedAs'[q] = r
    <3>1. RecordingsOf(q) = {} /\ RecordingsOf(q)' = {r}
      BY <1>1, <1>7, <2>1 DEF RecordingsOf
    <3> QED
      BY <3>1 DEF RecordingsPinned
  <2> QED
    BY <1>4, <2>1
<1>9. ASSUME NEW q \in Requests, q # o PROVE RecordedAs'[q] = RecordedAs[q]
  <2>1. RecordingsOf(q)' = RecordingsOf(q)
    BY <1>1, <1>9 DEF RecordingsOf
  <2> QED
    BY <2>1 DEF RecordingsPinned
<1>10. RecordedAs' = [RecordedAs EXCEPT ![o] = r]
  BY <1>4, <1>8, <1>9 DEF RecordedAs
<1>11. SentTo' = SentTo
  BY <1>1, <1>2 DEF SentTo
<1>12. Key(r) = <<SentTo[o], "INCOMING">>
  BY <1>2, <1>5 DEF Key
<1>13. Book!Enter(r, Key(r))
  BY CommitEnters DEF IInv
<1>14. Book!Record(o, r)
  BY <1>6, <1>8, <1>10, <1>11, <1>12, <1>13 DEF Book!Record
<1> QED
  BY <1>4, <1>14 DEF Book!Next

\* The commit of a create files its letter, INCOMING or dispatched.
LEMMA CreateStep ==
    ASSUME IInv, WInv, BookLines, BookLines', RecordingsPinned, RecordingsPinned',
           NEW r \in Requests, Commit(r), request[r].kind # "record"
    PROVE  Book!Next
<1> DEFINE d == request[r].dept
<1>1. /\ request[r] \in Payloads /\ pc[r] = "commit" /\ r \notin letters
      /\ request' = request /\ letters' = letters \cup {r}
  BY ReceivedPayload DEF IInv, Commit, Register
<1>2. d \in Departments /\ request[r].direction \in Directions /\ request[r].target = None
  BY <1>1, ConstantsAssumption DEF Payload
<1>3. Book!Enter(r, Key(r))
  BY CommitEnters DEF IInv
<1>4. RecordedAs' = RecordedAs
  <2>1. ASSUME NEW q \in Requests PROVE RecordedAs'[q] = RecordedAs[q]
    <3>1. q # None
      BY ConstantsAssumption
    <3>2. RecordingsOf(q)' = RecordingsOf(q)
      BY <1>1, <1>2, <3>1 DEF RecordingsOf
    <3> QED
      BY <3>2 DEF RecordingsPinned
  <2> QED
    BY <2>1 DEF RecordedAs
<1>5. SentTo' = [SentTo EXCEPT ![r] = request[r].dispatch]
  BY <1>1 DEF SentTo
<1>6. CASE request[r].direction = "INCOMING"
  <2>1. request[r].dispatch = None
    BY <1>1, <1>6 DEF WInv, Undispatched, Checked, Holding
  <2>2. SentTo' = SentTo
    BY <1>1, <1>5, <2>1 DEF SentTo
  <2>3. Book!FileIncoming(r, d)
    BY <1>3, <1>4, <1>6, <2>2 DEF Book!FileIncoming, Key
  <2> QED
    BY <1>2, <2>3 DEF Book!Next
<1>7. CASE request[r].direction = "OUTGOING"
  <2>1. request[r].dispatch \in Departments \ {d}
    BY <1>1, <1>7 DEF IInv, Register, Checked, Holding
  <2>2. Book!FileOutgoing(r, d, request[r].dispatch)
    BY <1>3, <1>4, <1>5, <1>7, <2>1 DEF Book!FileOutgoing, Key
  <2> QED
    BY <1>2, <2>1, <2>2 DEF Book!Next
<1> QED
  BY <1>2, <1>6, <1>7 DEF Directions

-----------------------------------------------------------------------------
(* The refinement. *)

\* The empty database is a set of empty books.
LEMMA BooksInit == Init => Book!Init
<1> SUFFICES ASSUME Init PROVE Book!Init
  OBVIOUS
<1>1. Diary = [b \in Book!Books |-> << >>]
  <2>1. ASSUME NEW k \in Keys PROVE BookOf(k) = << >>
    BY DEF Init, BookOf, NextNumber
  <2> QED
    BY <2>1 DEF Diary, Keys, Directions, Book!Books
<1>2. SentTo = [l \in Requests |-> None]
  BY DEF Init, SentTo
<1>3. RecordedAs = [l \in Requests |-> None]
  BY DEF Init, RecordedAs, RecordingsOf
<1> QED
  BY <1>1, <1>2, <1>3 DEF Book!Init

\* A commit writes one line; every other step writes none.
LEMMA BooksStep ==
    /\ IInv /\ WInv /\ BookLines /\ RecordingsPinned
    /\ IInv' /\ BookLines' /\ RecordingsPinned' /\ [Next]_vars
    => [Book!Next]_(Book!bookVars)
<1> SUFFICES ASSUME IInv, WInv, BookLines, RecordingsPinned,
                    IInv', BookLines', RecordingsPinned', [Next]_vars
             PROVE  Book!Next \/ UNCHANGED Book!bookVars
  OBVIOUS
<1>1. ASSUME NEW r \in Requests, Commit(r) PROVE Book!Next
  BY <1>1, RecordStep, CreateStep
<1>2. CASE \A r \in Requests : ~ Commit(r)
  BY <1>2, BooksKept DEF IInv
<1> QED
  BY <1>1, <1>2

\* Whatever the interleaving of the requests' statements, failures and races,
\* the registers behave as diary books written one line at a time: each commit
\* takes the next free line, a dispatched letter is recorded once and in its
\* destination's INCOMING book, and no line is ever rewritten.
THEOREM DiaryBookImplemented == Spec => ImplementsDiaryBook
<1>1. Init => Book!Init
  BY BooksInit
<1>2. IInv => BookLines /\ RecordingsPinned
  BY BookLinesHold, RecordingsPinnedHold, ConstantsAssumption DEF IInv
<1>3. /\ IInv /\ WInv /\ BookLines /\ RecordingsPinned
      /\ IInv' /\ BookLines' /\ RecordingsPinned' /\ [Next]_vars
      => [Book!Next]_(Book!bookVars)
  BY BooksStep
<1> QED
  BY <1>1, <1>2, <1>3, IInvInvariant, WInvInvariant, PTL
  DEF Spec, ImplementsDiaryBook, Book!Spec
=============================================================================
