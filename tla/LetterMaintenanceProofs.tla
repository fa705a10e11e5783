----------------------- MODULE LetterMaintenanceProofs -----------------------
(***************************************************************************)
(* Safety of LetterMaintenance for every set of requests, reference rows   *)
(* and payloads.                                                           *)
(***************************************************************************)
EXTENDS LetterMaintenance, TLAPS

-----------------------------------------------------------------------------
(* The inductive invariant. *)

\* Audit rows are of transactions that are over, and carry the time they began.
Times ==
    /\ \A r \in Requests : began[r] <= clock
    /\ \A x \in trail :
          /\ pc[x.request] = "done"
          /\ x.createdAt < CommittedAt(x) /\ CommittedAt(x) <= clock

\* The row of f committed last has the value of f.
LastCommitted ==
    \A f \in Audited :
        \/ RowsOf(f) = {} /\ letter[f] = Created[f]
        \/ \E x \in RowsOf(f) :
              letter[f] = x.new /\ \A y \in RowsOf(f) : CommittedAt(y) <= CommittedAt(x)

\* By the rows of its field, and the times their requests committed, a field
\* created with first has had this value at the given time or later.
Had(rows, when, first, value, at) ==
    LET seen == {y \in rows : when[y.request] < at}
    IN  \/ value = first /\ seen = {}
        \/ \E y \in rows :
              value = y.new /\ \A z \in seen : when[z.request] <= when[y.request]

\* A request that is about to write read the row after its transaction began.
Sessions ==
    \A r \in Requests :
        /\ pc[r] # "idle" => request[r] \in Payloads
        /\ pc[r] = "write" =>
              /\ loaded[r] \in Rows
              /\ \A f \in Audited :
                    Had(RowsOf(f), committed, Created[f], loaded[r][f], began[r])

IInv == TypeOK /\ Times /\ LastCommitted /\ Sessions /\ OldValuesReal

-----------------------------------------------------------------------------
(* What a write does. *)

\* The audited values of a row, and what a writer assigns, by field.
LEMMA AssignedType ==
  ASSUME IInv, NEW r \in Requests, pc[r] = "write"
  PROVE  /\ loaded[r] \in Rows /\ letter \in Rows
         /\ Assigned(r) \in Patches
         /\ \A f \in Fields \ {"sender_designation"} : Assigned(r)[f] = request[r][f]
  <1>1. request[r] \in Patches /\ loaded[r] \in Rows /\ letter \in Rows
    BY MaintenanceAssumption DEF IInv, Sessions, TypeOK
  <1> DEFINE d == request[r]["designation"]
  <1>2. CASE d \in {None, loaded[r]["designation"]}
    BY <1>1, <1>2 DEF Assigned
  <1>3. CASE d \notin {None, loaded[r]["designation"]}
    <2>1. d \in Designations
      BY <1>1, <1>3 DEF Patches
    <2>2. NameOf[d] \in Texts
      BY <2>1, MaintenanceAssumption
    <2>3. Assigned(r) = [request[r] EXCEPT !["sender_designation"] = NameOf[d]]
      BY <1>3 DEF Assigned
    <2> QED
      BY <1>1, <2>2, <2>3 DEF Patches, Values, Fields
  <1> QED
    BY <1>1, <1>2, <1>3

\* The audit row of a changed field is one.
LEMMA FieldRowType ==
  ASSUME IInv, NEW r \in Requests, pc[r] = "write", NEW f \in Audited
  PROVE  /\ FieldRow(r, f) \in TrailRows
         /\ FieldRow(r, f).field = f /\ FieldRow(r, f).old = loaded[r][f]
         /\ FieldRow(r, f).new = Assigned(r)[f]
  <1>1. loaded[r] \in Patches /\ Assigned(r) \in Patches
    BY AssignedType DEF Rows
  <1>2. \A v \in Patches : v[f] \in References \cup Statuses \cup {None}
    BY DEF Patches, Audited, References
  <1>3. began[r] \in Nat
    BY DEF IInv, TypeOK
  <1> QED
    BY <1>1, <1>2, <1>3 DEF FieldRow, TrailRow, TrailRows

\* A write of r adds one audit row per audited field it changes, and no other
\* rows on these fields; the new rows are committed after all others.
LEMMA WriteTrail ==
  ASSUME IInv, NEW r \in Requests, Write(r)
  PROVE  /\ trail' \subseteq TrailRows /\ clock' = clock + 1 /\ clock \in Nat
         /\ \A x \in trail : x \in trail' /\ x.request # r /\ CommittedAt(x)' = CommittedAt(x)
         /\ \A x \in trail' : x \notin trail =>
               x.request = r /\ x.createdAt = began[r] /\ CommittedAt(x)' = clock + 1
         /\ \A f \in Audited : RowsOf(f)' =
               RowsOf(f) \cup (IF f \in ChangedBy(r) THEN {FieldRow(r, f)} ELSE {})
         /\ \A x : x.request = r => CommittedAt(x)' = clock + 1
  <1>1. /\ pc[r] = "write" /\ clock' = clock + 1 /\ clock \in Nat
        /\ trail' = trail \cup UpdateRows(r) \cup ChangeRows(r)
        /\ committed' = [committed EXCEPT ![r] = clock + 1]
        /\ committed \in [Requests -> Nat] /\ began[r] \in Nat /\ trail \subseteq TrailRows
    BY DEF Write, IInv, TypeOK
  <1>2. ASSUME NEW x \in trail
        PROVE  x \in trail' /\ x.request # r /\ CommittedAt(x)' = CommittedAt(x)
    <2>1. x.request \in Requests /\ pc[x.request] = "done"
      BY <1>1 DEF TrailRows, IInv, Times
    <2> QED
      BY <1>1, <2>1 DEF CommittedAt
  <1>3. ASSUME NEW x \in UpdateRows(r) \cup ChangeRows(r)
        PROVE  /\ x \in TrailRows /\ x.request = r /\ x.createdAt = began[r]
               /\ CommittedAt(x)' = clock + 1
               /\ x.field = "any" \/ \E f \in ChangedBy(r) \cap Audited : x = FieldRow(r, f)
    <2>1. CASE x \in UpdateRows(r)
      <3>1. x = TrailRow(r, "any", None, None)
        BY <2>1 DEF UpdateRows
      <3> QED
        BY <1>1, <3>1 DEF TrailRow, TrailRows, CommittedAt
    <2>2. CASE x \in ChangeRows(r)
      <3>1. PICK f \in ChangedBy(r) \cap Audited : x = FieldRow(r, f)
        BY <2>2 DEF ChangeRows
      <3>2. x \in TrailRows
        BY <1>1, <3>1, FieldRowType
      <3>3. x.request = r /\ x.createdAt = began[r]
        BY <3>1 DEF FieldRow, TrailRow
      <3> QED
        BY <1>1, <3>1, <3>2, <3>3 DEF CommittedAt
    <2> QED
      BY <2>1, <2>2
  <1>4. ASSUME NEW f \in Audited
        PROVE  RowsOf(f)' =
                  RowsOf(f) \cup (IF f \in ChangedBy(r) THEN {FieldRow(r, f)} ELSE {})
    <2>1. \A g \in ChangedBy(r) \cap Audited : FieldRow(r, g).field = g
      BY <1>1, FieldRowType
    <2>2. f # "any"
      BY DEF Audited
    <2>3. f \in ChangedBy(r) => FieldRow(r, f) \in ChangeRows(r)
      BY DEF ChangeRows
    <2> QED
      BY <1>1, <1>3, <2>1, <2>2, <2>3 DEF RowsOf
  <1>5. \A x : x.request = r => CommittedAt(x)' = clock + 1
    BY <1>1 DEF CommittedAt
  <1> QED
    BY <1>1, <1>2, <1>3, <1>4, <1>5

\* What a field has had, it has had when another row is committed later.
LEMMA HadGrows ==
  ASSUME IInv, NEW r \in Requests, Write(r),
         NEW f \in Audited, NEW first, NEW value, NEW at \in Nat, at <= clock,
         Had(RowsOf(f), committed, first, value, at)
  PROVE  Had(RowsOf(f)', committed', first, value, at)
  <1> DEFINE seen == {y \in RowsOf(f) : committed[y.request] < at}
             seenNext == {y \in RowsOf(f)' : committed'[y.request] < at}
  <1>1. RowsOf(f) \subseteq RowsOf(f)' /\ RowsOf(f) \subseteq trail
    BY WriteTrail DEF RowsOf
  <1>2. \A x \in RowsOf(f) : committed'[x.request] = committed[x.request]
    BY <1>1, WriteTrail DEF CommittedAt
  <1>3. seenNext = seen
    <2>1. \A x \in RowsOf(f)' : x \notin RowsOf(f) => committed'[x.request] = clock + 1
      BY WriteTrail DEF RowsOf, CommittedAt
    <2>2. clock \in Nat /\ ~ (clock + 1 < at)
      BY WriteTrail
    <2> QED
      BY <1>1, <1>2, <2>1, <2>2
  <1>4. CASE value = first /\ seen = {}
    BY <1>3, <1>4 DEF Had
  <1>5. CASE \E y \in RowsOf(f) :
                value = y.new /\ \A z \in seen : committed[z.request] <= committed[y.request]
    <2>1. PICK y \in RowsOf(f) :
             value = y.new /\ \A z \in seen : committed[z.request] <= committed[y.request]
      BY <1>5
    <2>2. \A z \in seenNext : committed'[z.request] <= committed'[y.request]
      BY <1>2, <1>3, <2>1
    <2> QED
      BY <1>1, <2>1, <2>2 DEF Had
  <1> QED
    BY <1>4, <1>5 DEF Had

-----------------------------------------------------------------------------
(* The invariant. *)

\* The first state satisfies the invariant.
LEMMA InitIInv == Init => IInv
  <1> SUFFICES ASSUME Init PROVE IInv
    OBVIOUS
  <1>1. TypeOK
    BY MaintenanceAssumption DEF Init, TypeOK
  <1>2. \A f : RowsOf(f) = {}
    BY DEF Init, RowsOf
  <1>3. Times
    BY DEF Init, Times
  <1>4. LastCommitted /\ Sessions /\ OldValuesReal
    BY <1>2 DEF Init, LastCommitted, Sessions, OldValuesReal
  <1> QED
    BY <1>1, <1>3, <1>4 DEF IInv

\* A write keeps the invariant: it changes what it records and records what it
\* changes, with old values the letter had since the transaction began.
LEMMA WriteStep ==
  ASSUME IInv, NEW r \in Requests, Write(r)
  PROVE  IInv'
  <1>1. /\ pc[r] = "write" /\ letter' = UpdatedRow(r)
        /\ UNCHANGED <<active, request, loaded, began>>
        /\ pc' = [pc EXCEPT ![r] = "done"] /\ pc \in [Requests -> {"idle", "load", "write", "done"}]
        /\ committed' = [committed EXCEPT ![r] = clock + 1]
    BY DEF Write, Goto, IInv, TypeOK
  <1>2. clock \in Nat /\ clock' = clock + 1 /\ clock' \in Nat
    BY WriteTrail
  <1>3. TypeOK'
    <2>1. loaded[r] \in Rows /\ letter \in Rows /\ Assigned(r) \in Patches
      BY <1>1, AssignedType
    <2>2. UpdatedRow(r) \in Rows
      <3>1. \A f \in ChangedBy(r) : f \in Fields /\ Assigned(r)[f] # None
        BY DEF ChangedBy
      <3> QED
        BY <2>1, <3>1 DEF UpdatedRow, Rows, Patches, Values, Fields
    <2>3. trail' \subseteq TrailRows
      BY WriteTrail
    <2> QED
      BY <1>1, <1>2, <2>2, <2>3 DEF IInv, TypeOK
  <1>4. \A q \in Requests : began[q] \in Nat /\ began[q] <= clock
    BY DEF IInv, TypeOK, Times
  <1>5. Times'
    <2>1. \A q \in Requests : began'[q] <= clock'
      BY <1>1, <1>2, <1>4
    <2>2. ASSUME NEW x \in trail'
          PROVE  /\ pc'[x.request] = "done"
                 /\ x.createdAt < CommittedAt(x)' /\ CommittedAt(x)' <= clock'
      <3>1. CASE x \in trail
        <4>1. /\ x.request \in Requests /\ x.request # r /\ CommittedAt(x) \in Nat
              /\ CommittedAt(x)' = CommittedAt(x)
              /\ pc[x.request] = "done"
              /\ x.createdAt < CommittedAt(x) /\ CommittedAt(x) <= clock
          BY <3>1, WriteTrail DEF IInv, TypeOK, TrailRows, Times, CommittedAt
        <4> QED
          BY <1>1, <1>2, <4>1
      <3>2. CASE x \notin trail
        <4>1. x.request = r /\ x.createdAt = began[r] /\ CommittedAt(x)' = clock + 1
          BY <3>2, WriteTrail
        <4> QED
          BY <1>1, <1>2, <1>4, <4>1
      <3> QED
        BY <3>1, <3>2
    <2> QED
      BY <2>1, <2>2 DEF Times
  <1>6. \A f \in Audited : f \in Fields /\ letter'[f] =
           IF f \in ChangedBy(r) THEN Assigned(r)[f] ELSE letter[f]
    BY <1>1 DEF UpdatedRow, Audited, Fields
  <1>7. \A f \in Audited : \A y \in RowsOf(f) :
           CommittedAt(y)' = CommittedAt(y) /\ CommittedAt(y) \in Nat /\ CommittedAt(y) <= clock
    BY WriteTrail DEF RowsOf, IInv, TypeOK, Times, TrailRows, CommittedAt
  <1>8. LastCommitted'
    <2> SUFFICES ASSUME NEW f \in Audited
                 PROVE  \/ RowsOf(f)' = {} /\ letter'[f] = Created[f]
                        \/ \E x \in RowsOf(f)' :
                              /\ letter'[f] = x.new
                              /\ \A y \in RowsOf(f)' : CommittedAt(y)' <= CommittedAt(x)'
      BY DEF LastCommitted
    <2>1. CASE f \in ChangedBy(r)
      <3>1. PICK x : x = FieldRow(r, f)
        OBVIOUS
      <3>2. x.request = r /\ letter'[f] = x.new
        <4>1. x.request = r
          BY <3>1 DEF FieldRow, TrailRow
        <4> QED
          BY <1>1, <1>6, <2>1, <3>1, <4>1, FieldRowType
      <3>3. RowsOf(f)' = RowsOf(f) \cup {x} /\ CommittedAt(x)' = clock + 1
        BY <2>1, <3>1, <3>2, WriteTrail
      <3>4. \A y \in RowsOf(f)' : CommittedAt(y)' <= clock + 1
        BY <1>2, <1>7, <3>3
      <3> QED
        BY <3>2, <3>3, <3>4
    <2>2. CASE f \notin ChangedBy(r)
      <3>1. RowsOf(f)' = RowsOf(f) /\ letter'[f] = letter[f]
        <4>1. RowsOf(f)' = RowsOf(f) \cup {}
          BY <2>2, WriteTrail
        <4> QED
          BY <1>6, <2>2, <4>1
      <3>2. \/ RowsOf(f) = {} /\ letter[f] = Created[f]
            \/ \E x \in RowsOf(f) :
                  letter[f] = x.new /\ \A y \in RowsOf(f) : CommittedAt(y) <= CommittedAt(x)
        BY DEF IInv, LastCommitted
      <3> QED
        BY <1>7, <3>1, <3>2
    <2> QED
      BY <2>1, <2>2
  <1>9. Sessions'
    <2>1. ASSUME NEW q \in Requests, pc'[q] = "write", NEW f \in Audited
          PROVE  Had(RowsOf(f)', committed', Created[f], loaded'[q][f], began'[q])
      <3>1. pc[q] = "write" /\ loaded'[q] = loaded[q] /\ began'[q] = began[q]
        BY <1>1, <2>1
      <3>2. Had(RowsOf(f), committed, Created[f], loaded[q][f], began[q])
        BY <3>1 DEF IInv, Sessions
      <3>3. Had(RowsOf(f)', committed', Created[f], loaded[q][f], began[q])
        BY <1>4, <3>2, HadGrows
      <3> QED
        BY <3>1, <3>3
    <2>2. \A q \in Requests : /\ pc'[q] # "idle" => pc[q] # "idle"
                              /\ pc'[q] = "write" => pc[q] = "write"
      BY <1>1
    <2> QED
      BY <1>1, <2>1, <2>2 DEF IInv, Sessions
  <1>10. OldValuesReal'
    <2> SUFFICES ASSUME NEW f \in Audited, NEW x \in RowsOf(f)'
                 PROVE  \/ x.old = Created[f]
                           /\ {y \in RowsOf(f)' : CommittedAt(y)' < x.createdAt} = {}
                        \/ \E y \in RowsOf(f)' :
                              /\ x.old = y.new /\ CommittedAt(y)' < CommittedAt(x)'
                              /\ \A z \in {w \in RowsOf(f)' : CommittedAt(w)' < x.createdAt} :
                                    CommittedAt(z)' <= CommittedAt(y)'
      BY DEF OldValuesReal
    <2> DEFINE seen == {y \in RowsOf(f) : CommittedAt(y) < x.createdAt}
               seenNext == {y \in RowsOf(f)' : CommittedAt(y)' < x.createdAt}
    <2>1. x.createdAt \in Nat /\ x.createdAt <= clock
      <3>1. CASE x \in trail
        BY <1>2, <3>1 DEF IInv, TypeOK, Times, TrailRows, CommittedAt
      <3>2. CASE x \notin trail
        <4>1. x.createdAt = began[r]
          BY <3>2, WriteTrail DEF RowsOf
        <4> QED
          BY <1>4, <4>1
      <3> QED
        BY <3>1, <3>2
    <2>2. seenNext = seen /\ RowsOf(f) \subseteq RowsOf(f)'
      <3>1. \A y \in RowsOf(f)' : y \notin RowsOf(f) => CommittedAt(y)' = clock + 1
        BY WriteTrail DEF RowsOf
      <3>2. RowsOf(f) \subseteq RowsOf(f)'
        BY WriteTrail
      <3> QED
        BY <1>2, <1>7, <2>1, <3>1, <3>2
    <2> HIDE DEF seen, seenNext
    <2>3. CASE x \in RowsOf(f)
      <3>1. \/ x.old = Created[f] /\ seen = {}
            \/ \E y \in RowsOf(f) :
                  /\ x.old = y.new /\ CommittedAt(y) < CommittedAt(x)
                  /\ \A z \in seen : CommittedAt(z) <= CommittedAt(y)
        BY <2>3 DEF IInv, OldValuesReal, seen
      <3>2. seen \subseteq RowsOf(f)
        BY DEF seen
      <3> QED
        BY <1>7, <2>2, <2>3, <3>1, <3>2 DEF seenNext
    <2>4. CASE x \notin RowsOf(f)
      <3>1. x = FieldRow(r, f) /\ CommittedAt(x)' = clock + 1
        <4>1. x = FieldRow(r, f)
          BY <2>4, WriteTrail
        <4>2. x.request = r
          BY <4>1 DEF FieldRow, TrailRow
        <4> QED
          BY <4>1, <4>2, WriteTrail
      <3>2. x.old = loaded[r][f] /\ x.createdAt = began[r]
        BY <1>1, <3>1, FieldRowType DEF FieldRow, TrailRow
      <3>3. Had(RowsOf(f), committed, Created[f], x.old, x.createdAt)
        BY <1>1, <3>2 DEF IInv, Sessions
      <3>4. \/ x.old = Created[f] /\ seen = {}
            \/ \E y \in RowsOf(f) :
                  x.old = y.new /\ \A z \in seen : CommittedAt(z) <= CommittedAt(y)
        BY <3>3 DEF Had, seen, CommittedAt
      <3>5. seen \subseteq RowsOf(f)
        BY DEF seen
      <3>6. \A y \in RowsOf(f) : CommittedAt(y)' < CommittedAt(x)'
        BY <1>2, <1>7, <3>1
      <3> QED
        BY <1>7, <2>2, <3>4, <3>5, <3>6 DEF seenNext
    <2> QED
      BY <2>3, <2>4
  <1> QED
    BY <1>3, <1>5, <1>8, <1>9, <1>10 DEF IInv

\* The other steps read the row or change neither row nor trail.
LEMMA IInvStep == IInv /\ [Next]_vars => IInv'
  <1> SUFFICES ASSUME IInv, [Next]_vars PROVE IInv'
    OBVIOUS
  <1>0. ASSUME letter' = letter, trail' = trail, committed' = committed,
               TypeOK', Times', Sessions'
        PROVE  IInv'
    <2>1. \A f : RowsOf(f)' = RowsOf(f)
      BY <1>0 DEF RowsOf
    <2>2. \A x : CommittedAt(x)' = CommittedAt(x)
      BY <1>0 DEF CommittedAt
    <2>3. LastCommitted'
      BY <1>0, <2>1, <2>2 DEF IInv, LastCommitted
    <2>4. OldValuesReal'
      BY <2>1, <2>2 DEF IInv, OldValuesReal
    <2> QED
      BY <1>0, <2>3, <2>4 DEF IInv
  <1>00. ASSUME trail' = trail, committed' = committed
         PROVE  \A f : RowsOf(f)' = RowsOf(f)
    BY <1>00 DEF RowsOf
  <1>001. clock \in Nat /\ began \in [Requests -> Nat] /\ committed \in [Requests -> Nat]
    BY DEF IInv, TypeOK
  <1> USE DEF IInv, TypeOK, Goto
  <1>1. ASSUME NEW r \in Requests, NEW p \in Payloads, Receive(r, p) PROVE IInv'
    <2>1. /\ letter' = letter /\ trail' = trail /\ committed' = committed
          /\ pc[r] = "idle" /\ clock' = clock + 1 /\ began' = [began EXCEPT ![r] = clock + 1]
      BY <1>1 DEF Receive
    <2>2. TypeOK'
      BY <1>1 DEF Receive
    <2>3. Times'
      <3>1. \A q \in Requests : began'[q] <= clock'
        BY <1>001, <2>1 DEF Times
      <3>2. ASSUME NEW x \in trail
            PROVE  /\ pc'[x.request] = "done" /\ CommittedAt(x)' = CommittedAt(x)
                   /\ x.createdAt < CommittedAt(x) /\ CommittedAt(x) <= clock'
        <4>1. x.request \in Requests /\ pc[x.request] = "done" /\ CommittedAt(x) \in Nat
              /\ x.createdAt < CommittedAt(x) /\ CommittedAt(x) <= clock
          BY <1>001 DEF Times, TrailRows, CommittedAt
        <4> QED
          BY <1>001, <1>1, <2>1, <4>1 DEF Receive, CommittedAt
      <3> QED
        BY <2>1, <3>1, <3>2 DEF Times
    <2>4. Sessions'
      <3>1. \A q \in Requests : pc'[q] = "write" =>
               pc[q] = "write" /\ loaded'[q] = loaded[q] /\ began'[q] = began[q]
        BY <1>001, <1>1, <2>1 DEF Receive
      <3>2. \A q \in Requests : pc'[q] # "idle" => request'[q] \in Payloads
        BY <1>1 DEF Receive, Sessions
      <3> QED
        BY <1>00, <2>1, <3>1, <3>2 DEF Sessions
    <2> QED
      BY <1>0, <2>1, <2>2, <2>3, <2>4
  <1>2. ASSUME NEW r \in Requests, Load(r) PROVE IInv'
    <2>1. /\ letter' = letter /\ trail' = trail /\ committed' = committed
          /\ clock' = clock /\ began' = began /\ request' = request /\ pc[r] = "load"
      BY <1>2 DEF Load, times
    <2>2. TypeOK'
      BY <1>2, <2>1 DEF Load
    <2>3. Times'
      BY <1>2, <2>1 DEF Load, Times, CommittedAt, TrailRows
    <2>4. \A f \in Audited : Had(RowsOf(f), committed, Created[f], letter[f], began[r])
      BY DEF LastCommitted, Had, CommittedAt
    <2>5. Sessions'
      <3>1. \A q \in Requests : pc'[q] = "write" =>
               /\ q = r => loaded'[q] = letter
               /\ q # r => pc[q] = "write" /\ loaded'[q] = loaded[q]
        BY <1>2 DEF Load
      <3>2. \A q \in Requests : pc'[q] # "idle" => request'[q] \in Payloads
        BY <1>2, <2>1 DEF Load, Sessions
      <3>3. \A q \in Requests : pc'[q] = "write" =>
               /\ loaded'[q] \in Rows
               /\ \A f \in Audited :
                     Had(RowsOf(f), committed, Created[f], loaded'[q][f], began'[q])
        BY <2>1, <2>4, <3>1 DEF Sessions
      <3> QED
        BY <1>00, <2>1, <3>2, <3>3 DEF Sessions
    <2> QED
      BY <1>0, <2>1, <2>2, <2>3, <2>5
  <1>3. ASSUME NEW r \in Requests, Write(r) PROVE IInv'
    BY <1>3, WriteStep
  <1>4. ASSUME letter' = letter, trail' = trail, times' = times, request' = request,
               loaded' = loaded, active' \subseteq References,
               pc' = pc \/ \E r \in Requests : pc[r] # "done" /\ pc[r] # "idle"
                                                  /\ pc' = [pc EXCEPT ![r] = "done"]
        PROVE  IInv'
    <2>1. clock' = clock /\ began' = began /\ committed' = committed
      BY <1>4 DEF times
    <2>2. TypeOK'
      BY <1>4, <2>1
    <2>3. Times'
      BY <1>4, <2>1 DEF Times, CommittedAt, TrailRows
    <2>4. Sessions'
      <3>1. \A q \in Requests : /\ pc'[q] = "write" => pc[q] = "write"
                                /\ pc'[q] # "idle" => pc[q] # "idle"
        BY <1>4
      <3> QED
        BY <1>00, <1>4, <2>1, <3>1 DEF Sessions
    <2> QED
      BY <1>0, <1>4, <2>1, <2>2, <2>3, <2>4
  <1>5. ASSUME NEW r \in Requests, Abort(r) PROVE IInv'
    BY <1>4, <1>5 DEF Abort
  <1>6. ASSUME NEW x \in References, SetReferenceStatus(x) PROVE IInv'
    BY <1>4, <1>6 DEF SetReferenceStatus, session
  <1>7. CASE UNCHANGED vars
    BY <1>4, <1>7 DEF vars, session
  <1> QED
    BY <1>1, <1>2, <1>3, <1>5, <1>6, <1>7 DEF Next

-----------------------------------------------------------------------------
(* The theorems. *)

\* IInv is inductive.
LEMMA IInvInvariant == Spec => []IInv
  BY InitIInv, IInvStep, PTL DEF Spec

\* The row, the trail and the requests keep their types.
THEOREM TypeCorrect == Spec => []TypeOK
  <1>1. IInv => TypeOK
    BY DEF IInv
  <1> QED
    BY <1>1, IInvInvariant, PTL

\* The value of a field is the one its newest audit row gives, as far as
\* created_at can tell which is the newest: updates that did not overlap are in
\* order, and none takes another's change back unrecorded.
THEOREM TrailCorrect == Spec => []TrailExplainsRow
  <1>1. IInv => TrailExplainsRow
    <2> SUFFICES ASSUME IInv, NEW f \in Audited
                 PROVE  \/ RowsOf(f) = {} /\ letter[f] = Created[f]
                        \/ \E x \in RowsOf(f) :
                              /\ letter[f] = x.new
                              /\ \A y \in RowsOf(f) : y.createdAt < CommittedAt(x)
      BY DEF TrailExplainsRow
    <2>1. \A y \in RowsOf(f) :
             /\ y.createdAt \in Nat /\ CommittedAt(y) \in Nat
             /\ y.createdAt < CommittedAt(y)
      BY DEF IInv, TypeOK, Times, RowsOf, TrailRows, CommittedAt
    <2>2. CASE RowsOf(f) = {} /\ letter[f] = Created[f]
      BY <2>2
    <2>3. CASE \E x \in RowsOf(f) :
                  letter[f] = x.new /\ \A y \in RowsOf(f) : CommittedAt(y) <= CommittedAt(x)
      BY <2>1, <2>3
    <2> QED
      BY <2>2, <2>3 DEF IInv, LastCommitted
  <1> QED
    BY <1>1, IInvInvariant, PTL

\* Every old value in the trail was the field's value at some time while the
\* transaction that recorded it ran.
THEOREM OldValuesCorrect == Spec => []OldValuesReal
  <1>1. IInv => OldValuesReal
    BY DEF IInv
  <1> QED
    BY <1>1, IInvInvariant, PTL

\* No update that read a letter before it was archived brings it back.
THEOREM ArchivedCorrect == Spec => ArchivedForever
  <1>1. IInv /\ [Next]_vars
           => [letter["status"] = "ARCHIVED" => letter'["status"] = "ARCHIVED"]_vars
    <2> SUFFICES ASSUME IInv, [Next]_vars, letter["status"] = "ARCHIVED"
                 PROVE  letter'["status"] = "ARCHIVED"
      OBVIOUS
    <2>1. ASSUME NEW r \in Requests, Write(r) PROVE letter'["status"] = "ARCHIVED"
      <3>1. /\ pc[r] = "write" /\ request[r] \in Payloads
            /\ letter'["status"] = IF "status" \in ChangedBy(r)
                                   THEN Assigned(r)["status"] ELSE letter["status"]
        BY <2>1 DEF Write, UpdatedRow, Fields, IInv, Sessions
      <3>2. Assigned(r)["status"] = request[r]["status"]
        BY <3>1, AssignedType DEF Fields
      <3>3. Assigned(r)["status"] # None => Assigned(r)["status"] = "ARCHIVED"
        BY <3>1, <3>2, MaintenanceAssumption DEF Archiving, Fields
      <3> QED
        BY <3>1, <3>3 DEF ChangedBy
    <2>2. letter' = letter \/ \E r \in Requests : Write(r)
      BY DEF Next, vars, Receive, Load, Abort, SetReferenceStatus
    <2> QED
      BY <2>1, <2>2
  <1> QED
    BY <1>1, IInvInvariant, PTL DEF Spec, ArchivedForever
=============================================================================
