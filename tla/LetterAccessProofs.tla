------------------------- MODULE LetterAccessProofs -------------------------
(***************************************************************************)
(* Safety of LetterAccess for every set of users, departments, letters and *)
(* classifications, every registry and every page size.                    *)
(***************************************************************************)
EXTENDS LetterAccess, SequenceTheorems, FiniteSetTheorems, FunctionTheorems, TLAPS

-----------------------------------------------------------------------------
(* The inductive invariant. *)

\* However many letters there may come to be, those registered are finitely many.
IInv == TypeOK /\ IsFiniteSet(filed)

USE DEF registry, query, vars

-----------------------------------------------------------------------------
(* Arithmetic of pages. *)

\* Row numbers of page p in a listing of n rows.
Slice(p, n) == {i \in 1 .. n : (p - 1) * PageSize < i /\ i <= p * PageSize}

\* Multiplication by a page size keeps the order.
LEMMA TimesMonotonic ==
  ASSUME NEW a \in Nat, NEW b \in Nat, a <= b, NEW c \in Nat
  PROVE  a * c \in Nat /\ b * c \in Nat /\ a * c <= b * c
  <1>1. PICK d \in Nat : b = a + d
    BY b - a \in Nat, b = a + (b - a)
  <1>2. b * c = a * c + d * c /\ a * c \in Nat /\ d * c \in Nat
    BY <1>1
  <1> QED
    BY <1>2

\* The quotient of a division is the last multiple.
LEMMA Quotient ==
  ASSUME NEW x \in Nat, NEW c \in Nat \ {0}
  PROVE  /\ x \div c \in Nat
         /\ (x \div c) * c <= x /\ x < (x \div c + 1) * c
         /\ \A k \in Nat : k * c <= x => k <= x \div c
  <1>1. x \div c \in Nat /\ (x \div c) * c <= x /\ x < (x \div c + 1) * c
    OBVIOUS
  <1>2. ASSUME NEW k \in Nat, k * c <= x, ~ (k <= x \div c) PROVE FALSE
    <2>1. x \div c + 1 \in Nat /\ x \div c + 1 <= k
      BY <1>1, <1>2
    <2>2. (x \div c + 1) * c <= k * c
      BY <2>1, TimesMonotonic
    <2> HIDE DEF Slice
    <2> QED
      BY <1>1, <1>2, <2>2
  <1> QED
    BY <1>1, <1>2

\* Every row has its page, and no row has two.
LEMMA Slices ==
  ASSUME NEW n \in Nat
  PROVE  /\ TotalPages(n) \in Nat
         /\ \A i \in 1 .. n : \E p \in 1 .. TotalPages(n) : i \in Slice(p, n)
         /\ \A p, q \in Nat \ {0} : p # q => Slice(p, n) \cap Slice(q, n) = {}
  <1>0. PageSize \in Nat \ {0}
    BY AccessAssumption
  <1>1. TotalPages(n) \in Nat
    BY <1>0, Quotient, n + PageSize - 1 \in Nat DEF TotalPages
  <1>2. ASSUME NEW i \in 1 .. n
        PROVE  \E p \in 1 .. TotalPages(n) : i \in Slice(p, n)
    <2> DEFINE k == (i - 1) \div PageSize
    <2>1. i - 1 \in Nat /\ n + PageSize - 1 \in Nat
      BY <1>0
    <2>2. k \in Nat /\ k * PageSize <= i - 1 /\ i - 1 < (k + 1) * PageSize
      BY <1>0, <2>1, Quotient
    <2> HIDE DEF k
    <2>3. (k + 1) * PageSize = k * PageSize + PageSize
      BY <1>0, <2>2
    <2>4. k + 1 \in Nat /\ k * PageSize \in Nat /\ (k + 1) * PageSize <= n + PageSize - 1
      BY <1>0, <2>2, <2>3
    <2>5. k + 1 <= TotalPages(n)
      BY <1>0, <2>1, <2>4, Quotient DEF TotalPages
    <2>6. k + 1 \in 1 .. TotalPages(n) /\ (k + 1) - 1 = k
      BY <1>1, <2>2, <2>5
    <2>7. i \in Slice(k + 1, n)
      BY <1>0, <2>2, <2>3, <2>4, <2>6 DEF Slice
    <2> QED
      BY <2>6, <2>7
  <1>3. ASSUME NEW p \in Nat \ {0}, NEW q \in Nat \ {0}, p < q
        PROVE  Slice(p, n) \cap Slice(q, n) = {}
    <2>1. p * PageSize \in Nat /\ (q - 1) * PageSize \in Nat
          /\ p * PageSize <= (q - 1) * PageSize
      BY <1>0, <1>3, TimesMonotonic, q - 1 \in Nat, p <= q - 1
    <2>2. ASSUME NEW i \in 1 .. n, i <= p * PageSize, (q - 1) * PageSize < i PROVE FALSE
      BY <2>1, <2>2
    <2> QED
      BY <2>2 DEF Slice
  <1>4. \A p, q \in Nat \ {0} : p # q => p < q \/ q < p
    OBVIOUS
  <1> QED
    BY <1>1, <1>2, <1>3, <1>4

\* LIMIT and OFFSET cut a page's slice out of a listing.
LEMMA PageContents ==
  ASSUME NEW S, NEW s \in Seq(S), NEW p \in Nat \ {0}
  PROVE  /\ PageOf(s, p) \in Seq(S)
         /\ Range(PageOf(s, p)) = {s[i] : i \in Slice(p, Len(s))}
  <1> DEFINE a == (p - 1) * PageSize
             c == p * PageSize
             b == IF c < Len(s) THEN c ELSE Len(s)
             t == SubSeq(s, a + 1, b)
  <1>1. a \in Nat /\ c \in Nat /\ Len(s) \in Nat
    BY AccessAssumption, LenProperties, TimesMonotonic, p - 1 \in Nat, p \in Nat, p - 1 <= p
  <1> HIDE DEF a, c
  <1>2. a + 1 \in Int /\ b \in Int /\ \A i \in a + 1 .. b : i \in 1 .. Len(s) /\ s[i] \in S
    BY <1>1, ElementOfSeq
  <1> HIDE DEF b
  <1>3. /\ t \in Seq(S)
        /\ Len(t) = IF a + 1 <= b THEN b - (a + 1) + 1 ELSE 0
        /\ \A i \in 1 .. b - (a + 1) + 1 : t[i] = s[a + 1 + i - 1]
    BY <1>2, SubSeqProperties
  <1> HIDE DEF t
  <1>4. \A i \in 1 .. Len(s) : i \in Slice(p, Len(s)) <=> i \in a + 1 .. b
    BY <1>1 DEF Slice, a, b, c
  <1>5. Slice(p, Len(s)) = a + 1 .. b
    BY <1>2, <1>4 DEF Slice
  <1>6. DOMAIN t = 1 .. Len(t) /\ Len(t) \in Nat
    BY <1>3, LenProperties
  <1>7. Range(t) = {s[i] : i \in a + 1 .. b}
    <2>1. ASSUME NEW x \in Range(t) PROVE \E i \in a + 1 .. b : x = s[i]
      <3>1. PICK j \in 1 .. Len(t) : x = t[j]
        BY <1>6 DEF Range
      <3>2. j \in 1 .. b - (a + 1) + 1 /\ a + 1 + j - 1 \in a + 1 .. b
        BY <1>1, <1>2, <1>3
      <3> QED
        BY <1>3, <3>1, <3>2
    <2>2. ASSUME NEW i \in a + 1 .. b PROVE s[i] \in Range(t)
      <3>1. i - a \in 1 .. Len(t) /\ i - a \in 1 .. b - (a + 1) + 1 /\ a + 1 + (i - a) - 1 = i
        BY <1>1, <1>2, <1>3
      <3>2. t[i - a] = s[i]
        BY <1>3, <3>1
      <3> QED
        BY <1>6, <3>1, <3>2 DEF Range
    <2> QED
      BY <2>1, <2>2
  <1>8. PageOf(s, p) = t
    BY DEF PageOf, t, a, b, c
  <1> QED
    BY <1>3, <1>5, <1>7, <1>8

-----------------------------------------------------------------------------
(* Listings. *)

\* A listing of finitely many letters names each once.
LEMMA ListingNamesAll ==
  ASSUME NEW S, IsFiniteSet(S), NEW s \in Listings(S)
  PROVE  /\ Cardinality(S) \in Nat
         /\ s \in [1 .. Cardinality(S) -> S]
         /\ s \in Seq(S) /\ Len(s) = Cardinality(S)
         /\ \A i, j \in 1 .. Cardinality(S) : s[i] = s[j] => i = j
         /\ \A x \in S : \E i \in 1 .. Cardinality(S) : s[i] = x
         /\ \A i, j \in 1 .. Cardinality(S) : i < j => ~ Precedes(s[j], s[i])
  <1> DEFINE n == Cardinality(S)
  <1>1. n \in Nat
    BY FS_CardinalityType
  <1>2. s \in [1 .. n -> S] /\ \A i, j \in 1 .. n : i # j => s[i] # s[j]
    BY DEF Listings, SetToSeqs
  <1>3. \A i, j \in 1 .. n : i < j => ~ Precedes(s[j], s[i])
    BY <1>2 DEF Listings
  <1>4. IsFiniteSet(1 .. n) /\ Cardinality(1 .. n) = n
    BY <1>1, FS_Interval
  <1> HIDE DEF n
  <1>5. s \in Injection(1 .. n, S)
    BY <1>2, Fun_IsInj
  <1>6. s \in Surjection(1 .. n, S)
    BY <1>4, <1>5, FS_Injection DEF n
  <1>7. \A x \in S : \E i \in 1 .. n : s[i] = x
    BY <1>6 DEF Surjection
  <1>8. s \in Seq(S)
    BY <1>1, <1>2, SeqDef
  <1>9. Len(s) = n
    BY <1>1, <1>2, <1>8, LenProperties
  <1> QED
    BY <1>1, <1>2, <1>3, <1>7, <1>8, <1>9 DEF n

\* The sort is a strict order in which any two letters differ.
LEMMA PrecedesOrders ==
  ASSUME NEW l \in Letters, NEW m \in Letters
  PROVE  /\ Precedes(l, m) => ~ Precedes(m, l)
         /\ l # m => Precedes(l, m) \/ Precedes(m, l)
  <1>1. Registry[l].receivedAt \in Nat /\ Registry[m].receivedAt \in Nat /\ l \in Nat /\ m \in Nat
    BY AccessAssumption
  <1> QED
    BY <1>1 DEF Precedes

\* A letter's place in a listing is one after the letters that precede it.
LEMMA PlaceIsRank ==
  ASSUME NEW S \in SUBSET Letters, IsFiniteSet(S), NEW s \in Listings(S),
         NEW i \in 1 .. Cardinality(S)
  PROVE  Cardinality({m \in S : Precedes(m, s[i])}) = i - 1
  <1> DEFINE n == Cardinality(S)
             before == {m \in S : Precedes(m, s[i])}
             f == [j \in 1 .. i - 1 |-> s[j]]
  <1>1. /\ n \in Nat /\ s \in [1 .. n -> S]
        /\ \A j, k \in 1 .. n : s[j] = s[k] => j = k
        /\ \A x \in S : \E j \in 1 .. n : s[j] = x
        /\ \A j, k \in 1 .. n : j < k => ~ Precedes(s[k], s[j])
    BY ListingNamesAll
  <1> HIDE DEF n
  <1>2. i \in 1 .. n
    BY DEF n
  <1>3. ASSUME NEW j \in 1 .. i - 1 PROVE f[j] \in before
    <2>1. j \in 1 .. n /\ j < i
      BY <1>1, <1>2
    <2>2. s[j] # s[i] /\ ~ Precedes(s[i], s[j]) /\ s[j] \in S /\ s[i] \in S
      BY <1>1, <1>2, <2>1
    <2> QED
      BY <2>2, PrecedesOrders
  <1>4. ASSUME NEW m \in before PROVE \E j \in 1 .. i - 1 : f[j] = m
    <2>1. PICK j \in 1 .. n : s[j] = m
      BY <1>1
    <2>2. ~ Precedes(s[i], m) /\ j # i
      BY <1>1, <1>2, <2>1, PrecedesOrders
    <2>3. Precedes(s[j], s[i])
      BY <2>1
    <2>4. ~ (i < j)
      BY <1>1, <1>2, <2>3
    <2>5. j \in 1 .. i - 1
      BY <1>1, <1>2, <2>2, <2>4
    <2> QED
      BY <2>1, <2>5
  <1>5. \A j, k \in 1 .. i - 1 : f[j] = f[k] => j = k
    BY <1>1, <1>2
  <1>6. f \in [1 .. i - 1 -> before]
    BY <1>3
  <1> HIDE DEF f, before
  <1>7. f \in Bijection(1 .. i - 1, before)
    BY <1>4, <1>5, <1>6, Fun_IsBij
  <1>8. IsFiniteSet(1 .. i - 1) /\ Cardinality(1 .. i - 1) = i - 1
    <2>1. i \in Nat /\ 1 \in Int /\ i - 1 \in Int /\ i >= 1
      BY <1>1, <1>2
    <2>2. /\ IsFiniteSet(1 .. i - 1)
          /\ Cardinality(1 .. i - 1) = IF 1 > i - 1 THEN 0 ELSE (i - 1) - 1 + 1
      BY <2>1, FS_Interval
    <2> QED
      BY <2>1, <2>2
  <1>9. ExistsBijection(1 .. i - 1, before)
    BY <1>7 DEF ExistsBijection
  <1>10. Cardinality(before) = Cardinality(1 .. i - 1)
    BY <1>8, <1>9, FS_Bijection
  <1> QED
    BY <1>8, <1>10 DEF before

\* So the database has no choice: two listings of the same letters put each in
\* the same place.
LEMMA ListingsAgree ==
  ASSUME NEW S \in SUBSET Letters, IsFiniteSet(S),
         NEW s \in Listings(S), NEW t \in Listings(S),
         NEW i \in 1 .. Cardinality(S), NEW j \in 1 .. Cardinality(S), s[i] = t[j]
  PROVE  i = j
  <1>1. Cardinality({m \in S : Precedes(m, s[i])}) = i - 1
    BY PlaceIsRank
  <1>2. Cardinality({m \in S : Precedes(m, t[j])}) = j - 1
    BY PlaceIsRank
  <1>3. i \in Int /\ j \in Int
    OBVIOUS
  <1> QED
    BY <1>1, <1>2, <1>3

-----------------------------------------------------------------------------
(* The steps. *)

\* What a query may return is filed.
LEMMA MatchingFiled ==
  ASSUME IInv, NEW u, NEW d
  PROVE  /\ Matching(u, d) \subseteq filed /\ Matching(u, d) \subseteq Letters
         /\ IsFiniteSet(Matching(u, d)) /\ Cardinality(Matching(u, d)) \in Nat
  <1>1. Matching(u, d) \in SUBSET filed /\ filed \subseteq Letters
    BY DEF Matching, IInv, TypeOK
  <1>2. IsFiniteSet(Matching(u, d))
    BY <1>1, FS_Subset DEF IInv
  <1> QED
    BY <1>1, <1>2, FS_CardinalityType

\* The first state satisfies the invariant.
LEMMA InitIInv == Init => IInv
  <1>1. << >> \in Seq(Letters)
    BY EmptySeq
  <1> QED
    BY <1>1, FS_EmptySet, AccessAssumption DEF Init, IInv, TypeOK, Scopes

\* The registry grows one letter at a time, and queries read what is typed.
LEMMA IInvStep == IInv /\ [Next]_vars => IInv'
  <1> SUFFICES ASSUME IInv, [Next]_vars PROVE IInv'
    OBVIOUS
  <1> USE DEF IInv, TypeOK
  <1>1. ASSUME NEW l \in Letters, NEW c \in Classifications \cup {None}, File(l, c)
        PROVE  IInv'
    <2>1. IsFiniteSet(filed')
      BY <1>1, FS_AddElement DEF File
    <2> QED
      BY <1>1, <2>1 DEF File
  <1>2. ASSUME NEW l \in Letters, NEW c \in Classifications, Reclassify(l, c) PROVE IInv'
    BY <1>2 DEF Reclassify
  <1>3. ASSUME NEW c \in Classifications, SetRestrictsAccess(c) PROVE IInv'
    BY <1>3 DEF SetRestrictsAccess
  <1>4. ASSUME NEW d \in Departments, SetDepartmentStatus(d) PROVE IInv'
    BY <1>4 DEF SetDepartmentStatus
  <1>5. ASSUME NEW q \in Queries, NEW u \in Users, NEW d \in Scopes, NEW p \in Pages,
               Receive(q, u, d, p)
        PROVE  IInv'
    BY <1>5 DEF Receive
  <1>6. ASSUME NEW q \in Queries, Count(q) PROVE IInv'
    <2>1. Cardinality(Matching(caller[q], asked[q])) \in Nat
      BY MatchingFiled
    <2> QED
      BY <1>6, <2>1 DEF Count
  <1>7. ASSUME NEW q \in Queries, Fetch(q) PROVE IInv'
    <2> DEFINE rows == Matching(caller[q], asked[q])
    <2>1. PICK s \in Listings(rows) : items' = [items EXCEPT ![q] = PageOf(s, page[q])]
      BY <1>7 DEF Fetch
    <2>2. rows \subseteq Letters /\ IsFiniteSet(rows)
      BY MatchingFiled
    <2>3. s \in Seq(rows)
      BY <2>2, ListingNamesAll
    <2>4. s \in Seq(Letters)
      BY <2>2, <2>3, SeqMonotonic
    <2>5. page[q] \in Nat \ {0}
      BY AccessAssumption
    <2>6. PageOf(s, page[q]) \in Seq(Letters)
      BY <2>4, <2>5, PageContents
    <2> QED
      BY <1>7, <2>1, <2>6 DEF Fetch
  <1>8. CASE UNCHANGED vars
    BY <1>8
  <1> QED
    BY <1>1, <1>2, <1>3, <1>4, <1>5, <1>6, <1>7, <1>8 DEF Next

-----------------------------------------------------------------------------
(* The theorems. *)

\* IInv is inductive.
LEMMA IInvInvariant == Spec => []IInv
  BY InitIInv, IInvStep, PTL DEF Spec

\* The registry and the answers to list requests keep their types.
THEOREM TypeCorrect == Spec => []TypeOK
  <1>1. IInv => TypeOK
    BY DEF IInv
  <1> QED
    BY <1>1, IInvInvariant, PTL

\* The WHERE clause of the list and the check of a single letter are the same
\* policy, for every role, registry and reclassification.
LEMMA FilterIsCheck ==
  ASSUME TypeOK, NEW u \in Users, NEW d \in Scopes, NEW l \in filed,
         Role(u) = "SYSTEM_ADMIN" \/ Profile[u].dept \in departmentActive
  PROVE  l \in Matching(u, d) <=>
            /\ CanView(u, l)
            /\ Role(u) = "SYSTEM_ADMIN" => d \in {None, Registry[l].dept}
  <1>1. /\ classification[l] \in restricted => classification[l] # None
        /\ l \in Letters /\ Registry[l].dept \in Departments
        /\ classification[l] \notin restricted <=> classification[l] = None \/ RestrictsIsFalse(l)
    BY AccessAssumption DEF TypeOK, RestrictsIsFalse
  <1>2. Profile[u].dept = None <=> Role(u) = "SYSTEM_ADMIN"
    BY AccessAssumption DEF Role
  <1>3. CASE Role(u) = "SYSTEM_ADMIN"
    BY <1>1, <1>3
    DEF Matching, RecipientDepartment, VisibilityFilter, CanView, DepartmentAccess
  <1>4. CASE Role(u) # "SYSTEM_ADMIN"
    BY <1>1, <1>2, <1>4
    DEF Matching, RecipientDepartment, VisibilityFilter, CanView, DepartmentAccess
  <1> QED
    BY <1>3, <1>4

\* A list never shows a letter that could not be opened, and shows all that could.
THEOREM ListCorrect == Spec => []ListMatchesCheck
  <1>1. TypeOK => ListMatchesCheck
    BY FilterIsCheck DEF ListMatchesCheck
  <1> QED
    BY <1>1, TypeCorrect, PTL

\* The rows a bucket counts.
CountOf(rows, key, b) == Cardinality({l \in rows : key[l] = b})

\* A GROUP BY counts the rows of each key, and has no empty bucket.
LEMMA BucketsCount ==
  ASSUME NEW u, NEW d, NEW key, NEW b
  PROVE  IF b \in DOMAIN Aggregate(u, d, key)
         THEN Aggregate(u, d, key)[b] = CountOf(Matching(u, d), key, b)
         ELSE CountOf(Matching(u, d), key, b) = 0
  <1> DEFINE rows == Matching(u, d)
             counted == Aggregate(u, d, key)
  <1> HIDE DEF rows
  <1>1. counted = [c \in {key[l] : l \in rows} |-> Cardinality({l \in rows : key[l] = c})]
    BY DEF Aggregate, rows
  <1> HIDE DEF counted
  <1>2. ASSUME b \in DOMAIN counted PROVE counted[b] = CountOf(rows, key, b)
    BY <1>1, <1>2 DEF CountOf
  <1>3. ASSUME b \notin DOMAIN counted PROVE CountOf(rows, key, b) = 0
    <2>1. {l \in rows : key[l] = b} = {}
      BY <1>1, <1>3
    <2> QED
      BY <2>1, FS_EmptySet DEF CountOf
  <1> QED
    BY <1>2, <1>3 DEF rows, counted

\* The dashboard's buckets count just the letters the caller may open.
THEOREM AggregatesCorrect == Spec => []AggregatesMatchCheck
  <1>1. TypeOK => AggregatesMatchCheck
    <2> SUFFICES ASSUME TypeOK PROVE AggregatesMatchCheck
      OBVIOUS
    <2> DEFINE Visible(u, d) ==
                 {l \in filed :
                    /\ CanView(u, l)
                    /\ Role(u) = "SYSTEM_ADMIN" => d \in {None, Registry[l].dept}}
               Counted(u, d, key) ==
                 \A b \in Departments \cup Classifications \cup {None} :
                    IF b \in DOMAIN Aggregate(u, d, key)
                    THEN Aggregate(u, d, key)[b] = CountOf(Visible(u, d), key, b)
                    ELSE CountOf(Visible(u, d), key, b) = 0
    <2>1. ASSUME NEW u \in Users, NEW d \in Scopes,
                 Role(u) = "SYSTEM_ADMIN" \/ Profile[u].dept \in departmentActive
          PROVE  Visible(u, d) = Matching(u, d)
      <3>1. Matching(u, d) \subseteq filed
        BY DEF Matching
      <3> QED
        BY <2>1, <3>1, FilterIsCheck
    <2> HIDE DEF Visible
    <2>2. ASSUME NEW u \in Users, NEW d \in Scopes,
                 Role(u) = "SYSTEM_ADMIN" \/ Profile[u].dept \in departmentActive
          PROVE  /\ Counted(u, d, [l \in Letters |-> Registry[l].dept])
                 /\ Counted(u, d, classification)
      BY <2>1, <2>2, BucketsCount
    <2> QED
      BY <2>2 DEF AggregatesMatchCheck, Visible, CountOf
  <1> QED
    BY <1>1, TypeCorrect, PTL

\* Turning the pages shows every visible letter, and none on two pages, although
\* each page is a query of its own: the secondary sort key leaves no choice.
THEOREM PagesCorrect == Spec => []PagesPartition
  <1>1. IInv => PagesPartition
    <2> SUFFICES ASSUME IInv, NEW u \in Users
                 PROVE  LET rows == Matching(u, None)
                            listings == Listings(rows)
                            pages == 1 .. TotalPages(Cardinality(rows))
                        IN  /\ \A s \in listings :
                                  UNION {Range(PageOf(s, p)) : p \in pages} = rows
                            /\ \A s, t \in listings, p, q \in pages :
                                  p # q => Range(PageOf(s, p)) \cap Range(PageOf(t, q)) = {}
      BY DEF PagesPartition
    <2> DEFINE rows == Matching(u, None)
               n == Cardinality(rows)
               pages == 1 .. TotalPages(n)
    <2>1. rows \subseteq Letters /\ IsFiniteSet(rows) /\ n \in Nat
      BY MatchingFiled
    <2> HIDE DEF rows
    <2>2. /\ TotalPages(n) \in Nat
          /\ \A i \in 1 .. n : \E p \in pages : i \in Slice(p, n)
          /\ \A p, q \in Nat \ {0} : p # q => Slice(p, n) \cap Slice(q, n) = {}
      BY <2>1, Slices
    <2>3. pages \subseteq Nat \ {0}
      BY <2>2
    <2> HIDE DEF n, pages
    <2>4. ASSUME NEW s \in Listings(rows), NEW p \in pages
          PROVE  Range(PageOf(s, p)) = {s[i] : i \in Slice(p, n)}
      <3>1. s \in Seq(rows) /\ Len(s) = n
        BY <2>1, ListingNamesAll DEF n
      <3> QED
        BY <2>3, <3>1, PageContents
    <2>5. \A p \in pages : Slice(p, n) \subseteq 1 .. n
      BY DEF Slice
    <2>6. ASSUME NEW s \in Listings(rows)
          PROVE  UNION {Range(PageOf(s, p)) : p \in pages} = rows
      <3>1. s \in [1 .. n -> rows] /\ \A x \in rows : \E i \in 1 .. n : s[i] = x
        BY <2>1, ListingNamesAll DEF n
      <3>2. ASSUME NEW p \in pages PROVE Range(PageOf(s, p)) \subseteq rows
        <4>1. \A i \in Slice(p, n) : s[i] \in rows
          BY <2>5, <3>1
        <4> QED
          BY <2>4, <4>1
      <3>3. ASSUME NEW x \in rows PROVE \E p \in pages : x \in Range(PageOf(s, p))
        <4>1. PICK i \in 1 .. n : s[i] = x
          BY <3>1
        <4>2. PICK p \in pages : i \in Slice(p, n)
          BY <2>2
        <4> QED
          BY <2>4, <4>1, <4>2
      <3> QED
        BY <3>2, <3>3
    <2>7. ASSUME NEW s \in Listings(rows), NEW t \in Listings(rows),
                 NEW p \in pages, NEW q \in pages, p # q
          PROVE  Range(PageOf(s, p)) \cap Range(PageOf(t, q)) = {}
      <3> SUFFICES ASSUME NEW i \in Slice(p, n), NEW j \in Slice(q, n), s[i] = t[j]
                   PROVE  FALSE
        BY <2>4
      <3>1. i \in 1 .. n /\ j \in 1 .. n
        BY <2>5
      <3>2. i = j
        BY <2>1, <3>1, ListingsAgree DEF n
      <3>3. Slice(p, n) \cap Slice(q, n) = {}
        BY <2>2, <2>3, <2>7
      <3> QED
        BY <3>2, <3>3
    <2> QED
      BY <2>6, <2>7 DEF rows, n, pages
  <1> QED
    BY <1>1, IInvInvariant, PTL
=============================================================================
