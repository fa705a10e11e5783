---------------------------- MODULE LetterAccess -----------------------------
(***************************************************************************)
(* Who sees which letter.  The same policy exists three times: as a check    *)
(* of one loaded letter (assert_letter_access), as a WHERE clause of the     *)
(* list (letter_visibility_filter), and as that clause under the GROUP BY of *)
(* the dashboard's aggregates.  What it depends on changes all the time:     *)
(* letters are filed and reclassified, classifications begin and cease to    *)
(* restrict, departments are switched on and off.                            *)
(*                                                                         *)
(* A list request is two statements under READ COMMITTED, a count and a      *)
(* page; other transactions may commit in between.                           *)
(***************************************************************************)
EXTENDS Integers, Sequences, FiniteSets, SequencesExt, Functions

CONSTANTS
    Users, Departments, Classifications,
    Letters,        \* letters by id; ids are ordered, so they are numbers
    Profile,        \* [Users -> [role, dept]]
    Registry,       \* [Letters -> [dept, recordedBy, receivedAt]]
    PageSize, Pages,    \* rows on a page, and the pages asked for
    Queries,        \* list requests
    None

Roles == {"SYSTEM_ADMIN", "ADMIN", "USER"}

ASSUME AccessAssumption ==
    /\ Letters \subseteq Nat
    /\ None \notin Departments \cup Classifications
    /\ PageSize \in Nat \ {0} /\ Pages \subseteq Nat \ {0} /\ 1 \in Pages
    /\ Profile \in [Users -> [role : Roles, dept : Departments \cup {None}]]
    /\ \A u \in Users : Profile[u].dept = None <=> Profile[u].role = "SYSTEM_ADMIN"
    /\ Registry \in [Letters -> [dept : Departments, recordedBy : Users, receivedAt : Nat]]

VARIABLES
    departmentActive,   \* departments whose status is ACTIVE
    filed,              \* the letters registered so far
    classification,     \* [Letters -> a classification or None]
    restricted,         \* classifications whose restricts_access is set
    pc, caller, asked, page,    \* the list requests and what they ask for
    total, items        \* what they have read

registry == <<departmentActive, filed, classification, restricted>>
query == <<pc, caller, asked, page, total, items>>
vars == <<registry, query>>

\* The department_id parameter; None for every department.
Scopes == Departments \cup {None}

TypeOK ==
    /\ departmentActive \subseteq Departments
    /\ filed \subseteq Letters
    /\ classification \in [Letters -> Classifications \cup {None}]
    /\ restricted \subseteq Classifications
    /\ pc \in [Queries -> {"idle", "count", "fetch", "done"}]
    /\ caller \in [Queries -> Users \cup {None}]
    /\ asked \in [Queries -> Scopes]
    /\ page \in [Queries -> Pages]
    /\ total \in [Queries -> Nat]
    /\ items \in [Queries -> Seq(Letters)]

Init ==
    /\ departmentActive = Departments
    /\ filed = {}
    /\ classification = [l \in Letters |-> None]
    /\ restricted = {}
    /\ pc = [q \in Queries |-> "idle"]
    /\ caller = [q \in Queries |-> None]
    /\ asked = [q \in Queries |-> None]
    /\ page = [q \in Queries |-> 1]
    /\ total = [q \in Queries |-> 0]
    /\ items = [q \in Queries |-> << >>]

-----------------------------------------------------------------------------
(* The check of one letter. *)

Role(u) == Profile[u].role

\* assert_department_access
DepartmentAccess(u, d) ==
    Role(u) = "SYSTEM_ADMIN" \/ (Profile[u].dept = d /\ d \in departmentActive)

\* assert_letter_access, can_view_letter
CanView(u, l) ==
    /\ DepartmentAccess(u, Registry[l].dept)
    /\ classification[l] \in restricted /\ Role(u) = "USER"
          => Registry[l].recordedBy = u

-----------------------------------------------------------------------------
(* The queries. *)

\* restricts_access IS FALSE in the LEFT JOIN with classifications: a letter that
\* has none has NULL there, which is not FALSE.
RestrictsIsFalse(l) == classification[l] \in Classifications \ restricted

\* Seeded fault: the WHERE clause leaves the unclassified letters to the join.
FilterWithoutUnclassified(u, l) ==
    Role(u) = "USER" => RestrictsIsFalse(l) \/ Registry[l].recordedBy = u

\* letter_visibility_filter
VisibilityFilter(u, l) ==
    Role(u) = "USER" =>
        \/ classification[l] = None
        \/ RestrictsIsFalse(l)
        \/ Registry[l].recordedBy = u

\* The department the query is confined to: a SYSTEM_ADMIN may name one, what
\* anyone else names is ignored.
RecipientDepartment(u, d) == IF Role(u) = "SYSTEM_ADMIN" THEN d ELSE Profile[u].dept

\* _build_filter_conditions, of which list and aggregate share the result.
Matching(u, d) ==
    {l \in filed :
        /\ RecipientDepartment(u, d) \in {None, Registry[l].dept}
        /\ VisibilityFilter(u, l)}

\* Seeded fault: ORDER BY without the secondary key.
PrecedesByDate(l, m) == Registry[l].receivedAt > Registry[m].receivedAt

\* ORDER BY received_at DESC, id ASC
Precedes(l, m) ==
    \/ Registry[l].receivedAt > Registry[m].receivedAt
    \/ Registry[l].receivedAt = Registry[m].receivedAt /\ l < m

\* Every order the database may return the rows of S in.
Listings(S) ==
    {s \in SetToSeqs(S) : \A i, j \in DOMAIN s : i < j => ~Precedes(s[j], s[i])}

\* LIMIT and OFFSET
PageOf(s, p) ==
    SubSeq(s, (p - 1) * PageSize + 1,
           IF p * PageSize < Len(s) THEN p * PageSize ELSE Len(s))

TotalPages(n) == (n + PageSize - 1) \div PageSize

\* Seeded fault: the aggregate query is built without the visibility filter.
AggregateOfDepartment(u, d, key) ==
    LET rows == {l \in filed : RecipientDepartment(u, d) \in {None, Registry[l].dept}}
    IN  [b \in {key[l] : l \in rows} |-> Cardinality({l \in rows : key[l] = b})]

\* aggregate_letters: GROUP BY key over the conditions of the list.
Aggregate(u, d, key) ==
    LET rows == Matching(u, d)
    IN  [b \in {key[l] : l \in rows} |-> Cardinality({l \in rows : key[l] = b})]

-----------------------------------------------------------------------------
(* What other transactions commit. *)

\* create_letter
File(l, c) ==
    /\ l \notin filed
    /\ filed' = filed \cup {l}
    /\ classification' = [classification EXCEPT ![l] = c]
    /\ UNCHANGED <<departmentActive, restricted, query>>

\* update_letter; a classification cannot be cleared.
Reclassify(l, c) ==
    /\ l \in filed
    /\ classification' = [classification EXCEPT ![l] = c]
    /\ UNCHANGED <<departmentActive, filed, restricted, query>>

\* update_classification
SetRestrictsAccess(c) ==
    /\ restricted' = IF c \in restricted THEN restricted \ {c} ELSE restricted \cup {c}
    /\ UNCHANGED <<departmentActive, filed, classification, query>>

SetDepartmentStatus(d) ==
    /\ departmentActive' = IF d \in departmentActive
                           THEN departmentActive \ {d}
                           ELSE departmentActive \cup {d}
    /\ UNCHANGED <<filed, classification, restricted, query>>

-----------------------------------------------------------------------------
(* GET /letters. *)

\* Authenticated; nothing asks for the status of the caller's department.
Receive(q, u, d, p) ==
    /\ pc[q] = "idle"
    /\ caller' = [caller EXCEPT ![q] = u]
    /\ asked' = [asked EXCEPT ![q] = d]
    /\ page' = [page EXCEPT ![q] = p]
    /\ pc' = [pc EXCEPT ![q] = "count"]
    /\ UNCHANGED <<registry, total, items>>

\* Seeded fault: an off-by-one in the count.
CountTooLow(q) ==
    /\ pc[q] = "count"
    /\ total' = [total EXCEPT ![q] = Cardinality(Matching(caller[q], asked[q])) - 1]
    /\ pc' = [pc EXCEPT ![q] = "fetch"]
    /\ UNCHANGED <<registry, caller, asked, page, items>>

\* The count statement.
Count(q) ==
    /\ pc[q] = "count"
    /\ total' = [total EXCEPT ![q] = Cardinality(Matching(caller[q], asked[q]))]
    /\ pc' = [pc EXCEPT ![q] = "fetch"]
    /\ UNCHANGED <<registry, caller, asked, page, items>>

\* The page statement, and the answer.
Fetch(q) ==
    /\ pc[q] = "fetch"
    /\ \E s \in Listings(Matching(caller[q], asked[q])) :
          items' = [items EXCEPT ![q] = PageOf(s, page[q])]
    /\ pc' = [pc EXCEPT ![q] = "done"]
    /\ UNCHANGED <<registry, caller, asked, page, total>>

Next ==
    \/ \E l \in Letters, c \in Classifications \cup {None} : File(l, c)
    \/ \E l \in Letters, c \in Classifications : Reclassify(l, c)
    \/ \E c \in Classifications : SetRestrictsAccess(c)
    \/ \E d \in Departments : SetDepartmentStatus(d)
    \/ \E q \in Queries :
          \/ \E u \in Users, d \in Scopes, p \in Pages : Receive(q, u, d, p)
          \/ Count(q)
          \/ Fetch(q)

Spec == Init /\ [][Next]_vars

-----------------------------------------------------------------------------
(* Properties. *)

\* The list shows exactly the letters that could be opened one by one
\* (letter_visibility_filter's docstring: kept in sync by hand), to everyone
\* whose department is ACTIVE and whatever department they ask for; only a
\* SYSTEM_ADMIN's choice narrows it.
ListMatchesCheck ==
    \A u \in Users, d \in Scopes, l \in filed :
        Role(u) = "SYSTEM_ADMIN" \/ Profile[u].dept \in departmentActive
            => (l \in Matching(u, d) <=>
                  /\ CanView(u, l)
                  /\ Role(u) = "SYSTEM_ADMIN" => d \in {None, Registry[l].dept})

\* The dashboard's buckets, by department or by classification, count the
\* letters the caller could open in the department asked for: a bucket never
\* betrays a letter that is hidden.
AggregatesMatchCheck ==
    \A u \in Users, d \in Scopes :
        LET visible ==
                {l \in filed :
                    /\ CanView(u, l)
                    /\ Role(u) = "SYSTEM_ADMIN" => d \in {None, Registry[l].dept}}
            Counts(key) ==
                \A b \in Departments \cup Classifications \cup {None} :
                    LET n == Cardinality({l \in visible : key[l] = b})
                        counted == Aggregate(u, d, key)
                    IN  IF b \in DOMAIN counted THEN counted[b] = n ELSE n = 0
        IN  Role(u) = "SYSTEM_ADMIN" \/ Profile[u].dept \in departmentActive
                => /\ Counts([l \in Letters |-> Registry[l].dept])
                   /\ Counts(classification)

\* Turning the pages of an unchanged registry, one request per page, shows each
\* visible letter exactly once, ties in the sort column or not.
PagesPartition ==
    \A u \in Users :
        LET rows == Matching(u, None)
            listings == Listings(rows)
            pages == 1 .. TotalPages(Cardinality(rows))
        IN  /\ \A s \in listings :
                  UNION {Range(PageOf(s, p)) : p \in pages} = rows
            /\ \A s, t \in listings, p, q \in pages :
                  p # q => Range(PageOf(s, p)) \cap Range(PageOf(t, q)) = {}

=============================================================================
