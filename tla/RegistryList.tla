---------------------------- MODULE RegistryList ----------------------------
(***************************************************************************)
(* The letter registry of a tab: a query kept in the URL, and the fetches   *)
(* its changes start.  A fetch is neither cancelled nor numbered, so any    *)
(* answer is shown when it comes; and an answer that finds the page it      *)
(* asked for beyond the last one changes the URL itself, to the last page   *)
(* of its own query: even when the page that asked is closed and another    *)
(* one of the letter registry is open.                                      *)
(***************************************************************************)
EXTENDS ClientSession

CONSTANTS
    Filters,        \* filters and sort orders
    MaxPage,        \* bound on the pages of letters
    InitialPages    \* [Filters -> the pages there are at the start]

Queries == [filter : Filters, page : 1..MaxPage]

\* The calls that fetch letters; their answer is total_pages, or a failure.
Fetches == [kind : {"letters"}, arg : Queries, token : Tokens \cup {None},
            reach : Reaches,
            answer : {None} \cup [code : Codes, value : (0..MaxPage) \cup {None}]]

ASSUME ListAssumption ==
    /\ MaxPage \in Nat
    /\ InitialPages \in [Filters -> 0..MaxPage]
    /\ None \notin Fetches

VARIABLES
    pages,          \* the server: total_pages of each filter
    query,          \* the query in the URL, or None when the page is not open
    shown,          \* None, or the query and total_pages of the answer shown
    loading, failed,
    newest,         \* history: the slot of the newest fetch, 0 once answered
    late            \* history: an older answer came after the newest one's

list == <<query, shown, loading, failed, newest, late>>

ListTypeOK ==
    /\ pages \in [Filters -> 0..MaxPage]
    /\ query \in Queries \cup {None}
    /\ shown \in [query : Queries, last : 0..MaxPage] \cup {None}
    /\ loading \in BOOLEAN /\ failed \in BOOLEAN /\ late \in BOOLEAN
    /\ newest \in Slots \cup {0}
    /\ \A s \in UnderWay({"letters"}) : calls[s] \in Fetches

ListInit ==
    /\ pages = InitialPages
    /\ query = None
    /\ shown = None
    /\ loading = FALSE
    /\ failed = FALSE
    /\ newest = 0
    /\ late = FALSE

\* The page is closed.
CloseList ==
    /\ query' = None
    /\ shown' = None
    /\ loading' = FALSE
    /\ failed' = FALSE
    /\ newest' = 0
    /\ late' = FALSE

-----------------------------------------------------------------------------
\* GET /letters
ServeLetters(s) ==
    /\ calls[s] # None /\ calls[s].answer = None /\ calls[s].kind = "letters"
    /\ Accepted(calls[s].token)
    /\ Serve(s, pages[calls[s].arg.filter])
    /\ UNCHANGED <<session, issued, refused, events, pages, list>>

\* Letters are filed, archived or reclassified.
Refile(f, n) ==
    /\ n # pages[f]
    /\ Event
    /\ pages' = [pages EXCEPT ![f] = n]
    /\ UNCHANGED <<session, calls, issued, refused, list>>

-----------------------------------------------------------------------------
\* fetchLetters for query q, as a call in slot s.
Fetch(s, q) ==
    /\ calls' = [calls EXCEPT ![s] = Call("letters", q, stored)]
    /\ failed' = FALSE
    /\ newest' = s
    /\ late' = FALSE

\* The page is opened by a link or a bookmark, or its URL changes: a filter, a
\* sort order, a page, back and forward.
Visit(q) ==
    /\ status = "authenticated"
    /\ q # query
    /\ Free # {}
    /\ Event
    /\ query' = q
    /\ loading' = TRUE
    /\ Fetch(FreeSlot, q)
    /\ UNCHANGED <<session, issued, refused, pages, shown>>

\* The user goes to another page of the application.
LeaveList ==
    /\ query # None
    /\ calls' = Detached(calls, {"letters"}, "nowhere")
    /\ CloseList
    /\ UNCHANGED <<session, issued, refused, events, pages>>

\* The Refresh button.
Refresh ==
    /\ query # None
    /\ Free # {}
    /\ Event
    /\ loading' = TRUE
    /\ Fetch(FreeSlot, query)
    /\ UNCHANGED <<session, issued, refused, pages, query, shown>>

\* Seeded fault: the page asked for is kept, whatever the last one is.
KeepsPage(s) == calls[s].arg

\* The query whose page the answer of s asks for: its own, but not beyond the
\* last page.
Clamped(s) ==
    LET q == calls[s].arg
    IN IF Value(s) >= 1 /\ q.page > Value(s) THEN [q EXCEPT !.page = Value(s)] ELSE q

\* A fetch ends, and no other is started.
FetchEnded(s) ==
    /\ calls' = [calls EXCEPT ![s] = None]
    /\ newest' = IF s = newest THEN 0 ELSE newest
    /\ late' = (newest = 0)
    /\ loading' = FALSE

\* The answer of the fetch in slot s, which need not be the newest one.  A new
\* URL starts a fetch before or after loading is turned off for this one.
LettersAnswered(s) ==
    LET q == Clamped(s)
    IN
    /\ calls[s].reach = "view"
    /\ IF Code(s) = 200
       THEN /\ shown' = [query |-> calls[s].arg, last |-> Value(s)]
            /\ IF q \notin {calls[s].arg, query}
               THEN query' = q /\ Fetch(s, q) /\ loading' \in BOOLEAN
               ELSE FetchEnded(s) /\ UNCHANGED <<query, failed>>
       ELSE /\ failed' = TRUE
            /\ FetchEnded(s)
            /\ UNCHANGED <<query, shown>>

\* The page that asked is closed, and shows nothing any more.  But setSearchParams
\* still navigates, from wherever the tab is now: the URL of a list that was
\* opened since moves to this query, which its page fetches.
LettersDropped(s) ==
    LET q == Clamped(s)
    IN
    /\ calls[s].reach = "nowhere"
    /\ IF Code(s) = 200 /\ query # None /\ q \notin {calls[s].arg, query}
       THEN query' = q /\ Fetch(s, q) /\ loading' = TRUE /\ UNCHANGED shown
       ELSE calls' = [calls EXCEPT ![s] = None] /\ UNCHANGED list

ListAnswers(s) ==
    /\ calls[s].kind = "letters"
    /\ LettersAnswered(s) \/ LettersDropped(s)
    /\ UNCHANGED pages

-----------------------------------------------------------------------------
(* Properties. *)

Fetching == {s \in UnderWay({"letters"}) : calls[s].reach = "view"}

\* When no fetch is under way and none was overtaken by a newer one, the page
\* shows the query that is in the URL, which is not beyond the last page: also
\* after answers, those to closed pages included, moved the URL by themselves.
ListAtRest ==
    query # None /\ Fetching = {} /\ ~late =>
        /\ ~loading
        /\ failed \/ /\ shown.query = query
                     /\ shown.last >= 1 => query.page <= shown.last

=============================================================================
