--------------------------- MODULE NotificationBell ---------------------------
(***************************************************************************)
(* The bell in the top bar, the panel it opens, and the notifications of    *)
(* the signed-in account on the server.                                    *)
(*                                                                         *)
(* The bell asks for the number of unread notifications when it mounts,     *)
(* every POLL_INTERVAL_MS while the tab is visible, and when the tab is     *)
(* shown again.  The panel lists them when it opens and marks them read;    *)
(* a mark is followed by another count.  All answers set the one badge, in  *)
(* the order they arrive.                                                  *)
(***************************************************************************)
EXTENDS ClientSession

CONSTANTS
    Notices,        \* notifications
    Earlier,        \* of these, the ones there from the start
    Recipient       \* [Notices -> Accounts]

\* A listing: which notifications, which of them read.
Listing == UNION {[N -> BOOLEAN] : N \in SUBSET Notices}

\* items is the list, once it has loaded; marking is the notification whose button
\* shows that it is being marked.
Panel == [items : {None} \cup Listing, marking : Notices \cup {None}]

ASSUME BellAssumption ==
    /\ Recipient \in [Notices -> Accounts]
    /\ IsFiniteSet(Notices) /\ Earlier \subseteq Notices
    /\ None \notin Notices \cup Listing \cup Panel

VARIABLES
    sent, read,     \* the server: notifications there are; of these, the read ones
    visible,        \* is the tab visible?
    badge,          \* unreadCount
    panel           \* None, or the open panel

server == <<sent, read>>
bell == <<visible, badge, panel>>

PanelKinds == {"list", "mark", "recount", "markAll"}
BellKinds == {"count"} \cup PanelKinds

BellTypeOK ==
    /\ read \subseteq sent /\ sent \subseteq Notices
    /\ visible \in BOOLEAN
    /\ badge \in 0..Cardinality(Notices)
    /\ panel \in Panel \cup {None}

BellInit ==
    /\ sent = Earlier
    /\ read = {}
    /\ visible = TRUE
    /\ badge = 0
    /\ panel = None

-----------------------------------------------------------------------------
(* The server. *)

Addressed(a) == {n \in sent : Recipient[n] = a}
UnreadCount(a) == Cardinality(Addressed(a) \ read)

\* A handler of the notification endpoints runs; all of them see the rows of
\* the account the token was issued to, and no others.
ServeBell(s) ==
    LET call == calls[s]
        own == Addressed(Owner[call.token])
    IN
    /\ call # None /\ call.answer = None /\ call.kind \in BellKinds
    /\ Accepted(call.token)
    /\ \/ /\ call.kind \in {"count", "recount"}
          /\ Serve(s, UnreadCount(Owner[call.token]))
          /\ UNCHANGED read
       \/ /\ call.kind = "list"
          /\ Serve(s, [n \in own |-> n \in read])
          /\ UNCHANGED read
       \/ /\ call.kind = "mark"
          /\ IF call.arg \in own
             THEN Serve(s, call.arg) /\ read' = read \cup {call.arg}
             ELSE Answer(s, 500, None) /\ UNCHANGED read
       \/ /\ call.kind = "markAll"
          /\ Serve(s, None)
          /\ read' = read \cup own
    /\ UNCHANGED <<session, issued, refused, events, sent, bell>>

\* NotificationService writes a notification for somebody.
Notify(n) ==
    /\ n \notin sent
    /\ sent' = sent \cup {n}
    /\ UNCHANGED <<session, calls, issued, refused, events, read, bell>>

-----------------------------------------------------------------------------
(* The bell. *)

Mounted == status = "authenticated"

\* Seeded fault: no polls while the panel is open.
PollsWhenClosed ==
    /\ Mounted /\ visible /\ panel = None
    /\ Send("count", None)
    /\ UNCHANGED <<session, issued, refused, events, server, bell>>

\* The interval fires.
Poll ==
    /\ Mounted /\ visible
    /\ Send("count", None)
    /\ UNCHANGED <<session, issued, refused, events, server, bell>>

\* handleVisibilityChange
Hide ==
    /\ visible
    /\ Event
    /\ visible' = FALSE
    /\ UNCHANGED <<session, calls, issued, refused, server, badge, panel>>

Show ==
    /\ ~visible
    /\ Event
    /\ visible' = TRUE
    /\ IF Mounted THEN Send("count", None) ELSE UNCHANGED calls
    /\ UNCHANGED <<session, issued, refused, server, badge, panel>>

OpenPanel ==
    /\ Mounted /\ panel = None
    /\ Event
    /\ panel' = [items |-> None, marking |-> None]
    /\ Send("list", None)
    /\ UNCHANGED <<session, issued, refused, server, visible, badge>>

\* onUnreadCountChange is the bell's, which is still there.
ClosePanel ==
    /\ panel # None
    /\ panel' = None
    /\ calls' = Detached(calls, PanelKinds, "bell")
    /\ UNCHANGED <<session, issued, refused, events, server, visible, badge>>

Listed == panel # None /\ panel.items # None

\* Seeded fault: the item shows as read before the server has answered.
MarksAtOnce(n) ==
    /\ Listed /\ n \in DOMAIN panel.items /\ ~panel.items[n]
    /\ Event
    /\ panel' = [panel EXCEPT !.items[n] = TRUE, !.marking = n]
    /\ Send("mark", n)
    /\ UNCHANGED <<session, issued, refused, server, visible, badge>>

\* handleMarkRead, up to its first await.
MarkRead(n) ==
    /\ Listed /\ n \in DOMAIN panel.items /\ ~panel.items[n]
    /\ panel.marking # n
    /\ Event
    /\ panel' = [panel EXCEPT !.marking = n]
    /\ Send("mark", n)
    /\ UNCHANGED <<session, issued, refused, server, visible, badge>>

\* handleMarkAllRead, up to its await.
MarkAllRead ==
    /\ Listed /\ \E n \in DOMAIN panel.items : ~panel.items[n]
    /\ ~\E s \in UnderWay({"markAll"}) : calls[s].reach = "view"
    /\ Event
    /\ Send("markAll", None)
    /\ UNCHANGED <<session, issued, refused, server, bell>>

-----------------------------------------------------------------------------
(* Answers. *)

Ended(s) == calls' = [calls EXCEPT ![s] = None]

\* The panel, if the call's is still open, becomes p.
PanelBecomes(s, p) == panel' = IF calls[s].reach = "view" THEN p ELSE panel

\* The badge, if the bell is still there, becomes k.
BadgeBecomes(s, k) == badge' = IF calls[s].reach # "nowhere" THEN k ELSE badge

CountAnswered(s) ==
    /\ calls[s].kind = "count"
    /\ BadgeBecomes(s, IF Code(s) = 200 THEN Value(s) ELSE badge)
    /\ Ended(s)
    /\ UNCHANGED panel

ListAnswered(s) ==
    /\ calls[s].kind = "list"
    /\ PanelBecomes(s, [panel EXCEPT !.items = IF Code(s) = 200 THEN Value(s) ELSE None])
    /\ Ended(s)
    /\ UNCHANGED badge

\* Seeded fault: the panel counts for itself what is left.
CountsItself(s) ==
    /\ calls[s].kind = "mark"
    /\ IF Code(s) = 200
       THEN /\ PanelBecomes(s, [panel EXCEPT !.items[calls[s].arg] = TRUE, !.marking = None])
            /\ BadgeBecomes(s, badge - 1)
       ELSE /\ PanelBecomes(s, [panel EXCEPT !.marking = None])
            /\ UNCHANGED badge
    /\ Ended(s)

\* handleMarkRead goes on: the item is replaced, and the count asked for.
MarkAnswered(s) ==
    /\ calls[s].kind = "mark"
    /\ IF Code(s) = 200
       THEN /\ PanelBecomes(s, [panel EXCEPT !.items[calls[s].arg] = TRUE])
            /\ calls' = [calls EXCEPT ![s] =
                   With(Call("recount", None, stored), calls[s].reach, None)]
       ELSE /\ PanelBecomes(s, [panel EXCEPT !.marking = None])
            /\ Ended(s)
    /\ UNCHANGED badge

\* ... and its end.
RecountAnswered(s) ==
    /\ calls[s].kind = "recount"
    /\ BadgeBecomes(s, IF Code(s) = 200 THEN Value(s) ELSE badge)
    /\ PanelBecomes(s, [panel EXCEPT !.marking = None])
    /\ Ended(s)

MarkAllAnswered(s) ==
    /\ calls[s].kind = "markAll"
    /\ IF Code(s) = 200
       THEN /\ PanelBecomes(s, [panel EXCEPT !.items = [n \in DOMAIN panel.items |-> TRUE]])
            /\ BadgeBecomes(s, 0)
       ELSE UNCHANGED <<panel, badge>>
    /\ Ended(s)

BellAnswered(s) ==
    /\ \/ CountAnswered(s)
       \/ ListAnswered(s)
       \/ MarkAnswered(s)
       \/ RecountAnswered(s)
       \/ MarkAllAnswered(s)
    /\ UNCHANGED visible

-----------------------------------------------------------------------------
(* Properties. *)

\* What the panel shows as read is read on the server, although the answer to
\* "Mark all read" marks whatever the panel shows by then; except where the token
\* may have become another account's under the panel.
PanelTruthful ==
    Listed /\ ~mixed => \A n \in DOMAIN panel.items : panel.items[n] => n \in read

\* Whatever order the answers to polls and marks come in, in the end the badge
\* of a visible tab is the number of unread notifications of the account whose
\* token is stored, and stays so.
BadgeConverges ==
    <>[](Mounted /\ visible /\ Accepted(stored) => badge = UnreadCount(Owner[stored]))

=============================================================================
