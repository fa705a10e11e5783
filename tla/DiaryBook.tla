------------------------------ MODULE DiaryBook ------------------------------
(***************************************************************************)
(* What the registration endpoints promise, without sessions, locks or     *)
(* failures: every department keeps one diary book per direction, a letter *)
(* is written on the next free line of one book and stays there, and a     *)
(* dispatched letter is recorded at most once, in the INCOMING book of the *)
(* department it was dispatched to.                                        *)
(***************************************************************************)
EXTENDS Naturals, Sequences

CONSTANTS Departments, Letters, None

VARIABLES
    diary,      \* the lines of each book, in order: line n has diary number n
    sentTo,     \* the department a filed OUTGOING letter was dispatched to
    recording   \* the INCOMING letter that records a dispatched one

bookVars == <<diary, sentTo, recording>>

Books == Departments \X {"INCOMING", "OUTGOING"}

\* The letters written in some book.
Filed == UNION {{diary[b][n] : n \in 1 .. Len(diary[b])} : b \in Books}

Init ==
    /\ diary = [b \in Books |-> << >>]
    /\ sentTo = [l \in Letters |-> None]
    /\ recording = [l \in Letters |-> None]

\* Letter l takes the next line of book b.
Enter(l, b) ==
    /\ l \notin Filed
    /\ diary' = [diary EXCEPT ![b] = Append(@, l)]

FileIncoming(l, d) ==
    /\ Enter(l, <<d, "INCOMING">>)
    /\ UNCHANGED <<sentTo, recording>>

FileOutgoing(l, d, destination) ==
    /\ destination # d
    /\ Enter(l, <<d, "OUTGOING">>)
    /\ sentTo' = [sentTo EXCEPT ![l] = destination]
    /\ UNCHANGED recording

\* Department sentTo[o] records the dispatched letter o as its own letter l.
Record(o, l) ==
    /\ sentTo[o] # None
    /\ recording[o] = None
    /\ Enter(l, <<sentTo[o], "INCOMING">>)
    /\ recording' = [recording EXCEPT ![o] = l]
    /\ UNCHANGED sentTo

Next ==
    \/ \E l \in Letters, d \in Departments : FileIncoming(l, d)
    \/ \E l \in Letters, d, e \in Departments : FileOutgoing(l, d, e)
    \/ \E o, l \in Letters : Record(o, l)

Spec == Init /\ [][Next]_bookVars
=============================================================================
