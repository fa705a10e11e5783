-------------------------- MODULE MCLetterRegistry --------------------------
(* Small instances of LetterRegistry for TLC. *)
EXTENDS LetterRegistry, TLC

CONSTANTS Finance, Works

\* A create in department d, of an INCOMING letter (to = None) or dispatched.
Create(d, direction, to, continues) ==
    [kind |-> "create", dept |-> d, direction |-> direction, dispatch |-> to,
     target |-> None, continues |-> continues]

RecordOf(d, o) ==
    [kind |-> "record", dept |-> d, direction |-> "INCOMING", dispatch |-> None,
     target |-> o, continues |-> None]

\* Finance dispatches to Works; both departments try to record; Works registers
\* walk-in letters and replies that compete for the same counter row;
\* one create is a dispatch to itself.
MCPayloads ==
    {Create(Finance, "OUTGOING", Works, None),
     Create(Works, "INCOMING", None, None),
     Create(Finance, "OUTGOING", Finance, None)}
    \cup {RecordOf(d, o) : d \in Departments, o \in Requests}
    \cup {Create(Works, "OUTGOING", Finance, c) : c \in Requests}

\* For liveness, which symmetry would make unsound: one dispatch and the
\* requests that contend for the counter row of Works.
LivePayloads ==
    {Create(Finance, "OUTGOING", Works, None),
     Create(Works, "INCOMING", None, None),
     RecordOf(Works, CHOOSE o \in Requests : TRUE)}

\* Requests are interchangeable: MCPayloads is closed under renaming them.
Symmetry == Permutations(Requests)
=============================================================================
