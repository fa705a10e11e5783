--------------------------- MODULE MCLetterAccess ---------------------------
(* A small instance of LetterAccess for TLC. *)
EXTENDS LetterAccess, TLC

CONSTANTS Finance, Works, root, chief, ann, bob

\* Ann and Bob record letters of Finance, whose administrator is chief.
MCProfile ==
    [u \in Users |->
        CASE u = root -> [role |-> "SYSTEM_ADMIN", dept |-> None]
          [] u = chief -> [role |-> "ADMIN", dept |-> Finance]
          [] u = bob -> [role |-> "USER", dept |-> Works]
          [] OTHER -> [role |-> "USER", dept |-> Finance]]

\* Two letters received at the same time, one of each recorder of Finance, and
\* one of another department.
MCRegistry ==
    [l \in Letters |->
        [dept |-> IF l = 3 THEN Works ELSE Finance,
         recordedBy |-> CASE l = 1 -> ann [] l = 2 -> chief [] OTHER -> bob,
         receivedAt |-> IF l = 3 THEN 2 ELSE 1]]

Symmetry == Permutations(Classifications)
=============================================================================
