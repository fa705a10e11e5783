------------------------ MODULE MCLetterMaintenance -------------------------
(* A small instance of LetterMaintenance for TLC. *)
EXTENDS LetterMaintenance, TLC

CONSTANTS general, secret, clerk, chief

MCNameOf == [d \in Designations |-> IF d = clerk THEN "Clerk" ELSE "Chief"]

MCCreated ==
    [f \in Fields |->
        CASE f = "classification" -> general
          [] f = "designation" -> clerk
          [] f = "sender_designation" -> "Clerk"
          [] f = "status" -> "ACTIVE"
          [] OTHER -> None]

Patch(classification, designation, text) ==
    [f \in Fields |->
        CASE f = "classification" -> classification
          [] f = "designation" -> designation
          [] f = "sender_designation" -> text
          [] OTHER -> None]

Categorize(c) == [f \in Fields |-> IF f = "category" THEN c ELSE None]

\* Reclassifications to and fro, a form that echoes the designation, a new
\* designation, a first category, and archiving.
MCPayloads ==
    {Patch(secret, None, None), Patch(general, None, None),
     Patch(None, clerk, "Acting Clerk"), Patch(secret, chief, "Clerk"), Archiving}
    \cup {Categorize(c) : c \in Categories}

Symmetry == Permutations(Requests)
=============================================================================
