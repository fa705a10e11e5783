------------------------------- MODULE MCClient -------------------------------
(* A small instance of Client for TLC. *)
EXTENDS Client, TLC

CONSTANTS ann, bob, annsToken, bobsToken, n1, n2, all, drafts

\* Both notifications are ann's.
MCOwner == annsToken :> ann @@ bobsToken :> bob
MCRecipient == n1 :> ann @@ n2 :> ann

\* One list has two pages, the other one.
MCPages == all :> 2 @@ drafts :> 1
=============================================================================
