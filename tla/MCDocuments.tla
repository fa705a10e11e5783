---------------------------- MODULE MCDocuments -----------------------------
(* A small instance of Documents for TLC. *)
EXTENDS Documents, TLC

\* A file as it should be, one whose bytes are not what its name says, one that
\* is too large, and one of a kind nobody may upload.
MCContents ==
    {[extension |-> "pdf", content |-> "application/pdf", size |-> "accepted"],
     [extension |-> "pdf", content |-> "image/png", size |-> "accepted"],
     [extension |-> "txt", content |-> "text/plain", size |-> "too_large"],
     [extension |-> "exe", content |-> "unrecognized", size |-> "accepted"]}

Symmetry == Permutations(Uploads) \cup Permutations(Downloads)
=============================================================================
