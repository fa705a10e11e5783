----------------------------- MODULE MCAccounts -----------------------------
(* Small instances of Accounts for TLC. *)
EXTENDS Accounts, TLC

CONSTANTS Finance, Works, ann, bob, root, admin

\* A serving SYSTEM_ADMIN and a serving ADMIN of Finance.
MCFounderRow ==
    [f \in Founders |->
        [address |-> f, status |-> "ACTIVE", origin |-> None,
         role |-> IF f = root THEN "SYSTEM_ADMIN" ELSE "ADMIN",
         dept |-> IF f = root THEN None ELSE Finance]]

Call(op, role, target, address, dept) ==
    [op |-> op, role |-> role, by |-> IF role = "USER" THEN admin ELSE root,
     target |-> target, address |-> address, dept |-> dept]

Signup(address) == [op |-> "signup", address |-> address]

\* One address: authorized as a USER, revoked and signed up for, any number of
\* times.
SignupPayloads ==
    {Call("authorize", "USER", None, ann, None), Signup(ann)}
    \cup {Call("revoke", "USER", a, None, None) : a \in Requests}

\* The same, and authorized as an ADMIN of another department too.
BothRolesPayloads ==
    SignupPayloads \cup {Call("authorize", "ADMIN", None, ann, Works)}

\* The life of an account after its signup.
LifecycleCalls(role) ==
    {Call("authorize", role, None, ann, Finance), Signup(ann)}
    \cup {Call(op, role, u, None, None) : op \in Lifecycle, u \in Requests}

AdminPayloads ==
    LifecycleCalls("ADMIN") \cup {Call("move", "ADMIN", u, None, Works) : u \in Requests}

UserPayloads == LifecycleCalls("USER") \cup SignupPayloads

\* No SYSTEM_ADMIN serves any more: operators run the bootstrap command, for
\* an address of their own or for one with a signup under way.
BootstrapPayloads ==
    {Call("authorize", "USER", None, ann, None), Signup(ann),
     [op |-> "bootstrap", address |-> ann], [op |-> "bootstrap", address |-> bob],
     Call("deactivate", "ADMIN", admin, None, None)}

\* Everything together.
AllPayloads ==
    BothRolesPayloads \cup UserPayloads \cup AdminPayloads \cup BootstrapPayloads

Symmetry == Permutations(Requests)
=============================================================================
