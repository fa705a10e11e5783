---------------------------- MODULE ClientSession ----------------------------
(***************************************************************************)
(* The session of one browser tab: AuthContext, the API client with its     *)
(* interceptors, the token storage, and what the server says to a token.    *)
(*                                                                         *)
(* Every request to the server is a call.  The token is attached when it    *)
(* is sent; the server handles it some time later; the answer is delivered  *)
(* some time after that.  Calls overtake each other freely and nothing      *)
(* cancels one.  What a call of another component does when it is           *)
(* delivered is that component's business, except for a 401.                *)
(*                                                                         *)
(* What people, other tabs and the network do counts against MaxEvents,     *)
(* unless it is bounded by itself.                                         *)
(***************************************************************************)
EXTENDS Naturals, FiniteSets

CONSTANTS
    Accounts,       \* accounts that sign in from this browser
    Tokens,         \* access tokens
    Owner,          \* [Tokens -> Accounts]: the account a token is issued to
    MaxCalls,       \* bound on the calls under way at a time
    MaxEvents,      \* bound on the events of the environment
    None            \* null

ASSUME SessionAssumption ==
    /\ Owner \in [Tokens -> Accounts]
    /\ None \notin Accounts \cup Tokens
    /\ MaxCalls \in Nat \ {0} /\ MaxEvents \in Nat

Slots == 1..MaxCalls

VARIABLES
    stored,         \* tokenStorage: the token in localStorage, or None
    status, user, restoreError,     \* the state of AuthContext
    calls,          \* [Slots -> the call under way, or None]
    issued,         \* tokens the server has issued
    refused,        \* of these, the ones it refuses: expired, or the account
                    \* is not ACTIVE any more
    mixed,          \* history: a restore and a login were under way together, or
                    \* another tab changed the token
    events          \* events so far

session == <<stored, status, user, restoreError, mixed>>

SessionKinds == {"me", "login"}

\* What the server answers.  Any other status, and a failed 5xx, is 500; 0 is
\* an answer that never came (errorNormalization.js).
Codes == {0, 200, 401, 403, 500}

\* Where an answer goes: to a view, to the bell only, or nowhere, once the
\* component that made the call is gone.
Reaches == {"view", "bell", "nowhere"}

SessionTypeOK ==
    /\ stored \in Tokens \cup {None}
    /\ status \in {"loading", "authenticated", "unauthenticated"}
    /\ user \in Accounts \cup {None}
    /\ restoreError \in BOOLEAN
    /\ DOMAIN calls = Slots
    /\ \A s \in Slots : calls[s] # None =>
          /\ calls[s].token \in Tokens \cup {None}
          /\ calls[s].reach \in Reaches
          /\ calls[s].answer # None => calls[s].answer.code \in Codes
    /\ refused \subseteq issued /\ issued \subseteq Tokens
    /\ mixed \in BOOLEAN
    /\ events \in 0..MaxEvents

-----------------------------------------------------------------------------
(* Calls. *)

Free == {s \in Slots : calls[s] = None}
FreeSlot == CHOOSE s \in Free : TRUE

UnderWay(kinds) == {s \in Slots : calls[s] # None /\ calls[s].kind \in kinds}

\* A call as the request interceptor sends it, with the token stored now.
Call(kind, arg, token) ==
    [kind |-> kind, arg |-> arg, token |-> token, reach |-> "view", answer |-> None]

\* The call, answered, or with another reach.
With(call, reach, answer) ==
    [kind |-> call.kind, arg |-> call.arg, token |-> call.token,
     reach |-> reach, answer |-> answer]

\* A call is sent.
Send(kind, arg) ==
    /\ Free # {}
    /\ calls' = [calls EXCEPT ![FreeSlot] = Call(kind, arg, stored)]

Answered(s) == calls[s] # None /\ calls[s].answer # None
Code(s) == calls[s].answer.code
Value(s) == calls[s].answer.value

\* The calls of a component that is unmounted go on without it.
Detached(cs, kinds, reach) ==
    [s \in Slots |->
        IF cs[s] # None /\ cs[s].kind \in kinds /\ cs[s].reach # "nowhere"
        THEN With(cs[s], reach, cs[s].answer)
        ELSE cs[s]]

Accepted(token) == token # None /\ token \notin refused

\* Seeded fault: nobody acts on the 401 of a poll.
PollsSkipRedirect(s) == calls[s].kind \in SessionKinds \cup {"count"}

\* The interceptor treats a 401 alike whichever token the call was sent with.
SkipAuthRedirect(s) == calls[s].kind \in SessionKinds
Unauthorized(s) == Answered(s) /\ Code(s) = 401 /\ ~SkipAuthRedirect(s)

\* An event of the environment.
Event == events < MaxEvents /\ events' = events + 1

\* get_current_user, before a handler runs.  HTTPBearer answers a call without
\* a token by 401 or 403, depending on the release of FastAPI.
Refusals(s) == IF calls[s].token = None THEN {401, 403} ELSE {401}

\* The server handles a call of this kind; the handlers give the value.
Answer(s, code, value) ==
    calls' = [calls EXCEPT ![s] =
                 With(calls[s], calls[s].reach, [code |-> code, value |-> value])]
Serve(s, value) == Answer(s, 200, value)

\* ... or refuses it.
Refuse(s) ==
    /\ calls[s] # None /\ calls[s].answer = None /\ calls[s].kind # "login"
    /\ ~Accepted(calls[s].token)
    /\ \E c \in Refusals(s) : Answer(s, c, None)
    /\ UNCHANGED <<session, issued, refused, events>>

\* GET /auth/me
ServeMe(s) ==
    /\ calls[s] # None /\ calls[s].answer = None /\ calls[s].kind = "me"
    /\ Accepted(calls[s].token)
    /\ Serve(s, Owner[calls[s].token])
    /\ UNCHANGED <<session, issued, refused, events>>

\* POST /auth/login issues a token, or refuses the credentials (401) or an account
\* that is not ACTIVE (403).
ServeLogin(s) ==
    /\ calls[s] # None /\ calls[s].answer = None /\ calls[s].kind = "login"
    /\ \/ \E t \in Tokens \ issued :
             /\ Owner[t] = calls[s].arg
             /\ Serve(s, t)
             /\ issued' = issued \cup {t}
       \/ /\ \E c \in {401, 403} : Answer(s, c, None)
          /\ UNCHANGED issued
    /\ UNCHANGED <<session, refused, events>>

\* A call fails on its way, or its answer is lost on the way back; or the
\* server fails.
Fail(s, c) ==
    /\ calls[s] # None /\ (Answered(s) => Code(s) # c)
    /\ c = 500 => ~Answered(s)
    /\ Event
    /\ Answer(s, c, None)
    /\ UNCHANGED <<session, issued, refused>>

-----------------------------------------------------------------------------
(* AuthContext. *)

\* clearSession
ClearSession ==
    /\ stored' = None
    /\ user' = None
    /\ restoreError' = FALSE
    /\ status' = "unauthenticated"
    /\ UNCHANGED mixed

\* What restoreSession makes of the stored token when AuthContext mounts.
LoadedStatus(t) == IF t = None THEN "unauthenticated" ELSE "loading"
LoadedCalls(t) == [s \in Slots |-> IF s = 1 /\ t # None THEN Call("me", None, t) ELSE None]

SessionInit ==
    /\ stored \in Tokens \cup {None}
    /\ status = LoadedStatus(stored)
    /\ user = None
    /\ restoreError = FALSE
    /\ mixed = FALSE
    /\ calls = LoadedCalls(stored)
    /\ issued = {stored} \ {None}
    /\ refused = {}
    /\ events = 0

\* Seeded fault: an unreachable server leaves the boot screen up.
KeepsLoading(s) ==
    /\ restoreError' = TRUE
    /\ UNCHANGED <<stored, status, user, mixed>>

\* The catch block of restoreSession: an unreachable server proves nothing, any
\* answer rejects the token.
RestoreFailed(s) ==
    IF Code(s) = 0
    THEN /\ restoreError' = TRUE
         /\ status' = "unauthenticated"
         /\ UNCHANGED <<stored, user, mixed>>
    ELSE ClearSession

\* restoreSession goes on when GET /auth/me is answered, whatever happened to
\* the session meanwhile.
RestoreAnswered(s) ==
    IF Code(s) = 200
    THEN /\ user' = Value(s)
         /\ status' = "authenticated"
         /\ UNCHANGED <<stored, restoreError, mixed>>
    ELSE RestoreFailed(s)

\* Seeded fault: the token of an earlier session stays in storage.
KeepsOldToken(s) ==
    IF Code(s) = 200
    THEN /\ stored' = IF stored = None THEN Value(s) ELSE stored
         /\ user' = Owner[Value(s)]
         /\ restoreError' = FALSE
         /\ status' = "authenticated"
         /\ UNCHANGED mixed
    ELSE UNCHANGED session

\* login goes on; its failures are the login form's.
LoginAnswered(s) ==
    IF Code(s) = 200
    THEN /\ stored' = Value(s)
         /\ user' = Owner[Value(s)]
         /\ restoreError' = FALSE
         /\ status' = "authenticated"
         /\ UNCHANGED mixed
    ELSE UNCHANGED session

\* The answer of a call of AuthContext, or a 401 of anybody's.
SessionAnswered(s) ==
    \/ Unauthorized(s) /\ ClearSession
    \/ Answered(s) /\ calls[s].kind = "me" /\ RestoreAnswered(s)
    \/ Answered(s) /\ calls[s].kind = "login" /\ LoginAnswered(s)

\* The login form.  Its button is disabled while its own call is under way.
SubmitLogin(a) ==
    /\ status = "unauthenticated"
    /\ ~\E q \in UnderWay({"login"}) : calls[q].reach = "view"
    /\ \E t \in Tokens \ issued : Owner[t] = a
    /\ Event
    /\ Send("login", a)
    /\ mixed' = (mixed \/ UnderWay({"me"}) # {})
    /\ UNCHANGED <<stored, status, user, restoreError, issued, refused>>

\* retryRestoreSession, offered next to the form while restoreError is shown.
RetryRestore ==
    /\ status = "unauthenticated" /\ restoreError
    /\ Event
    /\ IF stored = None
       THEN UNCHANGED <<restoreError, mixed, calls>>
       ELSE /\ restoreError' = FALSE
            /\ Send("me", None)
            /\ mixed' = (mixed \/ UnderWay({"login"}) # {})
    /\ UNCHANGED <<stored, status, user, issued, refused>>

\* logout
Logout ==
    /\ status = "authenticated"
    /\ Event
    /\ ClearSession
    /\ UNCHANGED <<issued, refused>>

\* The page is loaded again.  Nothing survives but localStorage; a call that the
\* server still handles is as one it handled before.
Reload ==
    /\ Event
    /\ status' = LoadedStatus(stored)
    /\ user' = None
    /\ restoreError' = FALSE
    /\ mixed' = FALSE
    /\ calls' = LoadedCalls(stored)
    /\ UNCHANGED <<stored, issued, refused>>

\* Another tab of the browser signs in or out: localStorage is shared.
OtherTab(t) ==
    /\ t \in Tokens \ issued \/ (t = None /\ stored # None)
    /\ Event
    /\ stored' = t
    /\ issued' = issued \cup ({t} \ {None})
    /\ mixed' = TRUE
    /\ UNCHANGED <<status, user, restoreError, calls, refused>>

\* A token expires, or its account is deactivated.
StopAccepting(t) ==
    /\ t \in issued \ refused
    /\ Event
    /\ refused' = refused \cup {t}
    /\ UNCHANGED <<session, calls, issued>>

-----------------------------------------------------------------------------
(* Properties. *)

\* A tab that shows a signed-in user holds a token, and it is a token of that
\* user, whatever answers came late; except after a restore and a login were
\* under way together, or another tab changed the token.
IdentityMatchesToken ==
    status = "authenticated" /\ ~mixed =>
        stored # None /\ user = Owner[stored]

\* Whatever becomes of the first call, the boot screen goes away.
BootEnds == status = "loading" ~> status # "loading"

=============================================================================
