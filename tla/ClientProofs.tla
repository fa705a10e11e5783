----------------------------- MODULE ClientProofs -----------------------------
(***************************************************************************)
(* What holds of one tab, for any number of accounts, tokens,               *)
(* notifications, filters, calls under way and events.                     *)
(*                                                                         *)
(* First, a signed-in tab holds a token of the user it shows.  Without an   *)
(* overlap of a restore and a login, a restore is alone.  Its call is the   *)
(* only one under way, so nothing can change the token it was sent with,    *)
(* and no answer of an earlier session can come while it runs.  A retried   *)
(* restore is alone because the error that offers the retry is cleared      *)
(* whenever the shell, which makes the other calls, comes up.              *)
(*                                                                         *)
(* From this, what the panel and the list show.  An answer was right when   *)
(* it was given and, as notifications are only added and read, stays right; *)
(* and the calls of an open panel were sent with the token that is still    *)
(* stored.  The newest fetch asks for the query in the URL until it is      *)
(* answered, and then its answer is what is shown.                         *)
(***************************************************************************)
EXTENDS Client, FiniteSetTheorems, TLAPS

AnsweredOK(s) == calls[s].answer # None /\ calls[s].answer.code = 200

\* A login is answered by a token.
LoginsGiveTokens ==
    \A s \in Slots : calls[s] # None /\ calls[s].kind = "login" /\ AnsweredOK(s) =>
        calls[s].answer.value \in Tokens

\* The bell, the list and their calls are those of a signed-in user.
ShellSignedIn ==
    status # "authenticated" =>
        /\ panel = None /\ query = None
        /\ \A s \in Slots : calls[s] # None /\ calls[s].kind \in ShellKinds =>
               calls[s].reach = "nowhere"

\* A restore is the only call, and will tell the owner of the stored token.
RestoreAlone ==
    \A s \in Slots : calls[s] # None /\ calls[s].kind = "me" =>
        /\ \A t \in Slots : calls[t] # None => t = s
        /\ stored # None /\ calls[s].token = stored
        /\ status # "authenticated"
        /\ AnsweredOK(s) => calls[s].answer.value = Owner[stored]

\* While a restore may be retried, only logins are under way.
OnlyLogins ==
    restoreError =>
        /\ status # "authenticated"
        /\ \A s \in Slots : calls[s] # None => calls[s].kind = "login"

Shape ==
    /\ DOMAIN calls = Slots
    /\ stored \in Tokens \cup {None}
    /\ restoreError \in BOOLEAN /\ mixed \in BOOLEAN

IInv ==
    /\ Shape
    /\ LoginsGiveTokens
    /\ ShellSignedIn
    /\ ~mixed => RestoreAlone /\ OnlyLogins
    /\ IdentityMatchesToken

-----------------------------------------------------------------------------
(* How a step changes the calls. *)

\* Slot t holds the call it held, with an answer that is right for its kind;
\* the call may have been detached.
SameCall(t) ==
    /\ calls[t] # None
    /\ calls'[t].kind = calls[t].kind /\ calls'[t].token = calls[t].token
    /\ status # "authenticated" => calls'[t].reach \in {calls[t].reach, "nowhere"}
    /\ \/ calls'[t].answer = calls[t].answer
       \/ calls'[t].answer # None /\ calls'[t].answer.code = 200 =>
             /\ calls[t].kind = "login" => calls'[t].answer.value \in Tokens
             /\ calls[t].kind = "me" => calls'[t].answer.value = Owner[calls[t].token]

\* ... or a call of the shell: a new one of a signed-in user, or one that goes on
\* where another call of the shell was.
ShellCall(t) ==
    /\ calls'[t].kind \in ShellKinds
    /\ \/ status = "authenticated"
       \/ /\ calls[t] # None /\ calls[t].kind \in ShellKinds
          /\ calls'[t].reach = calls[t].reach

CallsMove ==
    /\ DOMAIN calls' = Slots
    /\ \A t \in Slots : calls'[t] \in {calls[t], None} \/ SameCall(t) \/ ShellCall(t)

\* A step that leaves the session alone and moves the calls so, and opens neither
\* panel nor list for nobody, keeps the invariant.
LEMMA MoveKeeps ==
    ASSUME IInv, CallsMove, UNCHANGED session,
           status # "authenticated" => panel' = panel /\ query' = query
    PROVE  IInv'
<1> USE DEF session
<1>1. Shape'
  BY DEF IInv, Shape, CallsMove
<1>2. LoginsGiveTokens'
  <2> SUFFICES ASSUME NEW t \in Slots, calls'[t] # None, calls'[t].kind = "login", AnsweredOK(t)'
               PROVE  calls'[t].answer.value \in Tokens
    BY DEF LoginsGiveTokens
  <2>1. ~ShellCall(t)
    BY DEF ShellCall, ShellKinds, BellKinds, PanelKinds
  <2>2. CASE calls'[t] = calls[t]
    BY <2>2 DEF IInv, LoginsGiveTokens, AnsweredOK
  <2>3. CASE SameCall(t)
    BY <2>3 DEF IInv, LoginsGiveTokens, AnsweredOK, SameCall
  <2> QED BY <2>1, <2>2, <2>3 DEF CallsMove
<1>3. ShellSignedIn'
  <2> SUFFICES ASSUME status' # "authenticated"
               PROVE  /\ panel' = None /\ query' = None
                      /\ \A t \in Slots : calls'[t] # None /\ calls'[t].kind \in ShellKinds =>
                             calls'[t].reach = "nowhere"
    BY DEF ShellSignedIn
  <2> QED BY DEF IInv, ShellSignedIn, CallsMove, SameCall, ShellCall
<1>4. ASSUME ~mixed' PROVE RestoreAlone' /\ OnlyLogins'
  <2>0. RestoreAlone /\ OnlyLogins
    BY <1>4 DEF IInv
  <2>1. RestoreAlone'
    <3> SUFFICES ASSUME NEW s \in Slots, calls'[s] # None, calls'[s].kind = "me"
                 PROVE  /\ \A t \in Slots : calls'[t] # None => t = s
                        /\ stored # None /\ calls'[s].token = stored
                        /\ status # "authenticated"
                        /\ AnsweredOK(s)' => calls'[s].answer.value = Owner[stored]
      BY DEF RestoreAlone
    <3>1. ~ShellCall(s)
      BY DEF ShellCall, ShellKinds, BellKinds, PanelKinds
    <3>2. calls[s] # None /\ calls[s].kind = "me" /\ calls'[s].token = calls[s].token
      BY <3>1 DEF CallsMove, SameCall
    <3>3. /\ \A t \in Slots : calls[t] # None => t = s
          /\ stored # None /\ calls[s].token = stored
          /\ status # "authenticated"
          /\ AnsweredOK(s) => calls[s].answer.value = Owner[stored]
      BY <2>0, <3>2 DEF RestoreAlone
    <3>4. \A t \in Slots : calls'[t] # None => t = s
      BY <3>3 DEF CallsMove, SameCall, ShellCall
    <3>5. AnsweredOK(s)' => calls'[s].answer.value = Owner[stored]
      BY <3>1, <3>2, <3>3 DEF CallsMove, SameCall, AnsweredOK
    <3> QED BY <3>2, <3>3, <3>4, <3>5
  <2>2. OnlyLogins'
    BY <2>0 DEF OnlyLogins, CallsMove, SameCall, ShellCall, ShellKinds, BellKinds, PanelKinds
  <2> QED BY <2>1, <2>2
<1>5. IdentityMatchesToken'
  BY DEF IInv, IdentityMatchesToken
<1> QED BY <1>1, <1>2, <1>3, <1>4, <1>5 DEF IInv

-----------------------------------------------------------------------------
(* The ways a step changes the calls. *)

\* A call that is sent takes a free slot.
LEMMA SendTakes ==
    ASSUME Shape, NEW kind, NEW arg, Send(kind, arg)
    PROVE  \E f \in Slots :
               /\ calls[f] = None /\ calls'[f] = Call(kind, arg, stored)
               /\ DOMAIN calls' = Slots
               /\ \A t \in Slots \ {f} : calls'[t] = calls[t]
<1>1. FreeSlot \in Free
  BY DEF Send, FreeSlot
<1>2. FreeSlot \in Slots /\ calls[FreeSlot] = None
  BY <1>1 DEF Free
<1> QED BY <1>2 DEF Send, Shape

\* An answer changes its call only.
LEMMA AnswerStays ==
    ASSUME Shape, NEW s \in Slots, NEW code, NEW value, calls[s] # None,
           Answer(s, code, value),
           code = 200 =>
               /\ calls[s].kind = "login" => value \in Tokens
               /\ calls[s].kind = "me" => value = Owner[calls[s].token]
    PROVE  CallsMove
<1>1. /\ DOMAIN calls' = Slots
      /\ \A t \in Slots \ {s} : calls'[t] = calls[t]
      /\ calls'[s] = With(calls[s], calls[s].reach, [code |-> code, value |-> value])
  BY DEF Shape, Answer
<1>2. SameCall(s)
  BY <1>1 DEF SameCall, With
<1> QED BY <1>1, <1>2 DEF CallsMove

\* A component that goes detaches its calls.
LEMMA DetachedStay ==
    ASSUME NEW cs, DOMAIN cs = Slots, NEW kinds, NEW reach \in {"bell", "nowhere"}
    PROVE  /\ DOMAIN Detached(cs, kinds, reach) = Slots
           /\ \A t \in Slots :
                 \/ Detached(cs, kinds, reach)[t] = cs[t]
                 \/ /\ cs[t] # None /\ cs[t].kind \in kinds /\ cs[t].reach # "nowhere"
                    /\ Detached(cs, kinds, reach)[t].kind = cs[t].kind
                    /\ Detached(cs, kinds, reach)[t].token = cs[t].token
                    /\ Detached(cs, kinds, reach)[t].answer = cs[t].answer
                    /\ Detached(cs, kinds, reach)[t].reach = reach
           /\ \A t \in Slots :
                 cs[t] # None /\ cs[t].kind \in kinds =>
                     Detached(cs, kinds, reach)[t].reach \in {reach, "nowhere"}
  BY DEF Detached, With

-----------------------------------------------------------------------------
(* One lemma for the steps of each component. *)

\* A call of the shell that a signed-in user starts.
LEMMA SendMoves ==
    ASSUME Shape, NEW kind \in ShellKinds, NEW arg, Send(kind, arg), status = "authenticated"
    PROVE  CallsMove
<1>1. PICK f \in Slots :
          /\ calls[f] = None /\ calls'[f] = Call(kind, arg, stored)
          /\ DOMAIN calls' = Slots
          /\ \A t \in Slots \ {f} : calls'[t] = calls[t]
  BY SendTakes
<1>2. ShellCall(f)
  BY <1>1 DEF ShellCall, Call
<1> QED BY <1>1, <1>2 DEF CallsMove

\* The server's handlers.
LEMMA HandleKeeps ==
    ASSUME IInv, NEW s \in Slots, Handle(s)
    PROVE  IInv'
<1>0. Shape
  BY DEF IInv
<1>1. UNCHANGED session /\ panel' = panel /\ query' = query
  BY DEF Handle, Refuse, ServeMe, ServeLogin, ServeBell, ServeLetters, bell, list
<1>2. CASE Refuse(s)
  <2>1. PICK c \in Refusals(s) : Answer(s, c, None)
    BY <1>2 DEF Refuse
  <2>2. c # 200
    BY <2>1 DEF Refusals
  <2>3. CallsMove
    BY <1>0, <1>2, <2>1, <2>2, AnswerStays DEF Refuse
  <2> QED BY <1>1, <2>3, MoveKeeps
<1>3. CASE ServeMe(s)
  <2>1. CallsMove
    BY <1>0, <1>3, AnswerStays DEF ServeMe, Serve
  <2> QED BY <1>1, <2>1, MoveKeeps
<1>4. CASE ServeLogin(s)
  <2>1. CASE \E t \in Tokens \ issued : Serve(s, t)
    <3>1. PICK t \in Tokens \ issued : Answer(s, 200, t)
      BY <2>1 DEF Serve
    <3>2. CallsMove
      BY <1>0, <1>4, <3>1, AnswerStays DEF ServeLogin
    <3> QED BY <1>1, <3>2, MoveKeeps
  <2>2. ASSUME NEW c \in {401, 403}, Answer(s, c, None) PROVE IInv'
    <3>1. CallsMove
      BY <1>0, <1>4, <2>2, AnswerStays DEF ServeLogin
    <3> QED BY <1>1, <3>1, MoveKeeps
  <2> QED BY <1>4, <2>1, <2>2 DEF ServeLogin
<1>5. CASE ServeBell(s)
  <2>1. /\ calls[s] # None /\ calls[s].kind \notin SessionKinds
        /\ \E code, value : Answer(s, code, value)
    BY <1>5 DEF ServeBell, Serve, BellKinds, PanelKinds, SessionKinds
  <2>2. CallsMove
    BY <1>0, <2>1, AnswerStays DEF SessionKinds
  <2> QED BY <1>1, <2>2, MoveKeeps
<1>6. CASE ServeLetters(s)
  <2>1. CallsMove
    BY <1>0, <1>6, AnswerStays DEF ServeLetters, Serve
  <2> QED BY <1>1, <2>1, MoveKeeps
<1> QED BY <1>2, <1>3, <1>4, <1>5, <1>6 DEF Handle

\* The interval, and what the user does with the bell and the panel.
LEMMA BellKeeps ==
    ASSUME IInv, Tick \/ BellEvent
    PROVE  IInv'
<1>0. Shape /\ (status # "authenticated" => panel = None /\ query = None)
  BY DEF IInv, ShellSignedIn
<1> DEFINE Quiet == UNCHANGED session /\ (status # "authenticated" => panel' = panel /\ query' = query)
<1>a. ASSUME NEW kind \in BellKinds, NEW arg, Send(kind, arg), status = "authenticated", Quiet
      PROVE  IInv'
  BY <1>0, <1>a, SendMoves, MoveKeeps DEF ShellKinds
<1>b. ASSUME UNCHANGED calls, Quiet PROVE IInv'
  BY <1>0, <1>b, MoveKeeps DEF CallsMove, Shape
<1>1. CASE Tick
  BY <1>1, <1>a DEF Tick, Poll, Mounted, bell, list, BellKinds
<1>2. ASSUME NEW n \in Notices, Notify(n), BellEvent PROVE IInv'
  BY <1>2, <1>b DEF Notify, BellEvent, bell, list
<1>3. ASSUME NEW n \in Notices, MarkRead(n), BellEvent PROVE IInv'
  BY <1>0, <1>3, <1>a DEF MarkRead, BellEvent, Listed, list, BellKinds, PanelKinds
<1>4. CASE Hide /\ BellEvent
  BY <1>4, <1>b DEF Hide, BellEvent, list
<1>5. CASE Show /\ BellEvent
  BY <1>5, <1>a, <1>b DEF Show, BellEvent, Mounted, list, BellKinds
<1>6. CASE OpenPanel /\ BellEvent
  BY <1>6, <1>a DEF OpenPanel, BellEvent, Mounted, list, BellKinds, PanelKinds
<1>7. CASE ClosePanel /\ BellEvent
  <2>1. status = "authenticated"
    BY <1>0, <1>7 DEF ClosePanel
  <2>2. calls' = Detached(calls, PanelKinds, "bell")
    BY <1>7 DEF ClosePanel
  <2>3. CallsMove
    BY <1>0, <2>1, <2>2, DetachedStay DEF CallsMove, SameCall, Shape
  <2>4. UNCHANGED session
    BY <1>7 DEF ClosePanel
  <2> QED BY <2>1, <2>3, <2>4, MoveKeeps
<1>8. CASE MarkAllRead /\ BellEvent
  BY <1>0, <1>8, <1>a DEF MarkAllRead, BellEvent, Listed, bell, list, BellKinds, PanelKinds
<1> QED BY <1>1, <1>2, <1>3, <1>4, <1>5, <1>6, <1>7, <1>8 DEF BellEvent

\* What the user does with the list, and letters filed meanwhile.
LEMMA ListKeeps ==
    ASSUME IInv, ListEvent
    PROVE  IInv'
<1>0. Shape /\ (status # "authenticated" => panel = None /\ query = None)
  BY DEF IInv, ShellSignedIn
<1>1. UNCHANGED session /\ UNCHANGED panel
  BY DEF ListEvent, Refile, Visit, LeaveList, Refresh, bell
<1>2. ASSUME NEW f \in Filters, NEW n \in 0..MaxPage, Refile(f, n) PROVE IInv'
  BY <1>0, <1>1, <1>2, MoveKeeps DEF Refile, CallsMove, Shape, list
<1>3. ASSUME NEW q, Free # {}, status = "authenticated", Fetch(FreeSlot, q) PROVE IInv'
  <2>1. Send("letters", q)
    BY <1>3 DEF Fetch, Send
  <2>2. CallsMove
    BY <1>0, <1>3, <2>1, SendMoves DEF ShellKinds
  <2> QED BY <1>1, <1>3, <2>2, MoveKeeps
<1>4. ASSUME NEW q \in Queries, Visit(q) PROVE IInv'
  BY <1>3, <1>4 DEF Visit
<1>5. CASE Refresh
  BY <1>0, <1>3, <1>5 DEF Refresh
<1>6. CASE LeaveList
  <2>1. status = "authenticated" /\ DOMAIN calls = Slots
    BY <1>0, <1>6 DEF LeaveList, Shape
  <2>2. calls' = Detached(calls, {"letters"}, "nowhere")
    BY <1>6 DEF LeaveList
  <2>3. /\ DOMAIN calls' = Slots
        /\ \A t \in Slots : calls'[t] = calls[t] \/ SameCall(t)
    BY <2>1, <2>2, DetachedStay DEF SameCall
  <2> QED BY <1>1, <2>1, <2>3, MoveKeeps DEF CallsMove
<1> QED BY <1>2, <1>4, <1>5, <1>6 DEF ListEvent

\* Answers that are the shell's own business.
LEMMA ShellAnswerKeeps ==
    ASSUME IInv, NEW s \in Slots, Answered(s), calls[s].kind \in ShellKinds,
           \/ BellAnswered(s) /\ UNCHANGED list
           \/ ListAnswers(s) /\ UNCHANGED bell,
           UNCHANGED session
    PROVE  IInv'
<1>0. Shape /\ calls[s] # None
  BY DEF IInv, Answered
<1>1. status # "authenticated" => calls[s].reach = "nowhere" /\ query = None
  BY <1>0 DEF IInv, ShellSignedIn
<1>2. ASSUME Ended(s) PROVE CallsMove
  BY <1>0, <1>2 DEF Ended, CallsMove, Shape
<1>3. CASE BellAnswered(s) /\ UNCHANGED list
  <2>1. status # "authenticated" => panel' = panel /\ query' = query
    BY <1>1, <1>3 DEF BellAnswered, CountAnswered, ListAnswered, MarkAnswered,
                      RecountAnswered, MarkAllAnswered, PanelBecomes, list
  <2>2. CallsMove
    <3>1. CASE Ended(s)
      BY <1>2, <3>1
    <3>2. CASE calls' = [calls EXCEPT ![s] =
                            With(Call("recount", None, stored), calls[s].reach, None)]
      <4>1. /\ DOMAIN calls' = Slots
            /\ \A t \in Slots \ {s} : calls'[t] = calls[t]
            /\ calls'[s].kind = "recount" /\ calls'[s].reach = calls[s].reach
        BY <1>0, <3>2 DEF Shape, With, Call
      <4>2. ShellCall(s)
        BY <1>0, <4>1 DEF ShellCall, ShellKinds, BellKinds, PanelKinds
      <4> QED BY <4>1, <4>2 DEF CallsMove
    <3> QED BY <1>3, <3>1, <3>2 DEF BellAnswered, CountAnswered, ListAnswered,
                                    MarkAnswered, RecountAnswered, MarkAllAnswered
  <2> QED BY <2>1, <2>2, MoveKeeps
<1>4. CASE ListAnswers(s) /\ UNCHANGED bell
  <2>1. status # "authenticated" => panel' = panel /\ query' = query
    BY <1>1, <1>4 DEF ListAnswers, LettersAnswered, LettersDropped, bell, list
  <2>2. CASE Ended(s)
    BY <1>2, <2>1, <2>2, MoveKeeps
  <2>3. ASSUME NEW q, status = "authenticated", Fetch(s, q) PROVE CallsMove
    <3>1. /\ DOMAIN calls' = Slots
          /\ \A t \in Slots \ {s} : calls'[t] = calls[t]
          /\ calls'[s].kind = "letters"
      BY <1>0, <2>3 DEF Fetch, Shape, Call
    <3>2. ShellCall(s)
      BY <2>3, <3>1 DEF ShellCall, ShellKinds
    <3> QED BY <3>1, <3>2 DEF CallsMove
  <2>4. ASSUME NEW q, status = "authenticated", Fetch(s, q) PROVE IInv'
    BY <2>1, <2>3, <2>4, MoveKeeps
  <2>5. Ended(s) \/ (status = "authenticated" /\ Fetch(s, Clamped(s)))
    BY <1>1, <1>4 DEF ListAnswers, LettersAnswered, LettersDropped, FetchEnded, Ended
  <2> QED BY <2>2, <2>4, <2>5
<1> QED BY <1>3, <1>4

\* The calls after the answer of call s has changed the session: every other one
\* is as it was, or detached; in slot s there is none, or the bell's first count.
FollowCalls(s) ==
    /\ DOMAIN calls' = Slots
    /\ \A t \in Slots \ {s} :
          \/ calls'[t] = calls[t]
          \/ /\ calls[t] # None
             /\ calls'[t].kind = calls[t].kind /\ calls'[t].token = calls[t].token
             /\ calls'[t].answer = calls[t].answer /\ calls'[t].reach = "nowhere"
    /\ calls'[s] = None \/ (calls'[s].kind = "count" /\ status' = "authenticated")
    /\ status' # "authenticated" =>
          IF status' = status
          THEN panel' = panel /\ query' = query
          ELSE /\ panel' = None /\ query' = None
               /\ \A t \in Slots \ {s} : calls[t] # None /\ calls[t].kind \in ShellKinds =>
                     calls'[t].reach = "nowhere"

LEMMA FollowChanges ==
    ASSUME Shape, NEW s \in Slots, Follow(s)
    PROVE  FollowCalls(s)
<1>1. CASE status' = status /\ Ended(s) /\ UNCHANGED <<bell, list>>
  BY <1>1 DEF Ended, FollowCalls, Shape, bell, list
<1>2. CASE status' # status /\ status' = "authenticated" /\ Mount(s)
  <2>1. calls' = [Detached(calls, {"login"}, "nowhere") EXCEPT ![s] = Call("count", None, stored')]
    BY <1>2 DEF Mount
  <2>2. /\ DOMAIN calls' = Slots
        /\ \A t \in Slots \ {s} : calls'[t] = Detached(calls, {"login"}, "nowhere")[t]
        /\ calls'[s].kind = "count"
    BY <2>1, DetachedStay DEF Shape, Call
  <2> QED BY <1>2, <2>2, DetachedStay DEF FollowCalls, Shape
<1>3. CASE status' # status /\ status' # "authenticated" /\ Unmount([calls EXCEPT ![s] = None])
  <2> DEFINE cs == [calls EXCEPT ![s] = None]
  <2>1. DOMAIN cs = Slots /\ cs[s] = None /\ \A t \in Slots \ {s} : cs[t] = calls[t]
    BY DEF Shape
  <2>2. calls' = Detached(cs, ShellKinds, "nowhere") /\ panel' = None /\ query' = None
    BY <1>3 DEF Unmount, CloseList
  <2> HIDE DEF cs
  <2> QED BY <1>3, <2>1, <2>2, DetachedStay DEF FollowCalls
<1> QED BY <1>1, <1>2, <1>3 DEF Follow

\* Answers that change the session.
LEMMA SessionAnswerKeeps ==
    ASSUME IInv, NEW s \in Slots, SessionAnswered(s), Follow(s)
    PROVE  IInv'
<1>0. Shape /\ LoginsGiveTokens /\ ShellSignedIn /\ Answered(s) /\ calls[s] # None
  BY DEF IInv, SessionAnswered, Unauthorized, Answered
<1>1. FollowCalls(s)
  BY <1>0, FollowChanges
<1>2. LoginsGiveTokens'
  BY <1>0, <1>1 DEF LoginsGiveTokens, AnsweredOK, FollowCalls
<1>3. ShellSignedIn'
  BY <1>0, <1>1 DEF ShellSignedIn, FollowCalls
<1>4. ASSUME ~mixed, RestoreAlone, mixed' = mixed PROVE RestoreAlone'
  <2> SUFFICES ASSUME NEW t \in Slots, calls'[t] # None, calls'[t].kind = "me" PROVE FALSE
    BY DEF RestoreAlone
  <2>1. t # s /\ calls[t] # None /\ calls[t].kind = "me"
    BY <1>1 DEF FollowCalls
  <2> QED BY <1>0, <1>4, <2>1 DEF RestoreAlone
<1>5. CASE ClearSession
  <2>1. Shape' /\ IdentityMatchesToken' /\ OnlyLogins' /\ mixed' = mixed
    BY <1>0, <1>1, <1>5 DEF ClearSession, Shape, IdentityMatchesToken, OnlyLogins, FollowCalls
  <2> QED BY <1>2, <1>3, <1>4, <2>1 DEF IInv
<1>6. CASE calls[s].kind = "me" /\ RestoreAnswered(s) /\ Code(s) = 200
  <2>1. /\ stored' = stored /\ restoreError' = restoreError /\ mixed' = mixed
        /\ user' = Value(s) /\ status' = "authenticated"
    BY <1>6 DEF RestoreAnswered
  <2>2. Shape'
    BY <1>0, <1>1, <2>1 DEF Shape, FollowCalls
  <2>3. ASSUME ~mixed PROVE IdentityMatchesToken' /\ RestoreAlone' /\ OnlyLogins'
    <3>1. RestoreAlone /\ OnlyLogins
      BY <2>3 DEF IInv
    <3>2. stored # None /\ Value(s) = Owner[stored]
      BY <1>0, <1>6, <3>1 DEF RestoreAlone, AnsweredOK, Answered, Code, Value
    <3>3. ~restoreError
      BY <1>0, <1>6, <3>1 DEF OnlyLogins
    <3> QED BY <1>4, <2>1, <2>3, <3>1, <3>2, <3>3 DEF IdentityMatchesToken, OnlyLogins
  <2>4. IdentityMatchesToken'
    BY <2>1, <2>3 DEF IdentityMatchesToken
  <2> QED BY <1>2, <1>3, <2>1, <2>2, <2>3, <2>4 DEF IInv
<1>7. CASE calls[s].kind = "me" /\ RestoreAnswered(s) /\ Code(s) # 200 /\ ~ClearSession
  <2>1. /\ restoreError' = TRUE /\ status' = "unauthenticated"
        /\ stored' = stored /\ mixed' = mixed
    BY <1>7 DEF RestoreAnswered, RestoreFailed
  <2>2. Shape' /\ IdentityMatchesToken'
    BY <1>0, <1>1, <2>1 DEF Shape, FollowCalls, IdentityMatchesToken
  <2>3. ASSUME ~mixed PROVE RestoreAlone' /\ OnlyLogins'
    <3>1. RestoreAlone
      BY <2>3 DEF IInv
    <3>2. \A t \in Slots \ {s} : calls[t] = None
      BY <1>0, <1>7, <3>1 DEF RestoreAlone
    <3>3. \A t \in Slots : calls'[t] = None
      BY <1>1, <2>1, <3>2 DEF FollowCalls
    <3> QED BY <1>4, <2>1, <2>3, <3>1, <3>3 DEF OnlyLogins
  <2> QED BY <1>2, <1>3, <2>1, <2>2, <2>3 DEF IInv
<1>8. CASE calls[s].kind = "login" /\ LoginAnswered(s) /\ Code(s) = 200
  <2>1. /\ stored' = Value(s) /\ user' = Owner[Value(s)] /\ restoreError' = FALSE
        /\ status' = "authenticated" /\ mixed' = mixed
    BY <1>8 DEF LoginAnswered
  <2>2. Value(s) \in Tokens /\ Value(s) # None
    BY <1>0, <1>8, SessionAssumption DEF LoginsGiveTokens, AnsweredOK, Answered, Code, Value
  <2>3. Shape' /\ IdentityMatchesToken' /\ OnlyLogins'
    BY <1>0, <1>1, <2>1, <2>2 DEF Shape, FollowCalls, IdentityMatchesToken, OnlyLogins
  <2> QED BY <1>2, <1>3, <1>4, <2>1, <2>3 DEF IInv
<1>9. CASE calls[s].kind = "login" /\ LoginAnswered(s) /\ Code(s) # 200
  <2>1. UNCHANGED <<stored, status, user, restoreError, mixed>>
    BY <1>9 DEF LoginAnswered, session
  <2>2. Shape' /\ IdentityMatchesToken'
    BY <1>0, <1>1, <2>1 DEF IInv, Shape, FollowCalls, IdentityMatchesToken
  <2>3. ASSUME ~mixed PROVE OnlyLogins'
    BY <1>1, <2>1, <2>3 DEF IInv, OnlyLogins, FollowCalls
  <2> QED BY <1>2, <1>3, <1>4, <2>1, <2>2, <2>3 DEF IInv
<1> QED BY <1>5, <1>6, <1>7, <1>8, <1>9 DEF SessionAnswered

\* What else happens to the session.
LEMMA SessionEventKeeps ==
    ASSUME IInv, SessionEvent
    PROVE  IInv'
<1>0. Shape /\ LoginsGiveTokens /\ ShellSignedIn /\ UNCHANGED <<bell, list>>
  BY DEF IInv, SessionEvent
<1>1. UNCHANGED panel /\ UNCHANGED query
  BY <1>0 DEF bell, list
<1>2. ASSUME NEW a \in Accounts, SubmitLogin(a) PROVE IInv'
  <2>1. PICK f \in Slots :
            /\ calls[f] = None /\ calls'[f] = Call("login", a, stored)
            /\ DOMAIN calls' = Slots
            /\ \A t \in Slots \ {f} : calls'[t] = calls[t]
    BY <1>0, <1>2, SendTakes DEF SubmitLogin
  <2>2. /\ calls'[f].kind = "login" /\ calls'[f].answer = None
        /\ mixed' = (mixed \/ UnderWay({"me"}) # {})
        /\ UNCHANGED <<stored, status, user, restoreError>>
    BY <1>2, <2>1 DEF SubmitLogin, Call
  <2>3. mixed' \in BOOLEAN /\ (~mixed' => ~mixed /\ UnderWay({"me"}) = {})
    BY <2>2
  <2>4. Shape'
    BY <1>0, <2>1, <2>2, <2>3 DEF Shape
  <2>5. LoginsGiveTokens' /\ ShellSignedIn'
    BY <1>0, <1>1, <2>1, <2>2 DEF LoginsGiveTokens, AnsweredOK, ShellSignedIn,
                                  ShellKinds, BellKinds, PanelKinds
  <2>6. ASSUME ~mixed' PROVE RestoreAlone' /\ OnlyLogins'
    <3>1. \A t \in Slots : calls[t] # None => calls[t].kind # "me"
      BY <2>3, <2>6 DEF UnderWay
    <3>2. OnlyLogins
      BY <2>3, <2>6 DEF IInv
    <3> QED BY <2>1, <2>2, <3>1, <3>2 DEF RestoreAlone, OnlyLogins
  <2>7. IdentityMatchesToken'
    BY <2>2, <2>3 DEF IInv, IdentityMatchesToken
  <2> QED BY <2>4, <2>5, <2>6, <2>7 DEF IInv
<1>3. CASE RetryRestore /\ stored = None
  <2>1. UNCHANGED session /\ UNCHANGED calls
    BY <1>3 DEF RetryRestore, session
  <2> QED BY <1>0, <1>1, <2>1, MoveKeeps DEF CallsMove, Shape
<1>4. CASE RetryRestore /\ stored # None
  <2>1. PICK f \in Slots :
            /\ calls[f] = None /\ calls'[f] = Call("me", None, stored)
            /\ DOMAIN calls' = Slots
            /\ \A t \in Slots \ {f} : calls'[t] = calls[t]
    BY <1>0, <1>4, SendTakes DEF RetryRestore
  <2>2. /\ calls'[f].kind = "me" /\ calls'[f].answer = None /\ calls'[f].token = stored
        /\ mixed' = (mixed \/ UnderWay({"login"}) # {})
        /\ UNCHANGED <<stored, status, user>>
        /\ restoreError /\ restoreError' = FALSE /\ status = "unauthenticated"
    BY <1>4, <2>1 DEF RetryRestore, Call
  <2>3. mixed' \in BOOLEAN /\ (~mixed' => ~mixed /\ UnderWay({"login"}) = {})
    BY <2>2
  <2>4. Shape'
    BY <1>0, <2>1, <2>2, <2>3 DEF Shape
  <2>5. LoginsGiveTokens' /\ ShellSignedIn'
    BY <1>0, <1>1, <2>1, <2>2 DEF LoginsGiveTokens, AnsweredOK, ShellSignedIn,
                                  ShellKinds, BellKinds, PanelKinds
  <2>6. ASSUME ~mixed' PROVE RestoreAlone' /\ OnlyLogins'
    <3>1. OnlyLogins
      BY <2>3, <2>6 DEF IInv
    <3>2. \A t \in Slots : calls[t] = None
      BY <2>2, <2>3, <2>6, <3>1 DEF OnlyLogins, UnderWay
    <3> QED BY <1>4, <2>1, <2>2, <3>2 DEF RestoreAlone, OnlyLogins, AnsweredOK
  <2>7. IdentityMatchesToken'
    BY <2>2 DEF IdentityMatchesToken
  <2> QED BY <2>4, <2>5, <2>6, <2>7 DEF IInv
<1>5. ASSUME NEW t \in Tokens \cup {None}, OtherTab(t) PROVE IInv'
  BY <1>0, <1>1, <1>5 DEF OtherTab, IInv, Shape, LoginsGiveTokens, AnsweredOK, ShellSignedIn,
                          IdentityMatchesToken
<1>6. ASSUME NEW t \in Tokens, StopAccepting(t) PROVE IInv'
  BY <1>0, <1>1, <1>6, MoveKeeps DEF StopAccepting, CallsMove, Shape
<1>7. ASSUME NEW s \in Slots, NEW c \in {0, 500}, Fail(s, c) PROVE IInv'
  BY <1>0, <1>1, <1>7, AnswerStays, MoveKeeps DEF Fail
<1> QED BY <1>2, <1>3, <1>4, <1>5, <1>6, <1>7 DEF SessionEvent

\* The user logs out or loads the page again.
LEMMA LeaveKeeps ==
    ASSUME IInv, Leave
    PROVE  IInv'
<1>0. Shape /\ LoginsGiveTokens
  BY DEF IInv
<1>1. CASE Logout /\ Unmount(calls)
  <2>1. /\ stored' = None /\ status' = "unauthenticated" /\ restoreError' = FALSE
        /\ mixed' = mixed /\ panel' = None /\ query' = None
        /\ status = "authenticated" /\ calls' = Detached(calls, ShellKinds, "nowhere")
    BY <1>1 DEF Logout, ClearSession, Unmount, CloseList
  <2>2. /\ DOMAIN calls' = Slots
        /\ \A t \in Slots : calls'[t] = calls[t] \/
              /\ calls[t] # None /\ calls'[t].kind = calls[t].kind
              /\ calls'[t].answer = calls[t].answer
        /\ \A t \in Slots : calls[t] # None /\ calls[t].kind \in ShellKinds =>
              calls'[t].reach = "nowhere"
    BY <1>0, <2>1, DetachedStay DEF Shape
  <2>3. Shape' /\ IdentityMatchesToken' /\ OnlyLogins'
    BY <1>0, <2>1, <2>2 DEF Shape, IdentityMatchesToken, OnlyLogins
  <2>4. LoginsGiveTokens' /\ ShellSignedIn'
    BY <1>0, <2>1, <2>2 DEF LoginsGiveTokens, AnsweredOK, ShellSignedIn
  <2>5. ASSUME ~mixed PROVE RestoreAlone'
    <3>1. RestoreAlone
      BY <2>5 DEF IInv
    <3> QED BY <2>1, <2>2, <3>1 DEF RestoreAlone
  <2> QED BY <2>1, <2>3, <2>4, <2>5 DEF IInv
<1>2. CASE Reload /\ panel' = None /\ CloseList
  <2>1. /\ stored' = stored /\ status' = LoadedStatus(stored) /\ restoreError' = FALSE
        /\ mixed' = FALSE /\ calls' = LoadedCalls(stored) /\ panel' = None /\ query' = None
    BY <1>2 DEF Reload, CloseList
  <2>2. Shape'
    BY <1>0, <2>1 DEF Shape, LoadedCalls
  <2>3. status' # "authenticated"
    BY <2>1 DEF LoadedStatus
  <2>4. \A t \in Slots : calls'[t] # None =>
           /\ t = 1 /\ stored # None
           /\ calls'[t].kind = "me" /\ calls'[t].token = stored /\ calls'[t].answer = None
    BY <2>1 DEF LoadedCalls, Call
  <2> QED BY <2>1, <2>2, <2>3, <2>4
        DEF IInv, LoginsGiveTokens, AnsweredOK, ShellSignedIn, RestoreAlone, OnlyLogins,
            IdentityMatchesToken, ShellKinds, BellKinds, PanelKinds
<1> QED BY <1>1, <1>2 DEF Leave

-----------------------------------------------------------------------------
LEMMA InitHolds == Init => IInv
<1> SUFFICES ASSUME Init PROVE IInv
  OBVIOUS
<1>1. /\ stored \in Tokens \cup {None} /\ status = LoadedStatus(stored) /\ restoreError = FALSE
      /\ mixed = FALSE /\ calls = LoadedCalls(stored) /\ panel = None /\ query = None
  BY DEF Init, SessionInit, BellInit, ListInit
<1>2. status # "authenticated"
  BY <1>1 DEF LoadedStatus
<1>3. /\ DOMAIN calls = Slots
      /\ \A t \in Slots : calls[t] # None =>
           /\ t = 1 /\ stored # None
           /\ calls[t].kind = "me" /\ calls[t].token = stored /\ calls[t].answer = None
  BY <1>1 DEF LoadedCalls, Call
<1> QED BY <1>1, <1>2, <1>3
      DEF IInv, Shape, LoginsGiveTokens, AnsweredOK, ShellSignedIn, RestoreAlone, OnlyLogins,
          IdentityMatchesToken, ShellKinds, BellKinds, PanelKinds

LEMMA NextKeeps == IInv /\ [Next]_vars => IInv'
<1> SUFFICES ASSUME IInv, [Next]_vars PROVE IInv'
  OBVIOUS
<1>1. ASSUME NEW s \in Slots, Deliver(s) PROVE IInv'
  BY <1>1, SessionAnswerKeeps, ShellAnswerKeeps DEF Deliver
<1>2. CASE UNCHANGED vars
  BY <1>2, MoveKeeps DEF IInv, Shape, CallsMove, vars, bell, list
<1> QED BY <1>1, <1>2, HandleKeeps, BellKeeps, ListKeeps, SessionEventKeeps, LeaveKeeps DEF Next

\* A tab that shows a signed-in user holds a token of that user, however late
\* the answers of AuthContext's own calls and the 401s of any others come,
\* unless a restore and a login overlapped or another tab changed the token.
THEOREM IdentityCorrect == Spec => []IdentityMatchesToken
<1>1. IInv => IdentityMatchesToken
  BY DEF IInv
<1> QED BY InitHolds, NextKeeps, <1>1, PTL DEF Spec

-----------------------------------------------------------------------------
(* The invariant of the components of the shell. *)

\* A call of c.kind, with the answer it may have when S are the notifications sent
\* and R the ones read.  Both sets only grow, and an answer stays right.
Fit(c, S, R) ==
    LET ok == c.answer # None /\ c.answer.code = 200
        value == c.answer.value
    IN
    /\ c.token \in Tokens \cup {None} /\ c.reach \in Reaches
    /\ c.answer # None => c.answer.code \in Codes
    /\ c.kind = "me" /\ ok => value \in Accounts
    /\ c.kind \in {"count", "recount"} /\ ok => value \in 0..Cardinality(Notices)
    /\ c.kind = "mark" => c.arg \in Notices /\ (ok => c.arg \in R)
    /\ c.kind = "list" /\ ok =>
          /\ value \in Listing /\ c.token \in Tokens
          /\ \A n \in DOMAIN value :
                n \in S /\ Recipient[n] = Owner[c.token] /\ (value[n] => n \in R)
    /\ c.kind = "letters" => c \in Fetches /\ (ok => value \in 0..MaxPage)

CallsFit == \A s \in Slots : calls[s] # None => Fit(calls[s], sent, read)

Types ==
    /\ status \in {"loading", "authenticated", "unauthenticated"}
    /\ user \in Accounts \cup {None}
    /\ refused \subseteq issued /\ issued \subseteq Tokens
    /\ events \in 0..MaxEvents
    /\ BellTypeOK
    /\ pages \in [Filters -> 0..MaxPage]
    /\ query \in Queries \cup {None}
    /\ shown \in [query : Queries, last : 0..MaxPage] \cup {None}
    /\ loading \in BOOLEAN /\ failed \in BOOLEAN /\ late \in BOOLEAN
    /\ newest \in Slots \cup {0}

\* A login is the only one, and its form is there.
LoginAlone ==
    \A s \in Slots : calls[s] # None /\ calls[s].kind = "login" =>
        /\ status # "authenticated" /\ calls[s].reach = "view"
        /\ \A t \in Slots : calls[t] # None /\ calls[t].kind = "login" => t = s

\* The call in slot s is the open panel's.
OfPanel(s) == calls[s] # None /\ calls[s].kind \in PanelKinds /\ calls[s].reach = "view"

\* Calls of an open panel: its listing, or marks of what was listed.
PanelCalls ==
    \A s \in Slots : OfPanel(s) =>
        /\ panel # None
        /\ IF calls[s].kind = "list"
           THEN panel.items = None /\ \A t \in Slots : OfPanel(t) => t = s
           ELSE panel.items \in Listing

\* The panel and its calls are the account's whose token is stored, and what
\* "Mark all read" has marked on the server is what the panel lists.
PanelOwn ==
    /\ \A s \in Slots : OfPanel(s) => calls[s].token = stored
    /\ Listed => \A n \in DOMAIN panel.items :
          n \in sent /\ Recipient[n] = Owner[stored] /\ (panel.items[n] => n \in read)
    /\ \A s \in Slots : OfPanel(s) /\ calls[s].kind = "markAll" /\ AnsweredOK(s) =>
          \A n \in DOMAIN panel.items : n \in read

\* The newest fetch asks for the query in the URL.
IsNewest(s) ==
    /\ calls[s] # None /\ calls[s].kind = "letters"
    /\ calls[s].reach = "view" /\ calls[s].arg = query

NewestAsks ==
    newest # 0 => status = "authenticated" /\ IsNewest(newest)

\* Once it is answered, and no older one after it, its answer is what is shown.
AnswerShown ==
    query # None /\ newest = 0 =>
        /\ ~loading
        /\ \/ late \/ failed
           \/ shown.query = query /\ (shown.last >= 1 => query.page <= shown.last)

ShellInv ==
    /\ Types /\ CallsFit
    /\ ~mixed => LoginAlone /\ PanelOwn
    /\ PanelCalls
    /\ NewestAsks /\ AnswerShown

-----------------------------------------------------------------------------
(* Calls that fit. *)

\* What is right of a call stays right while notifications are sent and read.
LEMMA FitGrows ==
    ASSUME NEW c, NEW S, NEW R, NEW S2, NEW R2, Fit(c, S, R), S \subseteq S2, R \subseteq R2
    PROVE  Fit(c, S2, R2)
  BY DEF Fit

\* A call sent for a typed argument fits.
LEMMA FitCall ==
    ASSUME NEW kind, NEW arg, NEW token \in Tokens \cup {None}, NEW S, NEW R,
           kind = "mark" => arg \in Notices, kind = "letters" => arg \in Queries
    PROVE  Fit(Call(kind, arg, token), S, R)
  BY DEF Fit, Call, Reaches, Fetches

\* A call that is detached fits.
LEMMA FitDetached ==
    ASSUME NEW c, NEW S, NEW R, Fit(c, S, R), NEW reach \in Reaches
    PROVE  Fit(With(c, reach, c.answer), S, R)
<1>1. c.kind = "letters" => With(c, reach, c.answer) \in Fetches
  BY DEF Fit, With, Fetches
<1> QED BY <1>1 DEF Fit, With

\* A call that is refused or fails fits.
LEMMA FitFailed ==
    ASSUME NEW c, NEW S, NEW R, Fit(c, S, R), NEW code \in Codes \ {200}
    PROVE  Fit(With(c, c.reach, [code |-> code, value |-> None]), S, R)
<1> DEFINE a == [code |-> code, value |-> None]
<1>1. a.code = code /\ a.value = None /\ a \in [code : Codes, value : (0..MaxPage) \cup {None}]
  OBVIOUS
<1> HIDE DEF a
<1>2. c.kind = "letters" => With(c, c.reach, a) \in Fetches
  BY <1>1 DEF Fit, With, Fetches
<1> QED BY <1>1, <1>2 DEF Fit, With

\* A call that is served the right value for its kind fits.
LEMMA FitServed ==
    ASSUME NEW c, NEW S, NEW R, Fit(c, S, R), NEW value,
           c.kind = "me" => value \in Accounts,
           c.kind \in {"count", "recount"} => value \in 0..Cardinality(Notices),
           c.kind = "mark" => c.arg \in R,
           c.kind = "list" =>
               /\ value \in Listing /\ c.token \in Tokens
               /\ \A n \in DOMAIN value :
                     n \in S /\ Recipient[n] = Owner[c.token] /\ (value[n] => n \in R),
           c.kind = "letters" => value \in 0..MaxPage
    PROVE  Fit(With(c, c.reach, [code |-> 200, value |-> value]), S, R)
<1> DEFINE a == [code |-> 200, value |-> value]
<1>1. a.code = 200 /\ a.code \in Codes /\ a.value = value
  BY DEF Codes
<1>2. value \in 0..MaxPage => a \in [code : Codes, value : (0..MaxPage) \cup {None}]
  BY DEF Codes
<1> HIDE DEF a
<1> DEFINE d == With(c, c.reach, a)
<1>3. c.kind = "letters" => d \in Fetches
  BY <1>2 DEF Fit, With, Fetches
<1>4. /\ d.kind = c.kind /\ d.arg = c.arg /\ d.token = c.token /\ d.reach = c.reach
      /\ d.answer = a
  BY DEF With
<1> HIDE DEF d
<1>5. Fit(d, S, R)
  BY <1>1, <1>3, <1>4 DEF Fit
<1> QED BY <1>5 DEF d, a

\* The calls fit after a step that keeps or ends them, or makes them fit.
LEMMA FitKeeps ==
    ASSUME CallsFit, sent \subseteq sent', read \subseteq read',
           \A t \in Slots : calls'[t] \in {calls[t], None} \/ Fit(calls'[t], sent', read')
    PROVE  CallsFit'
<1> SUFFICES ASSUME NEW t \in Slots, calls'[t] # None PROVE Fit(calls'[t], sent', read')
  BY DEF CallsFit
<1>1. CASE calls'[t] = calls[t]
  <2>1. Fit(calls[t], sent, read)
    BY <1>1 DEF CallsFit
  <2>2. Fit(calls[t], sent', read')
    BY <2>1, FitGrows
  <2> QED BY <1>1, <2>2
<1> QED BY <1>1

\* No account has more unread notifications than there are.
LEMMA UnreadBounded ==
    ASSUME BellTypeOK, NEW a
    PROVE  UnreadCount(a) \in 0..Cardinality(Notices)
<1>1. Addressed(a) \ read \in SUBSET Notices /\ IsFiniteSet(Notices)
  BY BellAssumption DEF BellTypeOK, Addressed
<1>2. /\ IsFiniteSet(Addressed(a) \ read)
      /\ Cardinality(Addressed(a) \ read) <= Cardinality(Notices)
  BY <1>1, FS_Subset
<1>3. Cardinality(Addressed(a) \ read) \in Nat /\ Cardinality(Notices) \in Nat
  BY <1>1, <1>2, FS_CardinalityType
<1> QED BY <1>2, <1>3 DEF UnreadCount

-----------------------------------------------------------------------------
(* Steps that leave the panel, the list or the session alone. *)

\* Seen by the panel and the login form, slot t holds the call it held, or none,
\* or one that is not theirs.
QuietForPanel(t) ==
    \/ calls'[t] \in {calls[t], None}
    \/ calls'[t].kind \notin PanelKinds \cup {"login"}
    \/ calls'[t].kind # "login" /\ calls'[t].reach # "view"
    \/ /\ calls[t] # None
       /\ calls'[t].kind = calls[t].kind /\ calls'[t].token = calls[t].token
       /\ calls'[t].reach = calls[t].reach
       /\ calls'[t].kind = "markAll" /\ AnsweredOK(t)' /\ OfPanel(t) /\ ~mixed =>
             AnsweredOK(t) \/ \A n \in DOMAIN panel.items : n \in read'

LEMMA PanelStays ==
    ASSUME ShellInv, UNCHANGED session, panel' = panel, sent \subseteq sent', read \subseteq read',
           \A t \in Slots : QuietForPanel(t)
    PROVE  PanelCalls' /\ (~mixed' => LoginAlone' /\ PanelOwn')
<1> USE DEF session
<1>1. \A t \in Slots : OfPanel(t)' =>
         OfPanel(t) /\ calls'[t].kind = calls[t].kind /\ calls'[t].token = calls[t].token
  BY DEF QuietForPanel, OfPanel, PanelKinds
<1>2. PanelCalls'
  BY <1>1 DEF ShellInv, PanelCalls
<1>3. ASSUME ~mixed PROVE LoginAlone'
  <2>1. LoginAlone
    BY <1>3 DEF ShellInv
  <2>2. \A t \in Slots : calls'[t] # None /\ calls'[t].kind = "login" =>
           calls[t] # None /\ calls[t].kind = "login" /\ calls'[t].reach = calls[t].reach
    BY DEF QuietForPanel, PanelKinds
  <2> QED BY <2>1, <2>2 DEF LoginAlone
<1>4. ASSUME ~mixed PROVE PanelOwn'
  <2>1. PanelOwn
    BY <1>4 DEF ShellInv
  <2>2. ASSUME NEW t \in Slots, OfPanel(t)', calls'[t].kind = "markAll", AnsweredOK(t)'
        PROVE  \A n \in DOMAIN panel'.items : n \in read'
    <3>1. AnsweredOK(t) \/ \A n \in DOMAIN panel.items : n \in read'
      BY <1>4, <1>1, <2>2 DEF QuietForPanel, OfPanel, PanelKinds, AnsweredOK
    <3> QED BY <1>1, <2>1, <2>2, <3>1 DEF PanelOwn
  <2>3. Listed' => \A n \in DOMAIN panel'.items :
           n \in sent' /\ Recipient[n] = Owner[stored'] /\ (panel'.items[n] => n \in read')
    BY <2>1 DEF PanelOwn, Listed
  <2>4. \A t \in Slots : OfPanel(t)' => calls'[t].token = stored'
    BY <1>1, <2>1 DEF PanelOwn
  <2> QED BY <2>2, <2>3, <2>4 DEF PanelOwn
<1> QED BY <1>2, <1>3, <1>4

\* The newest fetch goes on.
LEMMA ListStays ==
    ASSUME ShellInv, UNCHANGED list, status' = status \/ newest = 0,
           newest # 0 =>
              \/ calls'[newest] = calls[newest]
              \/ /\ calls'[newest] # None /\ calls'[newest].kind = calls[newest].kind
                 /\ calls'[newest].reach = calls[newest].reach
                 /\ calls'[newest].arg = calls[newest].arg
    PROVE  NewestAsks' /\ AnswerShown'
  BY DEF ShellInv, NewestAsks, IsNewest, AnswerShown, list

\* Both, and the calls fit.
LEMMA QuietStep ==
    ASSUME IInv, ShellInv, Types', UNCHANGED session, panel' = panel, UNCHANGED list,
           sent \subseteq sent', read \subseteq read',
           \A t \in Slots :
              /\ QuietForPanel(t)
              /\ calls'[t] \in {calls[t], None} \/ Fit(calls'[t], sent', read')
              /\ t = newest =>
                    \/ calls'[t] = calls[t]
                    \/ /\ calls'[t] # None /\ calls'[t].kind = calls[t].kind
                       /\ calls'[t].reach = calls[t].reach /\ calls'[t].arg = calls[t].arg
    PROVE  ShellInv'
<1>1. CallsFit'
  BY FitKeeps DEF ShellInv
<1>2. PanelCalls' /\ (~mixed' => LoginAlone' /\ PanelOwn')
  BY PanelStays
<1>3. NewestAsks' /\ AnswerShown'
  <2>1. newest \in Slots \cup {0} /\ status' = status
    BY DEF ShellInv, Types, session
  <2> QED BY <2>1, ListStays
<1> QED BY <1>1, <1>2, <1>3 DEF ShellInv

\* An answer that fits its call.
LEMMA AnswerQuiet ==
    ASSUME IInv, ShellInv, Types', UNCHANGED session, panel' = panel, UNCHANGED list,
           sent' = sent, read \subseteq read',
           NEW s \in Slots, calls[s] # None, NEW code, NEW value, Answer(s, code, value),
           Fit(With(calls[s], calls[s].reach, [code |-> code, value |-> value]), sent', read'),
           calls[s].kind = "markAll" /\ code = 200 /\ OfPanel(s) /\ ~mixed =>
               \A n \in DOMAIN panel.items : n \in read'
    PROVE  ShellInv'
<1> DEFINE a == [code |-> code, value |-> value]
           d == With(calls[s], calls[s].reach, a)
<1>1. \A t \in Slots : calls'[t] = IF t = s THEN d ELSE calls[t]
  BY DEF IInv, Shape, Answer
<1>2. a.code = code
  OBVIOUS
<1> HIDE DEF a
<1>3. /\ d.kind = calls[s].kind /\ d.token = calls[s].token /\ d.reach = calls[s].reach
      /\ d.arg = calls[s].arg /\ d.answer = a
  BY DEF With
<1>4. Fit(d, sent', read')
  BY DEF a
<1> HIDE DEF d
<1>5. d.kind = "letters" => d # None
  BY <1>4, ListAssumption DEF Fit
<1>6. \A t \in Slots : QuietForPanel(t)
  BY <1>1, <1>2, <1>3 DEF QuietForPanel, AnsweredOK
<1>7. newest = s => d # None
  BY <1>3, <1>5 DEF ShellInv, NewestAsks, IsNewest, Slots
<1> QED BY <1>1, <1>3, <1>4, <1>6, <1>7, QuietStep

\* The server's handlers.
LEMMA HandleShell ==
    ASSUME IInv, ShellInv, NEW s \in Slots, Handle(s)
    PROVE  ShellInv'
<1>0. /\ UNCHANGED session /\ panel' = panel /\ UNCHANGED list /\ sent' = sent
      /\ calls[s] # None
  BY DEF Handle, Refuse, ServeMe, ServeLogin, ServeBell, ServeLetters, bell, list, server
<1>1. Fit(calls[s], sent, read) /\ BellTypeOK
  BY <1>0 DEF ShellInv, CallsFit, Types
<1>2. CASE Refuse(s) /\ UNCHANGED <<server, bell, pages, list>>
  <2>1. PICK c \in Refusals(s) : Answer(s, c, None)
    BY <1>2 DEF Refuse
  <2>2. c \in Codes \ {200}
    BY <2>1 DEF Refusals, Codes
  <2>3. Types' /\ read' = read
    BY <1>2 DEF Refuse, ShellInv, Types, BellTypeOK, session, server, bell, list
  <2>4. Fit(With(calls[s], calls[s].reach, [code |-> c, value |-> None]), sent', read')
    BY <1>0, <1>1, <2>2, <2>3, FitFailed
  <2> QED BY <1>0, <2>1, <2>2, <2>3, <2>4, AnswerQuiet
<1>3. CASE ServeMe(s) /\ UNCHANGED <<server, bell, pages, list>>
  <2>1. Types' /\ read' = read
    BY <1>3 DEF ServeMe, ShellInv, Types, BellTypeOK, session, server, bell, list
  <2>2. Owner[calls[s].token] \in Accounts /\ calls[s].kind = "me"
    BY <1>1, <1>3, SessionAssumption DEF ServeMe, Accepted, Fit
  <2>3. Fit(With(calls[s], calls[s].reach, [code |-> 200, value |-> Owner[calls[s].token]]),
            sent', read')
    BY <1>0, <1>1, <2>1, <2>2, FitServed
  <2> QED BY <1>0, <1>3, <2>1, <2>2, <2>3, AnswerQuiet DEF ServeMe, Serve
<1>4. CASE ServeLogin(s) /\ UNCHANGED <<server, bell, pages, list>>
  <2>1. Types' /\ read' = read /\ calls[s].kind = "login"
    BY <1>4 DEF ServeLogin, ShellInv, Types, BellTypeOK, session, server, bell, list
  <2>2. ASSUME NEW t, Serve(s, t) PROVE ShellInv'
    <3>1. Fit(With(calls[s], calls[s].reach, [code |-> 200, value |-> t]), sent', read')
      BY <1>0, <1>1, <2>1, FitServed
    <3> QED BY <1>0, <2>1, <2>2, <3>1, AnswerQuiet DEF Serve
  <2>3. ASSUME NEW c \in {401, 403}, Answer(s, c, None) PROVE ShellInv'
    <3>1. Fit(With(calls[s], calls[s].reach, [code |-> c, value |-> None]), sent', read')
      BY <1>0, <1>1, <2>1, FitFailed DEF Codes
    <3> QED BY <1>0, <2>1, <2>3, <3>1, AnswerQuiet
  <2> QED BY <1>4, <2>2, <2>3 DEF ServeLogin
<1>5. CASE ServeBell(s) /\ UNCHANGED <<pages, list>>
  <2> DEFINE own == Addressed(Owner[calls[s].token])
             who == Owner[calls[s].token]
  <2>1. calls[s].token \in Tokens
    BY <1>1, <1>5 DEF ServeBell, Accepted, Fit
  <2>2. ASSUME read \subseteq read', read' \subseteq read \cup own PROVE Types'
    BY <1>5, <2>2 DEF ServeBell, ShellInv, Types, BellTypeOK, Addressed, session, server, bell, list
  <2>3. ASSUME calls[s].kind \in {"count", "recount"}, Serve(s, UnreadCount(who)), read' = read
        PROVE  ShellInv'
    <3>1. UnreadCount(who) \in 0..Cardinality(Notices)
      BY <1>1, UnreadBounded
    <3>2. Fit(With(calls[s], calls[s].reach, [code |-> 200, value |-> UnreadCount(who)]),
              sent', read')
      BY <1>0, <1>1, <2>3, <3>1, FitServed
    <3> QED BY <1>0, <2>2, <2>3, <3>2, AnswerQuiet DEF Serve
  <2>4. ASSUME calls[s].kind = "list", Serve(s, [n \in own |-> n \in read]), read' = read
        PROVE  ShellInv'
    <3> DEFINE items == [n \in own |-> n \in read]
    <3>1. own \in SUBSET Notices /\ \A n \in own : n \in sent /\ Recipient[n] = who
      BY <1>1 DEF Addressed, BellTypeOK
    <3>2. items \in Listing
      BY <3>1 DEF Listing
    <3>3. DOMAIN items = own /\ \A n \in own : items[n] => n \in read
      OBVIOUS
    <3> HIDE DEF items
    <3>4. Fit(With(calls[s], calls[s].reach, [code |-> 200, value |-> items]), sent', read')
      BY <1>0, <1>1, <2>1, <2>4, <3>1, <3>2, <3>3, FitServed
    <3>5. Answer(s, 200, items)
      BY <2>4 DEF Serve, items
    <3> QED BY <1>0, <2>2, <2>4, <3>4, <3>5, AnswerQuiet
  <2>5. ASSUME calls[s].kind = "mark", calls[s].arg \in own, Serve(s, calls[s].arg),
               read' = read \cup {calls[s].arg}
        PROVE  ShellInv'
    <3>1. Fit(calls[s], sent', read')
      BY <1>0, <1>1, <2>5, FitGrows
    <3>2. Fit(With(calls[s], calls[s].reach, [code |-> 200, value |-> calls[s].arg]),
              sent', read')
      BY <2>5, <3>1, FitServed
    <3> QED BY <1>0, <2>2, <2>5, <3>2, AnswerQuiet DEF Serve
  <2>6. ASSUME calls[s].kind = "mark", Answer(s, 500, None), read' = read
        PROVE  ShellInv'
    <3>1. Fit(With(calls[s], calls[s].reach, [code |-> 500, value |-> None]), sent', read')
      BY <1>0, <1>1, <2>6, FitFailed DEF Codes
    <3> QED BY <1>0, <2>2, <2>6, <3>1, AnswerQuiet
  <2>7. ASSUME calls[s].kind = "markAll", Serve(s, None), read' = read \cup own
        PROVE  ShellInv'
    <3>1. Fit(calls[s], sent', read')
      BY <1>0, <1>1, <2>7, FitGrows
    <3>2. Fit(With(calls[s], calls[s].reach, [code |-> 200, value |-> None]), sent', read')
      BY <2>7, <3>1, FitServed
    <3>3. ASSUME OfPanel(s), ~mixed, NEW n \in DOMAIN panel.items PROVE n \in read'
      <4>1. /\ panel # None /\ panel.items \in Listing
            /\ calls[s].token = stored
        BY <2>7, <3>3 DEF ShellInv, PanelCalls, PanelOwn
      <4>2. Listed
        BY <4>1, BellAssumption DEF Listed
      <4> QED BY <2>7, <3>3, <4>1, <4>2 DEF ShellInv, PanelOwn, Addressed
    <3> QED BY <1>0, <2>2, <2>7, <3>2, <3>3, AnswerQuiet DEF Serve
  <2> QED BY <1>5, <2>3, <2>4, <2>5, <2>6, <2>7 DEF ServeBell
<1>6. CASE ServeLetters(s) /\ UNCHANGED <<server, bell>>
  <2>1. Types' /\ read' = read
    BY <1>6 DEF ServeLetters, ShellInv, Types, BellTypeOK, session, server, bell, list
  <2>2. calls[s].kind = "letters" /\ pages[calls[s].arg.filter] \in 0..MaxPage
    BY <1>1, <1>6 DEF ServeLetters, Fit, Fetches, Queries, ShellInv, Types
  <2>3. Fit(With(calls[s], calls[s].reach,
                 [code |-> 200, value |-> pages[calls[s].arg.filter]]), sent', read')
    BY <1>0, <1>1, <2>1, <2>2, FitServed
  <2> QED BY <1>0, <1>6, <2>1, <2>2, <2>3, AnswerQuiet DEF ServeLetters, Serve
<1> QED BY <1>2, <1>3, <1>4, <1>5, <1>6 DEF Handle

\* A call that is neither the panel's nor a login is sent, or nothing is.
LEMMA SendQuiet ==
    ASSUME IInv, ShellInv, Types', UNCHANGED session, panel' = panel, UNCHANGED list,
           sent \subseteq sent', read \subseteq read',
           UNCHANGED calls \/ Send("count", None)
    PROVE  ShellInv'
<1>1. CASE UNCHANGED calls
  BY <1>1, QuietStep DEF QuietForPanel
<1>2. CASE Send("count", None)
  <2>1. PICK f \in Slots :
            /\ calls[f] = None /\ calls'[f] = Call("count", None, stored)
            /\ DOMAIN calls' = Slots
            /\ \A t \in Slots \ {f} : calls'[t] = calls[t]
    BY <1>2, SendTakes DEF IInv
  <2>2. Fit(calls'[f], sent', read') /\ calls'[f].kind = "count"
    BY <2>1, FitCall DEF IInv, Shape, Call
  <2>3. f # newest
    BY <2>1 DEF ShellInv, NewestAsks, IsNewest, Slots
  <2>4. \A t \in Slots : QuietForPanel(t)
    BY <2>1, <2>2 DEF QuietForPanel, PanelKinds
  <2> QED BY <2>1, <2>2, <2>3, <2>4, QuietStep
<1> QED BY <1>1, <1>2

\* What happens to the session and leaves the tab where it is.
LEMMA SessionEventShell ==
    ASSUME IInv, ShellInv, SessionEvent
    PROVE  ShellInv'
<1>0. UNCHANGED <<server, bell, pages, list>> /\ UNCHANGED <<sent, read, panel>>
  BY DEF SessionEvent, server, bell
<1>1. Shape
  BY DEF IInv
<1>2. Types'
  <2>1. events' \in 0..MaxEvents
    BY SessionAssumption DEF SessionEvent, SubmitLogin, RetryRestore, OtherTab, StopAccepting,
                             Fail, Event, ShellInv, Types
  <2>2. /\ status' = status /\ user' = user
        /\ refused' \subseteq issued' /\ issued' \subseteq Tokens
    BY DEF SessionEvent, SubmitLogin, RetryRestore, OtherTab, StopAccepting, Fail, session,
           ShellInv, Types
  <2> QED BY <1>0, <2>1, <2>2 DEF ShellInv, Types, BellTypeOK, server, bell, list
<1>3. ASSUME NEW a \in Accounts, SubmitLogin(a) PROVE ShellInv'
  <2>1. PICK f \in Slots :
            /\ calls[f] = None /\ calls'[f] = Call("login", a, stored)
            /\ DOMAIN calls' = Slots
            /\ \A t \in Slots \ {f} : calls'[t] = calls[t]
    BY <1>1, <1>3, SendTakes DEF SubmitLogin
  <2>2. /\ calls'[f].kind = "login" /\ calls'[f].answer = None /\ calls'[f].reach = "view"
        /\ UNCHANGED <<stored, status>> /\ status = "unauthenticated"
        /\ ~\E q \in UnderWay({"login"}) : calls[q].reach = "view"
        /\ mixed' = (mixed \/ UnderWay({"me"}) # {})
    BY <1>3, <2>1 DEF SubmitLogin, Call
  <2>a. ~mixed' => ~mixed
    BY <2>2
  <2>3. CallsFit'
    <3>1. Fit(calls'[f], sent', read')
      BY <1>1, <2>1, FitCall DEF Shape
    <3> QED BY <1>0, <2>1, <3>1, FitKeeps DEF ShellInv
  <2>4. \A t \in Slots : ~OfPanel(t)
    BY <2>2 DEF IInv, ShellSignedIn, OfPanel, ShellKinds, BellKinds
  <2>5. \A t \in Slots : ~OfPanel(t)'
    BY <2>1, <2>2, <2>4 DEF OfPanel, PanelKinds
  <2>6. ASSUME ~mixed' PROVE LoginAlone' /\ PanelOwn'
    <3>1. LoginAlone /\ PanelOwn
      BY <2>a, <2>6 DEF ShellInv
    <3>2. \A t \in Slots : calls[t] # None => calls[t].kind # "login"
      BY <2>2, <3>1 DEF LoginAlone, UnderWay
    <3>3. LoginAlone'
      BY <2>1, <2>2, <3>2 DEF LoginAlone
    <3>4. PanelOwn'
      BY <1>0, <2>2, <2>5, <3>1 DEF PanelOwn, Listed
    <3> QED BY <3>3, <3>4
  <2>7. PanelCalls'
    BY <2>5 DEF PanelCalls
  <2>8. NewestAsks' /\ AnswerShown'
    BY <1>0, <2>2 DEF ShellInv, NewestAsks, AnswerShown, list
  <2> QED BY <1>2, <2>3, <2>6, <2>7, <2>8 DEF ShellInv
<1>4. CASE RetryRestore /\ stored = None
  BY <1>0, <1>2, <1>4, SendQuiet DEF RetryRestore, session
<1>5. CASE RetryRestore /\ stored # None
  <2>1. PICK f \in Slots :
            /\ calls[f] = None /\ calls'[f] = Call("me", None, stored)
            /\ DOMAIN calls' = Slots
            /\ \A t \in Slots \ {f} : calls'[t] = calls[t]
    BY <1>1, <1>5, SendTakes DEF RetryRestore
  <2>2. /\ calls'[f].kind = "me" /\ UNCHANGED <<stored, status>> /\ status = "unauthenticated"
        /\ mixed' = (mixed \/ UnderWay({"login"}) # {})
    BY <1>5, <2>1 DEF RetryRestore, Call
  <2>a. ~mixed' => ~mixed
    BY <2>2
  <2>3. CallsFit'
    <3>1. Fit(calls'[f], sent', read')
      BY <1>1, <2>1, FitCall DEF Shape
    <3> QED BY <1>0, <2>1, <3>1, FitKeeps DEF ShellInv
  <2>4. \A t \in Slots : ~OfPanel(t)
    BY <2>2 DEF IInv, ShellSignedIn, OfPanel, ShellKinds, BellKinds
  <2>5. \A t \in Slots : ~OfPanel(t)'
    BY <2>1, <2>2, <2>4 DEF OfPanel, PanelKinds
  <2>6. ASSUME ~mixed' PROVE LoginAlone' /\ PanelOwn'
    <3>1. LoginAlone /\ PanelOwn
      BY <2>a, <2>6 DEF ShellInv
    <3>2. LoginAlone'
      BY <2>1, <2>2, <3>1 DEF LoginAlone
    <3>3. PanelOwn'
      BY <1>0, <2>2, <2>5, <3>1 DEF PanelOwn, Listed
    <3> QED BY <3>2, <3>3
  <2>7. PanelCalls'
    BY <2>5 DEF PanelCalls
  <2>8. NewestAsks' /\ AnswerShown'
    BY <1>0, <2>2 DEF ShellInv, NewestAsks, AnswerShown, list
  <2> QED BY <1>2, <2>3, <2>6, <2>7, <2>8 DEF ShellInv
<1>6. ASSUME NEW t \in Tokens \cup {None}, OtherTab(t) PROVE ShellInv'
  <2>1. mixed' = TRUE /\ UNCHANGED <<status, calls>>
    BY <1>6 DEF OtherTab
  <2>2. CallsFit' /\ PanelCalls' /\ NewestAsks' /\ AnswerShown'
    BY <1>0, <2>1 DEF ShellInv, CallsFit, PanelCalls, OfPanel, NewestAsks, IsNewest, AnswerShown,
                      list
  <2> QED BY <1>2, <2>1, <2>2 DEF ShellInv
<1>7. ASSUME NEW t \in Tokens, StopAccepting(t) PROVE ShellInv'
  BY <1>0, <1>2, <1>7, SendQuiet DEF StopAccepting
<1>8. ASSUME NEW s \in Slots, NEW c \in {0, 500}, Fail(s, c) PROVE ShellInv'
  <2>1. Fit(With(calls[s], calls[s].reach, [code |-> c, value |-> None]), sent', read')
    BY <1>0, <1>8, FitFailed DEF Fail, ShellInv, CallsFit, Codes
  <2> QED BY <1>0, <1>2, <1>8, <2>1, AnswerQuiet DEF Fail
<1> QED BY <1>3, <1>4, <1>5, <1>6, <1>7, <1>8 DEF SessionEvent

\* The panel asks for marks of what it lists.
LEMMA MarkSent ==
    ASSUME IInv, ShellInv, Types', UNCHANGED session, UNCHANGED list, UNCHANGED server,
           Listed, panel' # None, panel'.items = panel.items,
           NEW kind \in {"mark", "markAll"}, NEW arg, kind = "mark" => arg \in Notices,
           Send(kind, arg)
    PROVE  ShellInv'
<1>1. PICK f \in Slots :
          /\ calls[f] = None /\ calls'[f] = Call(kind, arg, stored)
          /\ DOMAIN calls' = Slots
          /\ \A t \in Slots \ {f} : calls'[t] = calls[t]
  BY SendTakes DEF IInv
<1>2. /\ calls'[f].kind = kind /\ calls'[f].answer = None /\ calls'[f].token = stored
      /\ calls'[f].reach = "view" /\ kind # "list" /\ kind # "login"
  BY <1>1 DEF Call
<1>3. CallsFit'
  <2>1. Fit(calls'[f], sent', read')
    BY <1>1, FitCall DEF IInv, Shape
  <2> QED BY <1>1, <2>1, FitKeeps DEF ShellInv, server
<1>4. panel.items \in Listing
  BY DEF ShellInv, Types, BellTypeOK, Panel, Listed
<1>5. PanelCalls'
  <2> SUFFICES ASSUME NEW t \in Slots, OfPanel(t)'
               PROVE  calls'[t].kind # "list"
    BY <1>4 DEF PanelCalls
  <2>1. CASE t # f
    BY <1>1, <2>1 DEF OfPanel, ShellInv, PanelCalls, Listed
  <2> QED BY <1>2, <2>1
<1>6. ASSUME ~mixed' PROVE LoginAlone' /\ PanelOwn'
  <2>1. LoginAlone /\ PanelOwn /\ UNCHANGED <<stored, status, sent, read>>
    BY <1>6 DEF ShellInv, session, server
  <2>2. LoginAlone'
    BY <1>1, <1>2, <2>1 DEF LoginAlone
  <2>3. \A t \in Slots : OfPanel(t)' => t = f \/ (OfPanel(t) /\ calls'[t] = calls[t])
    BY <1>1 DEF OfPanel
  <2>4. Listed' => \A n \in DOMAIN panel'.items :
           n \in sent' /\ Recipient[n] = Owner[stored'] /\ (panel'.items[n] => n \in read')
    BY <2>1 DEF PanelOwn
  <2>5. ASSUME NEW t \in Slots, OfPanel(t)', calls'[t].kind = "markAll", AnsweredOK(t)'
        PROVE  \A n \in DOMAIN panel'.items : n \in read'
    <3>1. t # f
      BY <1>2, <2>5 DEF AnsweredOK
    <3> QED BY <2>1, <2>3, <2>5, <3>1 DEF PanelOwn, AnsweredOK
  <2>6. \A t \in Slots : OfPanel(t)' => calls'[t].token = stored'
    BY <1>2, <2>1, <2>3 DEF PanelOwn
  <2> QED BY <2>2, <2>4, <2>5, <2>6 DEF PanelOwn
<1>7. NewestAsks' /\ AnswerShown'
  <2>1. status' = status /\ (newest # 0 => calls'[newest] = calls[newest])
    BY <1>1 DEF session, ShellInv, NewestAsks, IsNewest, Types
  <2> QED BY <2>1, ListStays
<1> QED BY <1>3, <1>5, <1>6, <1>7 DEF ShellInv

\* The calls of a component that is unmounted fit.
LEMMA DetachedFit ==
    ASSUME NEW cs, NEW S, NEW R, NEW kinds, NEW reach \in Reaches,
           \A t \in Slots : cs[t] # None => Fit(cs[t], S, R)
    PROVE  \A t \in Slots :
               Detached(cs, kinds, reach)[t] = cs[t] \/ Fit(Detached(cs, kinds, reach)[t], S, R)
<1> SUFFICES ASSUME NEW t \in Slots, cs[t] # None
             PROVE  \/ Detached(cs, kinds, reach)[t] = cs[t]
                    \/ Fit(Detached(cs, kinds, reach)[t], S, R)
  BY DEF Detached
<1>1. Fit(With(cs[t], reach, cs[t].answer), S, R)
  BY FitDetached
<1> QED BY <1>1 DEF Detached

\* The interval, and what the user does with the bell and the panel.
LEMMA BellShell ==
    ASSUME IInv, ShellInv, Tick \/ BellEvent
    PROVE  ShellInv'
<1>0. UNCHANGED session /\ UNCHANGED <<pages, list>>
  BY DEF Tick, Poll, BellEvent, Notify, MarkRead, Hide, Show, OpenPanel, ClosePanel, MarkAllRead
<1>1. ASSUME UNCHANGED <<issued, refused>>, events' \in {events, events + 1} /\ events' <= MaxEvents,
             BellTypeOK'
      PROVE  Types'
  BY <1>0, <1>1, SessionAssumption DEF ShellInv, Types, session, list
<1>2. BellTypeOK /\ Shape
  BY DEF ShellInv, Types, IInv
<1>3. CASE Tick
  <2>1. Types'
    BY <1>1, <1>2, <1>3 DEF Tick, Poll, BellTypeOK, server, bell, ShellInv, Types
  <2> QED BY <1>0, <1>3, <2>1, SendQuiet DEF Tick, Poll, server, bell
<1>4. ASSUME NEW n \in Notices, Notify(n) PROVE ShellInv'
  <2>1. BellTypeOK'
    BY <1>2, <1>4 DEF Notify, BellTypeOK, bell
  <2>2. Types'
    BY <1>1, <1>4, <2>1 DEF Notify, ShellInv, Types
  <2> QED BY <1>0, <1>4, <2>2, SendQuiet DEF Notify, bell
<1>5. CASE Hide \/ Show
  <2>1. BellTypeOK'
    BY <1>2, <1>5 DEF Hide, Show, BellTypeOK, server
  <2>2. Types'
    BY <1>1, <1>5, <2>1, SessionAssumption DEF Hide, Show, Event, ShellInv, Types
  <2> QED BY <1>0, <1>5, <2>2, SendQuiet DEF Hide, Show, server
<1>6. ASSUME NEW n \in Notices, MarkRead(n) PROVE ShellInv'
  <2>1. /\ panel \in Panel /\ UNCHANGED server /\ UNCHANGED <<visible, badge>> /\ Listed
        /\ panel' = [panel EXCEPT !.marking = n]
    BY <1>2, <1>6 DEF MarkRead, Listed, BellTypeOK
  <2>2. panel' \in Panel /\ panel'.items = panel.items
    BY <2>1 DEF Panel
  <2>3. panel' # None
    BY <2>2, BellAssumption
  <2>4. BellTypeOK'
    BY <1>2, <2>1, <2>2 DEF BellTypeOK, server
  <2>5. Types'
    BY <1>1, <1>6, <2>4, SessionAssumption DEF MarkRead, Event, ShellInv, Types
  <2> QED BY <1>0, <1>6, <2>1, <2>2, <2>3, <2>5, MarkSent DEF MarkRead
<1>7. CASE MarkAllRead
  <2>1. BellTypeOK'
    BY <1>2, <1>7 DEF MarkAllRead, BellTypeOK, server, bell
  <2>2. Types'
    BY <1>1, <1>7, <2>1, SessionAssumption DEF MarkAllRead, Event, ShellInv, Types
  <2> QED BY <1>0, <1>7, <2>2, MarkSent DEF MarkAllRead, Listed, bell
<1>8. CASE OpenPanel
  <2>1. PICK f \in Slots :
            /\ calls[f] = None /\ calls'[f] = Call("list", None, stored)
            /\ DOMAIN calls' = Slots
            /\ \A t \in Slots \ {f} : calls'[t] = calls[t]
    BY <1>2, <1>8, SendTakes DEF OpenPanel
  <2>2. /\ calls'[f].kind = "list" /\ calls'[f].token = stored
        /\ UNCHANGED server /\ UNCHANGED <<visible, badge>> /\ panel = None
        /\ panel' = [items |-> None, marking |-> None]
    BY <1>8, <2>1 DEF OpenPanel, Call
  <2>3. panel' \in Panel /\ panel'.items = None
    BY <2>2 DEF Panel
  <2>4. panel' # None
    BY <2>3, BellAssumption
  <2>5. BellTypeOK'
    BY <1>2, <2>2, <2>3 DEF BellTypeOK, server
  <2>6. Types'
    BY <1>1, <1>8, <2>5, SessionAssumption DEF OpenPanel, Event, ShellInv, Types
  <2>7. CallsFit'
    <3>1. Fit(calls'[f], sent', read')
      BY <1>2, <2>1, FitCall DEF Shape
    <3> QED BY <2>1, <2>2, <3>1, FitKeeps DEF ShellInv, server
  <2>8. \A t \in Slots : OfPanel(t)' => t = f
    BY <2>1, <2>2 DEF ShellInv, PanelCalls, OfPanel
  <2>9. PanelCalls'
    BY <2>2, <2>3, <2>4, <2>8 DEF PanelCalls
  <2>10. ASSUME ~mixed' PROVE LoginAlone' /\ PanelOwn'
    <3>1. LoginAlone
      BY <1>0, <2>10 DEF ShellInv, session
    <3>2. LoginAlone'
      BY <1>0, <2>1, <2>2, <3>1 DEF LoginAlone, session
    <3>3. PanelOwn'
      BY <1>0, <2>2, <2>3, <2>8 DEF PanelOwn, Listed, session
    <3> QED BY <3>2, <3>3
  <2>11. NewestAsks' /\ AnswerShown'
    <3>1. status' = status /\ (newest # 0 => calls'[newest] = calls[newest])
      BY <1>0, <2>1 DEF session, ShellInv, NewestAsks, IsNewest, Types
    <3> QED BY <1>0, <3>1, ListStays
  <2> QED BY <2>6, <2>7, <2>9, <2>10, <2>11 DEF ShellInv
<1>9. CASE ClosePanel
  <2>1. /\ panel' = None /\ UNCHANGED server /\ UNCHANGED <<visible, badge>>
        /\ calls' = Detached(calls, PanelKinds, "bell")
    BY <1>9 DEF ClosePanel
  <2>2. BellTypeOK'
    BY <1>2, <2>1 DEF BellTypeOK, server
  <2>3. Types'
    BY <1>1, <1>9, <2>2 DEF ClosePanel, ShellInv, Types
  <2>4. CallsFit'
    <3>1. \A t \in Slots : calls'[t] = calls[t] \/ Fit(calls'[t], sent, read)
      BY <2>1, DetachedFit DEF ShellInv, CallsFit, Reaches
    <3> QED BY <2>1, <3>1, FitKeeps DEF ShellInv, server
  <2>5. \A t \in Slots :
           \/ calls'[t] = calls[t] /\ (calls[t] = None \/ calls[t].kind \notin PanelKinds)
           \/ calls'[t].kind \in PanelKinds /\ calls'[t].reach # "view" /\ calls[t].kind \in PanelKinds
    BY <1>2, <2>1 DEF Detached, With, Shape
  <2>6. \A t \in Slots : ~OfPanel(t)'
    BY <2>5 DEF OfPanel
  <2>7. PanelCalls'
    BY <2>6 DEF PanelCalls
  <2>8. ASSUME ~mixed' PROVE LoginAlone' /\ PanelOwn'
    <3>1. LoginAlone /\ UNCHANGED <<status, stored>>
      BY <1>0, <2>8 DEF ShellInv, session
    <3>2. LoginAlone'
      BY <2>5, <3>1 DEF LoginAlone, PanelKinds
    <3>3. PanelOwn'
      BY <2>1, <2>6 DEF PanelOwn, Listed
    <3> QED BY <3>2, <3>3
  <2>9. NewestAsks' /\ AnswerShown'
    <3>1. status' = status /\ (newest # 0 => calls'[newest] = calls[newest])
      BY <1>0, <2>5 DEF session, ShellInv, NewestAsks, IsNewest, Types, PanelKinds
    <3> QED BY <1>0, <3>1, ListStays
  <2> QED BY <2>3, <2>4, <2>7, <2>8, <2>9 DEF ShellInv
<1> QED BY <1>3, <1>4, <1>5, <1>6, <1>7, <1>8, <1>9 DEF BellEvent

\* The newest fetch is a call, and asks for the query in the URL.
LEMMA FetchNewest ==
    ASSUME IInv, NEW s \in Slots, NEW q \in Queries, Fetch(s, q), query' = q,
           status = "authenticated", status' = status
    PROVE  /\ NewestAsks' /\ AnswerShown'
           /\ Fit(calls'[s], sent', read')
           /\ calls'[s].kind = "letters"
           /\ \A t \in Slots \ {s} : calls'[t] = calls[t]
<1>1. /\ calls'[s] = Call("letters", q, stored) /\ newest' = s
      /\ \A t \in Slots \ {s} : calls'[t] = calls[t]
  BY DEF Fetch, IInv, Shape
<1>2. calls'[s].kind = "letters" /\ calls'[s].arg = q /\ calls'[s].reach = "view"
  BY <1>1 DEF Call
<1>3. Fit(calls'[s], sent', read')
  BY <1>1, FitCall DEF IInv, Shape
<1>4. calls'[s] # None
  BY <1>2, <1>3, ListAssumption DEF Fit
<1>5. newest' # 0
  BY <1>1 DEF Slots
<1> QED BY <1>1, <1>2, <1>3, <1>4, <1>5 DEF NewestAsks, IsNewest, AnswerShown

\* What the user does with the list, and letters filed meanwhile.
LEMMA ListShell ==
    ASSUME IInv, ShellInv, ListEvent
    PROVE  ShellInv'
<1>0. /\ UNCHANGED session /\ UNCHANGED <<server, bell>> /\ UNCHANGED <<issued, refused>>
      /\ UNCHANGED <<sent, read, panel, status>> /\ Shape
      /\ events' \in 0..MaxEvents
  BY SessionAssumption DEF ListEvent, Refile, Visit, LeaveList, Refresh, server, bell, session,
                           IInv, Event, ShellInv, Types
<1>1. ASSUME NEW f \in Filters, NEW n \in 0..MaxPage, Refile(f, n) PROVE ShellInv'
  <2>1. pages' \in [Filters -> 0..MaxPage]
    BY <1>1 DEF Refile, ShellInv, Types
  <2>2. Types'
    BY <1>0, <1>1, <2>1 DEF Refile, ShellInv, Types, BellTypeOK, session, server, bell, list
  <2> QED BY <1>0, <1>1, <2>2, SendQuiet DEF Refile
<1>2. ASSUME NEW q \in Queries, query' = q, shown' = shown, pages' = pages, loading' = TRUE,
             Free # {}, status = "authenticated", Fetch(FreeSlot, q)
      PROVE  ShellInv'
  <2>1. FreeSlot \in Free
    BY <1>2 DEF FreeSlot
  <2>2. FreeSlot \in Slots
    BY <2>1 DEF Free
  <2>3. failed' = FALSE /\ late' = FALSE /\ newest' = FreeSlot
    BY <1>2 DEF Fetch
  <2>4. Types'
    BY <1>0, <1>2, <2>2, <2>3 DEF ShellInv, Types, BellTypeOK, session, server, bell
  <2>5. /\ NewestAsks' /\ AnswerShown'
        /\ Fit(calls'[FreeSlot], sent', read')
        /\ calls'[FreeSlot].kind = "letters"
        /\ \A t \in Slots \ {FreeSlot} : calls'[t] = calls[t]
    BY <1>0, <1>2, <2>2, FetchNewest
  <2>6. CallsFit'
    BY <1>0, <2>5, FitKeeps DEF ShellInv
  <2>7. \A t \in Slots : QuietForPanel(t)
    BY <2>5 DEF QuietForPanel, PanelKinds
  <2>8. PanelCalls' /\ (~mixed' => LoginAlone' /\ PanelOwn')
    BY <1>0, <2>7, PanelStays
  <2> QED BY <2>4, <2>5, <2>6, <2>8 DEF ShellInv
<1>3. ASSUME NEW q \in Queries, Visit(q) PROVE ShellInv'
  BY <1>2, <1>3 DEF Visit
<1>4. CASE Refresh
  <2>1. query \in Queries /\ status = "authenticated"
    BY <1>4 DEF Refresh, ShellInv, Types, IInv, ShellSignedIn
  <2> QED BY <1>2, <1>4, <2>1 DEF Refresh
<1>5. CASE LeaveList
  <2>1. /\ calls' = Detached(calls, {"letters"}, "nowhere")
        /\ query' = None /\ shown' = None /\ newest' = 0 /\ UNCHANGED pages
        /\ loading' = FALSE /\ failed' = FALSE /\ late' = FALSE
    BY <1>5 DEF LeaveList, CloseList
  <2>2. Types'
    BY <1>0, <2>1 DEF ShellInv, Types, BellTypeOK, session, server, bell
  <2>3. \A t \in Slots : calls'[t] = calls[t] \/ Fit(calls'[t], sent', read')
    BY <1>0, <2>1, DetachedFit DEF ShellInv, CallsFit, Reaches
  <2>4. CallsFit'
    BY <1>0, <2>3, FitKeeps DEF ShellInv
  <2>5. \A t \in Slots : calls'[t] = calls[t] \/ calls'[t].kind = "letters"
    BY <2>1 DEF Detached, With
  <2>6. \A t \in Slots : QuietForPanel(t)
    BY <2>5 DEF QuietForPanel, PanelKinds
  <2>7. PanelCalls' /\ (~mixed' => LoginAlone' /\ PanelOwn')
    BY <1>0, <2>6, PanelStays
  <2>8. NewestAsks' /\ AnswerShown'
    BY <2>1 DEF NewestAsks, AnswerShown
  <2> QED BY <2>2, <2>4, <2>7, <2>8 DEF ShellInv
<1> QED BY <1>1, <1>3, <1>4, <1>5 DEF ListEvent

\* The answer to a mark, or to the count after it, changes the panel it came from.
LEMMA MarkLands ==
    ASSUME IInv, ShellInv, Types', UNCHANGED session, UNCHANGED list, UNCHANGED server,
           NEW s \in Slots, OfPanel(s), calls[s].kind # "list",
           panel' # None, panel'.items \in Listing,
           DOMAIN panel'.items = DOMAIN panel.items,
           ~mixed => \A n \in DOMAIN panel'.items : panel'.items[n] => n \in read,
           \A t \in Slots \ {s} : calls'[t] = calls[t],
           \/ calls'[s] = None
           \/ calls'[s] = With(Call("recount", None, stored), calls[s].reach, None)
    PROVE  ShellInv'
<1>1. /\ Fit(calls[s], sent, read) /\ calls[s].reach = "view"
      /\ calls[s] # None /\ calls[s].kind \in PanelKinds
      /\ \A t \in Slots : OfPanel(t) => calls[t].kind # "list"
  BY DEF ShellInv, CallsFit, PanelCalls, OfPanel
<1>2. \/ calls'[s] = None
      \/ /\ calls'[s].kind = "recount" /\ calls'[s].token = stored /\ calls'[s].answer = None
         /\ Fit(calls'[s], sent', read')
  <2> SUFFICES ASSUME calls'[s] = With(Call("recount", None, stored), calls[s].reach, None)
               PROVE  /\ calls'[s].kind = "recount" /\ calls'[s].token = stored
                      /\ calls'[s].answer = None
                      /\ Fit(calls'[s], sent', read')
    OBVIOUS
  <2>1. With(Call("recount", None, stored), calls[s].reach, None) = Call("recount", None, stored)
    BY <1>1 DEF With, Call
  <2>2. Fit(calls'[s], sent', read')
    BY <2>1, FitCall DEF IInv, Shape
  <2> QED BY <2>1, <2>2 DEF Call
<1>3. CallsFit'
  BY <1>2, FitKeeps DEF ShellInv, server
<1>4. \A t \in Slots : OfPanel(t)' =>
         \/ t = s /\ calls'[s].kind = "recount" /\ calls'[s].token = stored
         \/ OfPanel(t) /\ calls'[t] = calls[t]
  BY <1>2 DEF OfPanel
<1>5. PanelCalls'
  BY <1>1, <1>4 DEF PanelCalls
<1>6. ASSUME ~mixed' PROVE LoginAlone' /\ PanelOwn'
  <2>1. LoginAlone /\ PanelOwn /\ ~mixed /\ UNCHANGED <<stored, status, sent, read>>
    BY <1>6 DEF ShellInv, session, server
  <2>2. LoginAlone'
    BY <1>2, <2>1 DEF LoginAlone
  <2>3. Listed
    BY BellAssumption DEF ShellInv, PanelCalls, Listed
  <2>4. Listed' => \A n \in DOMAIN panel'.items :
           n \in sent' /\ Recipient[n] = Owner[stored'] /\ (panel'.items[n] => n \in read')
    BY <2>1, <2>3 DEF PanelOwn
  <2>5. \A t \in Slots : OfPanel(t)' /\ calls'[t].kind = "markAll" /\ AnsweredOK(t)' =>
           \A n \in DOMAIN panel'.items : n \in read'
    BY <1>4, <2>1 DEF PanelOwn, AnsweredOK
  <2>6. \A t \in Slots : OfPanel(t)' => calls'[t].token = stored'
    BY <1>4, <2>1 DEF PanelOwn
  <2> QED BY <2>2, <2>4, <2>5, <2>6 DEF PanelOwn
<1>7. NewestAsks' /\ AnswerShown'
  <2>1. status' = status /\ (newest # 0 => calls'[newest] = calls[newest])
    BY <1>1 DEF session, ShellInv, NewestAsks, IsNewest, Types, PanelKinds
  <2> QED BY <2>1, ListStays
<1> QED BY <1>3, <1>5, <1>6, <1>7 DEF ShellInv

\* Answers to calls of the bell and the panel.
LEMMA BellAnswerShell ==
    ASSUME IInv, ShellInv, NEW s \in Slots, Answered(s), BellAnswered(s),
           UNCHANGED list, UNCHANGED session, UNCHANGED <<issued, refused, events, server, pages>>
    PROVE  ShellInv'
<1>0. /\ Shape /\ Fit(calls[s], sent, read) /\ calls[s] # None /\ calls[s].answer # None
      /\ UNCHANGED <<sent, read>> /\ visible' = visible
      /\ panel \in Panel \cup {None} /\ badge \in 0..Cardinality(Notices)
  BY DEF IInv, ShellInv, CallsFit, Types, BellTypeOK, Answered, server, BellAnswered
<1>1. ASSUME badge' \in 0..Cardinality(Notices), panel' \in Panel \cup {None} PROVE Types'
  BY <1>0, <1>1 DEF ShellInv, Types, BellTypeOK, session, list
<1>2. ASSUME badge' \in 0..Cardinality(Notices), panel' = panel, Ended(s),
             calls[s].kind # "letters"
      PROVE  ShellInv'
  <2>1. calls'[s] = None /\ \A t \in Slots \ {s} : calls'[t] = calls[t]
    BY <1>0, <1>2 DEF Ended, Shape
  <2>2. newest # s
    BY <1>2 DEF ShellInv, NewestAsks, IsNewest, Slots
  <2> QED BY <1>0, <1>1, <1>2, <2>1, <2>2, QuietStep DEF QuietForPanel
<1>3. CASE CountAnswered(s)
  <2>1. badge' \in 0..Cardinality(Notices)
    BY <1>0, <1>3 DEF CountAnswered, BadgeBecomes, Code, Value, Fit
  <2> QED BY <1>2, <1>3, <2>1 DEF CountAnswered
<1>4. ASSUME calls[s].kind \in PanelKinds, calls[s].reach = "view"
      PROVE  OfPanel(s) /\ panel \in Panel /\ panel # None
  BY <1>0, <1>4 DEF OfPanel, ShellInv, PanelCalls
<1>5. CASE ListAnswered(s)
  <2>1. CASE calls[s].reach # "view"
    BY <1>0, <1>2, <1>5, <2>1 DEF ListAnswered, PanelBecomes
  <2>2. CASE calls[s].reach = "view"
    <3>1. /\ OfPanel(s) /\ panel \in Panel /\ panel.items = None
          /\ \A t \in Slots : OfPanel(t) => t = s
      BY <1>4, <1>5, <2>2 DEF ListAnswered, ShellInv, PanelCalls, PanelKinds
    <3>2. /\ calls[s].kind = "list" /\ badge' = badge
          /\ calls'[s] = None /\ \A t \in Slots \ {s} : calls'[t] = calls[t]
          /\ panel' = [panel EXCEPT !.items = IF Code(s) = 200 THEN Value(s) ELSE None]
      BY <1>0, <1>5, <2>2 DEF ListAnswered, PanelBecomes, Ended, Shape
    <3>3. Code(s) = 200 =>
             /\ Value(s) \in Listing
             /\ \A n \in DOMAIN Value(s) :
                   n \in sent /\ Recipient[n] = Owner[calls[s].token] /\ (Value(s)[n] => n \in read)
      BY <1>0, <3>2 DEF Fit, Code, Value
    <3>4. panel' \in Panel /\ panel'.items = IF Code(s) = 200 THEN Value(s) ELSE None
      BY <3>1, <3>2, <3>3 DEF Panel
    <3>5. Types'
      BY <1>0, <1>1, <3>2, <3>4
    <3>6. CallsFit'
      BY <1>0, <3>2, FitKeeps DEF ShellInv
    <3>7. \A t \in Slots : ~OfPanel(t)'
      BY <3>1, <3>2 DEF OfPanel
    <3>8. PanelCalls'
      BY <3>7 DEF PanelCalls
    <3>9. ASSUME ~mixed' PROVE LoginAlone' /\ PanelOwn'
      <4>1. LoginAlone /\ PanelOwn /\ UNCHANGED <<stored, status>>
        BY <3>9 DEF ShellInv, session
      <4>2. LoginAlone'
        BY <3>2, <4>1 DEF LoginAlone
      <4>3. calls[s].token = stored
        BY <3>1, <4>1 DEF PanelOwn
      <4>4. PanelOwn'
        BY <1>0, <3>3, <3>4, <3>7, <4>1, <4>3 DEF PanelOwn, Listed
      <4> QED BY <4>2, <4>4
    <3>10. NewestAsks' /\ AnswerShown'
      <4>1. status' = status /\ (newest # 0 => calls'[newest] = calls[newest])
        BY <3>2 DEF session, ShellInv, NewestAsks, IsNewest, Types
      <4> QED BY <4>1, ListStays
    <3> QED BY <3>5, <3>6, <3>8, <3>9, <3>10 DEF ShellInv
  <2> QED BY <2>1, <2>2
<1>6. ASSUME calls[s].kind \in {"mark", "recount", "markAll"}, calls[s].reach = "view"
      PROVE  /\ OfPanel(s) /\ panel \in Panel /\ panel # None /\ panel.items \in Listing
             /\ ~mixed => /\ \A n \in DOMAIN panel.items : panel.items[n] => n \in read
                          /\ calls[s].kind = "markAll" /\ Code(s) = 200 =>
                                \A n \in DOMAIN panel.items : n \in read
  <2>1. OfPanel(s) /\ panel \in Panel /\ panel # None /\ panel.items \in Listing
    BY <1>4, <1>6 DEF ShellInv, PanelCalls, PanelKinds
  <2>2. Listed
    BY <2>1, BellAssumption DEF Listed
  <2> QED BY <1>0, <2>1, <2>2 DEF ShellInv, PanelOwn, AnsweredOK, Code
<1>7. CASE MarkAnswered(s)
  <2>1. calls[s].kind = "mark" /\ badge' = badge /\ (Code(s) = 200 => calls[s].arg \in read)
    BY <1>0, <1>7 DEF MarkAnswered, Fit, Code
  <2>2. CASE Code(s) = 200
    <3>1. /\ PanelBecomes(s, [panel EXCEPT !.items[calls[s].arg] = TRUE])
          /\ calls'[s] = With(Call("recount", None, stored), calls[s].reach, None)
          /\ \A t \in Slots \ {s} : calls'[t] = calls[t]
      BY <1>0, <1>7, <2>2 DEF MarkAnswered, Shape
    <3>2. CASE calls[s].reach # "view"
      <4>1. panel' = panel /\ Types'
        BY <1>0, <1>1, <2>1, <3>1, <3>2 DEF PanelBecomes
      <4>2. /\ calls'[s] = With(Call("recount", None, stored), calls[s].reach,
                                Call("recount", None, stored).answer)
            /\ calls'[s].kind = "recount" /\ calls'[s].reach = calls[s].reach
        BY <3>1 DEF With, Call
      <4>3. Fit(Call("recount", None, stored), sent', read') /\ calls[s].reach \in Reaches
        BY <1>0, FitCall DEF Shape, Fit
      <4>4. Fit(calls'[s], sent', read')
        BY <4>2, <4>3, FitDetached
      <4>5. \A t \in Slots : QuietForPanel(t)
        BY <3>1, <3>2, <4>2 DEF QuietForPanel
      <4>6. newest # s
        BY <2>1 DEF ShellInv, NewestAsks, IsNewest, Slots
      <4> QED BY <1>0, <3>1, <4>1, <4>4, <4>5, <4>6, QuietStep
    <3>3. CASE calls[s].reach = "view"
      <4> DEFINE items == [panel.items EXCEPT ![calls[s].arg] = TRUE]
      <4>1. panel' = [panel EXCEPT !.items = items]
        BY <3>1, <3>3 DEF PanelBecomes
      <4>2. panel.items \in Listing /\ panel \in Panel
        BY <1>6, <2>1, <3>3
      <4>3. /\ items \in Listing /\ DOMAIN items = DOMAIN panel.items
            /\ \A n \in DOMAIN items : items[n] => n = calls[s].arg \/ panel.items[n]
        BY <4>2 DEF Listing
      <4> HIDE DEF items
      <4>4. panel' \in Panel /\ panel'.items = items
        BY <4>1, <4>2, <4>3 DEF Panel
      <4>5. panel' # None /\ Types'
        BY <1>0, <1>1, <2>1, <4>4, BellAssumption
      <4>6. ~mixed => \A n \in DOMAIN panel'.items : panel'.items[n] => n \in read
        BY <1>6, <2>1, <2>2, <3>3, <4>3, <4>4
      <4> QED BY <1>6, <2>1, <3>1, <3>3, <4>3, <4>4, <4>5, <4>6, MarkLands
    <3> QED BY <3>2, <3>3
  <2>3. CASE Code(s) # 200
    <3>1. Ended(s) /\ PanelBecomes(s, [panel EXCEPT !.marking = None])
      BY <1>7, <2>3 DEF MarkAnswered
    <3>2. CASE calls[s].reach # "view"
      BY <1>0, <1>2, <2>1, <3>1, <3>2 DEF PanelBecomes
    <3>3. CASE calls[s].reach = "view"
      <4>1. panel' \in Panel /\ panel'.items = panel.items
        BY <1>6, <2>1, <3>1, <3>3 DEF PanelBecomes, Panel
      <4>2. panel' # None /\ Types'
        BY <1>0, <1>1, <2>1, <4>1, BellAssumption
      <4>3. calls'[s] = None /\ \A t \in Slots \ {s} : calls'[t] = calls[t]
        BY <1>0, <3>1 DEF Ended, Shape
      <4> QED BY <1>6, <2>1, <3>3, <4>1, <4>2, <4>3, MarkLands
    <3> QED BY <3>2, <3>3
  <2> QED BY <2>2, <2>3
<1>8. CASE RecountAnswered(s)
  <2>1. calls[s].kind = "recount" /\ badge' \in 0..Cardinality(Notices)
    BY <1>0, <1>8 DEF RecountAnswered, BadgeBecomes, Code, Value, Fit
  <2>2. CASE calls[s].reach # "view"
    BY <1>2, <1>8, <2>1, <2>2 DEF RecountAnswered, PanelBecomes
  <2>3. CASE calls[s].reach = "view"
    <3>1. panel' \in Panel /\ panel'.items = panel.items
      BY <1>6, <1>8, <2>1, <2>3 DEF RecountAnswered, PanelBecomes, Panel
    <3>2. panel' # None /\ Types'
      BY <1>1, <2>1, <3>1, BellAssumption
    <3>3. calls'[s] = None /\ \A t \in Slots \ {s} : calls'[t] = calls[t]
      BY <1>0, <1>8 DEF RecountAnswered, Ended, Shape
    <3> QED BY <1>6, <2>1, <2>3, <3>1, <3>2, <3>3, MarkLands
  <2> QED BY <2>2, <2>3
<1>9. CASE MarkAllAnswered(s)
  <2>1. calls[s].kind = "markAll" /\ badge' \in 0..Cardinality(Notices) /\ Ended(s)
    <3>1. Cardinality(Notices) \in Nat
      BY BellAssumption, FS_CardinalityType
    <3> QED BY <1>0, <1>9, <3>1 DEF MarkAllAnswered, BadgeBecomes
  <2>2. CASE calls[s].reach # "view" \/ Code(s) # 200
    <3>1. panel' = panel
      BY <1>9, <2>2 DEF MarkAllAnswered, PanelBecomes
    <3> QED BY <1>2, <2>1, <3>1
  <2>3. CASE calls[s].reach = "view" /\ Code(s) = 200
    <3> DEFINE items == [n \in DOMAIN panel.items |-> TRUE]
    <3>1. panel' = [panel EXCEPT !.items = items]
      BY <1>9, <2>3 DEF MarkAllAnswered, PanelBecomes
    <3>2. items \in Listing /\ DOMAIN items = DOMAIN panel.items
      BY <1>6, <2>1, <2>3 DEF Listing
    <3> HIDE DEF items
    <3>3. panel' \in Panel /\ panel'.items = items
      BY <1>6, <2>1, <2>3, <3>1, <3>2 DEF Panel
    <3>4. panel' # None /\ Types'
      BY <1>1, <2>1, <3>3, BellAssumption
    <3>5. calls'[s] = None /\ \A t \in Slots \ {s} : calls'[t] = calls[t]
      BY <1>0, <2>1 DEF Ended, Shape
    <3>6. ~mixed => \A n \in DOMAIN panel'.items : panel'.items[n] => n \in read
      BY <1>6, <2>1, <2>3, <3>2, <3>3
    <3> QED BY <1>6, <2>1, <2>3, <3>2, <3>3, <3>4, <3>5, <3>6, MarkLands
  <2> QED BY <2>2, <2>3
<1> QED BY <1>3, <1>5, <1>7, <1>8, <1>9 DEF BellAnswered

\* Answers to fetches of the list.
LEMMA ListAnswerShell ==
    ASSUME IInv, ShellInv, NEW s \in Slots, Answered(s), ListAnswers(s),
           UNCHANGED bell, UNCHANGED session, UNCHANGED <<issued, refused, events, server>>
    PROVE  ShellInv'
<1>0. /\ Shape /\ Fit(calls[s], sent, read) /\ calls[s] # None /\ calls[s].kind = "letters"
      /\ UNCHANGED <<sent, read, panel, status, pages>>
      /\ calls[s].answer # None
  BY DEF IInv, ShellInv, CallsFit, Answered, ListAnswers, server, bell, session
<1>1. /\ calls[s].arg \in Queries
      /\ Code(s) = 200 => Value(s) \in 0..MaxPage
  BY <1>0 DEF Fit, Fetches, Code, Value
<1>2. ASSUME query' \in Queries \cup {None},
             shown' \in [query : Queries, last : 0..MaxPage] \cup {None},
             loading' \in BOOLEAN, failed' \in BOOLEAN, late' \in BOOLEAN,
             newest' \in Slots \cup {0}
      PROVE  Types'
  BY <1>0, <1>2 DEF ShellInv, Types, BellTypeOK, session, server, bell
<1>3. ASSUME calls'[s] = None \/ (calls'[s].kind = "letters" /\ Fit(calls'[s], sent', read')),
             \A t \in Slots \ {s} : calls'[t] = calls[t],
             Types', NewestAsks', AnswerShown'
      PROVE  ShellInv'
  <2>1. CallsFit'
    BY <1>0, <1>3, FitKeeps DEF ShellInv
  <2>2. \A t \in Slots : QuietForPanel(t)
    BY <1>3 DEF QuietForPanel, PanelKinds
  <2>3. PanelCalls' /\ (~mixed' => LoginAlone' /\ PanelOwn')
    BY <1>0, <2>2, PanelStays
  <2> QED BY <1>3, <2>1, <2>3 DEF ShellInv
<1>4. CASE LettersDropped(s) /\ UNCHANGED list
  <2>1. /\ calls'[s] = None /\ \A t \in Slots \ {s} : calls'[t] = calls[t]
        /\ UNCHANGED list /\ calls[s].reach = "nowhere"
    <3>1. calls[s].reach = "nowhere" /\ query' = query
      BY <1>4 DEF LettersDropped, list
    <3>2. calls' = [calls EXCEPT ![s] = None]
      BY <1>4, <3>1 DEF LettersDropped
    <3> QED BY <1>0, <1>4, <3>1, <3>2 DEF Shape
  <2>2. Types'
    BY <1>2, <2>1 DEF ShellInv, Types, list
  <2>3. NewestAsks' /\ AnswerShown'
    <3>1. newest # 0 => calls'[newest] = calls[newest]
      BY <2>1 DEF ShellInv, NewestAsks, IsNewest, Types
    <3> QED BY <1>0, <2>1, <3>1, ListStays
  <2> QED BY <1>3, <2>1, <2>2, <2>3
<1>5. CASE LettersDropped(s) /\ ~UNCHANGED list
  <2>1. /\ Code(s) = 200 /\ query # None /\ query' = Clamped(s)
        /\ Fetch(s, Clamped(s)) /\ loading' = TRUE /\ UNCHANGED shown
    BY <1>5 DEF LettersDropped
  <2>2. status = "authenticated"
    BY <2>1 DEF IInv, ShellSignedIn
  <2>3. Clamped(s) \in Queries
    BY <1>1, <2>1, ListAssumption DEF Clamped, Queries
  <2>4. /\ NewestAsks' /\ AnswerShown'
        /\ Fit(calls'[s], sent', read')
        /\ calls'[s].kind = "letters"
        /\ \A t \in Slots \ {s} : calls'[t] = calls[t]
    BY <1>0, <2>1, <2>2, <2>3, FetchNewest
  <2>5. failed' = FALSE /\ late' = FALSE /\ newest' = s
    BY <2>1 DEF Fetch
  <2>6. Types'
    BY <1>2, <2>1, <2>3, <2>5 DEF ShellInv, Types
  <2> QED BY <1>3, <2>4, <2>6
<1>6. CASE LettersAnswered(s)
  <2>1. status = "authenticated"
    BY <1>0, <1>6 DEF LettersAnswered, IInv, ShellSignedIn, ShellKinds
  <2>2. Code(s) = 200 =>
           /\ Clamped(s) \in Queries
           /\ Clamped(s) = calls[s].arg => (Value(s) >= 1 => calls[s].arg.page <= Value(s))
    BY <1>1, ListAssumption DEF Clamped, Queries
  <2>3. ASSUME FetchEnded(s)
        PROVE  /\ calls'[s] = None /\ \A t \in Slots \ {s} : calls'[t] = calls[t]
               /\ newest' \in Slots \cup {0} /\ (newest' = IF s = newest THEN 0 ELSE newest)
               /\ late' \in BOOLEAN /\ (newest = 0 => late')
               /\ loading' = FALSE
    BY <1>0, <2>3 DEF FetchEnded, Shape, ShellInv, Types
  <2>4. CASE Code(s) = 200 /\ Clamped(s) \notin {calls[s].arg, query}
    <3>1. /\ query' = Clamped(s) /\ Fetch(s, Clamped(s)) /\ loading' \in BOOLEAN
          /\ shown' = [query |-> calls[s].arg, last |-> Value(s)]
      BY <1>6, <2>4 DEF LettersAnswered
    <3>2. /\ NewestAsks' /\ AnswerShown'
          /\ Fit(calls'[s], sent', read')
          /\ calls'[s].kind = "letters"
          /\ \A t \in Slots \ {s} : calls'[t] = calls[t]
      BY <1>0, <2>1, <2>2, <2>4, <3>1, FetchNewest
    <3>3. failed' = FALSE /\ late' = FALSE /\ newest' = s
      BY <3>1 DEF Fetch
    <3>4. Types'
      BY <1>1, <1>2, <2>2, <2>4, <3>1, <3>3
    <3> QED BY <1>3, <3>2, <3>4
  <2>5. CASE Code(s) = 200 /\ Clamped(s) \in {calls[s].arg, query}
    <3>1. /\ FetchEnded(s) /\ UNCHANGED <<query, failed>>
          /\ shown' = [query |-> calls[s].arg, last |-> Value(s)]
      BY <1>6, <2>5 DEF LettersAnswered
    <3>2. Types'
      BY <1>1, <1>2, <2>3, <2>5, <3>1 DEF ShellInv, Types
    <3>3. NewestAsks'
      BY <1>0, <2>3, <3>1 DEF ShellInv, NewestAsks, IsNewest, Types, Slots
    <3>4. newest = s => calls[s].arg = query
      BY DEF ShellInv, NewestAsks, IsNewest, Slots
    <3>5. AnswerShown'
      <4>1. CASE newest = 0
        BY <2>3, <3>1, <4>1 DEF AnswerShown
      <4>2. CASE newest = s
        <5>1. Clamped(s) = calls[s].arg
          BY <2>5, <3>4, <4>2
        <5>2. /\ shown'.query = query'
              /\ shown'.last >= 1 => query'.page <= shown'.last
          BY <2>2, <2>5, <3>1, <3>4, <4>2, <5>1
        <5> QED BY <2>3, <3>1, <5>2 DEF AnswerShown
      <4>3. CASE newest # 0 /\ newest # s
        BY <2>3, <3>1, <4>3 DEF AnswerShown
      <4> QED BY <4>1, <4>2, <4>3
    <3> QED BY <1>3, <2>3, <3>1, <3>2, <3>3, <3>5
  <2>6. CASE Code(s) # 200
    <3>1. failed' = TRUE /\ FetchEnded(s) /\ UNCHANGED <<query, shown>>
      BY <1>6, <2>6 DEF LettersAnswered
    <3>2. Types'
      BY <1>2, <2>3, <3>1 DEF ShellInv, Types
    <3>3. NewestAsks'
      BY <1>0, <2>3, <3>1 DEF ShellInv, NewestAsks, IsNewest, Types, Slots
    <3>4. AnswerShown'
      BY <2>3, <3>1 DEF AnswerShown
    <3> QED BY <1>3, <2>3, <3>1, <3>2, <3>3, <3>4
  <2> QED BY <2>4, <2>5, <2>6
<1> QED BY <1>4, <1>5, <1>6 DEF ListAnswers

\* Answers that change the session.
LEMMA SessionAnswerShell ==
    ASSUME IInv, ShellInv, NEW s \in Slots, SessionAnswered(s), Follow(s),
           UNCHANGED <<issued, refused, events, server, pages>>
    PROVE  ShellInv'
<1>0. /\ Shape /\ Fit(calls[s], sent, read) /\ calls[s] # None /\ calls[s].answer # None
      /\ UNCHANGED <<sent, read>>
  BY DEF IInv, ShellInv, CallsFit, SessionAnswered, Unauthorized, Answered, server
<1>1. IInv' /\ Shape'
  BY SessionAnswerKeeps DEF IInv
<1>2. /\ mixed' = mixed
      /\ status' \in {"loading", "authenticated", "unauthenticated"}
      /\ user' \in Accounts \cup {None}
      /\ calls[s].kind \notin SessionKinds => status' = "unauthenticated"
  <2>1. CASE ClearSession
    BY <2>1 DEF ClearSession
  <2>2. CASE calls[s].kind = "me" /\ RestoreAnswered(s) /\ Code(s) = 200
    BY <1>0, <2>2 DEF RestoreAnswered, Fit, Code, Value, SessionKinds
  <2>3. CASE calls[s].kind = "me" /\ RestoreAnswered(s) /\ Code(s) # 200
    BY <2>3 DEF RestoreAnswered, RestoreFailed, ClearSession, SessionKinds, ShellInv, Types
  <2>4. CASE calls[s].kind = "login" /\ LoginAnswered(s)
    <3>1. Code(s) = 200 => Owner[Value(s)] \in Accounts
      BY <1>0, <2>4, SessionAssumption DEF IInv, LoginsGiveTokens, AnsweredOK, Code, Value
    <3> QED BY <2>4, <3>1 DEF LoginAnswered, session, SessionKinds, ShellInv, Types
  <2> QED BY <2>1, <2>2, <2>3, <2>4 DEF SessionAnswered
<1>3. ASSUME BellTypeOK', query' \in Queries \cup {None},
             shown' \in [query : Queries, last : 0..MaxPage] \cup {None},
             loading' \in BOOLEAN, failed' \in BOOLEAN, late' \in BOOLEAN,
             newest' \in Slots \cup {0}
      PROVE  Types'
  BY <1>2, <1>3 DEF ShellInv, Types
<1>4. ASSUME UNCHANGED <<bell, list>> PROVE Types'
  BY <1>0, <1>3, <1>4 DEF ShellInv, Types, BellTypeOK, bell, list
<1>5. status # "authenticated" => panel = None /\ newest = 0 /\ \A t \in Slots : ~OfPanel(t)
  BY DEF ShellInv, NewestAsks, IInv, ShellSignedIn, OfPanel, ShellKinds, BellKinds
<1>6. ASSUME ~mixed, calls[s].kind \in SessionKinds
      PROVE  status # "authenticated" /\ \A t \in Slots \ {s} : calls[t] # None =>
                calls[t].kind # "login"
  BY <1>0, <1>6 DEF IInv, RestoreAlone, ShellInv, LoginAlone, SessionKinds
<1>7. CASE status' = status /\ Ended(s) /\ UNCHANGED <<bell, list>>
  <2>1. calls'[s] = None /\ \A t \in Slots \ {s} : calls'[t] = calls[t]
    BY <1>0, <1>7 DEF Ended, Shape
  <2>2. CallsFit'
    BY <1>0, <2>1, FitKeeps DEF ShellInv
  <2>3. \A t \in Slots : OfPanel(t)' => OfPanel(t) /\ calls'[t] = calls[t]
    BY <2>1 DEF OfPanel
  <2>4. PanelCalls'
    BY <1>7, <2>3 DEF ShellInv, PanelCalls, bell
  <2>5. ASSUME ~mixed' PROVE LoginAlone' /\ PanelOwn'
    <3>1. LoginAlone /\ status # "authenticated"
      BY <1>2, <1>6, <1>7, <2>5 DEF ShellInv
    <3>2. LoginAlone'
      BY <1>7, <2>1, <3>1 DEF LoginAlone
    <3>3. PanelOwn'
      BY <1>5, <1>7, <2>3, <3>1 DEF PanelOwn, Listed, bell
    <3> QED BY <3>2, <3>3
  <2>6. NewestAsks' /\ AnswerShown'
    <3>1. newest # 0 => newest # s
      BY <1>2, <1>5, <1>7 DEF ShellInv, NewestAsks, IsNewest, SessionKinds
    <3>2. newest # 0 => calls'[newest] = calls[newest]
      BY <2>1, <3>1 DEF ShellInv, Types
    <3> QED BY <1>7, <3>2, ListStays
  <2> QED BY <1>4, <1>7, <2>2, <2>4, <2>5, <2>6 DEF ShellInv
<1>8. CASE status' # status /\ status' = "authenticated" /\ Mount(s)
  <2> DEFINE cs == Detached(calls, {"login"}, "nowhere")
  <2>1. UNCHANGED <<bell, list>> /\ UNCHANGED panel
    BY <1>8 DEF Mount, bell
  <2>2. DOMAIN cs = Slots
    BY DEF Detached
  <2>3. calls'[s] = Call("count", None, stored') /\ \A t \in Slots \ {s} : calls'[t] = cs[t]
    BY <1>8, <2>2 DEF Mount
  <2>4. \A t \in Slots : cs[t] = calls[t] \/ Fit(cs[t], sent, read)
    BY DetachedFit DEF ShellInv, CallsFit, Reaches
  <2>5. \A t \in Slots :
           \/ cs[t] = calls[t]
           \/ cs[t].kind = "login" /\ calls[t] # None /\ calls[t].kind = "login"
    BY <1>0, DetachedStay DEF Shape
  <2> HIDE DEF cs
  <2>6. calls'[s].kind = "count"
    BY <2>3 DEF Call
  <2>7. Fit(calls'[s], sent', read')
    BY <1>1, <2>3, FitCall DEF Shape
  <2>8. CallsFit'
    BY <1>0, <2>3, <2>4, <2>7, FitKeeps DEF ShellInv
  <2>9. \A t \in Slots : ~OfPanel(t)'
    BY <1>5, <1>8, <2>3, <2>5, <2>6 DEF OfPanel, PanelKinds
  <2>10. PanelCalls'
    BY <2>9 DEF PanelCalls
  <2>11. ASSUME ~mixed' PROVE LoginAlone' /\ PanelOwn'
    <3>1. calls[s].kind \in SessionKinds
      BY <1>2, <1>8
    <3>2. \A t \in Slots : calls'[t] # None => calls'[t].kind # "login"
      BY <1>2, <1>6, <2>3, <2>5, <2>6, <2>11, <3>1
    <3>3. LoginAlone'
      BY <3>2 DEF LoginAlone
    <3>4. PanelOwn'
      BY <1>5, <1>8, <2>1, <2>9 DEF PanelOwn, Listed
    <3> QED BY <3>3, <3>4
  <2>12. NewestAsks' /\ AnswerShown'
    BY <1>5, <1>8, <2>1, ListStays
  <2> QED BY <1>4, <2>1, <2>8, <2>10, <2>11, <2>12 DEF ShellInv
<1>9. CASE status' # status /\ status' # "authenticated" /\ Unmount([calls EXCEPT ![s] = None])
  <2> DEFINE cs == [calls EXCEPT ![s] = None]
  <2>1. DOMAIN cs = Slots /\ cs[s] = None /\ \A t \in Slots \ {s} : cs[t] = calls[t]
    BY <1>0 DEF Shape
  <2>2. /\ calls' = Detached(cs, ShellKinds, "nowhere") /\ panel' = None /\ query' = None
        /\ badge' = 0 /\ visible' = visible /\ shown' = None /\ newest' = 0
        /\ loading' = FALSE /\ failed' = FALSE /\ late' = FALSE
    BY <1>9 DEF Unmount, CloseList
  <2> HIDE DEF cs
  <2>3. 0 \in 0..Cardinality(Notices)
    BY BellAssumption, FS_CardinalityType
  <2>4. Types'
    BY <1>0, <1>3, <2>2, <2>3 DEF ShellInv, Types, BellTypeOK
  <2>5. \A t \in Slots : cs[t] # None => Fit(cs[t], sent, read)
    BY <2>1 DEF ShellInv, CallsFit
  <2>6. \A t \in Slots : calls'[t] \in {calls[t], None} \/ Fit(calls'[t], sent', read')
    BY <1>0, <2>1, <2>2, <2>5, DetachedFit DEF Reaches
  <2>7. CallsFit'
    BY <1>0, <2>6, FitKeeps DEF ShellInv
  <2>8. \A t \in Slots :
           \/ calls'[t] = cs[t] /\ (cs[t] = None \/ cs[t].kind \notin ShellKinds \/ cs[t].reach = "nowhere")
           \/ calls'[t].kind \in ShellKinds /\ calls'[t].reach = "nowhere"
    BY <2>2 DEF Detached, With
  <2>9. \A t \in Slots : ~OfPanel(t)'
    BY <2>8 DEF OfPanel, ShellKinds, BellKinds
  <2>10. ASSUME ~mixed' PROVE LoginAlone' /\ PanelOwn'
    <3>1. LoginAlone
      BY <1>2, <2>10 DEF ShellInv
    <3>2. \A t \in Slots : calls'[t] # None /\ calls'[t].kind = "login" =>
             calls'[t] = calls[t] /\ t # s
      BY <2>1, <2>8 DEF ShellKinds, BellKinds, PanelKinds
    <3>3. LoginAlone'
      BY <1>9, <3>1, <3>2 DEF LoginAlone
    <3>4. PanelOwn'
      BY <2>2, <2>9 DEF PanelOwn, Listed
    <3> QED BY <3>3, <3>4
  <2> QED BY <2>2, <2>4, <2>7, <2>9, <2>10 DEF ShellInv, PanelCalls, NewestAsks, AnswerShown
<1> QED BY <1>7, <1>8, <1>9 DEF Follow

\* The user logs out or loads the page again.
LEMMA LeaveShell ==
    ASSUME IInv, ShellInv, Leave
    PROVE  ShellInv'
<1>0. Shape /\ Shape' /\ UNCHANGED <<server, pages>> /\ UNCHANGED <<sent, read>>
  BY LeaveKeeps DEF IInv, Leave, server
<1>1. 0 \in 0..Cardinality(Notices)
  BY BellAssumption, FS_CardinalityType
<1>2. /\ panel' = None /\ query' = None /\ badge' = 0 /\ visible' = visible /\ shown' = None
      /\ newest' = 0 /\ loading' = FALSE /\ failed' = FALSE /\ late' = FALSE
      /\ user' = None /\ status' \in {"loading", "unauthenticated"}
      /\ UNCHANGED <<issued, refused>> /\ events' \in 0..MaxEvents
  BY SessionAssumption DEF Leave, Unmount, CloseList, Logout, Reload, ClearSession, LoadedStatus,
                           Event, ShellInv, Types
<1>3. Types'
  BY <1>0, <1>1, <1>2 DEF ShellInv, Types, BellTypeOK
<1>4. CASE Logout /\ Unmount(calls)
  <2>1. calls' = Detached(calls, ShellKinds, "nowhere") /\ mixed' = mixed
    BY <1>4 DEF Logout, ClearSession, Unmount
  <2>2. \A t \in Slots : calls'[t] = calls[t] \/ Fit(calls'[t], sent', read')
    BY <1>0, <2>1, DetachedFit DEF ShellInv, CallsFit, Reaches
  <2>3. CallsFit'
    BY <1>0, <2>2, FitKeeps DEF ShellInv
  <2>4. \A t \in Slots :
           \/ /\ calls'[t] = calls[t]
              /\ calls[t] = None \/ calls[t].kind \notin ShellKinds \/ calls[t].reach = "nowhere"
           \/ calls'[t].kind \in ShellKinds /\ calls'[t].reach = "nowhere"
    BY <2>1 DEF Detached, With
  <2>5. \A t \in Slots : ~OfPanel(t)'
    BY <2>4 DEF OfPanel, ShellKinds, BellKinds
  <2>6. ASSUME ~mixed' PROVE LoginAlone' /\ PanelOwn'
    <3>1. LoginAlone
      BY <2>1, <2>6 DEF ShellInv
    <3>2. \A t \in Slots : calls'[t] # None /\ calls'[t].kind = "login" => calls'[t] = calls[t]
      BY <2>4 DEF ShellKinds, BellKinds, PanelKinds
    <3>3. LoginAlone'
      BY <1>2, <3>1, <3>2 DEF LoginAlone
    <3>4. PanelOwn'
      BY <1>2, <2>5 DEF PanelOwn, Listed
    <3> QED BY <3>3, <3>4
  <2> QED BY <1>2, <1>3, <2>3, <2>5, <2>6 DEF ShellInv, PanelCalls, NewestAsks, AnswerShown
<1>5. CASE Reload
  <2>1. calls' = LoadedCalls(stored)
    BY <1>5 DEF Reload
  <2>2. \A t \in Slots : calls'[t] # None => calls'[t].kind = "me" /\ Fit(calls'[t], sent', read')
    <3> SUFFICES ASSUME NEW t \in Slots, calls'[t] # None
                 PROVE  calls'[t].kind = "me" /\ Fit(calls'[t], sent', read')
      OBVIOUS
    <3>1. calls'[t] = Call("me", None, stored)
      BY <2>1 DEF LoadedCalls
    <3>2. Fit(Call("me", None, stored), sent', read')
      BY <1>0, FitCall DEF Shape
    <3> QED BY <3>1, <3>2 DEF Call
  <2>3. \A t \in Slots : ~OfPanel(t)'
    BY <2>2 DEF OfPanel, PanelKinds
  <2> QED BY <1>2, <1>3, <2>2, <2>3
        DEF ShellInv, CallsFit, LoginAlone, PanelOwn, Listed, PanelCalls, NewestAsks, AnswerShown
<1> QED BY <1>4, <1>5 DEF Leave

-----------------------------------------------------------------------------
LEMMA InitShell == Init => ShellInv
<1> SUFFICES ASSUME Init PROVE ShellInv
  OBVIOUS
<1>1. 0 \in 0..Cardinality(Notices)
  BY BellAssumption, FS_CardinalityType
<1>2. stored \in Tokens \cup {None} /\ calls = LoadedCalls(stored)
  BY DEF Init, SessionInit
<1>3. Types
  <2>1. /\ status \in {"loading", "authenticated", "unauthenticated"} /\ user = None
        /\ refused \subseteq issued /\ issued \subseteq Tokens /\ events \in 0..MaxEvents
    BY <1>2, SessionAssumption DEF Init, SessionInit, LoadedStatus
  <2>2. BellTypeOK
    BY <1>1, BellAssumption DEF Init, BellInit, BellTypeOK
  <2> QED BY <2>1, <2>2, ListAssumption DEF Init, ListInit, Types
<1>4. \A t \in Slots : calls[t] # None => calls[t].kind = "me" /\ Fit(calls[t], sent, read)
  <2> SUFFICES ASSUME NEW t \in Slots, calls[t] # None
               PROVE  calls[t].kind = "me" /\ Fit(calls[t], sent, read)
    OBVIOUS
  <2>1. calls[t] = Call("me", None, stored)
    BY <1>2 DEF LoadedCalls
  <2>2. Fit(Call("me", None, stored), sent, read)
    BY <1>2, FitCall
  <2> QED BY <2>1, <2>2 DEF Call
<1>5. \A t \in Slots : ~OfPanel(t)
  BY <1>4 DEF OfPanel, PanelKinds
<1>6. panel = None /\ query = None /\ newest = 0
  BY DEF Init, BellInit, ListInit
<1> QED BY <1>3, <1>4, <1>5, <1>6
      DEF ShellInv, CallsFit, LoginAlone, PanelOwn, Listed, PanelCalls, NewestAsks, AnswerShown

LEMMA NextShell == IInv /\ ShellInv /\ [Next]_vars => ShellInv'
<1> SUFFICES ASSUME IInv, ShellInv, [Next]_vars PROVE ShellInv'
  OBVIOUS
<1>1. ASSUME NEW s \in Slots, Deliver(s) PROVE ShellInv'
  <2>1. CASE SessionAnswered(s) /\ Follow(s)
    BY <1>1, <2>1, SessionAnswerShell DEF Deliver
  <2>2. CASE BellAnswered(s) /\ UNCHANGED list /\ UNCHANGED session
    BY <1>1, <2>2, BellAnswerShell DEF Deliver
  <2>3. CASE ListAnswers(s) /\ UNCHANGED bell /\ UNCHANGED session
    BY <1>1, <2>3, ListAnswerShell DEF Deliver
  <2> QED BY <1>1, <2>1, <2>2, <2>3 DEF Deliver
<1>2. CASE UNCHANGED vars
  <2>1. Types' /\ UNCHANGED <<session, calls, panel, list, sent, read>>
    BY <1>2 DEF ShellInv, Types, BellTypeOK, vars, session, server, bell, list
  <2> QED BY <2>1, SendQuiet
<1> QED BY <1>1, <1>2, HandleShell, BellShell, ListShell, SessionEventShell, LeaveShell DEF Next

LEMMA Invariants == Spec => []IInv /\ []ShellInv
  BY InitHolds, NextKeeps, InitShell, NextShell, PTL DEF Spec

\* Every call of the tab has a token or none, a reach and a status that exist; a
\* fetch asks for a query and is answered by a number of pages; and the session,
\* the badge, the panel and the list are what their components' states can be.
THEOREM TypeCorrect == Spec => []TypeOK
<1>1. IInv /\ ShellInv => TypeOK
  <2> SUFFICES ASSUME IInv, ShellInv PROVE TypeOK
    OBVIOUS
  <2>1. \A s \in Slots : calls[s] # None => Fit(calls[s], sent, read)
    BY DEF ShellInv, CallsFit
  <2>2. SessionTypeOK
    BY <2>1 DEF ShellInv, Types, IInv, Shape, Fit, SessionTypeOK
  <2>3. ListTypeOK
    BY <2>1 DEF ShellInv, Types, Fit, UnderWay, ListTypeOK
  <2> QED BY <2>2, <2>3 DEF ShellInv, Types, TypeOK
<1> QED BY Invariants, <1>1, PTL

\* The panel shows nothing as read that is unread on the server, in whatever order
\* the answers to its listing, its marks and "Mark all read" come, over closing
\* and opening it again, and over sessions.
THEOREM PanelCorrect == Spec => []PanelTruthful
<1>1. ShellInv => PanelTruthful
  BY DEF ShellInv, PanelOwn, PanelTruthful
<1> QED BY Invariants, <1>1, PTL

\* However the fetches of the list overtake each other, and whatever the answers
\* that move the URL do meanwhile: the list at rest shows the query in the URL,
\* unless an older answer came after the newest one's.
THEOREM ListCorrect == Spec => []ListAtRest
<1>1. ShellInv => ListAtRest
  <2> SUFFICES ASSUME ShellInv, query # None, Fetching = {}, ~late
               PROVE  /\ ~loading
                      /\ failed \/ /\ shown.query = query
                                   /\ shown.last >= 1 => query.page <= shown.last
    BY DEF ListAtRest
  <2>1. newest = 0
    BY DEF ShellInv, NewestAsks, IsNewest, Types, Fetching, UnderWay
  <2> QED BY <2>1 DEF ShellInv, AnswerShown
<1> QED BY Invariants, <1>1, PTL
=============================================================================
