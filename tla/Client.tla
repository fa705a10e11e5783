-------------------------------- MODULE Client --------------------------------
(***************************************************************************)
(* One browser tab: the session, and in the shell of a signed-in user the   *)
(* notification bell and the letter registry.  They unmount when the        *)
(* session ends, which the 401 of any of their calls brings about; the      *)
(* bell's polls find out even when the user does nothing.                  *)
(***************************************************************************)
EXTENDS NotificationBell, RegistryList

vars == <<session, calls, issued, refused, events, server, bell, pages, list>>

TypeOK == SessionTypeOK /\ BellTypeOK /\ ListTypeOK

Init == SessionInit /\ BellInit /\ ListInit

ShellKinds == BellKinds \cup {"letters"}

-----------------------------------------------------------------------------
(* ProtectedRoute: the shell follows the status. *)

\* The shell unmounts, and the calls of its components go on.
Unmount(cs) ==
    /\ calls' = Detached(cs, ShellKinds, "nowhere")
    /\ badge' = 0
    /\ panel' = None
    /\ CloseList
    /\ UNCHANGED visible

\* The login form unmounts, and the bell asks for the count at once.
Mount(s) ==
    /\ calls' = [Detached(calls, {"login"}, "nowhere") EXCEPT
                    ![s] = Call("count", None, stored')]
    /\ UNCHANGED <<bell, list>>

\* After a change of the session by the answer of call s.
Follow(s) ==
    \/ status' = status /\ Ended(s) /\ UNCHANGED <<bell, list>>
    \/ status' # status /\ status' = "authenticated" /\ Mount(s)
    \/ status' # status /\ status' # "authenticated" /\ Unmount([calls EXCEPT ![s] = None])

-----------------------------------------------------------------------------
\* An answer is delivered to whoever made the call; a 401 to the session first.
Deliver(s) ==
    /\ Answered(s)
    /\ \/ SessionAnswered(s) /\ Follow(s)
       \/ /\ calls[s].kind \in ShellKinds /\ ~Unauthorized(s)
          /\ \/ BellAnswered(s) /\ UNCHANGED list
             \/ ListAnswers(s) /\ UNCHANGED bell
          /\ UNCHANGED session
    /\ UNCHANGED <<issued, refused, events, server, pages>>

\* The server handles a call.
Handle(s) ==
    \/ (Refuse(s) \/ ServeMe(s) \/ ServeLogin(s)) /\ UNCHANGED <<server, bell, pages, list>>
    \/ ServeBell(s) /\ UNCHANGED <<pages, list>>
    \/ ServeLetters(s) /\ UNCHANGED <<server, bell>>

\* The interval of the bell fires.
Tick == Poll /\ UNCHANGED <<pages, list>>

SessionEvent ==
    /\ \/ \E a \in Accounts : SubmitLogin(a)
       \/ RetryRestore
       \/ \E t \in Tokens \cup {None} : OtherTab(t)
       \/ \E t \in Tokens : StopAccepting(t)
       \/ \E s \in Slots, c \in {0, 500} : Fail(s, c)
    /\ UNCHANGED <<server, bell, pages, list>>

BellEvent ==
    /\ \/ \E n \in Notices : Notify(n) \/ MarkRead(n)
       \/ Hide \/ Show
       \/ OpenPanel \/ ClosePanel
       \/ MarkAllRead
    /\ UNCHANGED <<pages, list>>

ListEvent ==
    /\ \/ \E f \in Filters, n \in 0..MaxPage : Refile(f, n)
       \/ \E q \in Queries : Visit(q)
       \/ LeaveList
       \/ Refresh
    /\ UNCHANGED <<server, bell>>

Leave ==
    /\ \/ Logout /\ Unmount(calls)
       \/ Reload /\ badge' = 0 /\ panel' = None /\ CloseList /\ UNCHANGED visible
    /\ UNCHANGED <<server, pages>>

Next ==
    \/ \E s \in Slots : Handle(s) \/ Deliver(s)
    \/ Tick
    \/ SessionEvent \/ BellEvent \/ ListEvent \/ Leave

Spec == Init /\ [][Next]_vars

\* Calls are handled and answers delivered, in any order, and the interval
\* fires again and again.
FairSpec ==
    /\ Spec
    /\ \A s \in Slots : WF_vars(Handle(s)) /\ WF_vars(Deliver(s))
    /\ WF_vars(Tick)

-----------------------------------------------------------------------------
(* Properties. *)

\* A token that expires or whose account is deactivated does not leave a visible
\* tab signed in: a poll finds out, whatever the user does.
DeadSessionEnds ==
    \A t \in Tokens :
        Mounted /\ stored = t /\ t \in refused ~> ~Mounted \/ stored # t \/ ~visible

=============================================================================
