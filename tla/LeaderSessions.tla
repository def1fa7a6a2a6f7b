--------------------------- MODULE LeaderSessions ---------------------------
(***************************************************************************)
(* What a lock implementation promises the program that runs under it,     *)
(* with nothing said of how the lock is obtained.  Leadership comes in     *)
(* sessions.  A session begins with a call of OnStartedLeading, which      *)
(* hands over a context, and ends when that context is cancelled; the      *)
(* sessions of one Run follow one another and never overlap, a session     *)
(* that ended stays ended, and once Run has been told to stop no context   *)
(* that it hands over is alive.                                            *)
(*                                                                         *)
(* raft/locker.go is shown to implement this specification (module         *)
(* RaftLoop, property ImplementsSessions).                                 *)
(***************************************************************************)
EXTENDS Naturals

VARIABLES
    begun,   \* the number of sessions begun so far
    alive,   \* the sessions, by number, whose context is not cancelled
    over     \* Run has been told to stop

sessionVars == <<begun, alive, over>>

SessionsInit ==
    /\ begun = 0
    /\ alive = {}
    /\ over = FALSE

\* OnStartedLeading with a live context: only when no session is alive.
Begin ==
    /\ ~over
    /\ alive = {}
    /\ begun' = begun + 1
    /\ alive' = {begun + 1}
    /\ UNCHANGED over

\* OnStartedLeading by a Run that is on its way out: the context is born cancelled.
BeginDead ==
    /\ over
    /\ begun' = begun + 1
    /\ UNCHANGED <<alive, over>>

\* The lock is lost.
End ==
    /\ alive' = {}
    /\ UNCHANGED <<begun, over>>

\* The context of Run is cancelled, or Run gives up.
Close ==
    /\ over' = TRUE
    /\ alive' = {}
    /\ UNCHANGED begun

SessionsNext == Begin \/ BeginDead \/ End \/ Close

SessionsSpec == SessionsInit /\ [][SessionsNext]_sessionVars

=============================================================================
