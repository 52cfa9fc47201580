------------------------------- MODULE Shutdown -------------------------------
(***************************************************************************)
(* POX goes up and down: goUp and quit (pox/core.py), the main thread of   *)
(* pox/boot.py, and the threads in which _quit runs.                       *)
(*                                                                         *)
(* quit is called by components that are being launched, by handlers in    *)
(* the scheduler's thread, or by any other thread; _quit then runs in a    *)
(* daemon thread, without a lock, and daemon threads end with the main one.*)
(***************************************************************************)
EXTENDS Sequences

CONSTANTS
    Quitters,   \* daemon threads that run _quit
    Interrupts  \* whether the user may interrupt the main thread

Main    == "main"
Threads == Quitters \cup {Main}

VARIABLES
    running,     \* POXCore.running
    startingUp,  \* POXCore.starting_up
    at,          \* what each thread is doing: launch, raiseUp, wait, exited;
                 \* begin, set, goingDown, later, poll, down (in _quit); none
    later,       \* scheduler.quit has been handed to callLater
    hasQuit,     \* Scheduler._hasQuit
    events       \* events raised by core, in order (history)

vars == <<running, startingUp, at, later, hasQuit, events>>

Init ==
    /\ running = TRUE
    /\ startingUp = TRUE
    /\ at = [t \in Threads |-> IF t = Main THEN "launch" ELSE "none"]
    /\ later = FALSE
    /\ hasQuit = FALSE
    /\ events = <<>>

Alive     == at[Main] # "exited"
Goes(t, to) == at' = [at EXCEPT ![t] = to]

-----------------------------------------------------------------------------
(* The main thread: boot and goUp. *)

\* The components are launched: starting_up ends, GoingUpEvent.
GoUp ==
    /\ at[Main] = "launch"
    /\ startingUp' = FALSE
    /\ events' = Append(events, "GoingUp")
    /\ Goes(Main, "raiseUp")
    /\ UNCHANGED <<running, later, hasQuit>>

RaiseUp ==
    /\ at[Main] = "raiseUp"
    /\ events' = Append(events, "Up")
    /\ Goes(Main, "wait")
    /\ UNCHANGED <<running, startingUp, later, hasQuit>>

\* The wait on quit_condition is over, notified or after 10 seconds, and POX
\* is not running any more; or it is interrupted.  The main thread quits.
MainLeaves ==
    /\ at[Main] = "wait"
    /\ ~ running \/ Interrupts
    /\ Goes(Main, "begin")
    /\ UNCHANGED <<running, startingUp, later, hasQuit, events>>

-----------------------------------------------------------------------------
(* quit and _quit. *)

\* quit is called: a thread for _quit.
QuitCalled(t) ==
    /\ Alive
    /\ at[t] = "none"
    /\ Goes(t, "begin")
    /\ UNCHANGED <<running, startingUp, later, hasQuit, events>>

Ended(t) == IF t = Main THEN "exited" ELSE "none"

\* Slip: during start-up the request is dropped.
DropsRequest(t) == IF ~ running \/ startingUp THEN Ended(t) ELSE "set"

\* _quit returns when POX is going down already; during start-up it is tried
\* again, in a new thread that takes the place of this one.
AfterTests(t) == IF ~ running THEN Ended(t) ELSE IF startingUp THEN "begin" ELSE "set"

Tests(t) ==
    /\ Alive
    /\ at[t] = "begin"
    /\ Goes(t, AfterTests(t))
    /\ UNCHANGED <<running, startingUp, later, hasQuit, events>>

\* running is cleared, a step after it was tested.
StopsRunning(t) ==
    /\ Alive
    /\ at[t] = "set"
    /\ running' = FALSE
    /\ Goes(t, "goingDown")
    /\ UNCHANGED <<startingUp, later, hasQuit, events>>

RaisesGoingDown(t) ==
    /\ Alive
    /\ at[t] = "goingDown"
    /\ events' = Append(events, "GoingDown")
    /\ Goes(t, "later")
    /\ UNCHANGED <<running, startingUp, later, hasQuit>>

CallsLater(t) ==
    /\ Alive
    /\ at[t] = "later"
    /\ later' = TRUE
    /\ Goes(t, "poll")
    /\ UNCHANGED <<running, startingUp, hasQuit, events>>

\* The scheduler's thread calls what was handed in.
SchedulerQuits ==
    /\ Alive
    /\ later
    /\ hasQuit' = TRUE
    /\ later' = FALSE
    /\ UNCHANGED <<running, startingUp, at, events>>

\* The scheduler has quit, or 50 rounds of 0.1 seconds are over.
Polls(t) ==
    /\ Alive
    /\ at[t] = "poll"
    /\ Goes(t, "down")
    /\ UNCHANGED <<running, startingUp, later, hasQuit, events>>

RaisesDown(t) ==
    /\ Alive
    /\ at[t] = "down"
    /\ events' = Append(events, "Down")
    /\ Goes(t, Ended(t))
    /\ UNCHANGED <<running, startingUp, later, hasQuit>>

-----------------------------------------------------------------------------
MainGoes == GoUp \/ RaiseUp \/ (MainLeaves /\ ~ running)

Quitting(t) ==
    Tests(t) \/ StopsRunning(t) \/ RaisesGoingDown(t) \/ CallsLater(t) \/ Polls(t) \/ RaisesDown(t)

Next ==
    \/ GoUp \/ RaiseUp \/ MainLeaves \/ SchedulerQuits
    \/ \E t \in Quitters : QuitCalled(t)
    \/ \E t \in Threads : Quitting(t)

Spec == Init /\ [][Next]_vars

\* Every thread runs.
FairSpec ==
    /\ Spec
    /\ WF_vars(MainGoes) /\ WF_vars(SchedulerQuits)
    /\ \A t \in Threads : WF_vars(Quitting(t))

-----------------------------------------------------------------------------
\* A call of quit ends POX, also one that comes while components are still
\* being launched.
QuitEnds == (\E t \in Quitters : at[t] = "begin") ~> at[Main] = "exited"
===============================================================================
