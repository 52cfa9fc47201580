--------------------------------- MODULE Boot ---------------------------------
(***************************************************************************)
(* POX boots: the main thread launches the components (pox/boot.py), which *)
(* register with core and wait for one another, and goes up; quit may come *)
(* at any time.  Core runs in the main thread until the events of goUp are *)
(* raised, Shutdown around it.                                             *)
(***************************************************************************)
EXTENDS Core

CONSTANTS Quitters, Interrupts  \* see Shutdown

VARIABLES running, startingUp, at, later, hasQuit, events

Going == INSTANCE Shutdown

goingVars == <<running, startingUp, at, later, hasQuit, events>>

\* The launch functions, and the handlers of GoingUpEvent and UpEvent.
Launches == at["main"] \in {"launch", "raiseUp"}

BootInit == Init /\ Going!Init

\* The main thread goes on when the calls it made have returned.
BootNext ==
    \/ Launches /\ Next /\ UNCHANGED goingVars
    \/ /\ Going!Next
       /\ at'["main"] # at["main"] => stack = <<>>
       /\ UNCHANGED vars

\* Calls return, launching ends, and every thread runs.
BootFair ==
    /\ WF_vars(Launches /\ Core)
    /\ WF_goingVars(stack = <<>> /\ Going!MainGoes)
    /\ WF_goingVars(Going!SchedulerQuits)
    /\ \A t \in Going!Threads : WF_goingVars(Going!Quitting(t))

BootSpec == BootInit /\ [][BootNext]_<<vars, goingVars>> /\ BootFair

\* A call of quit ends POX, also one that comes while components are still
\* being launched and wait for one another.
QuitEnds == Going!QuitEnds
===============================================================================
