------------------------------ MODULE MCRecoco ------------------------------
(***************************************************************************)
(* Three populations.  One is a consumer and a caller that a task and      *)
(* other threads give work to: the constants of Recoco itself.  Another is *)
(* two tasks that select, sleep and block, the third a task whose          *)
(* scheduler may quit.                                                     *)
(***************************************************************************)
EXTENDS Recoco

CONSTANTS t1, t2

VARIABLE population

Two == INSTANCE Recoco WITH
    Consumers <- {}, Callers <- {}, Others <- {t1, t2},
    MayQuit <- FALSE, MaxWork <- 0, MaxThreads <- 1

Quitting == INSTANCE Recoco WITH
    Consumers <- {}, Callers <- {}, Others <- {t1},
    MayQuit <- TRUE, MaxWork <- 0, MaxThreads <- 2

InWork == population = "work"
InTwo  == population = "two"
InQuit == population = "quit"

AnyInit == (InWork /\ Init) \/ (InTwo /\ Two!Init) \/ (InQuit /\ Quitting!Init)

AnyNext ==
    /\ (InWork /\ Next) \/ (InTwo /\ Two!Next) \/ (InQuit /\ Quitting!Next)
    /\ UNCHANGED population

\* Recoco's fairness, for the two tasks.
TwoFair ==
    /\ WF_vars(InTwo /\ Two!Scheduler)
    /\ WF_vars(InTwo /\ Two!Hub)
    /\ WF_vars(InTwo /\ Two!ThreadSets)
    /\ \A t \in {t1, t2} : /\ WF_vars(InTwo /\ Two!ThreadReturns(t))
                           /\ WF_vars(InTwo /\ Two!TimePasses(t))

AnySpec == AnyInit /\ [][AnyNext]_<<vars, population>> /\ TwoFair

-----------------------------------------------------------------------------
(* Recoco's properties, each where it is promised. *)

\* No task is lost or in two places, and no assert ends the hub's thread.
EachInOnePlace ==
    IF InWork THEN OnePlace ELSE IF InTwo THEN Two!OnePlace ELSE Quitting!OnePlace

\* Nobody waits for a signal that has come, or for work that is there.
NobodyOverslept ==
    IF InWork THEN NoLostWakeup ELSE IF InTwo THEN Two!NoLostWakeup ELSE Quitting!NoLostWakeup

\* A task whose timeout is over or whose descriptor is readable runs again.
BothRunAgain == InTwo => Two!RunsAgain
=============================================================================
