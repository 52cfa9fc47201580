---------------------------- MODULE MCSyncTable ----------------------------
(***************************************************************************)
(* Entries for two destinations, one of them with another version that     *)
(* replaces it, and a pattern for both.  How the table is used is chosen   *)
(* at the start, because it decides what the table keeps to:               *)
(*   "plain"   strict calls over one connection that lasts;                *)
(*   "again"   installations, with reconnections and slow answers;         *)
(*   "strays"  everything that may happen.                                 *)
(***************************************************************************)
EXTENDS SyncTable

VARIABLE use

To(d) == [in_port |-> Wild, dl_src |-> Wild, dl_dst |-> d]

Flow(d, port, hard) ==
    [match |-> To(d), priority |-> 1, actions |-> <<[type |-> "output", port |-> port]>>,
     flags |-> {}, idle |-> FALSE, hard |-> hard]

Three == { Flow("a", 1, FALSE), Flow("b", 1, FALSE), Flow("a", 2, FALSE) }

Versions == { Flow("a", 1, TRUE), [Flow("a", 1, FALSE) EXCEPT !.priority = 2] }

Everything == { [Flow(Wild, 1, FALSE) EXCEPT !.actions = <<>>] }

\* The constants of the configuration are those of "strays".
Plain == INSTANCE SyncTable WITH
    Flows <- Three, Patterns <- {}, MayReconnect <- 0, MayOverlap <- FALSE, MaySlow <- FALSE,
    MayExpire <- FALSE, MayWait <- FALSE, MayReuse <- FALSE, MayInstall <- 3, MayRemove <- 2

Again == INSTANCE SyncTable WITH
    Flows <- Three, Patterns <- {}, MayReconnect <- 1, MayOverlap <- FALSE, MaySlow <- TRUE,
    MayExpire <- FALSE, MayWait <- TRUE, MayReuse <- FALSE, MayInstall <- 2, MayRemove <- 0

InitAny ==
    \/ use = "plain"  /\ Plain!Init
    \/ use = "again"  /\ Again!Init
    \/ use = "strays" /\ Init

NextAny ==
    /\ \/ use = "plain"  /\ Plain!Next
       \/ use = "again"  /\ Again!Next
       \/ use = "strays" /\ Next
    /\ UNCHANGED use

\* "again" has the fairness of SyncTable; the others are only about safety.
SpecAny ==
    /\ InitAny /\ [][NextAny]_<<vars, use>>
    /\ WF_vars(use = "again" /\ ControllerReceives) /\ WF_vars(use = "again" /\ SwitchReceives)
    /\ WF_vars(use = "again" /\ Again!ConnectionUp /\ connection = "down")

-----------------------------------------------------------------------------
(* Properties of SyncTable, each where the code keeps to it. *)

\* Without removals both tables agree in the end, whatever is lost, repeated
\* or slow; with strict removals they do as long as the connection lasts, and
\* then the switch has what was asked for.
TablesAgree == /\ use \in {"plain", "again"} => InSync
               /\ use = "plain" => AsAsked

\* Installations are confirmed in the end across reconnections.
AllConfirmedAgain == []<>(use = "again" => pending = <<>>)
=============================================================================
