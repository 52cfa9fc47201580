------------------------------- MODULE Revent -------------------------------
(***************************************************************************)
(* The event dispatcher everything in POX runs on: EventMixin of           *)
(* pox/lib/revent/revent.py, for one source and one type of event.         *)
(*                                                                         *)
(* The list of handlers is a Python list.  raiseEvent walks the list it    *)
(* found, by index; addListener changes that very list, removeListener     *)
(* puts a filtered copy in its place.  So a dispatch shares the list with  *)
(* the source until something is removed, and keeps the old one after.     *)
(* Handlers may add and remove listeners and raise the event again.        *)
(***************************************************************************)
EXTENDS Integers, Sequences, FiniteSets
LOCAL INSTANCE SequencesExt
LOCAL INSTANCE FiniteSetsExt

CONSTANTS
    LatePriorities,  \* priorities of the listeners that handlers add
    MaxListeners,    \* bound: listeners ever registered
    MaxDepth         \* bound: dispatches inside one another

\* A priority of None sorts below every number.
NoPriority == 0
Priorities == {NoPriority, 1, 2}

NoListener == 0

ASSUME ReventAssumption ==
    /\ LatePriorities \subseteq Priorities
    /\ MaxListeners \in Nat /\ MaxDepth \in Nat

VARIABLES
    handlers,  \* the source's list of handlers
    dispatch,  \* the dispatches under way, the innermost last
    lastID,    \* _nextEventID
    returned   \* the listeners whose handler returned (history)

vars == <<handlers, dispatch, lastID, returned>>

Listeners == 1..MaxListeners
Entries   == [eid: Listeners, priority: Priorities, once: BOOLEAN]

\* A dispatch: the list it walks once that is no longer the source's, how many
\* entries it has passed, the listener that runs and whether it is one-shot,
\* whether raiseEventNoErrors began it, the listeners it has called and
\* those it owes a call (history).
Dispatches ==
    [shared: BOOLEAN, list: Seq(Entries), passed: Nat,
     running: {NoListener} \cup Listeners, once: BOOLEAN, catches: BOOLEAN,
     called: Seq(Listeners), owed: SUBSET Listeners]

TypeOK ==
    /\ handlers \in Seq(Entries)
    /\ dispatch \in Seq(Dispatches)
    /\ lastID \in 0..MaxListeners
    /\ returned \subseteq Listeners

Init ==
    /\ handlers = <<>>
    /\ dispatch = <<>>
    /\ lastID = 0
    /\ returned = {}

-----------------------------------------------------------------------------
Inner   == Last(dispatch)
Idle    == dispatch = <<>>
Calling == ~ Idle /\ Inner.running # NoListener
Between == ~ Idle /\ Inner.running = NoListener

Walked(d)     == IF d.shared THEN handlers ELSE d.list
EidsOf(list)  == { list[i].eid : i \in DOMAIN list }

\* The entries of a list that are in some set, in their order.
Selected(list, some) ==
    LET upTo[n \in 0..Len(list)] ==
          IF n = 0 THEN <<>>
          ELSE IF list[n] \in some THEN Append(upTo[n - 1], list[n]) ELSE upTo[n - 1]
    IN  upTo[Len(list)]

Without(gone) == Selected(handlers, { e \in Entries : e.eid \notin gone })

\* Slip: what has no priority is not put behind what has.
InsertAtEnd(list, entry) == Append(list, entry)

\* handlers.append and, when there is a priority, the stable sort.
Insert(list, entry) ==
    LET ahead == { e \in Entries : e.priority >= entry.priority }
    IN  Selected(list, ahead) \o <<entry>> \o Selected(list, Entries \ ahead)

GenerateEventID == lastID + 1

\* addListener, called by a handler or between dispatches.
AddListener(priority, once) ==
    /\ Idle \/ (Calling /\ priority \in LatePriorities)
    /\ lastID < MaxListeners
    /\ lastID' = lastID + 1
    /\ handlers' = Insert(handlers, [eid |-> GenerateEventID, priority |-> priority, once |-> once])
    /\ UNCHANGED <<dispatch, returned>>

\* Slip: the entries are deleted from the very list that is being walked.
DetachInPlace(d, gone) == [d EXCEPT !.owed = @ \ gone]

\* A dispatch when listeners are removed: the source gets a new list.
Detach(d, gone) ==
    [d EXCEPT !.list = Walked(d), !.shared = FALSE, !.owed = @ \ gone]

Detached(gone) == [i \in DOMAIN dispatch |-> Detach(dispatch[i], gone)]

\* removeListener and removeListeners, called by a handler or between
\* dispatches; clearHandlers when all of them go.
RemoveListeners(gone) ==
    /\ Idle \/ Calling
    /\ handlers' = Without(gone)
    /\ dispatch' = Detached(gone)
    /\ UNCHANGED <<lastID, returned>>

\* A new dispatch of the source's list.
Begun(catches) ==
    [shared |-> TRUE, list |-> <<>>, passed |-> 0, running |-> NoListener,
     once |-> FALSE, catches |-> catches, called |-> <<>>, owed |-> EidsOf(handlers)]

\* raiseEvent and raiseEventNoErrors: nothing happens without listeners.
RaiseEvent(catches) ==
    /\ Idle \/ Calling
    /\ Len(dispatch) < MaxDepth
    /\ dispatch' = IF handlers = <<>> THEN dispatch
                   ELSE Append(dispatch, Begun(catches))
    /\ UNCHANGED <<handlers, lastID, returned>>

\* A dispatch when it calls the handler of an entry.
Calls(d, entry) ==
    [d EXCEPT !.passed = @ + 1, !.running = entry.eid, !.once = entry.once,
              !.called = Append(@, entry.eid)]

\* The next handler of the list is called.
Invoke ==
    /\ Between
    /\ Inner.passed < Len(Walked(Inner))
    /\ dispatch' = [dispatch EXCEPT ![Len(dispatch)] =
                      Calls(Inner, Walked(Inner)[Inner.passed + 1])]
    /\ UNCHANGED <<handlers, lastID, returned>>

\* The end of the list.
EndOfList ==
    /\ Between
    /\ Inner.passed >= Len(Walked(Inner))
    /\ dispatch' = Front(dispatch)
    /\ UNCHANGED <<handlers, lastID, returned>>

\* The listener that goes when its handler returns, if any.
RemovedOnReturn(remove) ==
    IF Inner.once \/ remove THEN {Inner.running} ELSE {}

\* The handler returns: nothing, False, True, or a pair (halt, remove).
Return(halt, remove) ==
    /\ Calling
    /\ LET gone == RemovedOnReturn(remove)
           kept == IF gone = {} THEN dispatch ELSE Detached(gone)
       IN  /\ handlers' = Without(gone)
           /\ dispatch' = IF halt THEN Front(kept)
                          ELSE [kept EXCEPT ![Len(kept)].running = NoListener]
    /\ returned' = returned \cup {Inner.running}
    /\ UNCHANGED lastID

\* The handler raises: its dispatch is abandoned, and the handlers around it
\* with theirs, up to the first raiseEventNoErrors.
Fail ==
    /\ Calling
    /\ LET catching == { i \in DOMAIN dispatch : dispatch[i].catches }
           outer    == { i \in 0..Len(dispatch) - 1 : i + 1 \in catching \cup {1} }
       IN  dispatch' = SubSeq(dispatch, 1, Max(outer))
    /\ UNCHANGED <<handlers, lastID, returned>>

Next ==
    \/ \E p \in Priorities, once \in BOOLEAN : AddListener(p, once)
    \/ \E gone \in SUBSET EidsOf(handlers) \ {{}} : RemoveListeners(gone)
    \/ \E catches \in BOOLEAN : RaiseEvent(catches)
    \/ Invoke \/ EndOfList
    \/ \E halt, remove \in BOOLEAN : Return(halt, remove)
    \/ Fail

Spec == Init /\ [][Next]_vars

-----------------------------------------------------------------------------
\* Listeners are called by falling priority, and in the order in which they
\* registered among equals, whatever was added and removed when.
InOrder ==
    \A i, j \in DOMAIN handlers : i < j =>
      \/ handlers[i].priority > handlers[j].priority
      \/ /\ handlers[i].priority = handlers[j].priority
         /\ handlers[i].eid < handlers[j].eid

\* A dispatch calls each listener once at most ("Create a copy so that it can
\* be modified freely during event processing"), and when it reaches the end
\* of its list it has called every one that was registered when it began and
\* was not removed meanwhile, although listeners come and go under it.
CalledOnceEach ==
    \A k \in DOMAIN dispatch :
      LET d == dispatch[k]
      IN  /\ \A i, j \in DOMAIN d.called : i # j => d.called[i] # d.called[j]
          /\ d.passed >= Len(Walked(d)) => d.owed \subseteq ToSet(d.called)
=============================================================================
