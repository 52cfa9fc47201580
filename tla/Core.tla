--------------------------------- MODULE Core ---------------------------------
(***************************************************************************)
(* The rendezvous of components on core (pox/core.py): register and        *)
(* call_when_ready, on which listen_to_dependencies rests.                 *)
(*                                                                         *)
(* All of it runs in one thread, but re-entrantly: the callback of a       *)
(* waiter and the handlers of ComponentRegistered may register components  *)
(* and wait for others themselves.  The calls under way form a stack.      *)
(***************************************************************************)
EXTENDS Integers, Sequences

CONSTANTS
    Components,   \* names of components
    Waiters,      \* entries for call_when_ready
    Needs,        \* the components each waits for
    MaxRegisters  \* bound: times each component is registered

ASSUME CoreAssumption ==
    /\ Needs \in [Waiters -> SUBSET Components]
    /\ MaxRegisters \in [Components -> Nat]

VARIABLES
    components,  \* POXCore.components
    waiters,     \* POXCore._waiters
    stack,       \* calls under way, the innermost first
    registers,   \* times a component was registered (bound)
    asked,       \* entries handed to call_when_ready (bound)
    calls        \* callbacks called (history)

vars == <<components, waiters, stack, registers, asked, calls>>

\* A callback or the handlers of an event, or a round of _try_waiters.
Callback(w)    == [at |-> "callback", of |-> w, todo |-> <<>>, changed |-> FALSE]
Handlers       == [at |-> "handlers", of |-> "none", todo |-> <<>>, changed |-> FALSE]
Trying(ws, ch) == [at |-> "trying", of |-> "none", todo |-> ws, changed |-> ch]

TypeOK ==
    /\ components \subseteq Components
    /\ waiters \in Seq(Waiters)
    /\ stack \in Seq([at: {"callback", "handlers", "trying"}, of: Waiters \cup {"none"},
                      todo: Seq(Waiters), changed: BOOLEAN])
    /\ \A c \in Components : registers[c] \in 0..MaxRegisters[c]
    /\ asked \subseteq Waiters
    /\ calls \in Seq(Waiters)

Init ==
    /\ components = {}
    /\ waiters = <<>>
    /\ stack = <<>>
    /\ registers = [c \in Components |-> 0]
    /\ asked = {}
    /\ calls = <<>>

-----------------------------------------------------------------------------
\* Code outside core runs: launch functions, callbacks, handlers.
OutsideCore == stack # <<>> => Head(stack).at \in {"callback", "handlers"}

Ready(w)  == Needs[w] \subseteq components
Listed(w) == \E i \in DOMAIN waiters : waiters[i] = w

\* Slip: the entry stays in the list while its callback runs.
StillListed(w) == waiters

Removed(w) ==
    LET i == CHOOSE j \in DOMAIN waiters : waiters[j] = w
    IN  SubSeq(waiters, 1, i - 1) \o SubSeq(waiters, i + 1, Len(waiters))

Calls(w, under) ==
    /\ calls' = Append(calls, w)
    /\ stack' = <<Callback(w)>> \o under

\* register: the component is there for the handlers of ComponentRegistered.
Register(c) ==
    /\ OutsideCore
    /\ registers[c] < MaxRegisters[c]
    /\ registers' = [registers EXCEPT ![c] = @ + 1]
    /\ components' = components \cup {c}
    /\ stack' = <<Handlers>> \o stack
    /\ UNCHANGED <<waiters, asked, calls>>

\* The handlers return: _try_waiters, over a copy of the list.
HandlersReturn ==
    /\ stack # <<>> /\ Head(stack).at = "handlers"
    /\ stack' = <<Trying(waiters, FALSE)>> \o Tail(stack)
    /\ UNCHANGED <<components, waiters, registers, asked, calls>>

\* Slip: a new entry waits for the next registration.
WaitsForNext(w) ==
    /\ OutsideCore
    /\ w \notin asked
    /\ asked' = asked \cup {w}
    /\ waiters' = Append(waiters, w)
    /\ UNCHANGED <<components, registers, stack, calls>>

\* call_when_ready: the entry is listed and tried at once.
CallWhenReady(w) ==
    /\ OutsideCore
    /\ w \notin asked
    /\ asked' = asked \cup {w}
    /\ IF Ready(w)
       THEN Calls(w, stack) /\ UNCHANGED waiters
       ELSE waiters' = Append(waiters, w) /\ UNCHANGED <<stack, calls>>
    /\ UNCHANGED <<components, registers>>

\* The callback returns or raises, which is caught.
CallbackReturns ==
    /\ stack # <<>> /\ Head(stack).at = "callback"
    /\ stack' = Tail(stack)
    /\ UNCHANGED <<components, waiters, registers, asked, calls>>

\* _try_waiter for the next entry of the copy, which may be handled already.
TryWaiter ==
    LET top == Head(stack)
        w   == Head(top.todo)
    IN  /\ stack # <<>> /\ top.at = "trying" /\ top.todo # <<>>
        /\ IF Listed(w) /\ Ready(w)
           THEN /\ waiters' = Removed(w)
                /\ Calls(w, <<Trying(Tail(top.todo), TRUE)>> \o Tail(stack))
           ELSE /\ stack' = <<Trying(Tail(top.todo), top.changed)>> \o Tail(stack)
                /\ UNCHANGED <<waiters, calls>>
        /\ UNCHANGED <<components, registers, asked>>

\* The round ends; another follows when a callback was called.
RoundEnds ==
    /\ stack # <<>> /\ Head(stack).at = "trying" /\ Head(stack).todo = <<>>
    /\ stack' = IF Head(stack).changed THEN <<Trying(waiters, FALSE)>> \o Tail(stack)
                ELSE Tail(stack)
    /\ UNCHANGED <<components, waiters, registers, asked, calls>>

Core == CallbackReturns \/ HandlersReturn \/ TryWaiter \/ RoundEnds

Next ==
    \/ Core
    \/ \E c \in Components : Register(c)
    \/ \E w \in Waiters : CallWhenReady(w)

Spec == Init /\ [][Next]_vars

\* Calls return.
FairSpec == Spec /\ WF_vars(Core)

-----------------------------------------------------------------------------
\* However registrations and callbacks nest, a callback is called once at
\* most, and never before all its components are there.
CalledOnceReady ==
    /\ \A i, j \in DOMAIN calls : calls[i] = calls[j] => i = j
    /\ \A i \in DOMAIN calls : Needs[calls[i]] \subseteq components

\* When the outermost call has returned, nobody waits whose components are
\* all registered: no order of registering and waiting loses a callback.
NobodyForgotten ==
    stack = <<>> => \A i \in DOMAIN waiters : ~ (Needs[waiters[i]] \subseteq components)
=============================================================================
