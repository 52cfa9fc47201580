-------------------------------- MODULE Recoco --------------------------------
(***************************************************************************)
(* The cooperative scheduler (pox/lib/recoco/recoco.py): one thread runs   *)
(* tasks to their next yield, a second one (the SelectHub) waits for file  *)
(* descriptors and for timeouts, and any other thread may hand in work.    *)
(*                                                                         *)
(* No lock guards what they share: a deque of ready tasks with an Event, a *)
(* Queue of registrations with a pinger.  Each is filled first and         *)
(* signalled afterwards, in two steps here.                                *)
(***************************************************************************)
EXTENDS Integers, Sequences, FiniteSets
LOCAL INSTANCE SequencesExt
LOCAL INSTANCE FiniteSetsExt

CONSTANTS
    Consumers,  \* tasks that sleep until work is added (recoco/consumer.py)
    Callers,    \* CallLaterTasks, which select on a pinger of their own
    Others,     \* tasks that select, sleep and call blocking functions
    MayQuit,    \* whether the scheduler may be told to quit
    MaxWork,    \* bound: work items handed to a consumer or a caller
    MaxThreads  \* bound: other threads between their append and event.set

Tasks == Consumers \cup Callers \cup Others

NoTask  == "none"
Wake(t) == <<t, "wake">>   \* the ScheduleTask for t

ASSUME RecocoAssumption ==
    /\ IsFiniteSet(Tasks)
    /\ NoTask \notin Tasks /\ \A c \in Consumers : Wake(c) \notin Tasks
    /\ MaxWork \in Nat /\ MaxThreads \in Nat /\ MayQuit \in BOOLEAN
    /\ Consumers \cap Callers = {} /\ Others \cap (Consumers \cup Callers) = {}

VARIABLES
    ready,       \* Scheduler._ready: tasks, and ScheduleTasks for consumers
    event,       \* Scheduler._event is set
    hasQuit,     \* Scheduler._hasQuit
    sched,       \* what the scheduler's thread is doing, with which task
    setting,     \* other threads between their append to ready and event.set
    incoming,    \* SelectHub._incoming
    pinged,      \* the hub's pinger holds bytes
    hub,         \* what the hub's thread is doing
    registered,  \* the keys of tasks, the hub's dictionary
    timeout,     \* the timeout a task registered with, if any
    readable,    \* tasks whose file descriptor is readable
    idle,        \* tasks that sleep, block or have ended: no thread holds them
    work,        \* items waiting in a consumer's queue or a caller's _calls
    handing,     \* threads that have added an item and not yet woken the task
    handed       \* items handed in so far (history)

vars == <<ready, event, hasQuit, sched, setting, incoming, pinged, hub, registered,
          timeout, readable, idle, work, handing, handed>>
hubVars  == <<incoming, pinged, hub, registered>>
taskVars == <<timeout, readable, idle>>
workVars == <<work, handing, handed>>

TypeOK ==
    /\ ready \in Seq(Tasks \cup { Wake(t) : t \in Consumers })
    /\ event \in BOOLEAN /\ hasQuit \in BOOLEAN
    /\ sched \in [at: {"top", "wait", "clear", "cycle", "run", "serve", "again",
                       "sleep", "ping", "last", "done"},
                  task: Tasks \cup {NoTask}]
    /\ setting \in 0..MaxThreads
    /\ incoming \in Seq(Tasks)
    /\ pinged \in BOOLEAN
    /\ hub \in [at: {"top", "select", "drain", "return", "set", "dead", "done"},
                watched: SUBSET Tasks, back: SUBSET Tasks, next: {"top", "select"}]
    /\ registered \subseteq Tasks
    /\ timeout \in [Tasks -> {"none", "pending", "passed"}]
    /\ readable \subseteq Tasks
    /\ idle \in [Tasks -> {"no", "asleep", "blocking", "ended"}]
    /\ work \in [Tasks -> 0..MaxWork]
    /\ handing \in [Tasks -> 0..MaxWork]
    /\ handed \in [Tasks -> 0..MaxWork]

HubAt(what)   == [at |-> what, watched |-> {}, back |-> {}, next |-> "top"]
SchedAt(what) == [at |-> what, task |-> NoTask]

\* Tasks are ready for their first slice; a caller has registered its pinger.
Init ==
    /\ ready \in SetToSeqs(Consumers \cup Others)
    /\ event = TRUE
    /\ hasQuit = FALSE
    /\ sched = SchedAt("top")
    /\ setting = 0
    /\ incoming \in SetToSeqs(Callers)
    /\ pinged = (Callers # {})
    /\ hub = HubAt("top")
    /\ registered = {}
    /\ timeout = [t \in Tasks |-> "none"]
    /\ readable = {}
    /\ idle = [t \in Tasks |-> "no"]
    /\ work = [t \in Tasks |-> 0]
    /\ handing = [t \in Tasks |-> 0]
    /\ handed = [t \in Tasks |-> 0]

InReady(x) == x \in ToSet(ready)

-----------------------------------------------------------------------------
(* The scheduler's thread: run and cycle. *)

SchedulerTests ==
    /\ sched.at = "top"
    /\ sched' = SchedAt(IF hasQuit THEN "last" ELSE IF ready = <<>> THEN "wait" ELSE "cycle")
    /\ UNCHANGED <<ready, event, hasQuit, setting, hubVars, taskVars, workVars>>

\* event.wait returns: the event is set, or CYCLE_MAXIMUM seconds are over.
SchedulerWakes ==
    /\ sched.at = "wait"
    /\ sched' = SchedAt("clear")
    /\ UNCHANGED <<ready, event, hasQuit, setting, hubVars, taskVars, workVars>>

SchedulerClears ==
    /\ sched.at = "clear"
    /\ event' = FALSE
    /\ sched' = SchedAt(IF hasQuit THEN "last" ELSE "cycle")
    /\ UNCHANGED <<ready, hasQuit, setting, hubVars, taskVars, workVars>>

\* The first ready task runs; after a wait there may be none.
CyclePops ==
    /\ sched.at = "cycle"
    /\ IF ready = <<>>
       THEN sched' = SchedAt("top") /\ UNCHANGED ready
       ELSE /\ Head(ready) \in Tasks
            /\ ready' = Tail(ready)
            /\ sched' = [at |-> "run", task |-> Head(ready)]
    /\ UNCHANGED <<event, hasQuit, setting, hubVars, taskVars, workVars>>

\* A ScheduleTask runs: its task becomes the next, unless it is ready.
CycleWakes ==
    /\ sched.at = "cycle"
    /\ \E t \in Consumers :
         /\ ready # <<>> /\ Head(ready) = Wake(t)
         /\ IF InReady(t)
            THEN ready' = Tail(ready) /\ UNCHANGED <<event, idle>>
            ELSE /\ ready' = <<t>> \o Tail(ready)
                 /\ event' = TRUE
                 /\ idle' = [idle EXCEPT ![t] = "no"]
    /\ sched' = SchedAt("top")
    /\ UNCHANGED <<hasQuit, setting, hubVars, timeout, readable, workVars>>

\* finally: the hub is told to look at hasQuit.
SchedulerEnds ==
    /\ sched.at = "last"
    /\ pinged' = TRUE
    /\ sched' = SchedAt("done")
    /\ UNCHANGED <<ready, event, hasQuit, setting, incoming, hub, registered, taskVars, workVars>>

-----------------------------------------------------------------------------
(* A slice of a task, and what cycle does with what it yields. *)

Runs(t) == sched = [at |-> "run", task |-> t]

\* Select or Sleep: registerSelect, first the queue ...
Registers(t, limit) ==
    /\ incoming' = Append(incoming, t)
    /\ timeout' = [timeout EXCEPT ![t] = limit]
    /\ sched' = [at |-> "ping", task |-> NoTask]

\* ... then the pinger.
SchedulerPings ==
    /\ sched.at = "ping"
    /\ pinged' = TRUE
    /\ sched' = SchedAt("top")
    /\ UNCHANGED <<ready, event, hasQuit, setting, incoming, hub, registered, taskVars, workVars>>

\* Select, with or without a timeout; Sleep, which waits for no descriptor,
\* is a Select whose descriptor stays silent.
TaskSelects(t) ==
    /\ Runs(t)
    /\ \E limit \in {"none", "pending"} : Registers(t, limit)
    /\ readable' = readable \ {t}
    /\ UNCHANGED <<ready, event, hasQuit, setting, pinged, hub, registered, idle, workVars>>

\* yield 0: the task joins the ready ones, at their end.
TaskYields(t) ==
    /\ Runs(t)
    /\ ready' = Append(ready, t)
    /\ sched' = SchedAt("top")
    /\ UNCHANGED <<event, hasQuit, setting, hubVars, taskVars, workVars>>

\* CallBlocking starts a thread; or the task returns, or raises.
TaskLeaves(t) ==
    /\ Runs(t)
    /\ \E how \in {"blocking", "ended"} : idle' = [idle EXCEPT ![t] = how]
    /\ sched' = SchedAt("top")
    /\ UNCHANGED <<ready, event, hasQuit, setting, hubVars, timeout, readable, workVars>>

\* The task adds work to a consumer: schedule, in the scheduler's thread.
TaskAddsWork(t, c) ==
    /\ Runs(t)
    /\ handed[c] < MaxWork
    /\ handed' = [handed EXCEPT ![c] = @ + 1]
    /\ work' = [work EXCEPT ![c] = @ + 1]
    /\ IF InReady(c)
       THEN UNCHANGED <<ready, event, idle>>
       ELSE /\ ready' = Append(ready, c)
            /\ event' = TRUE
            /\ idle' = [idle EXCEPT ![c] = "no"]
    /\ UNCHANGED <<hasQuit, sched, setting, hubVars, timeout, readable, handing>>

\* A batch of min(batch_size, len(queue)) items, for a batch size of one.
Taken(c) == IF work[c] = 0 THEN 0 ELSE work[c] - 1

\* A consumer does a batch.
ConsumerWorks(c) ==
    /\ Runs(c)
    /\ work' = [work EXCEPT ![c] = Taken(c)]
    /\ sched' = [sched EXCEPT !.at = "serve"]
    /\ UNCHANGED <<ready, event, hasQuit, setting, hubVars, taskVars, handing, handed>>

\* It looks at its queue and yields False or 0 ...
ConsumerTests(c) ==
    /\ sched = [at |-> "serve", task |-> c]
    /\ sched' = [sched EXCEPT !.at = IF work[c] = 0 THEN "sleep" ELSE "again"]
    /\ UNCHANGED <<ready, event, hasQuit, setting, hubVars, taskVars, workVars>>

\* ... which cycle acts upon, whatever was added in between.
ConsumerYields(c) ==
    /\ sched.task = c
    /\ \/ sched.at = "sleep" /\ idle' = [idle EXCEPT ![c] = "asleep"] /\ UNCHANGED ready
       \/ sched.at = "again" /\ ready' = Append(ready, c) /\ UNCHANGED idle
    /\ sched' = SchedAt("top")
    /\ UNCHANGED <<event, hasQuit, setting, hubVars, timeout, readable, workVars>>

\* A CallLaterTask: pongAll, then the calls until there are none, then Select.
CallerPongs(t) ==
    /\ Runs(t)
    /\ readable' = readable \ {t}
    /\ sched' = [sched EXCEPT !.at = "serve"]
    /\ UNCHANGED <<ready, event, hasQuit, setting, hubVars, timeout, idle, workVars>>

CallerCalls(t) ==
    /\ sched = [at |-> "serve", task |-> t]
    /\ work[t] > 0
    /\ work' = [work EXCEPT ![t] = @ - 1]
    /\ UNCHANGED <<ready, event, hasQuit, sched, setting, hubVars, taskVars, handing, handed>>

CallerSelects(t) ==
    /\ sched = [at |-> "serve", task |-> t]
    /\ work[t] = 0
    /\ Registers(t, "none")
    /\ UNCHANGED <<ready, event, hasQuit, setting, pinged, hub, registered, readable, idle, workVars>>

-----------------------------------------------------------------------------
(* The SelectHub's thread. *)

LeftBy(back) == registered \ back

\* Slip: timeouts are left to an idle select.
NeverExpired == {}

Expired == { t \in registered : timeout[t] = "passed" }

\* The start of a round: expired timeouts are served before the select.
HubLooks ==
    /\ hub.at = "top"
    /\ IF hasQuit
       THEN hub' = HubAt("done") /\ UNCHANGED registered
       ELSE /\ registered' = LeftBy(Expired)
            /\ hub' = [at |-> IF Expired = {} THEN "select" ELSE "return",
                       watched |-> registered \ Expired, back |-> Expired, next |-> "select"]
    /\ UNCHANGED <<ready, event, hasQuit, sched, setting, incoming, pinged, taskVars, workVars>>

Found == hub.watched \cap readable

\* select reports descriptors and no ping: their tasks go back.
HubFinds ==
    /\ hub.at = "select"
    /\ ~ pinged /\ Found # {}
    /\ registered' = LeftBy(Found)
    /\ hub' = [hub EXCEPT !.at = "return", !.back = Found, !.next = "top"]
    /\ UNCHANGED <<ready, event, hasQuit, sched, setting, incoming, pinged, taskVars, workVars>>

\* select reports a ping: pongAll, before the queue is drained.
HubPongs ==
    /\ hub.at = "select"
    /\ pinged
    /\ pinged' = FALSE
    /\ hub' = [hub EXCEPT !.at = "drain", !.back = Found, !.next = "top"]
    /\ UNCHANGED <<ready, event, hasQuit, sched, setting, incoming, registered, taskVars, workVars>>

\* One registration is taken; "assert task not in tasks" ends the thread.
HubTakes ==
    /\ hub.at = "drain"
    /\ incoming # <<>>
    /\ incoming' = Tail(incoming)
    /\ IF Head(incoming) \in registered
       THEN hub' = HubAt("dead") /\ UNCHANGED registered
       ELSE registered' = registered \cup {Head(incoming)} /\ UNCHANGED hub
    /\ UNCHANGED <<ready, event, hasQuit, sched, setting, pinged, taskVars, workVars>>

HubDrained ==
    /\ hub.at = "drain"
    /\ incoming = <<>>
    /\ registered' = LeftBy(hub.back)
    /\ hub' = [hub EXCEPT !.at = IF hub.back = {} THEN "top" ELSE "return"]
    /\ UNCHANGED <<ready, event, hasQuit, sched, setting, incoming, pinged, taskVars, workVars>>

\* select times out: the task with the earliest timeout goes back; without
\* timeouts CYCLE_MAXIMUM seconds start another round.
HubTimesOut ==
    /\ hub.at = "select"
    /\ ~ pinged /\ Found = {}
    /\ \/ \E t \in hub.watched :
            /\ timeout[t] = "passed"
            /\ registered' = LeftBy({t})
            /\ hub' = [hub EXCEPT !.at = "return", !.back = {t}, !.next = "top"]
       \/ /\ \A t \in hub.watched : timeout[t] = "none"
          /\ hub' = HubAt("top")
          /\ UNCHANGED registered
    /\ UNCHANGED <<ready, event, hasQuit, sched, setting, incoming, pinged, taskVars, workVars>>

\* _return: fast_schedule asserts that the task is not ready, appends it ...
HubReturns ==
    /\ hub.at = "return"
    /\ \E t \in hub.back :
         IF InReady(t)
         THEN hub' = HubAt("dead") /\ UNCHANGED ready
         ELSE /\ hub' = [hub EXCEPT !.at = "set", !.back = @ \ {t}]
              /\ ready' = Append(ready, t)
    /\ UNCHANGED <<event, hasQuit, sched, setting, incoming, pinged, registered, taskVars, workVars>>

\* Slip: the event is left alone, as by cycle's own appends.
Unsignalled == event

Signalled == TRUE

\* ... and sets the event.
HubSets ==
    /\ hub.at = "set"
    /\ event' = Signalled
    /\ hub' = [hub EXCEPT !.at = IF hub.back = {} THEN hub.next ELSE "return"]
    /\ UNCHANGED <<ready, hasQuit, sched, setting, incoming, pinged, registered, taskVars, workVars>>

-----------------------------------------------------------------------------
(* Other threads, descriptors and time. *)

\* The thread of a CallBlocking has the result: fast_schedule.
ThreadReturns(t) ==
    /\ idle[t] = "blocking" /\ setting < MaxThreads
    /\ idle' = [idle EXCEPT ![t] = "no"]
    /\ ready' = Append(ready, t)
    /\ setting' = setting + 1
    /\ UNCHANGED <<event, hasQuit, sched, hubVars, timeout, readable, workVars>>

ThreadSets ==
    /\ setting > 0
    /\ setting' = setting - 1
    /\ event' = TRUE
    /\ UNCHANGED <<ready, hasQuit, sched, hubVars, taskVars, workVars>>

\* add_work or callLater in some thread: the item first ...
ThreadHandsIn(t) ==
    /\ handed[t] < MaxWork
    /\ handed' = [handed EXCEPT ![t] = @ + 1]
    /\ work' = [work EXCEPT ![t] = @ + 1]
    /\ handing' = [handing EXCEPT ![t] = @ + 1]
    /\ UNCHANGED <<ready, event, hasQuit, sched, setting, hubVars, taskVars>>

\* Slip: fast_schedule in another thread.
WokenAtOnce(c) == IF InReady(c) THEN ready ELSE Append(ready, c)

\* schedule in another thread: a ScheduleTask of its own.
Woken(c) == Append(ready, Wake(c))

\* ... then the ScheduleTask or the pinger.
ThreadWakes(t) ==
    /\ handing[t] > 0 /\ setting < MaxThreads
    /\ handing' = [handing EXCEPT ![t] = @ - 1]
    /\ IF t \in Consumers
       THEN ready' = Woken(t) /\ setting' = setting + 1 /\ UNCHANGED readable
       ELSE readable' = readable \cup {t} /\ UNCHANGED <<ready, setting>>
    /\ UNCHANGED <<event, hasQuit, sched, hubVars, timeout, idle, work, handed>>

\* Data arrives on the descriptor of a task.
DataArrives(t) ==
    /\ t \notin readable
    /\ readable' = readable \cup {t}
    /\ UNCHANGED <<ready, event, hasQuit, sched, setting, hubVars, timeout, idle, workVars>>

TimePasses(t) ==
    /\ timeout[t] = "pending"
    /\ timeout' = [timeout EXCEPT ![t] = "passed"]
    /\ UNCHANGED <<ready, event, hasQuit, sched, setting, hubVars, readable, idle, workVars>>

\* Exit, or core.quit.
Quits ==
    /\ MayQuit /\ ~ hasQuit
    /\ hasQuit' = TRUE
    /\ UNCHANGED <<ready, event, sched, setting, hubVars, taskVars, workVars>>

-----------------------------------------------------------------------------
Scheduler ==
    \/ SchedulerTests \/ SchedulerWakes \/ SchedulerClears
    \/ CyclePops \/ CycleWakes \/ SchedulerPings \/ SchedulerEnds
    \/ \E t \in Others : TaskSelects(t) \/ TaskYields(t) \/ TaskLeaves(t)
    \/ \E c \in Consumers : ConsumerWorks(c) \/ ConsumerTests(c) \/ ConsumerYields(c)
    \/ \E t \in Callers : CallerPongs(t) \/ CallerCalls(t) \/ CallerSelects(t)

Hub ==
    \/ HubLooks \/ HubFinds \/ HubPongs \/ HubTakes \/ HubDrained
    \/ HubTimesOut \/ HubReturns \/ HubSets

Threads ==
    \/ ThreadSets
    \/ \E t \in Others : ThreadReturns(t)
    \/ \E t \in Consumers \cup Callers : ThreadWakes(t)

Next ==
    \/ Scheduler \/ Hub \/ Threads \/ Quits
    \/ \E t \in Others, c \in Consumers : TaskAddsWork(t, c)
    \/ \E t \in Consumers \cup Callers : ThreadHandsIn(t)
    \/ \E t \in Others : DataArrives(t) \/ TimePasses(t)

Spec == Init /\ [][Next]_vars

\* Both threads run, a thread that has begun to hand something in finishes,
\* and time passes.
FairSpec ==
    /\ Spec
    /\ WF_vars(Scheduler) /\ WF_vars(Hub) /\ WF_vars(ThreadSets)
    /\ \A t \in Others : WF_vars(ThreadReturns(t)) /\ WF_vars(TimePasses(t))
    /\ \A t \in Consumers \cup Callers : WF_vars(ThreadWakes(t))

-----------------------------------------------------------------------------
Occurrences(s, x) == Quantify(DOMAIN s, LAMBDA i : s[i] = x)
Counts(b)         == IF b THEN 1 ELSE 0

\* Two threads pass the tasks back and forth without a lock: each task is
\* ready once, running, on its way to the hub, with the hub, or idle, and
\* never in two of these; so no assert ends the hub's thread, on which every
\* Select and Timer of the controller depends.
OnePlace ==
    /\ hub.at # "dead"
    /\ \A t \in Tasks :
         1 = Occurrences(ready, t) + Counts(sched.task = t) + Occurrences(incoming, t)
             + Counts(t \in registered \cup hub.back) + Counts(idle[t] # "no")

\* The scheduler does not wait with a task ready and nobody to wake it: the
\* clear after the wait takes no event away that is still needed.
SchedulerWoken ==
    sched.at = "wait" /\ ready # <<>> => event \/ setting > 0 \/ hub.at = "set"

\* The hub does not sit in select with a registration or the end of the
\* scheduler unseen: the pinger says so, or is about to.
HubWoken ==
    hub.at = "select" => /\ incoming # <<>> => pinged \/ sched.at = "ping"
                         /\ sched.at = "done" => pinged

\* Work added while its task is about to sleep is not left behind: the task
\* will run, or something that wakes it is under way.
WorkersWoken ==
    /\ \A c \in Consumers : work[c] > 0 =>
         \/ handing[c] > 0 \/ InReady(Wake(c)) \/ InReady(c)
         \/ sched.task = c /\ sched.at # "sleep"
    /\ \A t \in Callers : work[t] > 0 =>
         handing[t] > 0 \/ t \in readable \/ sched.task = t

\* No wake-up is lost, of the scheduler, the hub or a task with work.
NoLostWakeup == SchedulerWoken /\ HubWoken /\ WorkersWoken

\* A task whose timeout is over or whose descriptor is readable runs again,
\* however busy the other descriptors are.
RunsAgain ==
    \A t \in Others :
      (t \in registered \cup ToSet(incoming) /\ (timeout[t] = "passed" \/ t \in readable))
      ~> sched.task = t
=============================================================================
