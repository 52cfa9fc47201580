------------------------------ MODULE Sending -------------------------------
(***************************************************************************)
(* How bytes leave the controller: Connection.send and disconnect, the     *)
(* read loop, and the DeferredSender, a thread of its own for what a       *)
(* socket did not take (pox/openflow/of_01.py).                            *)
(*                                                                         *)
(* Two threads meet here.  The scheduler's thread sends, reads and closes; *)
(* it tests the flag "sending" without the lock that guards the queues.    *)
(* The sender selects outside its lock, then writes under it.  Handlers of *)
(* ConnectionDown run in the thread that raises it, the sender's too, and  *)
(* send on the other connections (Controller removes rules there).         *)
(* A message is two chunks, numbered as its thread sends them on the       *)
(* connection, so that a write can be partial.                             *)
(***************************************************************************)
EXTENDS Integers, Sequences

CONSTANTS
    Connections,  \* Connection objects whose handshake is complete
    MayEnd,       \* those whose switch may go away
    MaxSent,      \* bound: messages the scheduler's thread sends on a connection
    MaxHandled,   \* bound: messages handlers in the sender's thread send on one
    Room          \* chunks a socket buffer holds

ASSUME SendingAssumption ==
    /\ MayEnd \subseteq Connections
    /\ MaxSent \in Nat /\ MaxHandled \in Nat /\ Room \in Nat \ {0}

VARIABLES
    sock,          \* the socket: open, shut (SHUT_RDWR) or closed
    disconnected,  \* Connection.disconnected
    raised,        \* Connection.disconnection_raised
    sending,       \* DeferredSender.sending
    queue,         \* DeferredSender._dataForConnection
    scheduler,     \* what the scheduler's thread is doing
    closing,       \* the connection that the read loop is about to close
    sender,        \* what the sender's thread is doing
    buffer,        \* chunks in the socket buffer, and those that left it
    gone,          \* connections whose switch has gone away
    sent,          \* messages that each thread handed to send (history)
    downs          \* the threads that raised ConnectionDown, in order (history)

vars == <<sock, disconnected, raised, sending, queue, scheduler, closing, sender,
          buffer, gone, sent, downs>>

NoConnection == "none"
Threads      == {"scheduler", "sender"}
Limit(t)     == IF t = "scheduler" THEN MaxSent ELSE MaxHandled
Chunks       == [by: Threads, no: Nat]

TypeOK ==
    /\ sock \in [Connections -> {"open", "shut", "closed"}]
    /\ disconnected \in [Connections -> BOOLEAN]
    /\ raised \in [Connections -> BOOLEAN]
    /\ sending \in BOOLEAN
    /\ queue \in [Connections -> Seq(Chunks)]
    /\ scheduler \in [doing: {"idle", "write", "defer", "raise", "close"},
                      con: Connections \cup {NoConnection}, data: Seq(Chunks)]
    /\ closing \in Connections \cup {NoConnection}
    /\ sender \in [doing: {"collect", "select", "serve", "raise", "handle", "dead"},
                   cons: SUBSET Connections, con: Connections \cup {NoConnection}]
    /\ buffer \in [Connections -> [held: 0..Room, stream: Seq(Chunks)]]
    /\ gone \subseteq MayEnd
    /\ sent \in [Connections -> [Threads -> Nat]]
    /\ \A c \in Connections, t \in Threads : sent[c][t] <= Limit(t)
    /\ downs \in [Connections -> Seq(Threads)]

IdleScheduler  == [doing |-> "idle", con |-> NoConnection, data |-> <<>>]
Collecting     == [doing |-> "collect", cons |-> {}, con |-> NoConnection]
SchedulerDoes(what, c, data) == [doing |-> what, con |-> c, data |-> data]

Init ==
    /\ sock = [c \in Connections |-> "open"]
    /\ disconnected = [c \in Connections |-> FALSE]
    /\ raised = [c \in Connections |-> FALSE]
    /\ sending = FALSE
    /\ queue = [c \in Connections |-> <<>>]
    /\ scheduler = IdleScheduler
    /\ closing = NoConnection
    /\ sender = Collecting
    /\ buffer = [c \in Connections |-> [held |-> 0, stream |-> <<>>]]
    /\ gone = {}
    /\ sent = [c \in Connections |-> [t \in Threads |-> 0]]
    /\ downs = [c \in Connections |-> <<>>]

-----------------------------------------------------------------------------
(* The socket. *)

\* Writing to a socket raises an error other than EAGAIN.  A switch that has
\* gone away may be noticed late.
Fails(c)    == sock[c] # "open" \/ c \in gone
Accepts(c)  == sock[c] = "open"
Writable(c) == Fails(c) \/ buffer[c].held < Room

\* What the buffer takes of data, and what is left; EAGAIN takes nothing.
Taken(c, data) ==
    IF Len(data) < Room - buffer[c].held THEN Len(data) ELSE Room - buffer[c].held
Rest(c, data)  == SubSeq(data, Taken(c, data) + 1, Len(data))
Buffered(c, data) ==
    [buffer EXCEPT ![c] =
       [held   |-> @.held + Taken(c, data),
        stream |-> @.stream \o SubSeq(data, 1, Taken(c, data))]]

\* The switch reads from its session; what left the buffer is in stream.
SwitchReads(c) ==
    /\ c \notin gone
    /\ buffer[c].held > 0
    /\ buffer' = [buffer EXCEPT ![c].held = @ - 1]
    /\ UNCHANGED <<sock, disconnected, raised, sending, queue, scheduler, closing, sender, gone, sent, downs>>

\* The switch goes away.
SwitchGoes(c) ==
    /\ c \in MayEnd \ gone
    /\ gone' = gone \cup {c}
    /\ UNCHANGED <<sock, disconnected, raised, sending, queue, scheduler, closing, sender, buffer, sent, downs>>

-----------------------------------------------------------------------------
(* The scheduler's thread: handlers that send, and the read loop. *)

\* Slip: the queues are forgotten, the socket is written in any case.
AlwaysWrites == "write"

\* deferredSender.sending is read without the lock.
Route == IF sending THEN "defer" ELSE "write"

\* The next message of a thread, and that it is handed to send.
Message(c, t) == << [by |-> t, no |-> 2 * sent[c][t] + 1], [by |-> t, no |-> 2 * sent[c][t] + 2] >>
HandOver(c, t) ==
    /\ sent[c][t] < Limit(t)
    /\ sent' = [sent EXCEPT ![c][t] = @ + 1]

\* Connection.send: nothing on a disconnected connection.  The caller is any
\* handler of the scheduler's thread, those of ConnectionDown included.
SendTests(c) ==
    /\ scheduler.doing = "idle"
    /\ ~ disconnected[c]
    /\ HandOver(c, "scheduler")
    /\ scheduler' = SchedulerDoes(Route, c, Message(c, "scheduler"))
    /\ UNCHANGED <<sock, disconnected, raised, sending, queue, closing, sender, buffer, gone, downs>>

\* sock.send, which takes all, a part (or nothing: EAGAIN).
SendWrites ==
    LET c == scheduler.con
        d == scheduler.data
    IN  /\ scheduler.doing = "write"
        /\ Accepts(c)
        /\ buffer' = Buffered(c, d)
        /\ scheduler' = IF Rest(c, d) = <<>> THEN IdleScheduler
                        ELSE SchedulerDoes("defer", c, Rest(c, d))
        /\ UNCHANGED <<sock, disconnected, raised, sending, queue, closing, sender, gone, sent, downs>>

\* Slip: what was queued before is replaced.
Replaced(c, data) == [queue EXCEPT ![c] = data]

\* The data joins what waits for the connection.
Extended(c, data) == [queue EXCEPT ![c] = @ \o data]

SenderHoldsLock == sender.doing \in {"serve", "raise", "handle"}

\* DeferredSender.send, under the lock.
SendDefers ==
    /\ scheduler.doing = "defer"
    /\ ~ SenderHoldsLock
    /\ sending' = TRUE
    /\ queue' = Extended(scheduler.con, scheduler.data)
    /\ scheduler' = IdleScheduler
    /\ UNCHANGED <<sock, disconnected, raised, closing, sender, buffer, gone, sent, downs>>

\* Slip: the event counts as raised although it is deferred.
MarkRaised(c) == [raised EXCEPT ![c] = TRUE]

\* With defer_event, disconnect does not touch disconnection_raised.
KeepRaised(c) == raised

\* sock.send raises: disconnect with the event deferred.
SendFails ==
    LET c == scheduler.con
    IN  /\ scheduler.doing = "write"
        /\ Fails(c)
        /\ disconnected' = [disconnected EXCEPT ![c] = TRUE]
        /\ raised' = KeepRaised(c)
        /\ sock' = [sock EXCEPT ![c] = "shut"]
        /\ scheduler' = IdleScheduler
        /\ UNCHANGED <<sending, queue, closing, sender, buffer, gone, sent, downs>>

\* The read loop finds the end of a session (read is False): con.close(),
\* whose disconnect tests disconnection_raised first.
EndIsRead(c) ==
    /\ scheduler.doing = "idle" /\ closing = NoConnection
    /\ c \in gone \/ sock[c] = "shut"
    /\ sock[c] # "closed"
    /\ disconnected' = [disconnected EXCEPT ![c] = TRUE]
    /\ closing' = c
    /\ scheduler' = SchedulerDoes(IF raised[c] THEN "close" ELSE "raise", c, <<>>)
    /\ UNCHANGED <<sock, raised, sending, queue, sender, buffer, gone, sent, downs>>

\* Slip: the event is raised and the flag is not set.
RaiseUnmarked(c, who) ==
    /\ downs' = [downs EXCEPT ![c] = IF Len(@) < 3 THEN Append(@, who) ELSE @]
    /\ UNCHANGED raised

\* ConnectionDown is raised; both threads do this.
RaiseDown(c, who) ==
    /\ raised' = [raised EXCEPT ![c] = TRUE]
    /\ downs' = [downs EXCEPT ![c] = Append(@, who)]

\* ... after which its handlers run, and send as any other handler does.
CloseRaises ==
    /\ scheduler.doing = "raise"
    /\ RaiseDown(scheduler.con, "scheduler")
    /\ scheduler' = IdleScheduler
    /\ UNCHANGED <<sock, disconnected, sending, queue, closing, sender, buffer, gone, sent>>

\* The socket is closed when the handlers, if any, are through.
\* deferredSender.kill is commented out, so that the sender keeps what it has
\* for the connection.
CloseSocket ==
    /\ closing # NoConnection /\ scheduler.doing \in {"idle", "close"}
    /\ sock' = [sock EXCEPT ![closing] = "closed"]
    /\ closing' = NoConnection
    /\ scheduler' = IdleScheduler
    /\ UNCHANGED <<disconnected, raised, sending, queue, sender, buffer, gone, sent, downs>>

-----------------------------------------------------------------------------
(* The sender's thread. *)

Queued == { c \in Connections : queue[c] # <<>> }

\* The connections to select on are copied under the lock.
SenderCollects ==
    /\ sender.doing = "collect"
    /\ sender' = [sender EXCEPT !.doing = "select", !.cons = Queued]
    /\ UNCHANGED <<sock, disconnected, raised, sending, queue, scheduler, closing, buffer, gone, sent, downs>>

\* select returns, woken by a ping, by a writable socket or after 5 seconds.
SenderSelects ==
    /\ sender.doing = "select"
    /\ \A c \in sender.cons : sock[c] # "closed"
    /\ sender' = [sender EXCEPT !.doing = "serve", !.cons = { c \in @ : Writable(c) }]
    /\ UNCHANGED <<sock, disconnected, raised, sending, queue, scheduler, closing, buffer, gone, sent, downs>>

\* select raises on a closed socket, and nothing catches that.
SenderDies ==
    /\ sender.doing = "select"
    /\ \E c \in sender.cons : sock[c] = "closed"
    /\ sender' = [doing |-> "dead", cons |-> {}, con |-> NoConnection]
    /\ UNCHANGED <<sock, disconnected, raised, sending, queue, scheduler, closing, buffer, gone, sent, downs>>

\* The flag is cleared when a connection is drained and no data is left.
Cleared(left, drained) == sending /\ ~ (drained /\ left = {})

\* A writable connection takes all that waits for it, or a part.
SenderWrites(c) ==
    /\ sender.doing = "serve"
    /\ c \in sender.cons
    /\ Accepts(c)
    /\ buffer' = Buffered(c, queue[c])
    /\ queue' = [queue EXCEPT ![c] = Rest(c, @)]
    /\ sending' = Cleared(Queued \ {c}, Rest(c, queue[c]) = <<>>)
    /\ sender' = [sender EXCEPT !.cons = @ \ {c}]
    /\ UNCHANGED <<sock, disconnected, raised, scheduler, closing, gone, sent, downs>>

\* The write raises an error: disconnect, which tests disconnection_raised.
SenderFails(c) ==
    /\ sender.doing = "serve"
    /\ c \in sender.cons
    /\ Fails(c)
    /\ disconnected' = [disconnected EXCEPT ![c] = TRUE]
    /\ IF raised[c]
       THEN /\ queue' = [queue EXCEPT ![c] = <<>>]
            /\ sender' = [sender EXCEPT !.cons = @ \ {c}]
       ELSE /\ UNCHANGED queue
            /\ sender' = [sender EXCEPT !.doing = "raise", !.con = c]
    /\ sock' = [sock EXCEPT ![c] = IF raised[c] /\ @ = "open" THEN "shut" ELSE @]
    /\ UNCHANGED <<raised, sending, scheduler, closing, buffer, gone, sent, downs>>

\* ConnectionDown is raised in the sender's thread, under its lock.
SenderRaises ==
    /\ sender.doing = "raise"
    /\ RaiseDown(sender.con, "sender")
    /\ sender' = [sender EXCEPT !.doing = "handle"]
    /\ UNCHANGED <<sock, disconnected, sending, queue, scheduler, closing, buffer, gone, sent>>

\* A handler sends on another connection.  The lock is re-entrant, so the
\* data is queued at once; the flag is set as long as the failed connection
\* has data (SendingProofs), so nothing is written here.
SenderHandles(c) ==
    /\ sender.doing = "handle"
    /\ ~ disconnected[c] /\ sending
    /\ HandOver(c, "sender")
    /\ queue' = Extended(c, Message(c, "sender"))
    /\ UNCHANGED <<sock, disconnected, raised, sending, scheduler, closing, sender, buffer, gone, downs>>

\* The handlers are through: the socket is shut and the data deleted.
SenderDrops ==
    LET c == sender.con
    IN  /\ sender.doing = "handle"
        /\ sock' = [sock EXCEPT ![c] = IF @ = "open" THEN "shut" ELSE @]
        /\ queue' = [queue EXCEPT ![c] = <<>>]
        /\ sender' = [doing |-> "serve", cons |-> sender.cons \ {c}, con |-> NoConnection]
        /\ UNCHANGED <<disconnected, raised, sending, scheduler, closing, buffer, gone, sent, downs>>

\* All that select reported is served: the next round.
SenderLoops ==
    /\ sender.doing = "serve" /\ sender.cons = {}
    /\ sender' = Collecting
    /\ UNCHANGED <<sock, disconnected, raised, sending, queue, scheduler, closing, buffer, gone, sent, downs>>

-----------------------------------------------------------------------------
Scheduler ==
    \/ SendWrites \/ SendDefers \/ SendFails
    \/ CloseRaises \/ CloseSocket
    \/ \E c \in Connections : EndIsRead(c)

Sender ==
    \/ SenderCollects \/ SenderSelects \/ SenderDies
    \/ \E c \in Connections : SenderWrites(c) \/ SenderFails(c)
    \/ SenderRaises \/ SenderDrops \/ SenderLoops

Next ==
    \/ Scheduler \/ Sender
    \/ \E c \in Connections : SendTests(c) \/ SenderHandles(c) \/ SwitchReads(c) \/ SwitchGoes(c)

Spec == Init /\ [][Next]_vars

\* Both threads run, and the scheduler's gets the lock that the sender leaves
\* again and again; ends are read; a switch that is there reads.
FairSpec ==
    /\ Spec
    /\ WF_vars(Scheduler) /\ WF_vars(Sender) /\ SF_vars(SendDefers)
    /\ \A c \in Connections : SF_vars(EndIsRead(c)) /\ WF_vars(SwitchReads(c))

-----------------------------------------------------------------------------
Before(chunk) == [chunk EXCEPT !.no = @ - 1]
Second(chunk) == chunk.no % 2 = 0

\* Every chunk comes once; what its thread sent before it precedes it, and
\* nothing comes between the two halves of a message.
WellFormed(stream) ==
    \A i \in 1..Len(stream) :
      /\ \A j \in 1..i - 1 : stream[j] # stream[i]
      /\ stream[i].no > 1 => \E j \in 1..i - 1 : stream[j] = Before(stream[i])
      /\ Second(stream[i]) => i > 1 /\ stream[i - 1] = Before(stream[i])

\* Whatever the two threads write and when, a session carries whole messages,
\* none cut by another one, and those of a thread in the order in which it
\* handed them to send, without gaps (Connection.send, DeferredSender): no
\* message that a handler in the sender's thread queues gets between what the
\* scheduler's thread has written of a message and what it still holds.
BytesInOrder == \A c \in Connections : WellFormed(buffer[c].stream)

\* When the flag says that nothing is deferred, nothing is: a message may
\* then go to the socket directly.
NothingStranded == ~ sending => Queued = {}

\* A message for a switch that stays is written to its socket in the end,
\* whatever the sockets take at a time and whatever happens to other
\* connections - but for the death of the sender's thread, the one thing that
\* strands a message.
MessagesLeave ==
    \A c \in Connections, t \in Threads : \A k \in 1..Limit(t) :
      sent[c][t] >= k ~>
        \/ \E i \in 1..Len(buffer[c].stream) : buffer[c].stream[i] = [by |-> t, no |-> 2 * k]
        \/ c \in gone \/ sender.doing = "dead"

\* A connection that is given up is reported: the ConnectionDown that an
\* error in send defers does come.
DownFollows == \A c \in Connections : disconnected[c] ~> downs[c] # <<>>

\* The flag disconnection_raised, which is tested and set without a lock,
\* keeps a thread from raising ConnectionDown twice: if a session that is lost
\* is reported twice, the two threads did it, once each.
DownOnceByEach ==
    \A c \in Connections : \A i, j \in DOMAIN downs[c] : downs[c][i] = downs[c][j] => i = j
=============================================================================
