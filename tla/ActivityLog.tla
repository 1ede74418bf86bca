------------------------------ MODULE ActivityLog ------------------------------
(* The activity log (logging/activity.rs): an actor with a bounded mailbox    *)
(* that collects events and hands them in batches to tasks that write them,   *)
(* each in a transaction of its own, and the shutdown of main.rs.             *)
(* An operator described as a mistake is not the code: it takes the place of  *)
(* the definition after it to show which property notices.                   *)
EXTENDS Requests, Integers, Sequences, FiniteSets

CONSTANTS
    Event,               \* what is recorded: each event once
    BATCH_SIZE,          \* events in the buffer that start a flush
    MAILBOX_CAPACITY     \* events in the mailbox that make try_send fail

ASSUME SizesAreNumbers == BATCH_SIZE \in Nat \ {0} /\ MAILBOX_CAPACITY \in Nat
ASSUME ForceFlushIsNoEvent == "ForceFlush" \notin Event

VARIABLES
    mailbox,       \* the actor's mailbox: events, and ForceFlush
    buffer,        \* the actor's buffer
    flushing,      \* the batches that tasks are writing
    logged,        \* activity_log: the rows, in the order they were inserted
    gone,          \* the events dropped or lost: a full mailbox, a failed batch, the exit
    shutdown       \* "no", "flushed" once ForceFlush is sent, "exited"

logVars == <<mailbox, buffer, flushing, logged, gone, shutdown>>

Messages == Event \cup {"ForceFlush"}
Elements(s) == {s[i] : i \in DOMAIN s}

LogTypeOK ==
    /\ mailbox \in Seq(Messages)
    /\ buffer \in Seq(Event)
    /\ flushing \subseteq Seq(Event)
    /\ logged \in Seq(Event)
    /\ gone \subseteq Event
    /\ shutdown \in {"no", "flushed", "exited"}

LogInit ==
    /\ mailbox = <<>>
    /\ buffer = <<>>
    /\ flushing = {}
    /\ logged = <<>>
    /\ gone = {}
    /\ shutdown = "no"

InFlush == UNION {Elements(b) : b \in flushing}
Recorded == Elements(mailbox) \cup Elements(buffer) \cup InFlush \cup Elements(logged) \cup gone

\* flush_buffer: nothing if it is empty, else the buffer is taken by a task.
FlushBuffer(events) ==
    /\ buffer' = <<>>
    /\ flushing' = IF events = <<>> THEN flushing ELSE flushing \cup {events}

------------------------------------------------------------------------------

\* record: try_send drops the event when the mailbox is full.
Record(e) ==
    /\ shutdown # "exited"
    /\ e \notin Recorded
    /\ IF Len(mailbox) >= MAILBOX_CAPACITY
       THEN gone' = gone \cup {e} /\ UNCHANGED mailbox
       ELSE mailbox' = Append(mailbox, e) /\ UNCHANGED gone
    /\ UNCHANGED <<buffer, flushing, logged, shutdown>>

\* A mistake: the batch is copied to the task, and the buffer goes on growing.
HandleCopies ==
    /\ mailbox # <<>>
    /\ mailbox' = Tail(mailbox)
    /\ LET events == IF Head(mailbox) \in Event THEN Append(buffer, Head(mailbox)) ELSE buffer
       IN  /\ flushing' = IF Len(events) >= BATCH_SIZE THEN flushing \cup {events} ELSE flushing
           /\ buffer' = events
    /\ UNCHANGED <<logged, gone, shutdown>>

\* The actor handles an event, and flushes when the batch is full, or ForceFlush.
Handle ==
    /\ shutdown # "exited" /\ mailbox # <<>>
    /\ mailbox' = Tail(mailbox)
    /\ IF Head(mailbox) \in Event
       THEN LET events == Append(buffer, Head(mailbox))
            IN  IF Len(events) >= BATCH_SIZE THEN FlushBuffer(events)
                ELSE buffer' = events /\ UNCHANGED flushing
       ELSE FlushBuffer(buffer)
    /\ UNCHANGED <<logged, gone, shutdown>>

\* run_interval: every FLUSH_INTERVAL_SECS.
Tick ==
    /\ shutdown # "exited" /\ buffer # <<>>
    /\ FlushBuffer(buffer)
    /\ UNCHANGED <<mailbox, logged, gone, shutdown>>

\* flush_events_to_db commits: every event of the batch.
BatchCommits(b) ==
    /\ shutdown # "exited"
    /\ logged' = logged \o b
    /\ flushing' = flushing \ {b}
    /\ UNCHANGED <<mailbox, buffer, gone, shutdown>>

\* begin, an INSERT or the COMMIT fails: none of them, and nobody tries again.
BatchFails(b) ==
    /\ shutdown # "exited"
    /\ gone' = gone \cup Elements(b)
    /\ flushing' = flushing \ {b}
    /\ UNCHANGED <<mailbox, buffer, logged, shutdown>>

\* main: the server has stopped, force_flush passes the limit of the mailbox ..
ForceFlush ==
    /\ shutdown = "no"
    /\ mailbox' = Append(mailbox, "ForceFlush")
    /\ shutdown' = "flushed"
    /\ UNCHANGED <<buffer, flushing, logged, gone>>

\* .. and 200 ms later the process ends, with whatever it still holds.
Exit ==
    /\ shutdown = "flushed"
    /\ shutdown' = "exited"
    /\ gone' = gone \cup ((Elements(mailbox) \ {"ForceFlush"}) \cup Elements(buffer) \cup InFlush)
    /\ mailbox' = <<>> /\ buffer' = <<>> /\ flushing' = {}
    /\ UNCHANGED logged

LogNext ==
    \/ \E e \in Event : Record(e)
    \/ Handle
    \/ Tick
    \/ \E b \in flushing : BatchCommits(b) \/ BatchFails(b)
    \/ ForceFlush
    \/ Exit

LogSpec == LogInit /\ [][LogNext]_logVars

------------------------------------------------------------------------------

\* No event is logged twice, none is both logged and given up, and none that is
\* logged is still on its way to a second insertion: flushes overlap, and a
\* batch is copied into a task while the buffer fills again (activity.rs:100-109).
LoggedOnce ==
    /\ \A i, j \in DOMAIN logged : logged[i] = logged[j] => i = j
    /\ Elements(logged) \cap (Elements(mailbox) \cup Elements(buffer) \cup InFlush \cup gone) = {}
===============================================================================
