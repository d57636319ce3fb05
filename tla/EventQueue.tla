------------------------------ MODULE EventQueue ------------------------------
(***************************************************************************)
(* The queue between the evdev reader and the SDL thread                   *)
(* (input_event_queue.c).  The reader pushes what it read from several     *)
(* devices in any order; the SDL thread is given what is older than the    *)
(* last completed sweep, by time, in runs of one device class.  A queue    *)
(* that lost an event keeps nothing but the request to release everything. *)
(***************************************************************************)
EXTENDS Naturals, Sequences

CONSTANT Capacity   \* NATIVE_EVENT_QUEUE_CAPACITY

ASSUME CapacityAssumption == Capacity \in Nat \ {0}

\* Nothing published yet, as after native_evdev_input_start.
EmptyQueue == [events |-> <<>>, reset |-> FALSE, before |-> 0]

Reset(q) == [q EXCEPT !.events = <<>>, !.reset = TRUE]

TakeReset(q) == [q EXCEPT !.reset = FALSE]

PublishBefore(q, time) == [q EXCEPT !.before = time]

\* The place of the last event that is not newer, seen from the back, or 0.
LastNotNewer(events, e) ==
    CHOOSE n \in 0..Len(events) :
        /\ n = 0 \/ events[n].time <= e.time
        /\ \A i \in (n + 1)..Len(events) : events[i].time > e.time

\* Insertion by time, after the events of the same time.
Inserted(events, e) ==
    LET n == LastNotNewer(events, e)
    IN  SubSeq(events, 1, n) \o <<e>> \o SubSeq(events, n + 1, Len(events))

Push(q, e) ==
    IF q.reset THEN q
    ELSE IF Len(q.events) = Capacity THEN Reset(q)
    ELSE [q EXCEPT !.events = Inserted(@, e)]

NextKind(q) ==
    IF q.reset THEN "reset"
    ELSE IF q.events = <<>> \/ Head(q.events).time >= q.before THEN "none"
    ELSE Head(q.events).kind

\* How many events native_evdev_input_pop_*_batch takes: the published run of
\* one kind at the head.
RunLength(q) ==
    LET InRun(n) == \A i \in 1..n : /\ q.events[i].kind = NextKind(q)
                                    /\ q.events[i].time < q.before
    IN  CHOOSE n \in 0..Len(q.events) :
            InRun(n) /\ (n = Len(q.events) \/ ~InRun(n + 1))

Batch(q) == IF q.reset THEN <<>> ELSE SubSeq(q.events, 1, RunLength(q))

WithoutBatch(q) == [q EXCEPT !.events = SubSeq(@, Len(Batch(q)) + 1, Len(@))]
=============================================================================
