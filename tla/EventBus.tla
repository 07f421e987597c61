------------------------------ MODULE EventBus ------------------------------
(***************************************************************************)
(* The in-memory event bus (events/events.go), enabled: a ring of the last *)
(* events and one buffered channel per subscriber.  An event is named by   *)
(* its sequence number; its line is not looked at.  Every operator is one  *)
(* critical section of the bus's mutex.                                    *)
(*                                                                         *)
(* A subscription is named by the connection that makes it, at most once.  *)
(***************************************************************************)
EXTENDS Integers, Sequences, FiniteSets

CONSTANTS
    Connections,        \* the subscriptions that may be made
    Capacity,           \* dashboard.bufferSize
    SubscriberBuffer    \* subscriberBuffer

ASSUME EventBusAssumption ==
    /\ IsFiniteSet(Connections)
    /\ Capacity \in Nat \ {0}
    /\ SubscriberBuffer \in Nat \ {0}

VARIABLES
    ring, start, size,  \* the circular buffer; 0 is a slot never written
    sequence,           \* the number of the last event
    subscribers,        \* the registered subscriptions
    channel,            \* the channel of each subscription, closed or not
    dropped             \* some event was discarded for this subscription

busVars == <<ring, start, size, sequence, subscribers, channel, dropped>>

BusInit ==
    /\ ring = [i \in 0..Capacity - 1 |-> 0]
    /\ start = 0
    /\ size = 0
    /\ sequence = 0
    /\ subscribers = {}
    /\ channel = [c \in Connections |-> <<>>]
    /\ dropped = [c \in Connections |-> FALSE]

\* Faulty variant: the oldest slot is written but the ring does not turn.
retainUnturned(e) ==
    /\ ring' = [ring EXCEPT ![(start + size) % Capacity] = e]
    /\ size' = IF size < Capacity THEN size + 1 ELSE size
    /\ UNCHANGED start

\* retain: the slot after the last one; at capacity the oldest is overwritten
\* and the ring turns.
retain(e) ==
    /\ ring' = [ring EXCEPT ![(start + size) % Capacity] = e]
    /\ IF size < Capacity
       THEN size' = size + 1 /\ UNCHANGED start
       ELSE start' = (start + 1) % Capacity /\ UNCHANGED size

\* Faulty variant: an event is sent only to the subscribers that are idle.
PublishToIdle ==
    /\ sequence' = sequence + 1
    /\ retain(sequence + 1)
    /\ channel' = [c \in Connections |->
                     IF c \in subscribers /\ channel[c] = <<>>
                     THEN <<sequence + 1>> ELSE channel[c]]
    /\ UNCHANGED <<subscribers, dropped>>

\* Publish: number, retain, and a send to every subscriber that never blocks.
Publish ==
    /\ sequence' = sequence + 1
    /\ retain(sequence + 1)
    /\ LET fits(c) == Len(channel[c]) < SubscriberBuffer
       IN  /\ channel' = [c \in Connections |->
                            IF c \in subscribers /\ fits(c)
                            THEN Append(channel[c], sequence + 1) ELSE channel[c]]
           /\ dropped' = [c \in Connections |->
                            dropped[c] \/ (c \in subscribers /\ ~fits(c))]
    /\ UNCHANGED subscribers

\* replayLocked: the retained events after a number, oldest first; scan[n] is
\* what the loop has gathered after n slots.
replayLocked(after) ==
    LET scan[n \in 0..size] ==
            IF n = 0 THEN <<>>
            ELSE LET e == ring[(start + n - 1) % Capacity]
                 IN  IF e > after THEN Append(scan[n - 1], e) ELSE scan[n - 1]
    IN  scan[size]

\* ReplayAndSubscribe registers the subscription; the caller keeps what
\* replayLocked returns in the same step.
ReplayAndSubscribe(c) ==
    /\ subscribers' = subscribers \cup {c}
    /\ UNCHANGED <<ring, start, size, sequence, channel, dropped>>

\* cancel: the subscription leaves and its channel is closed; what the channel
\* already holds stays readable.
cancel(c) ==
    /\ subscribers' = subscribers \ {c}
    /\ UNCHANGED <<ring, start, size, sequence, channel, dropped>>
=============================================================================
