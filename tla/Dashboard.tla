------------------------------ MODULE Dashboard ------------------------------
(***************************************************************************)
(* The live monitor over the event bus: the HTTP handler of the stream     *)
(* (dashboard/dashboard.go, Stream), the goroutine that delivers to it     *)
(* (events/events.go, deliver), and the pages that connect, lose their     *)
(* connection and reconnect (dashboard/index.html, connect and ingest).    *)
(***************************************************************************)
EXTENDS EventBus

CONSTANTS
    Tabs,           \* open pages
    MaxClients,     \* maxClients
    StreamBuffer,   \* capacity of the handler's own channel
    MaxEvents,      \* bound: events published
    NoConnection

ASSUME DashboardAssumption ==
    /\ MaxClients \in Nat \ {0}
    /\ StreamBuffer \in Nat \ {0}
    /\ MaxEvents \in Nat
    /\ NoConnection \notin Connections

VARIABLES
    flow,           \* where the handler of each connection is
    after,          \* the starting point the connection asked for
    retained,       \* history still to be sent on the connection
    stream,         \* the handler's own channel
    written,        \* the last event written on the connection, 0 if none
    current,        \* the connection each page listens to
    lastSeq,        \* the page's lastSeq
    page            \* the events each page ingested

flowVars == <<flow, after, retained, stream, written>>
tabVars  == <<current, lastSeq, page>>
vars     == <<busVars, flowVars, tabVars>>

Flows == {"unused", "refused", "admitted", "history", "live", "returned"}

Init ==
    /\ BusInit
    /\ flow = [c \in Connections |-> "unused"]
    /\ after = [c \in Connections |-> 0]
    /\ retained = [c \in Connections |-> <<>>]
    /\ stream = [c \in Connections |-> <<>>]
    /\ written = [c \in Connections |-> 0]
    /\ current = [t \in Tabs |-> NoConnection]
    /\ lastSeq = [t \in Tabs |-> 0]
    /\ page = [t \in Tabs |-> <<>>]

\* A line of the structured log.
LogLine ==
    /\ sequence < MaxEvents
    /\ Publish
    /\ UNCHANGED <<flowVars, tabVars>>

\* connect and the entry of Stream: the page asks to go on after what it saw,
\* and the handler counts the subscribers.
Connect(t, c) ==
    /\ current[t] = NoConnection
    /\ flow[c] = "unused"
    /\ IF Cardinality(subscribers) >= MaxClients
       THEN /\ flow' = [flow EXCEPT ![c] = "refused"]
            /\ UNCHANGED <<after, current>>
       ELSE /\ flow' = [flow EXCEPT ![c] = "admitted"]
            /\ after' = [after EXCEPT ![c] = lastSeq[t]]
            /\ current' = [current EXCEPT ![t] = c]
    /\ UNCHANGED <<busVars, retained, stream, written, lastSeq, page>>

\* Faulty variant: the history is read first and the subscription is made
\* in a step of its own.
ResumeThenSubscribe(c) ==
    \/ /\ flow[c] = "admitted"
       /\ flow' = [flow EXCEPT ![c] = "history"]
       /\ retained' = [retained EXCEPT ![c] = replayLocked(after[c])]
       /\ UNCHANGED <<busVars, after, stream, written, tabVars>>
    \/ /\ flow[c] = "history" /\ c \notin subscribers
       /\ ReplayAndSubscribe(c)
       /\ UNCHANGED <<flowVars, tabVars>>

\* Reading what was missed and subscribing to what comes is one step.
Resume(c) ==
    /\ flow[c] = "admitted"
    /\ flow' = [flow EXCEPT ![c] = "history"]
    /\ retained' = [retained EXCEPT ![c] = replayLocked(after[c])]
    /\ ReplayAndSubscribe(c)
    /\ UNCHANGED <<after, stream, written, tabVars>>

\* ingest on the page that listens to the connection, if one still does.
ingest(c, e) ==
    /\ page' = [t \in Tabs |-> IF current[t] = c THEN Append(page[t], e) ELSE page[t]]
    /\ lastSeq' = [t \in Tabs |-> IF current[t] = c /\ e > lastSeq[t] THEN e ELSE lastSeq[t]]
    /\ written' = [written EXCEPT ![c] = e]
    /\ UNCHANGED current

\* One event of the history is written; after the last one the loop begins.
SendRetained(c) ==
    /\ flow[c] = "history"
    /\ IF retained[c] = <<>>
       THEN /\ flow' = [flow EXCEPT ![c] = "live"]
            /\ UNCHANGED <<retained, written, tabVars>>
       ELSE /\ ingest(c, Head(retained[c]))
            /\ retained' = [retained EXCEPT ![c] = Tail(@)]
            /\ UNCHANGED flow
    /\ UNCHANGED <<busVars, after, stream>>

\* deliver: the subscriber's goroutine takes one event of its channel, closed
\* or not, and offers it to the handler without blocking.
deliver(c) ==
    /\ channel[c] # <<>>
    /\ channel' = [channel EXCEPT ![c] = Tail(@)]
    /\ IF Len(stream[c]) < StreamBuffer
       THEN /\ stream' = [stream EXCEPT ![c] = Append(@, Head(channel[c]))]
            /\ UNCHANGED dropped
       ELSE /\ dropped' = [dropped EXCEPT ![c] = TRUE]
            /\ UNCHANGED stream
    /\ UNCHANGED <<ring, start, size, sequence, subscribers, flow, after,
                   retained, written, tabVars>>

\* The loop of Stream: one live event is written.
SendLive(c) ==
    /\ flow[c] = "live"
    /\ stream[c] # <<>>
    /\ ingest(c, Head(stream[c]))
    /\ stream' = [stream EXCEPT ![c] = Tail(@)]
    /\ UNCHANGED <<busVars, flow, after, retained>>

\* The page loses its connection (onerror); it will connect again.
Disconnect(t) ==
    /\ current[t] # NoConnection
    /\ current' = [current EXCEPT ![t] = NoConnection]
    /\ UNCHANGED <<busVars, flowVars, lastSeq, page>>

\* Faulty variant: the handler returns without cancelling its subscription.
ReturnOnly(c) ==
    /\ flow[c] = "live"
    /\ \A t \in Tabs : current[t] # c
    /\ flow' = [flow EXCEPT ![c] = "returned"]
    /\ UNCHANGED <<busVars, after, retained, stream, written, tabVars>>

\* ctx.Done in the loop: the handler returns and its subscription is cancelled.
Return(c) ==
    /\ flow[c] = "live"
    /\ \A t \in Tabs : current[t] # c
    /\ flow' = [flow EXCEPT ![c] = "returned"]
    /\ cancel(c)
    /\ UNCHANGED <<after, retained, stream, written, tabVars>>

\* The bound on events is reached.
Quiet == sequence = MaxEvents /\ UNCHANGED vars

Next ==
    \/ LogLine
    \/ \E t \in Tabs, c \in Connections : Connect(t, c)
    \/ \E t \in Tabs : Disconnect(t)
    \/ \E c \in Connections : Resume(c) \/ SendRetained(c) \/ deliver(c)
                              \/ SendLive(c) \/ Return(c)
    \/ Quiet

Spec == Init /\ [][Next]_vars

\* The handlers and the delivery goroutines are scheduled; select picks any
\* ready case, so a closed connection is noticed.  Nothing is assumed of the
\* pages nor of the log.
Fairness ==
    \A c \in Connections :
        /\ WF_vars(Resume(c))
        /\ WF_vars(SendRetained(c))
        /\ WF_vars(deliver(c))
        /\ WF_vars(SendLive(c))
        /\ WF_vars(Return(c))

FairSpec == Spec /\ Fairness

-----------------------------------------------------------------------------
(* Properties. *)

Window == replayLocked(0)

Log == INSTANCE EventLog WITH published <- sequence, window <- Window, shown <- page

\* The ring, the channels, the handlers and the reconnecting pages implement
\* the abstract log: retention is exactly the most recent events, and a page
\* shows published events in order and never one twice, across connections
\* (events.go, retain and replayLocked; dashboard.go, Stream).
ImplementsLog == Log!LogSpec

\* What is on its way to the page on a connection.
Pipeline(c) == retained[c] \o stream[c] \o channel[c]

\* Between the history and the live events nothing is lost and nothing is
\* repeated: unless an event was discarded for it, what a connection still has
\* to write is, without holes, everything published after what it wrote, or
\* after its starting point, as far back as was retained
\* (events.go, ReplayAndSubscribe).
ExactlyOnce ==
    \A c \in subscribers :
        ~dropped[c] =>
            LET q == Pipeline(c)
                last == IF written[c] # 0 THEN written[c] ELSE after[c]
            IN  IF q = <<>>
                THEN last = sequence
                ELSE /\ \A i \in 1..Len(q) - 1 : q[i + 1] = q[i] + 1
                     /\ q[Len(q)] = sequence
                     /\ \/ Head(q) = last + 1
                        \/ /\ written[c] = 0
                           /\ last < Head(q) /\ Head(q) <= sequence - size + 1

\* Every event published up to now reaches a page that stays connected, unless
\* one of the two buffers overflowed (dashboard.go, Stream).
Delivered ==
    \A t \in Tabs, c \in Connections : \A s \in 1..MaxEvents :
        (current[t] = c /\ sequence >= s)
            ~> (lastSeq[t] >= s \/ current[t] # c \/ dropped[c])

\* A page that leaves gives its place back, whatever was still on its way
\* (dashboard.go, the deferred cancel of Stream).
PlaceFreed ==
    \A c \in Connections :
        (c \in subscribers /\ \A t \in Tabs : current[t] # c) ~> (c \notin subscribers)
=============================================================================
