------------------------------ MODULE Handout ------------------------------
(***************************************************************************)
(* Handing out nonces (service/handout.go, reorder.autoNonce): the clients *)
(* of one user that ask for the nonce to sign queue behind one another,    *)
(* each behind the ticket of the previous one, and a ticket is closed by   *)
(* the metatx that uses its number (noteSent) or by its timer.             *)
(*                                                                         *)
(* A request here is one client: it asks for a nonce and may then send a   *)
(* metatx signed with it; its ticket has its name.  The chain of nonces is *)
(* that of Tracker; how it ends is Settlement's business and appears here  *)
(* as ChainEnds.  Nothing is held: a nonce handed out is never ahead.      *)
(***************************************************************************)
EXTENDS Tracker

CONSTANTS
    NodeMayFail,    \* the node may refuse a read or a send
    EndingChains,   \* bound: only the first EndingChains chains may be dropped
    NoRequest       \* not a request: no ticket, or the user's lock is free

ASSUME HandoutAssumption ==
    /\ NodeMayFail \in BOOLEAN
    /\ EndingChains \in Nat
    /\ NoRequest \notin Requests

VARIABLES
    hpc,            \* where each client's request is
    handouts,       \* handouts[key]: the ticket of the last one in the queue
    openTickets,    \* openTickets[key]: the ticket that waits for its metatx
    previous,       \* HandOutNonce: the ticket this client queues behind
    closed,         \* handoutTicket.closed
    timer,          \* the AfterFunc of each ticket
    seen,           \* closeOpenTicket: the ticket it read
    asked,          \* how many clients have asked
    order,          \* the position of each client in the queue, 0 before it asks
    userLock,       \* the holder of the user's lock
    hubNonce        \* the nonce the RelayHub expects of the user

queueVars == <<handouts, openTickets, previous, closed, asked, order>>
vars == <<trackerVars, hpc, queueVars, timer, seen, userLock, hubNonce>>

\* Tickets that had their turn: the request went past the wait.
PastWait == {"read", "readHub", "failed", "failedOut", "open", "answered",
             "closing", "signal", "unregister", "reserve", "done"}
Sending  == {"closing", "signal", "unregister", "reserve"}
HPCs     == {"idle", "queued"} \cup PastWait

TypeOK ==
    /\ TrackerTypeOK
    /\ hpc \in [Requests -> HPCs]
    /\ {handouts, openTickets, userLock} \subseteq Requests \cup {NoRequest}
    /\ previous \in [Requests -> Requests \cup {NoRequest}]
    /\ closed \in [Requests -> BOOLEAN]
    /\ timer \in [Requests -> {"off", "armed", "closed", "fired"}]
    /\ seen \in [Requests -> Requests \cup {NoRequest}]
    /\ asked \in Nat
    /\ order \in [Requests -> Nat]
    /\ hubNonce \in Nat

Init ==
    /\ TrackerInit
    /\ hpc = [r \in Requests |-> "idle"]
    /\ handouts = NoRequest
    /\ openTickets = NoRequest
    /\ previous = [r \in Requests |-> NoRequest]
    /\ closed = [r \in Requests |-> FALSE]
    /\ timer = [r \in Requests |-> "off"]
    /\ seen = [r \in Requests |-> NoRequest]
    /\ asked = 0
    /\ order = [r \in Requests |-> 0]
    /\ userLock = NoRequest
    /\ hubNonce = 0

Step(r, from, to) == hpc[r] = from /\ hpc' = [hpc EXCEPT ![r] = to]

-----------------------------------------------------------------------------
(* HandOutNonce. *)

\* The client takes its place: it queues behind the last ticket, if any.
Ask(r) ==
    /\ Step(r, "idle", "queued")
    /\ previous' = [previous EXCEPT ![r] = handouts]
    /\ handouts' = r
    /\ asked' = asked + 1
    /\ order' = [order EXCEPT ![r] = asked + 1]
    /\ UNCHANGED <<trackerVars, openTickets, closed, timer, seen,
                   userLock, hubNonce>>

\* The ticket in front is closed.
TurnComes(r) ==
    /\ Step(r, "queued", "read")
    /\ previous[r] # NoRequest => closed[previous[r]]
    /\ UNCHANGED <<trackerVars, queueVars, timer, seen, userLock, hubNonce>>

\* expectedNonce: from the tracker when it has a live chain...
ReadCached(r) ==
    /\ senders' = chainLocked
    /\ IF chainLocked.id # 0
       THEN /\ Step(r, "read", "open")
            /\ nonce' = [nonce EXCEPT ![r] = chainLocked.next]
       ELSE /\ Step(r, "read", "readHub")
            /\ UNCHANGED nonce
    /\ UNCHANGED <<lastChain, held, wake, evicted, evictedInflight, queueVars,
                   timer, seen, userLock, hubNonce>>

\* ... and from the hub when it has none.
ReadHub(r) ==
    /\ \/ /\ Step(r, "readHub", "open")
          /\ nonce' = [nonce EXCEPT ![r] = hubNonce]
       \/ /\ NodeMayFail
          /\ Step(r, "readHub", "failed")
          /\ UNCHANGED nonce
    /\ UNCHANGED <<senders, lastChain, held, wake, evicted, evictedInflight,
                   queueVars, timer, seen, userLock, hubNonce>>

\* The ticket becomes the open one, its timer is armed, the client answered.
OpenTicket(r) ==
    /\ Step(r, "open", "answered")
    /\ openTickets' = r
    /\ timer' = [timer EXCEPT ![r] = "armed"]
    /\ UNCHANGED <<trackerVars, handouts, previous, closed, asked, order, seen, userLock, hubNonce>>

-----------------------------------------------------------------------------
(* closeTicket: the channel first, then the maps; and who calls it. *)

CloseChannel(t) == closed' = [closed EXCEPT ![t] = TRUE]

\* Faulty variant: only the open ticket is taken out.
UnregisterOpenOnly(t) ==
    /\ openTickets' = IF openTickets = t THEN NoRequest ELSE openTickets
    /\ UNCHANGED handouts

Unregister(t) ==
    /\ handouts' = IF handouts = t THEN NoRequest ELSE handouts
    /\ openTickets' = IF openTickets = t THEN NoRequest ELSE openTickets

\* Faulty variant: a request that failed leaves its ticket as it is.
FailsSilently(r) ==
    /\ Step(r, "failed", "done")
    /\ UNCHANGED <<trackerVars, queueVars, timer, seen, userLock, hubNonce>>

\* A request that could not be answered closes its own ticket.
FailCloses(r) ==
    /\ Step(r, "failed", "failedOut")
    /\ CloseChannel(r)
    /\ UNCHANGED <<trackerVars, handouts, openTickets, previous, asked, order, timer,
                   seen, userLock, hubNonce>>

FailUnregisters(r) ==
    /\ Step(r, "failedOut", "done")
    /\ Unregister(r)
    /\ UNCHANGED <<trackerVars, previous, closed, asked, order, timer, seen,
                   userLock, hubNonce>>

\* The timer of a ticket.
TimerFires(r) ==
    /\ timer[r] = "armed"
    /\ timer' = [timer EXCEPT ![r] = "closed"]
    /\ CloseChannel(r)
    /\ UNCHANGED <<trackerVars, hpc, handouts, openTickets, previous, asked, order,
                   seen, userLock, hubNonce>>

TimerUnregisters(r) ==
    /\ timer[r] = "closed"
    /\ timer' = [timer EXCEPT ![r] = "fired"]
    /\ Unregister(r)
    /\ UNCHANGED <<trackerVars, hpc, previous, closed, asked, order, seen,
                   userLock, hubNonce>>

-----------------------------------------------------------------------------
(* The metatx that uses the number: sendReordered and noteSent. *)

ExpectedNonce == IF chainLocked.id # 0 THEN chainLocked.next ELSE hubNonce

\* The metatx arrives and takes the user's lock; only the expected nonce is
\* sent, and a send that fails drops the chain.
Use(r) ==
    /\ userLock = NoRequest
    /\ \/ /\ nonce[r] = ExpectedNonce
          /\ Step(r, "answered", "closing")
          /\ userLock' = r
          /\ senders' = chainLocked
       \/ /\ nonce[r] # ExpectedNonce
          /\ Step(r, "answered", "done")
          /\ senders' = chainLocked
          /\ UNCHANGED userLock
       \/ /\ NodeMayFail
          /\ nonce[r] = ExpectedNonce
          /\ Step(r, "answered", "done")
          /\ senders' = NoChain
          /\ UNCHANGED userLock
    /\ UNCHANGED <<lastChain, held, nonce, wake, evicted, evictedInflight,
                   queueVars, timer, seen, hubNonce>>

\* Faulty variant: the ticket closed is the one at the end of the queue.
ReadLastTicket(r) ==
    /\ Step(r, "closing", "signal")
    /\ seen' = [seen EXCEPT ![r] = handouts]
    /\ UNCHANGED <<trackerVars, queueVars, timer, userLock, hubNonce>>

\* closeOpenTicket reads the open ticket under the lock and closes it after.
ReadOpenTicket(r) ==
    /\ Step(r, "closing", "signal")
    /\ seen' = [seen EXCEPT ![r] = openTickets]
    /\ UNCHANGED <<trackerVars, queueVars, timer, userLock, hubNonce>>

UseCloses(r) ==
    /\ IF seen[r] = NoRequest
       THEN Step(r, "signal", "reserve") /\ UNCHANGED closed
       ELSE Step(r, "signal", "unregister") /\ CloseChannel(seen[r])
    /\ UNCHANGED <<trackerVars, handouts, openTickets, previous, asked, order, timer,
                   seen, userLock, hubNonce>>

UseUnregisters(r) ==
    /\ Step(r, "unregister", "reserve")
    /\ Unregister(seen[r])
    /\ UNCHANGED <<trackerVars, previous, closed, asked, order, timer, seen,
                   userLock, hubNonce>>

\* Only now the nonce is reserved.
Reserve(r) ==
    /\ Step(r, "reserve", "done")
    /\ reserveLocked(nonce[r])
    /\ userLock' = NoRequest
    /\ seen' = [seen EXCEPT ![r] = NoRequest]
    /\ UNCHANGED <<held, nonce, wake, evicted, evictedInflight, queueVars,
                   timer, hubNonce>>

\* The chain is dropped: its metatx were resolved, or the hub rejected one.
ChainEnds ==
    /\ senders.id <= EndingChains
    /\ senders.id # 0
    /\ senders' = NoChain
    /\ hubNonce' \in hubNonce..senders.next
    /\ UNCHANGED <<lastChain, held, nonce, wake, evicted, evictedInflight, hpc,
                   queueVars, timer, seen, userLock>>

-----------------------------------------------------------------------------
\* The goroutine of a request for a nonce, and that of the metatx once it came.
HandOutRuns(r) ==
    \/ TurnComes(r) \/ ReadCached(r) \/ ReadHub(r) \/ OpenTicket(r)
    \/ FailCloses(r) \/ FailUnregisters(r)

UseRuns(r) == ReadOpenTicket(r) \/ UseCloses(r) \/ UseUnregisters(r) \/ Reserve(r)

TimerRuns(r) == TimerFires(r) \/ TimerUnregisters(r)

\* Everyone asked and nothing is pending but clients that will not send.
Quiet ==
    /\ \A r \in Requests : hpc[r] \in {"answered", "done"} /\ timer[r] \in {"off", "fired"}
    /\ UNCHANGED vars

Next ==
    \/ \E r \in Requests : Ask(r) \/ HandOutRuns(r) \/ TimerRuns(r) \/ Use(r) \/ UseRuns(r)
    \/ ChainEnds
    \/ Quiet

Spec == Init /\ [][Next]_vars

\* Goroutines run and timers fire; no client is assumed to send its metatx.
Fairness ==
    \A r \in Requests : WF_vars(HandOutRuns(r)) /\ WF_vars(TimerRuns(r)) /\ WF_vars(UseRuns(r))

FairSpec == Spec /\ Fairness

-----------------------------------------------------------------------------
(* Properties. *)

HasTurn(r) == hpc[r] \in PastWait /\ ~closed[r]

\* Numbers are handed out one at a time: two clients of a user never both have
\* the turn, although tickets are closed by timers, by failures and by metatx
\* that read the open ticket some steps before they close it
\* (handout.go, HandOutNonce and closeOpenTicket).
OneTurn == \A r, s \in Requests : HasTurn(r) /\ HasTurn(s) => r = s

\* When every ticket is closed and done with, no map keeps one
\* (handout.go, closeTicket).
TicketsCleaned ==
    (\A r \in Requests : /\ hpc[r] \in {"idle", "answered", "done"}
                         /\ timer[r] \in {"off", "fired"})
        => handouts = NoRequest /\ openTickets = NoRequest

\* "ningun cliente queda esperando de forma indefinida": every client that asks
\* is answered or told of a failure, even if nobody ever sends (handout.go).
EveryAskAnswered ==
    \A r \in Requests : (hpc[r] = "queued") ~> (hpc[r] \in {"answered", "done"})

-----------------------------------------------------------------------------
(* What the documents say and the code does not keep. *)

\* "ninguno de los dos recibe un numero que el otro ya tenia": clients whose
\* tickets were not closed by a timer get different numbers (reorder.go, noteSent closes
\* the ticket before it reserves the nonce).
HandedOutOnce ==
    \A r, s \in Requests :
        /\ timer[r] = "armed" /\ timer[s] = "armed"
        /\ nonce[r] = nonce[s]
        => r = s
=============================================================================
