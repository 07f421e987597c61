---------------------------- MODULE HandoutProofs ----------------------------
(***************************************************************************)
(* For any number of clients: nonces are handed out one at a time, and no  *)
(* map keeps a ticket that is done with.                                   *)
(*                                                                         *)
(* The argument: a ticket is closed only after its client had the turn,    *)
(* and a client has the turn only after every ticket before its own is     *)
(* closed.  The map may lose the end of the queue (closeTicket deletes     *)
(* it), but only when the whole queue is closed.                           *)
(***************************************************************************)
EXTENDS Handout, TLAPS

\* Requests that were answered with a number.
Answered == {"answered", "closing", "signal", "unregister", "reserve", "done"}

QueueType ==
    /\ hpc \in [Requests -> HPCs]
    /\ handouts \in Requests \cup {NoRequest}
    /\ openTickets \in Requests \cup {NoRequest}
    /\ previous \in [Requests -> Requests \cup {NoRequest}]
    /\ closed \in [Requests -> BOOLEAN]
    /\ timer \in [Requests -> {"off", "armed", "closed", "fired"}]
    /\ seen \in [Requests -> Requests \cup {NoRequest}]
    /\ asked \in Nat
    /\ order \in [Requests -> Nat]

\* Clients are numbered as they ask.
Numbered ==
    /\ \A r \in Requests : order[r] <= asked
    /\ \A r \in Requests : order[r] = 0 <=> hpc[r] = "idle"
    /\ \A r, s \in Requests : order[r] = order[s] /\ order[r] # 0 => r = s

\* Whoever may close a ticket closes one that had its turn.
Closable ==
    /\ \A r \in Requests : closed[r] => hpc[r] \in PastWait
    /\ \A r \in Requests : timer[r] # "off" => hpc[r] \in Answered
    /\ openTickets # NoRequest => hpc[openTickets] \in Answered
    /\ \A r \in Requests : seen[r] # NoRequest => hpc[seen[r]] \in Answered

\* Whoever is about to take a ticket out of the maps has closed it.
ClosedFirst ==
    /\ \A r \in Requests : hpc[r] = "failedOut" => closed[r]
    /\ \A r \in Requests : timer[r] = "closed" => closed[r]
    /\ \A r \in Requests : hpc[r] = "unregister" => seen[r] # NoRequest /\ closed[seen[r]]

\* A client past the wait has only closed tickets in front of it.
InOrder ==
    \A r, s \in Requests :
        order[r] # 0 /\ order[r] < order[s] /\ hpc[s] \in PastWait => closed[r]

\* The map points at the end of the queue, or the whole queue is closed.
QueueEnd ==
    IF handouts = NoRequest
    THEN \A r \in Requests : order[r] # 0 => closed[r]
    ELSE order[handouts] # 0 /\ \A r \in Requests : order[r] <= order[handouts]

\* A client waits behind the one just before it.
Behind ==
    \A s \in Requests :
        hpc[s] = "queued" =>
            IF previous[s] = NoRequest
            THEN \A r \in Requests : order[r] # 0 /\ order[r] < order[s] => closed[r]
            ELSE /\ order[previous[s]] # 0
                 /\ \A r \in Requests : order[r] < order[s] => order[r] <= order[previous[s]]

QueueInv ==
    QueueType /\ Numbered /\ Closable /\ ClosedFirst /\ InOrder /\ QueueEnd /\ Behind

\* The invariant says that numbers are handed out one at a time.
LEMMA QueueInvOneTurn == QueueInv => OneTurn
  BY DEF QueueInv, QueueType, Numbered, InOrder, OneTurn, HasTurn, PastWait

\* Nobody has asked.
LEMMA QueueInvInit == Init => QueueInv
  BY HandoutAssumption
     DEF Init, QueueInv, QueueType, Numbered, Closable, ClosedFirst, InOrder,
         QueueEnd, Behind, HPCs, PastWait, Answered

\* Taking a place keeps the invariant (HandOutNonce, first section).
LEMMA AskKeeps ==
    ASSUME QueueInv, NEW q \in Requests, Ask(q)
    PROVE  QueueInv'
  <1> USE HandoutAssumption DEF QueueInv, PastWait, Answered
  <1>1. /\ hpc[q] = "idle" /\ order[q] = 0 /\ ~closed[q] /\ timer[q] = "off"
        /\ \A r \in Requests : order[r] <= asked
        BY DEF Ask, Step, Numbered, Closable, QueueType
  <1>2. QueueType'
        BY DEF Ask, Step, QueueType, HPCs
  <1>3. Numbered'
        BY <1>1 DEF Ask, Step, QueueType, Numbered
  <1>4. Closable'
        BY <1>1 DEF Ask, Step, QueueType, Closable
  <1>5. ClosedFirst'
        BY <1>1 DEF Ask, Step, QueueType, ClosedFirst
  <1>6. InOrder'
        BY <1>1 DEF Ask, Step, QueueType, InOrder
  <1>7. QueueEnd'
        BY <1>1 DEF Ask, Step, QueueType, QueueEnd
  <1>8. Behind'
    <2> SUFFICES ASSUME NEW s \in Requests, hpc'[s] = "queued"
                 PROVE  (IF previous[s] = NoRequest
                         THEN \A r \in Requests : order[r] # 0 /\ order[r] < order[s] => closed[r]
                         ELSE /\ order[previous[s]] # 0
                              /\ \A r \in Requests :
                                    order[r] < order[s] => order[r] <= order[previous[s]])'
        BY DEF Behind
    <2>1. CASE s = q
          BY <1>1, <2>1 DEF Ask, Step, QueueType, QueueEnd
    <2>2. CASE s # q
      <3>1. hpc[s] = "queued" /\ previous'[s] = previous[s] /\ order'[s] = order[s]
            BY <2>2 DEF Ask, Step, QueueType
      <3>2. previous[s] # q
            BY <1>1, <3>1 DEF Behind, QueueType
      <3> QED BY <1>1, <2>2, <3>1, <3>2 DEF Ask, Behind, QueueType
    <2> QED BY <2>1, <2>2
  <1> QED BY <1>2, <1>3, <1>4, <1>5, <1>6, <1>7, <1>8

\* The turn comes when everything in front is closed (HandOutNonce, the wait).
LEMMA TurnComesKeeps ==
    ASSUME QueueInv, NEW q \in Requests, TurnComes(q)
    PROVE  QueueInv'
  <1> USE HandoutAssumption DEF QueueInv, PastWait, Answered
  <1>1. \A r \in Requests : order[r] # 0 /\ order[r] < order[q] => closed[r]
    <2>1. CASE previous[q] = NoRequest
          BY <2>1 DEF TurnComes, Step, Behind, QueueType
    <2>2. CASE previous[q] # NoRequest
      <3>1. previous[q] \in Requests /\ closed[previous[q]] /\ hpc[previous[q]] \in PastWait
            BY <2>2 DEF TurnComes, QueueType, Closable
      <3> SUFFICES ASSUME NEW r \in Requests, order[r] # 0, order[r] < order[q]
                   PROVE  closed[r]
          OBVIOUS
      <3>2. order[r] <= order[previous[q]]
            BY <2>2 DEF TurnComes, Step, Behind, QueueType
      <3>3. order[r] = order[previous[q]] => r = previous[q]
            BY <3>1 DEF Numbered
      <3>4. order[r] < order[previous[q]] => closed[r]
            BY <3>1 DEF InOrder
      <3> QED BY <3>1, <3>2, <3>3, <3>4 DEF QueueType
    <2> QED BY <2>1, <2>2
  <1>2. QueueType' /\ Numbered' /\ Closable' /\ ClosedFirst' /\ QueueEnd' /\ Behind'
        BY DEF TurnComes, Step, queueVars, QueueType, HPCs, Numbered, Closable,
               ClosedFirst, QueueEnd, Behind
  <1>3. InOrder'
        BY <1>1 DEF TurnComes, Step, queueVars, QueueType, InOrder
  <1> QED BY <1>2, <1>3

\* A step of a request past the wait that leaves the queue alone keeps the
\* invariant: reading the expected nonce, using the number, reserving it.
LEMMA MovesOn ==
    ASSUME QueueInv, NEW q \in Requests, NEW to \in PastWait,
           hpc[q] \in PastWait, hpc' = [hpc EXCEPT ![q] = to],
           UNCHANGED <<queueVars, timer>>,
           seen' = seen \/ seen' = [seen EXCEPT ![q] = NoRequest]
                        \/ seen' = [seen EXCEPT ![q] = openTickets],
           hpc[q] \in Answered => to \in Answered,
           to # "failedOut", to # "unregister"
    PROVE  QueueInv'
  <1> USE HandoutAssumption DEF QueueInv, PastWait, Answered
  <1>1. QueueType' /\ Numbered' /\ InOrder' /\ QueueEnd' /\ Behind'
        BY DEF queueVars, QueueType, HPCs, Numbered, InOrder, QueueEnd, Behind
  <1>2. \A r \in Requests : /\ hpc[r] \in PastWait => hpc'[r] \in PastWait
                            /\ hpc[r] \in Answered => hpc'[r] \in Answered
        BY DEF QueueType
  <1>3. \A r \in Requests : \/ seen'[r] = seen[r] \/ seen'[r] = NoRequest
                            \/ seen'[r] = openTickets
        BY DEF QueueType
  <1>4. Closable'
    <2>1. \A r \in Requests : closed'[r] => hpc'[r] \in PastWait
          BY <1>2 DEF queueVars, Closable
    <2>2. \A r \in Requests : timer'[r] # "off" => hpc'[r] \in Answered
          BY <1>2 DEF Closable
    <2>3. openTickets' # NoRequest => hpc'[openTickets'] \in Answered
          BY <1>2 DEF queueVars, Closable, QueueType
    <2>4. \A r \in Requests : seen'[r] # NoRequest => hpc'[seen'[r]] \in Answered
          BY <1>2, <1>3 DEF Closable, QueueType
    <2> QED BY <2>1, <2>2, <2>3, <2>4 DEF Closable
  <1>5. ClosedFirst'
    <2>1. \A r \in Requests : hpc'[r] = "unregister" => hpc[r] = "unregister" /\ r # q
          BY DEF QueueType
    <2>2. \A r \in Requests : r # q => seen'[r] = seen[r]
          BY DEF QueueType
    <2>3. \A r \in Requests : hpc'[r] = "failedOut" => hpc[r] = "failedOut"
          BY DEF QueueType
    <2> QED BY <2>1, <2>2, <2>3 DEF queueVars, ClosedFirst
  <1> QED BY <1>1, <1>4, <1>5

\* Opening the ticket keeps the invariant (HandOutNonce, second section).
LEMMA OpenTicketKeeps ==
    ASSUME QueueInv, NEW q \in Requests, OpenTicket(q)
    PROVE  QueueInv'
  <1> USE HandoutAssumption DEF QueueInv, PastWait, Answered
  <1>1. QueueType' /\ Numbered' /\ InOrder' /\ QueueEnd' /\ Behind'
        BY DEF OpenTicket, Step, QueueType, HPCs, Numbered, InOrder, QueueEnd, Behind
  <1>2. Closable'
        BY DEF OpenTicket, Step, QueueType, Closable
  <1>3. ClosedFirst'
        BY DEF OpenTicket, Step, QueueType, ClosedFirst
  <1> QED BY <1>1, <1>2, <1>3

\* A step of q that closes the channel of ticket t, by any of the three callers
\* of closeTicket, and the one that takes it out of the maps.
Closes(q, t) ==
    /\ CloseChannel(t)
    /\ UNCHANGED <<handouts, openTickets, previous, asked, order, seen>>
    /\ hpc' \in [Requests -> HPCs]
    /\ timer' \in [Requests -> {"off", "armed", "closed", "fired"}]
    /\ \A r \in Requests : r # q => hpc'[r] = hpc[r]
    /\ \/ hpc'[q] = hpc[q]
       \/ hpc[q] = "failed" /\ hpc'[q] = "failedOut" /\ q = t
       \/ hpc[q] = "signal" /\ hpc'[q] = "unregister" /\ seen[q] = t
    /\ \A r \in Requests : r # t => timer'[r] = timer[r]
    /\ timer'[t] = timer[t] \/ timer[t] = "armed"

Unregisters(q, t) ==
    /\ Unregister(t)
    /\ UNCHANGED <<previous, closed, asked, order, seen>>
    /\ hpc' \in [Requests -> HPCs]
    /\ timer' \in [Requests -> {"off", "armed", "closed", "fired"}]
    /\ \A r \in Requests : r # q => hpc'[r] = hpc[r]
    /\ \/ hpc'[q] = hpc[q]
       \/ hpc[q] = "failedOut" /\ hpc'[q] = "done"
       \/ hpc[q] = "unregister" /\ hpc'[q] = "reserve"
    /\ \A r \in Requests : r # t => timer'[r] = timer[r]
    /\ timer'[t] = timer[t] \/ (timer[t] # "off" /\ timer'[t] = "fired")

\* Closing a ticket that had its turn keeps what the queue says of it: it only
\* helps those behind (closeTicket, the channel).
LEMMA CloseKeeps ==
    ASSUME QueueInv, NEW q \in Requests, NEW t \in Requests, hpc[t] \in PastWait, Closes(q, t)
    PROVE  QueueInv'
  <1> USE HandoutAssumption DEF QueueInv, Closes, PastWait, Answered
  <1>1. closed' \in [Requests -> BOOLEAN] /\ closed'[t]
        BY DEF CloseChannel, QueueType
  <1>2. \A r \in Requests : closed[r] => closed'[r]
        BY DEF CloseChannel, QueueType
  <1>3. \A r \in Requests : closed'[r] => closed[r] \/ r = t
        BY DEF CloseChannel, QueueType
  <1>4. \A r \in Requests : /\ hpc[r] \in PastWait <=> hpc'[r] \in PastWait
                            /\ hpc[r] \in Answered => hpc'[r] \in Answered
                            /\ hpc[r] = "idle" <=> hpc'[r] = "idle"
                            /\ hpc'[r] = "queued" => hpc[r] = "queued"
        OBVIOUS
  <1>5. QueueType'
        BY <1>1 DEF QueueType
  <1>6. Numbered'
        BY <1>4 DEF Numbered
  <1>7. Closable'
        BY <1>3, <1>4 DEF Closable, QueueType
  <1>8. ClosedFirst'
        BY <1>1, <1>2 DEF ClosedFirst, QueueType
  <1>9. InOrder'
        BY <1>2, <1>4 DEF InOrder
  <1>10. QueueEnd'
         BY <1>2 DEF QueueEnd
  <1>11. Behind'
         BY <1>2, <1>4 DEF Behind
  <1> QED BY <1>5, <1>6, <1>7, <1>8, <1>9, <1>10, <1>11

\* Taking a closed ticket out of the maps keeps the invariant: if it was the
\* end of the queue, the whole queue is closed (closeTicket, the maps).
LEMMA UnregisterKeeps ==
    ASSUME QueueInv, NEW q \in Requests, NEW t \in Requests, closed[t], Unregisters(q, t)
    PROVE  QueueInv'
  <1> USE HandoutAssumption DEF QueueInv, Unregisters, PastWait, Answered
  <1>1. \A r \in Requests : /\ hpc[r] \in PastWait <=> hpc'[r] \in PastWait
                            /\ hpc[r] \in Answered => hpc'[r] \in Answered
                            /\ hpc[r] = "idle" <=> hpc'[r] = "idle"
                            /\ hpc'[r] = "queued" => hpc[r] = "queued"
        OBVIOUS
  <1>2. hpc[t] \in PastWait
        BY DEF Closable
  <1>3. QueueType'
        BY DEF QueueType, Unregister
  <1>4. Numbered' /\ InOrder'
        BY <1>1 DEF Numbered, InOrder
  <1>5. Closable'
        BY <1>1 DEF Closable, QueueType, Unregister
  <1>6. ClosedFirst'
        BY DEF ClosedFirst, QueueType
  <1>7. Behind'
        BY <1>1 DEF Behind
  <1>8. QueueEnd'
    <2>1. CASE handouts # t
          BY <2>1 DEF QueueEnd, Unregister
    <2>2. CASE handouts = t
      <3>1. handouts' = NoRequest /\ t # NoRequest
            BY <2>2 DEF Unregister
      <3>2. \A r \in Requests : order[r] # 0 => closed[r]
        <4> SUFFICES ASSUME NEW r \in Requests, order[r] # 0 PROVE closed[r]
            OBVIOUS
        <4>1. order[r] <= order[t]
              BY <2>2, <3>1 DEF QueueEnd
        <4>2. order[r] = order[t] => r = t
              BY DEF Numbered
        <4>3. order[r] < order[t] => closed[r]
              BY <1>2 DEF InOrder
        <4> QED BY <4>1, <4>2, <4>3 DEF QueueType
      <3> QED BY <3>1, <3>2 DEF QueueEnd
    <2> QED BY <2>1, <2>2
  <1> QED BY <1>3, <1>4, <1>5, <1>6, <1>7, <1>8

\* The invariant of the queue of tickets holds in every reachable state.
THEOREM QueueInvariant == Spec => []QueueInv
  <1>1. ASSUME QueueInv, [Next]_vars PROVE QueueInv'
    <2> USE HandoutAssumption
    <2>1. QueueType /\ Closable /\ ClosedFirst
          BY <1>1 DEF QueueInv
    <2>2. ASSUME NEW q \in Requests, Ask(q) PROVE QueueInv'
          BY <1>1, <2>2, AskKeeps
    <2>3. ASSUME NEW q \in Requests, HandOutRuns(q) PROVE QueueInv'
      <3>1. CASE TurnComes(q)
            BY <1>1, <3>1, TurnComesKeeps
      <3>2. CASE ReadCached(q) \/ ReadHub(q)
        <4>1. PICK to \in {"open", "readHub", "failed"} :
                 /\ hpc[q] \in {"read", "readHub"} /\ hpc' = [hpc EXCEPT ![q] = to]
                 /\ UNCHANGED <<queueVars, timer, seen>>
              BY <3>2 DEF ReadCached, ReadHub, Step
        <4> QED BY <1>1, <4>1, MovesOn DEF PastWait, Answered
      <3>3. CASE OpenTicket(q)
            BY <1>1, <3>3, OpenTicketKeeps
      <3>4. CASE FailCloses(q)
        <4>1. hpc[q] \in PastWait /\ Closes(q, q)
              BY <2>1, <3>4 DEF FailCloses, Step, Closes, CloseChannel, QueueType, HPCs, PastWait
        <4> QED BY <1>1, <4>1, CloseKeeps
      <3>5. CASE FailUnregisters(q)
        <4>1. closed[q] /\ Unregisters(q, q)
              BY <2>1, <3>5
                 DEF FailUnregisters, Step, Unregisters, Unregister, QueueType, HPCs, PastWait, ClosedFirst
        <4> QED BY <1>1, <4>1, UnregisterKeeps
      <3> QED BY <2>3, <3>1, <3>2, <3>3, <3>4, <3>5 DEF HandOutRuns
    <2>4. ASSUME NEW q \in Requests, TimerFires(q) PROVE QueueInv'
      <3>1. hpc[q] \in PastWait
            BY <2>1, <2>4 DEF TimerFires, Closable, PastWait, Answered
      <3>2. Closes(q, q)
        <4>1. CloseChannel(q) /\ UNCHANGED <<hpc, handouts, openTickets, previous, asked, order, seen>>
              BY <2>4 DEF TimerFires
        <4>2. timer' = [timer EXCEPT ![q] = "closed"] /\ timer[q] = "armed"
              BY <2>4 DEF TimerFires
        <4>3. hpc' \in [Requests -> HPCs] /\ timer' \in [Requests -> {"off", "armed", "closed", "fired"}]
              BY <2>1, <4>1, <4>2 DEF QueueType
        <4>4. \A r \in Requests : r # q => timer'[r] = timer[r]
              BY <2>1, <4>2 DEF QueueType
        <4> QED BY <4>1, <4>2, <4>3, <4>4 DEF Closes
      <3> QED BY <1>1, <3>1, <3>2, CloseKeeps
    <2>5. ASSUME NEW q \in Requests, TimerUnregisters(q) PROVE QueueInv'
      <3>1. closed[q] /\ Unregisters(q, q)
            BY <2>1, <2>5 DEF TimerUnregisters, Unregisters, Unregister, ClosedFirst, QueueType
      <3> QED BY <1>1, <3>1, UnregisterKeeps
    <2>6. ASSUME NEW q \in Requests, Use(q) PROVE QueueInv'
      <3>1. PICK to \in {"closing", "done"} :
                 /\ hpc[q] = "answered" /\ hpc' = [hpc EXCEPT ![q] = to]
                 /\ UNCHANGED <<queueVars, timer, seen>>
            BY <2>6 DEF Use, Step
      <3> QED BY <1>1, <3>1, MovesOn DEF PastWait, Answered
    <2>7. ASSUME NEW q \in Requests, UseRuns(q) PROVE QueueInv'
      <3>1. CASE ReadOpenTicket(q)
            BY <1>1, <3>1, MovesOn DEF ReadOpenTicket, Step, PastWait, Answered
      <3>2. CASE UseCloses(q) /\ seen[q] = NoRequest
            BY <1>1, <3>2, MovesOn DEF UseCloses, Step, PastWait, Answered, queueVars
      <3>3. CASE UseCloses(q) /\ seen[q] # NoRequest
        <4>1. PICK t \in Requests : t = seen[q]
              BY <2>1, <3>3 DEF QueueType
        <4>2. hpc[t] \in PastWait /\ CloseChannel(t)
              BY <2>1, <3>3, <4>1 DEF Closable, UseCloses, PastWait, Answered
        <4>3. Closes(q, t)
              BY <2>1, <3>3, <4>1, <4>2
                 DEF UseCloses, Step, Closes, CloseChannel, QueueType, HPCs, PastWait
        <4> QED BY <1>1, <4>2, <4>3, CloseKeeps
      <3>4. CASE UseUnregisters(q)
        <4>1. PICK t \in Requests : t = seen[q] /\ closed[t]
              BY <2>1, <3>4 DEF UseUnregisters, Step, QueueType, ClosedFirst
        <4>2. Unregisters(q, t)
              BY <2>1, <3>4, <4>1
                 DEF UseUnregisters, Step, Unregisters, Unregister, QueueType, HPCs, PastWait
        <4> QED BY <1>1, <4>1, <4>2, UnregisterKeeps
      <3>5. CASE Reserve(q)
            BY <1>1, <3>5, MovesOn DEF Reserve, Step, PastWait, Answered
      <3> QED BY <2>7, <3>1, <3>2, <3>3, <3>4, <3>5 DEF UseRuns
    <2>8. CASE UNCHANGED <<hpc, queueVars, timer, seen>>
          BY <1>1, <2>8 DEF queueVars, QueueInv, QueueType, Numbered, Closable,
                            ClosedFirst, InOrder, QueueEnd, Behind
    <2>9. ChainEnds \/ Quiet \/ UNCHANGED vars => UNCHANGED <<hpc, queueVars, timer, seen>>
          BY DEF ChainEnds, Quiet, vars
    <2> QED BY <1>1, <2>2, <2>3, <2>4, <2>5, <2>6, <2>7, <2>8, <2>9 DEF Next, TimerRuns
  <1> QED BY <1>1, QueueInvInit, PTL DEF Spec

\* For any number of clients of a user, two never have the turn at once
\* (handout.go, HandOutNonce).
THEOREM OneTurnCorrect == Spec => []OneTurn
  BY QueueInvariant, QueueInvOneTurn, PTL

-----------------------------------------------------------------------------
(* Type correctness. *)

\* The part of the type invariant that the queue does not need.
ChainType ==
    /\ TrackerTypeOK
    /\ userLock \in Requests \cup {NoRequest}
    /\ hubNonce \in Nat

\* A look-up leaves a chain (tracker.go, chainLocked).
LEMMA LookUpType ==
    ASSUME senders \in Chain
    PROVE  chainLocked \in Chain /\ NoChain \in Chain
  BY DEF chainLocked, NoChain, Chain

\* A reservation leaves a chain (tracker.go, reserveLocked).
LEMMA ReservationType ==
    ASSUME senders \in Chain, lastChain \in Nat, NEW n \in Nat, reserveLocked(n)
    PROVE  senders' \in Chain /\ lastChain' \in Nat
  <1>1. chainLocked \in Chain
        BY LookUpType
  <1>2. CASE chainLocked.id = 0
    <2>1. /\ senders' = [id |-> lastChain + 1, next |-> n + 1, pending |-> 1,
                         expiry |-> FALSE, old |-> FALSE]
          /\ lastChain' = lastChain + 1
          BY <1>2 DEF reserveLocked
    <2> QED BY <2>1 DEF Chain
  <1>3. CASE chainLocked.id # 0
    <2> DEFINE ahead == IF chainLocked.next > n + 1 THEN chainLocked.next ELSE n + 1
    <2>1. ahead \in Nat /\ chainLocked.pending + 1 \in Nat
          BY <1>1 DEF Chain
    <2>2. /\ senders' = [chainLocked EXCEPT !.next = ahead, !.pending = @ + 1, !.expiry = FALSE]
          /\ lastChain' = lastChain
          BY <1>3 DEF reserveLocked
    <2> QED BY <1>1, <2>1, <2>2 DEF Chain
  <1> QED BY <1>2, <1>3

\* Whatever a step does to the chain, to a client's number and to the lock is
\* of their type.
LEMMA ChainTypeKeeps == ASSUME ChainType, [Next]_vars PROVE ChainType'
  <1> USE HandoutAssumption DEF ChainType, TrackerTypeOK
  <1>l. chainLocked \in Chain /\ NoChain \in Chain
        BY LookUpType
  <1>1. CASE UNCHANGED <<trackerVars, userLock, hubNonce>>
        BY <1>1 DEF trackerVars
  <1>2. ASSUME NEW r \in Requests, ReadCached(r) PROVE ChainType'
    <2>1. chainLocked.next \in Nat
          BY <1>l DEF Chain
    <2>2. nonce' \in [Requests -> Nat]
          BY <1>2, <2>1 DEF ReadCached
    <2> QED BY <1>2, <1>l, <2>2 DEF ReadCached
  <1>3. ASSUME NEW r \in Requests, ReadHub(r) PROVE ChainType'
        BY <1>3 DEF ReadHub
  <1>4. ASSUME NEW r \in Requests, Use(r) PROVE ChainType'
    <2>1. senders' \in Chain /\ userLock' \in Requests \cup {NoRequest}
          BY <1>4, <1>l DEF Use
    <2> QED BY <1>4, <2>1 DEF Use
  <1>5. ASSUME NEW r \in Requests, Reserve(r) PROVE ChainType'
    <2>1. nonce[r] \in Nat
          OBVIOUS
    <2>2. senders' \in Chain /\ lastChain' \in Nat
          BY <1>5, <2>1, ReservationType DEF Reserve
    <2> QED BY <1>5, <2>2 DEF Reserve
  <1>6. CASE ChainEnds
    <2>1. senders.next \in Nat
          BY DEF Chain
    <2>2. hubNonce' \in Nat
          BY <1>6, <2>1 DEF ChainEnds
    <2> QED BY <1>6, <1>l, <2>2 DEF ChainEnds
  <1>7. ASSUME NEW r \in Requests,
               \/ Ask(r) \/ TurnComes(r) \/ OpenTicket(r) \/ FailCloses(r) \/ FailUnregisters(r)
               \/ TimerRuns(r) \/ ReadOpenTicket(r) \/ UseCloses(r) \/ UseUnregisters(r)
        PROVE  UNCHANGED <<trackerVars, userLock, hubNonce>>
        BY <1>7 DEF Ask, TurnComes, OpenTicket, FailCloses, FailUnregisters, TimerRuns,
                    TimerFires, TimerUnregisters, ReadOpenTicket, UseCloses, UseUnregisters
  <1>8. Quiet \/ UNCHANGED vars => UNCHANGED <<trackerVars, userLock, hubNonce>>
        BY DEF Quiet, vars
  <1> QED BY <1>1, <1>2, <1>3, <1>4, <1>5, <1>6, <1>7, <1>8 DEF Next, HandOutRuns, UseRuns

\* For any number of clients the state of the handout is well typed: every
\* number given to a client is one, a failed read never is (handout.go).
THEOREM TypeCorrect == Spec => []TypeOK
  <1>1. Init => ChainType
    <2> SUFFICES ASSUME Init PROVE ChainType
        OBVIOUS
    <2>1. NoChain \in Chain
          BY DEF NoChain, Chain
    <2> QED BY <2>1 DEF Init, TrackerInit, ChainType, TrackerTypeOK
  <1>2. ChainType /\ [Next]_vars => ChainType'
        BY ChainTypeKeeps
  <1>3. QueueInv /\ ChainType => TypeOK
        BY DEF QueueInv, QueueType, ChainType, TypeOK
  <1> QED BY <1>1, <1>2, <1>3, QueueInvariant, PTL DEF Spec

-----------------------------------------------------------------------------
(* No map keeps a ticket that is done with. *)

Unanswered == {"queued", "read", "readHub", "failed", "failedOut", "open"}

\* Somebody is still to close the ticket or to take it out of the maps: the
\* client itself, or the timer.
Pending(t) == hpc[t] \in Unanswered \/ timer[t] \in {"armed", "closed"}

\* The metatx that uses a number is not counted on: it may find the maps
\* without its ticket, or never come.
CleanInv ==
    /\ handouts # NoRequest => Pending(handouts)
    /\ openTickets # NoRequest => timer[openTickets] \in {"armed", "closed"}

LEMMA CleanKeeps == ASSUME QueueType, CleanInv, [Next]_vars PROVE CleanInv'
  <1> USE HandoutAssumption DEF QueueType, CleanInv, Pending, Unanswered, Step
  <1>1. ASSUME NEW r \in Requests, Ask(r) PROVE CleanInv'
        BY <1>1 DEF Ask
  <1>2. ASSUME NEW r \in Requests, TurnComes(r) \/ ReadCached(r) \/ ReadHub(r) PROVE CleanInv'
        BY <1>2 DEF TurnComes, ReadCached, ReadHub, queueVars
  <1>3. ASSUME NEW r \in Requests, OpenTicket(r) PROVE CleanInv'
        BY <1>3 DEF OpenTicket
  <1>4. ASSUME NEW r \in Requests, FailCloses(r) PROVE CleanInv'
        BY <1>4 DEF FailCloses
  <1>5. ASSUME NEW r \in Requests, FailUnregisters(r) PROVE CleanInv'
        BY <1>5 DEF FailUnregisters, Unregister
  <1>6. ASSUME NEW r \in Requests, TimerFires(r) PROVE CleanInv'
        BY <1>6 DEF TimerFires
  <1>7. ASSUME NEW r \in Requests, TimerUnregisters(r) PROVE CleanInv'
        BY <1>7 DEF TimerUnregisters, Unregister
  <1>8. ASSUME NEW r \in Requests, Use(r) PROVE CleanInv'
    <2>1. /\ hpc[r] = "answered" /\ \A s \in Requests : s # r => hpc'[s] = hpc[s]
          /\ UNCHANGED <<handouts, openTickets, timer>>
          BY <1>8 DEF Use, queueVars
    <2> QED BY <2>1
  <1>9. ASSUME NEW r \in Requests, ReadOpenTicket(r) \/ UseCloses(r) \/ Reserve(r) PROVE CleanInv'
    <2>1. /\ hpc[r] \in {"closing", "signal", "reserve"}
          /\ \A s \in Requests : s # r => hpc'[s] = hpc[s]
          /\ UNCHANGED <<handouts, openTickets, timer>>
          BY <1>9 DEF ReadOpenTicket, UseCloses, Reserve, queueVars
    <2> QED BY <2>1
  <1>10. ASSUME NEW r \in Requests, UseUnregisters(r) PROVE CleanInv'
        BY <1>10 DEF UseUnregisters, Unregister
  <1>11. CASE UNCHANGED <<hpc, queueVars, timer>>
        BY <1>11 DEF queueVars
  <1>12. ChainEnds \/ Quiet \/ UNCHANGED vars => UNCHANGED <<hpc, queueVars, timer>>
        BY DEF ChainEnds, Quiet, vars
  <1> QED BY <1>1, <1>2, <1>3, <1>4, <1>5, <1>6, <1>7, <1>8, <1>9, <1>10, <1>11, <1>12
          DEF Next, HandOutRuns, TimerRuns, UseRuns

\* For any number of clients, whatever fails and whoever does not send, no map
\* keeps a ticket when all of them are done with (handout.go, closeTicket).
THEOREM TicketsCleanedCorrect == Spec => []TicketsCleaned
  <1>1. Init => CleanInv
        BY DEF Init, CleanInv
  <1>2. QueueInv /\ CleanInv /\ [Next]_vars => CleanInv'
        BY CleanKeeps DEF QueueInv
  <1>3. QueueInv /\ CleanInv => TicketsCleaned
        BY DEF QueueInv, QueueType, CleanInv, Pending, Unanswered, TicketsCleaned
  <1> QED BY <1>1, <1>2, <1>3, QueueInvariant, PTL DEF Spec
=============================================================================
