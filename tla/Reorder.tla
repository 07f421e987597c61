------------------------------- MODULE Reorder -------------------------------
(***************************************************************************)
(* The sending path with reordering enabled (service/reorder.go and        *)
(* service/reorder_turn.go): each metatx of the user is a goroutine that   *)
(* passes the door (makeRoomFor), waits for its turn (awaitTurn), takes    *)
(* the user's lock, checks its nonce again, and sends.                     *)
(*                                                                         *)
(* The RelayHub and the writer node's transaction pool appear as the       *)
(* nonce the hub expects of the user (hubNonce) and the sequence of sent   *)
(* transactions in account-nonce order (sent).                             *)
(*                                                                         *)
(* Time is abstracted to the moments at which a timer fires.  A request's  *)
(* deadline passing is only noticed when it wakes up, so it is enough to   *)
(* let it pass while the request sleeps.                                   *)
(***************************************************************************)
EXTENDS Tracker

CONSTANTS
    Nonces,         \* the nonces a client may sign
    NodeMayFail,    \* the node may refuse a read, a gas reservation or a send
    NoRequest       \* not a request: the user's lock is free

ASSUME ReorderAssumption ==
    /\ Nonces \subseteq Nat
    /\ NodeMayFail \in BOOLEAN
    /\ NoRequest \notin Requests

VARIABLES
    pc,             \* where each request's goroutine is
    expected,       \* awaitTurn: the expected nonce it read last
    lastExpected,   \* awaitTurn: the one that last renewed the window, -1 if none
    timedOut,       \* awaitTurn: the deadline has passed
    result,         \* the answer the client gets
    reported,       \* the "inflight" of a TOO_MANY_INFLIGHT answer
    userLock,       \* the holder of the user's lock
    sent,           \* requests whose transaction reached the pool, in account order
    hubNonce,       \* the nonce the RelayHub expects of the user
    chainSent       \* the chain each sent request was reserved on, 0 before that

requestVars == <<pc, expected, lastExpected, timedOut, result, reported>>
reorderVars == <<trackerVars, requestVars, userLock, sent, hubNonce, chainSent>>

Waiting == {"turn", "turnHub", "decide", "surplus", "arm", "asleep"}
Locked  == {"expect", "expectHub", "send", "failed", "note", "remember"}
PCs     == {"idle", "lock", "done"} \cup Waiting \cup Locked
Results == {"none", "SENT", "BAD_NONCE", "TOO_MANY_INFLIGHT", "RELAY_ERROR"}

ReorderTypeOK ==
    /\ TrackerTypeOK
    /\ pc \in [Requests -> PCs]
    /\ expected \in [Requests -> Nat]
    /\ lastExpected \in [Requests -> Nat \cup {-1}]
    /\ timedOut \in [Requests -> BOOLEAN]
    /\ result \in [Requests -> Results]
    /\ reported \in [Requests -> Nat]
    /\ userLock \in Requests \cup {NoRequest}
    /\ sent \in Seq(Requests)
    /\ hubNonce \in Nat
    /\ chainSent \in [Requests -> Nat]

ReorderInit ==
    /\ TrackerInit
    /\ pc = [r \in Requests |-> "idle"]
    /\ expected = [r \in Requests |-> 0]
    /\ lastExpected = [r \in Requests |-> -1]
    /\ timedOut = [r \in Requests |-> FALSE]
    /\ result = [r \in Requests |-> "none"]
    /\ reported = [r \in Requests |-> 0]
    /\ userLock = NoRequest
    /\ sent = <<>>
    /\ hubNonce = 0
    /\ chainSent = [r \in Requests |-> 0]

-----------------------------------------------------------------------------
(* Steps shared by the actions below. *)

Goto(r, l) == pc' = [pc EXCEPT ![r] = l]

\* The request ends with an answer; what awaitTurn kept on its stack is gone.
Answer(r, code) ==
    /\ Goto(r, "done")
    /\ result' = [result EXCEPT ![r] = code]
    /\ expected' = [expected EXCEPT ![r] = 0]
    /\ lastExpected' = [lastExpected EXCEPT ![r] = -1]
    /\ timedOut' = [timedOut EXCEPT ![r] = FALSE]

\* tooManyInflight: the answer carries how many were in flight.
RejectSurplus(r, inflight) ==
    /\ Answer(r, "TOO_MANY_INFLIGHT")
    /\ reported' = [reported EXCEPT ![r] = inflight]

\* The wait is over, not necessarily with the right nonce: the sending path
\* checks it again under the user's lock.
EndWait(r) ==
    /\ Goto(r, "lock")
    /\ held' = Unheld(r)
    /\ expected' = [expected EXCEPT ![r] = 0]
    /\ lastExpected' = [lastExpected EXCEPT ![r] = -1]
    /\ timedOut' = [timedOut EXCEPT ![r] = FALSE]

-----------------------------------------------------------------------------
(* sendReordered up to the wait. *)

\* makeRoomFor for a metatx that arrives with nonce n.  With the quota full,
\* the one of highest nonce among the arriving and the held is the surplus.
Arrive(r, n) ==
    /\ pc[r] = "idle"
    /\ nonce' = [nonce EXCEPT ![r] = n]
    /\ senders' = chainLocked
    /\ \/ /\ inflightLocked < MaxInflight
          /\ Goto(r, "turn")
          /\ UNCHANGED <<held, wake, evicted, evictedInflight, expected,
                         lastExpected, timedOut, result, reported>>
       \/ /\ inflightLocked >= MaxInflight
          /\ held # <<>> => n >= nonce[highestHeldLocked]
          /\ RejectSurplus(r, inflightLocked)
          /\ UNCHANGED <<held, wake, evicted, evictedInflight>>
       \/ /\ inflightLocked >= MaxInflight
          /\ held # <<>> /\ n < nonce[highestHeldLocked]
          /\ evictHeldLocked(highestHeldLocked)
          /\ Goto(r, "turn")
          /\ UNCHANGED <<expected, lastExpected, timedOut, result, reported>>
    /\ UNCHANGED <<lastChain, userLock, sent, hubNonce, chainSent>>

-----------------------------------------------------------------------------
(* awaitTurn. *)

\* expectedNonce, first half: the tracker answers when it has a live chain.
TurnCached(r) ==
    /\ pc[r] = "turn"
    /\ senders' = chainLocked
    /\ IF chainLocked.id # 0
       THEN /\ expected' = [expected EXCEPT ![r] = chainLocked.next]
            /\ Goto(r, "decide")
       ELSE /\ Goto(r, "turnHub")
            /\ UNCHANGED expected
    /\ UNCHANGED <<lastChain, held, nonce, wake, evicted, evictedInflight,
                   lastExpected, timedOut, result, reported,
                   userLock, sent, hubNonce, chainSent>>

\* expectedNonce, second half: the hub is asked, without any lock.
TurnHub(r) ==
    /\ pc[r] = "turnHub"
    /\ \/ /\ expected' = [expected EXCEPT ![r] = hubNonce]
          /\ Goto(r, "decide")
          /\ UNCHANGED <<held, lastExpected, timedOut, result>>
       \/ /\ NodeMayFail
          /\ held' = Unheld(r)
          /\ Answer(r, "RELAY_ERROR")
    /\ UNCHANGED <<senders, lastChain, nonce, wake, evicted, evictedInflight,
                   reported, userLock, sent, hubNonce, chainSent>>

Renews(r) == expected[r] > lastExpected[r]

\* In turn: the request is released and goes on to send.
TurnInTurn(r) ==
    /\ pc[r] = "decide"
    /\ nonce[r] <= expected[r]
    /\ EndWait(r)
    /\ UNCHANGED <<senders, lastChain, nonce, wake, evicted, evictedInflight,
                   result, reported, userLock, sent, hubNonce, chainSent>>

\* Ahead of its turn: it is held (once), and an expected nonce that advanced
\* renews the window.
TurnHold(r) ==
    /\ pc[r] = "decide"
    /\ nonce[r] > expected[r]
    /\ timedOut[r] => Renews(r)
    /\ held' = IF lastExpected[r] = -1 THEN Append(held, r) ELSE held
    /\ lastExpected' = [lastExpected EXCEPT ![r] = IF Renews(r) THEN expected[r] ELSE @]
    /\ timedOut' = [timedOut EXCEPT ![r] = FALSE]
    /\ Goto(r, "surplus")
    /\ UNCHANGED <<senders, lastChain, nonce, wake, evicted, evictedInflight,
                   expected, result, reported, userLock, sent, hubNonce, chainSent>>

\* window_expired: nothing advanced during the whole window.
TurnExpired(r) ==
    /\ pc[r] = "decide"
    /\ nonce[r] > expected[r]
    /\ ~Renews(r) /\ timedOut[r]
    /\ EndWait(r)
    /\ UNCHANGED <<senders, lastChain, nonce, wake, evicted, evictedInflight,
                   result, reported, userLock, sent, hubNonce, chainSent>>

\* surplusHeld: past the quota, the held metatx of highest nonce goes.
TurnSurplus(r) ==
    /\ pc[r] = "surplus"
    /\ senders' = chainLocked
    /\ IF inflightLocked > MaxInflight /\ held # <<>> /\ highestHeldLocked = r
       THEN /\ held' = Unheld(r)
            /\ RejectSurplus(r, inflightLocked)
       ELSE /\ Goto(r, "arm")
            /\ UNCHANGED <<held, expected, lastExpected, timedOut, result, reported>>
    /\ UNCHANGED <<lastChain, nonce, wake, evicted, evictedInflight,
                   userLock, sent, hubNonce, chainSent>>

\* waitTurnLocked: a channel of its own for this round of the wait.
TurnSleep(r) ==
    /\ pc[r] = "arm"
    /\ wake' = [wake EXCEPT ![r] = "open"]
    /\ Goto(r, "asleep")
    /\ UNCHANGED <<senders, lastChain, held, nonce, evicted, evictedInflight,
                   expected, lastExpected, timedOut, result, reported,
                   userLock, sent, hubNonce, chainSent>>

\* The window runs out while the request sleeps.
DeadlinePasses(r) ==
    /\ pc[r] = "asleep"
    /\ ~timedOut[r]
    /\ timedOut' = [timedOut EXCEPT ![r] = TRUE]
    /\ UNCHANGED <<trackerVars, pc, expected, lastExpected, result, reported,
                   userLock, sent, hubNonce, chainSent>>

\* Faulty variants of TurnWake: only the channel ends the sleep, so a wake-up
\* that was missed is missed for ever; the count is taken when waking up.
TurnWakeByChannel(r) ==
    /\ pc[r] = "asleep"
    /\ wake[r] = "closed"
    /\ wake' = [wake EXCEPT ![r] = "nil"]
    /\ Goto(r, "turn")
    /\ UNCHANGED <<senders, lastChain, held, nonce, evicted, evictedInflight,
                   expected, lastExpected, timedOut, result, reported,
                   userLock, sent, hubNonce, chainSent>>

TurnWakeCountsNow(r) ==
    /\ pc[r] = "asleep"
    /\ wake[r] = "closed" \/ timedOut[r]
    /\ wake' = [wake EXCEPT ![r] = "nil"]
    /\ IF evicted[r]
       THEN RejectSurplus(r, inflightLocked)
       ELSE /\ Goto(r, "turn")
            /\ UNCHANGED <<expected, lastExpected, timedOut, result, reported>>
    /\ UNCHANGED <<senders, lastChain, held, nonce, evicted, evictedInflight,
                   userLock, sent, hubNonce, chainSent>>

\* The select ends by the channel or by the timer; stopWaitingLocked, and an
\* evicted request leaves with the quota that justified the eviction.
TurnWake(r) ==
    /\ pc[r] = "asleep"
    /\ wake[r] = "closed" \/ timedOut[r]
    /\ wake' = [wake EXCEPT ![r] = "nil"]
    /\ senders' = chainLocked
    /\ IF evicted[r]
       THEN /\ held' = Unheld(r)
            /\ RejectSurplus(r, evictedInflight[r])
       ELSE /\ Goto(r, "turn")
            /\ UNCHANGED <<held, expected, lastExpected, timedOut, result, reported>>
    /\ UNCHANGED <<lastChain, nonce, evicted, evictedInflight,
                   userLock, sent, hubNonce, chainSent>>

\* Faulty variant: the client leaves and its place in the registry stays.
ClientGoneKeepsPlace(r) ==
    /\ pc[r] = "asleep"
    /\ wake' = [wake EXCEPT ![r] = "nil"]
    /\ Answer(r, "RELAY_ERROR")
    /\ UNCHANGED <<senders, lastChain, held, nonce, evicted, evictedInflight,
                   reported, userLock, sent, hubNonce, chainSent>>

\* The select ends because the client closed the connection.
ClientGone(r) ==
    /\ pc[r] = "asleep"
    /\ wake' = [wake EXCEPT ![r] = "nil"]
    /\ held' = Unheld(r)
    /\ Answer(r, "RELAY_ERROR")
    /\ UNCHANGED <<senders, lastChain, nonce, evicted, evictedInflight,
                   reported, userLock, sent, hubNonce, chainSent>>

-----------------------------------------------------------------------------
(* sendReordered under the user's lock. *)

\* Faulty variant: the lock does not exclude.
lockUserShared(r) ==
    /\ pc[r] = "lock"
    /\ userLock' = r
    /\ Goto(r, "expect")
    /\ UNCHANGED <<trackerVars, expected, lastExpected, timedOut, result,
                   reported, sent, hubNonce, chainSent>>

lockUser(r) ==
    /\ pc[r] = "lock"
    /\ userLock = NoRequest
    /\ userLock' = r
    /\ Goto(r, "expect")
    /\ UNCHANGED <<trackerVars, expected, lastExpected, timedOut, result,
                   reported, sent, hubNonce, chainSent>>

\* Faulty variant: a nonce that is already behind is sent too.
ValidateAtMost(r, e) ==
    IF nonce[r] <= e
    THEN /\ Goto(r, "send")
         /\ UNCHANGED <<userLock, expected, lastExpected, timedOut, result>>
    ELSE /\ Answer(r, "BAD_NONCE")
         /\ userLock' = NoRequest

\* The nonce against the expected one e: only an exact match is sent.
Validate(r, e) ==
    IF nonce[r] = e
    THEN /\ Goto(r, "send")
         /\ UNCHANGED <<userLock, expected, lastExpected, timedOut, result>>
    ELSE /\ Answer(r, "BAD_NONCE")
         /\ userLock' = NoRequest

ExpectCached(r) ==
    /\ pc[r] = "expect"
    /\ senders' = chainLocked
    /\ IF chainLocked.id # 0
       THEN Validate(r, chainLocked.next)
       ELSE /\ Goto(r, "expectHub")
            /\ UNCHANGED <<userLock, expected, lastExpected, timedOut, result>>
    /\ UNCHANGED <<lastChain, held, nonce, wake, evicted, evictedInflight,
                   reported, sent, hubNonce, chainSent>>

ExpectHub(r) ==
    /\ pc[r] = "expectHub"
    /\ \/ Validate(r, hubNonce)
       \/ /\ NodeMayFail
          /\ Answer(r, "RELAY_ERROR")
          /\ userLock' = NoRequest
    /\ UNCHANGED <<trackerVars, reported, sent, hubNonce, chainSent>>

\* reserveGasAndSend and sendPrepared up to the point where the node accepted
\* the transaction.
Send(r) ==
    /\ pc[r] = "send"
    /\ sent' = Append(sent, r)
    /\ Goto(r, "note")
    /\ UNCHANGED <<trackerVars, expected, lastExpected, timedOut, result,
                   reported, userLock, hubNonce, chainSent>>

\* The gas quota is refused or the node answers the send with an error, either
\* without having taken the transaction or after having taken it.
SendFails(r) ==
    /\ pc[r] = "send"
    /\ NodeMayFail
    /\ \/ UNCHANGED sent
       \/ sent' = Append(sent, r)
    /\ Goto(r, "failed")
    /\ UNCHANGED <<trackerVars, expected, lastExpected, timedOut, result,
                   reported, userLock, hubNonce, chainSent>>

\* The chain is dropped after a failed send and the lock is given back.
ForgetAfterFailure(r) ==
    /\ pc[r] = "failed"
    /\ forgetChain
    /\ Answer(r, "RELAY_ERROR")
    /\ userLock' = NoRequest
    /\ UNCHANGED <<lastChain, held, nonce, evicted, evictedInflight,
                   reported, sent, hubNonce, chainSent>>

\* noteSent: the nonce is reserved and the next of the burst is woken.
noteSent(r) ==
    /\ pc[r] = "note"
    /\ reserveLocked(nonce[r])
    /\ notifyTurnLocked
    /\ chainSent' = [chainSent EXCEPT ![r] = senders'.id]
    /\ Goto(r, "remember")
    /\ UNCHANGED <<held, nonce, evicted, evictedInflight, expected,
                   lastExpected, timedOut, result, reported,
                   userLock, sent, hubNonce>>

\* The steps of a request that do not need the rest of the service.
RequestStep(r) ==
    \/ TurnCached(r) \/ TurnHub(r)
    \/ TurnInTurn(r) \/ TurnHold(r) \/ TurnExpired(r)
    \/ TurnSurplus(r) \/ TurnSleep(r) \/ DeadlinePasses(r) \/ TurnWake(r)
    \/ lockUser(r) \/ ExpectCached(r) \/ ExpectHub(r)
    \/ Send(r) \/ SendFails(r) \/ ForgetAfterFailure(r) \/ noteSent(r)
=============================================================================
