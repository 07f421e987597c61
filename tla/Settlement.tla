----------------------------- MODULE Settlement -----------------------------
(***************************************************************************)
(* The life of a sent metatx, composed with the sending path: the memory   *)
(* of sent hashes (service/correlation.go), the hub executing the writer   *)
(* node's transactions, the watcher that resolves results on every block   *)
(* (service/watcher.go), the synchronous relay that waits for its own      *)
(* receipt (service/relay.go), settling (service/settle.go), and clients   *)
(* that consult a receipt (service/relaySignerService.go).                 *)
(*                                                                         *)
(* A transaction is named by the request that sent it: a request sends at  *)
(* most once.  Readers are the goroutines that may resolve a transaction.  *)
(***************************************************************************)
EXTENDS Reorder

CONSTANTS
    Readers,        \* goroutines that resolve results: the watcher and sync relays
    Watcher,        \* the one of them that is the block watcher
    HubMayReject,   \* the hub may refuse a metatx for a reason other than its nonce
    TTLMayPass,     \* nonceCacheTTL may run out on a live chain
    ReceiptMayLapse,\* receiptTimeoutMs may run out on a sent metatx
    MemoryMayForget,\* metaTxMemoryTTL / metaTxMemoryMax may drop a sent hash
    LengthMayWrap   \* a revert may carry a length near 2^64 (decodeRevertReason)

ASSUME SettlementAssumption ==
    /\ Watcher \in Readers
    /\ {HubMayReject, TTLMayPass, ReceiptMayLapse, MemoryMayForget,
        LengthMayWrap} \subseteq BOOLEAN

VARIABLES
    mined,          \* how many of the transactions of `sent` have been executed
    outcome,        \* the receipt of each transaction
    metaTx,         \* the remembered requests, with their entry
    settled,        \* metaTxEntry.settled
    entryChain,     \* metaTxEntry.chain, 0 for nil
    closures,       \* how many times the end of each metatx was logged
    todo,           \* the watcher's snapshot of what is in flight
    answered,       \* synchronous relays that already have their receipt
    reader          \* what each reader is doing

settleVars == <<mined, outcome, metaTx, settled, entryChain, closures, todo,
                answered, reader>>
vars == <<reorderVars, settleVars>>

Bad == {"rejected", "badConsumed"}
Outcomes == {"none", "ok", "wraps", "silent"} \cup Bad

IdleReader == [step |-> "idle", tx |-> NoRequest, hubRejected |-> FALSE, chain |-> 0]
BusyReader == [step : {"claim", "take", "release", "panic"}, tx : Requests,
               hubRejected : BOOLEAN, chain : Nat]
ReaderState == BusyReader \cup {IdleReader}

TypeOK ==
    /\ ReorderTypeOK
    /\ mined \in 0..Len(sent)
    /\ outcome \in [Requests -> Outcomes]
    /\ metaTx \subseteq Requests
    /\ settled \in [Requests -> BOOLEAN]
    /\ entryChain \in [Requests -> Nat]
    /\ closures \in [Requests -> Nat]
    /\ todo \subseteq Requests
    /\ answered \subseteq Requests
    /\ reader \in [Readers -> ReaderState]

Init ==
    /\ ReorderInit
    /\ mined = 0
    /\ outcome = [r \in Requests |-> "none"]
    /\ metaTx = {}
    /\ settled = [r \in Requests |-> FALSE]
    /\ entryChain = [r \in Requests |-> 0]
    /\ closures = [r \in Requests |-> 0]
    /\ todo = {}
    /\ answered = {}
    /\ reader = [p \in Readers |-> IdleReader]

\* The watcher's goroutine has no recover: its panic ends the process, and with
\* it everything the service knows.
Crashed == reader[Watcher].step = "panic"

-----------------------------------------------------------------------------
(* The end of the sending path, the hub, and the passing of time. *)

\* rememberMetaTx, then the answer to the client and the lock given back.
rememberMetaTx(r) ==
    /\ pc[r] = "remember"
    /\ metaTx' = metaTx \cup {r}
    /\ settled' = [settled EXCEPT ![r] = FALSE]
    /\ entryChain' = [entryChain EXCEPT ![r] = chainSent[r]]
    /\ Answer(r, "SENT")
    /\ userLock' = NoRequest
    /\ UNCHANGED <<trackerVars, reported, sent, hubNonce, chainSent,
                   mined, outcome, closures, todo, answered, reader>>

\* The transactions of one account execute in account-nonce order.  The hub
\* takes a metatx with the nonce it expects; it may refuse it before that for
\* another reason, or take the nonce and still emit BadTransactionSent, or
\* refuse without emitting anything (the node's gas is used up, or it reverts).
\* A metatx it executes may revert with an output nobody can decode ("wraps").
Mine ==
    /\ mined < Len(sent)
    /\ mined' = mined + 1
    /\ LET r == sent[mined + 1]
       IN  \/ /\ nonce[r] = hubNonce
              /\ outcome' = [outcome EXCEPT ![r] = "ok"]
              /\ hubNonce' = hubNonce + 1
           \/ /\ nonce[r] = hubNonce /\ LengthMayWrap
              /\ outcome' = [outcome EXCEPT ![r] = "wraps"]
              /\ hubNonce' = hubNonce + 1
           \/ /\ nonce[r] = hubNonce /\ HubMayReject
              /\ outcome' = [outcome EXCEPT ![r] = "badConsumed"]
              /\ hubNonce' = hubNonce + 1
           \/ /\ nonce[r] # hubNonce \/ HubMayReject
              /\ outcome' = [outcome EXCEPT ![r] = "rejected"]
              /\ UNCHANGED hubNonce
           \/ /\ HubMayReject
              /\ outcome' = [outcome EXCEPT ![r] = "silent"]
              /\ UNCHANGED hubNonce
    /\ UNCHANGED <<trackerVars, requestVars, userLock, sent, chainSent,
                   metaTx, settled, entryChain, closures, todo, answered, reader>>

\* evictLocked and the TTL of recallMetaTx: a remembered hash is dropped.
MemoryForgets(r) ==
    /\ MemoryMayForget
    /\ r \in metaTx
    /\ metaTx' = metaTx \ {r}
    /\ entryChain' = [entryChain EXCEPT ![r] = 0]
    /\ UNCHANGED <<reorderVars, mined, outcome, settled, closures, todo,
                   answered, reader>>

TimePasses ==
    /\ \/ TTLMayPass /\ TTLPasses
       \/ GraceEnds
    /\ UNCHANGED <<requestVars, userLock, sent, hubNonce, chainSent, settleVars>>

-----------------------------------------------------------------------------
(* Resolving a transaction. *)

\* inFlight: the snapshot SettleInFlight takes on a new header.
NewBlock ==
    /\ reader[Watcher].step = "idle"
    /\ todo = {}
    /\ todo' = {r \in metaTx : ~settled[r] /\ entryChain[r] # 0}
    /\ todo' # {}
    /\ UNCHANGED <<reorderVars, mined, outcome, metaTx, settled, entryChain,
                   closures, answered, reader>>

\* readHubEvents: a BadTransactionSent drops whatever chain the sender has.  An
\* output whose length wraps is not read to the end: WatcherPanics, SyncPanics.
readHubEvents(p, t) ==
    /\ IF outcome[t] \in Bad
       THEN forgetChain
       ELSE UNCHANGED <<senders, wake>>
    /\ reader' = [reader EXCEPT ![p] = [step |-> "claim", tx |-> t,
                                        hubRejected |-> outcome[t] \in Bad,
                                        chain |-> 0]]
    /\ UNCHANGED <<lastChain, held, nonce, evicted, evictedInflight, requestVars,
                   userLock, sent, hubNonce, chainSent,
                   mined, outcome, metaTx, settled, entryChain, closures>>

\* The watcher on one transaction of its snapshot that has a receipt.
WatcherReads(t) ==
    /\ reader[Watcher].step = "idle"
    /\ t \in todo
    /\ outcome[t] \notin {"none", "wraps"}
    /\ readHubEvents(Watcher, t)
    /\ todo' = todo \ {t}
    /\ UNCHANGED answered

\* The watcher on a receipt whose output it cannot decode: 68+length wraps, the
\* slice of decodeRevertReason panics, and nothing of t has been settled.
WatcherPanics(t) ==
    /\ reader[Watcher].step = "idle"
    /\ t \in todo
    /\ outcome[t] = "wraps"
    /\ reader' = [reader EXCEPT ![Watcher] = [step |-> "panic", tx |-> t,
                                              hubRejected |-> FALSE, chain |-> 0]]
    /\ todo' = todo \ {t}
    /\ UNCHANGED <<reorderVars, mined, outcome, metaTx, settled, entryChain,
                   closures, answered>>

\* expireOne on a transaction without a readable receipt: within the deadline
\* it is left for the next block, after it the watcher gives it up.
WatcherExpires(t) ==
    /\ reader[Watcher].step = "idle"
    /\ t \in todo
    /\ outcome[t] = "none" \/ NodeMayFail
    /\ \/ UNCHANGED reader
       \/ /\ ReceiptMayLapse
          /\ reader' = [reader EXCEPT ![Watcher] = [step |-> "claim", tx |-> t,
                                                    hubRejected |-> FALSE, chain |-> 0]]
    /\ todo' = todo \ {t}
    /\ UNCHANGED <<reorderVars, mined, outcome, metaTx, settled, entryChain,
                   closures, answered>>

\* RelayAndWait: the relay that sent t polls for its receipt and decodes it.
SyncReads(p, t) ==
    /\ p # Watcher
    /\ reader[p].step = "idle"
    /\ result[t] = "SENT"
    /\ t \notin answered
    /\ outcome[t] \notin {"none", "wraps"}
    /\ readHubEvents(p, t)
    /\ answered' = answered \cup {t}
    /\ UNCHANGED todo

\* The synchronous relay on such a receipt: net/http recovers the panic of its
\* handler, which ends without settling anything.
SyncPanics(t) ==
    /\ result[t] = "SENT"
    /\ t \notin answered
    /\ outcome[t] = "wraps"
    /\ answered' = answered \cup {t}
    /\ UNCHANGED <<reorderVars, mined, outcome, metaTx, settled, entryChain,
                   closures, todo, reader>>

\* GetTransactionReceipt and GetMetaTxResult: a client may consult any receipt,
\* as often as it likes; a BadTransactionSent in it drops the sender's chain.
ConsultReceipt(t) ==
    /\ result[t] = "SENT"
    /\ outcome[t] \in Bad
    /\ forgetChain
    /\ UNCHANGED <<lastChain, held, nonce, evicted, evictedInflight, requestVars,
                   userLock, sent, hubNonce, chainSent, settleVars>>

\* Faulty variant: the end is claimed without marking it.
claimUnmarked(p) ==
    /\ reader[p].step = "claim"
    /\ LET t == reader[p].tx
       IN  /\ reader' = [reader EXCEPT ![p].step = "take"]
           /\ closures' = [closures EXCEPT ![t] = @ + 1]
    /\ UNCHANGED <<reorderVars, mined, outcome, metaTx, settled, entryChain, todo, answered>>

\* claimSettled and the log of the end: the first one to claim a remembered
\* hash wins; a hash nobody remembers is always claimed.
claimSettled(p) ==
    /\ reader[p].step = "claim"
    /\ LET t == reader[p].tx
       IN  IF t \in metaTx /\ settled[t]
           THEN /\ reader' = [reader EXCEPT ![p] = IdleReader]
                /\ UNCHANGED <<settled, closures>>
           ELSE /\ reader' = [reader EXCEPT ![p].step = "take"]
                /\ settled' = IF t \in metaTx THEN [settled EXCEPT ![t] = TRUE] ELSE settled
                /\ closures' = [closures EXCEPT ![t] = @ + 1]
    /\ UNCHANGED <<reorderVars, mined, outcome, metaTx, entryChain, todo, answered>>

\* Faulty variant: the entry gives up its chain and nobody releases it.
releaseSentLost(p) ==
    /\ reader[p].step = "take"
    /\ entryChain' = [entryChain EXCEPT ![reader[p].tx] = 0]
    /\ reader' = [reader EXCEPT ![p] = IdleReader]
    /\ UNCHANGED <<reorderVars, mined, outcome, metaTx, settled, closures, todo, answered>>

\* Faulty variant: the entry keeps its chain, and the next reader releases it again.
releaseSentKept(p) ==
    /\ reader[p].step = "take"
    /\ LET t == reader[p].tx
       IN  reader' = [reader EXCEPT ![p] =
                        IF entryChain[t] = 0 \/ @.hubRejected
                        THEN IdleReader
                        ELSE [@ EXCEPT !.step = "release", !.chain = entryChain[t]]]
    /\ UNCHANGED <<reorderVars, mined, outcome, metaTx, entryChain, settled, closures, todo,
                   answered>>

\* releaseSent, under metaTxLock: the entry gives up the chain it was reserved
\* on.  A metatx the hub rejected has nothing to release.
releaseSent(p) ==
    /\ reader[p].step = "take"
    /\ LET t == reader[p].tx
       IN  /\ entryChain' = [entryChain EXCEPT ![t] = 0]
           /\ reader' = [reader EXCEPT ![p] =
                            IF entryChain[t] = 0 \/ @.hubRejected
                            THEN IdleReader
                            ELSE [@ EXCEPT !.step = "release", !.chain = entryChain[t]]]
    /\ UNCHANGED <<reorderVars, mined, outcome, metaTx, settled, closures, todo, answered>>

\* releaseSent, under sendersLock: the chain gets its place back.
ReleaseReserved(p) ==
    /\ reader[p].step = "release"
    /\ releaseChain(reader[p].chain)
    /\ reader' = [reader EXCEPT ![p] = IdleReader]
    /\ UNCHANGED <<lastChain, held, nonce, evicted, evictedInflight, requestVars,
                   userLock, sent, hubNonce, chainSent,
                   mined, outcome, metaTx, settled, entryChain, closures, todo, answered>>

-----------------------------------------------------------------------------
\* The goroutine of a request, up to its answer.
RequestRuns(r) ==
    \/ RequestStep(r) /\ UNCHANGED settleVars
    \/ rememberMetaTx(r)

ReaderRuns(p) == claimSettled(p) \/ releaseSent(p) \/ ReleaseReserved(p)

WatcherRuns ==
    \/ NewBlock
    \/ \E t \in Requests : WatcherReads(t) \/ WatcherPanics(t) \/ WatcherExpires(t)

\* Everyone has been answered: the user may stay quiet from here on.  Nothing
\* follows the end of the process either.
Quiet == (Crashed \/ \A r \in Requests : pc[r] = "done") /\ UNCHANGED vars

\* Anything the process, its clients and the chain do while the process lives.
Running ==
    \/ \E r \in Requests, n \in Nonces : Arrive(r, n) /\ UNCHANGED settleVars
    \/ \E r \in Requests : RequestRuns(r)
    \/ \E r \in Requests : ClientGone(r) /\ UNCHANGED settleVars
    \/ \E r \in Requests : MemoryForgets(r) \/ ConsultReceipt(r) \/ SyncPanics(r)
    \/ \E p \in Readers, t \in Requests : SyncReads(p, t)
    \/ \E p \in Readers : ReaderRuns(p)
    \/ WatcherRuns
    \/ Mine
    \/ TimePasses

Next == (~Crashed /\ Running) \/ Quiet

Spec == Init /\ [][Next]_vars

\* Goroutines are scheduled, timers fire, and while the node lives it makes
\* blocks: headers keep coming and transactions of the pool are executed.
\* Nothing is assumed of the clients, of the TTL, or of the memory's limits,
\* and nothing after the process has ended.
Fairness ==
    /\ \A r \in Requests : WF_vars(~Crashed /\ RequestRuns(r))
    \* A deadline is in real time: being woken again and again does not stop it.
    /\ \A r \in Requests :
          SF_vars(~Crashed /\ DeadlinePasses(r) /\ UNCHANGED settleVars)
    /\ \A p \in Readers : WF_vars(~Crashed /\ ReaderRuns(p))
    /\ WF_vars(~Crashed /\ WatcherRuns)
    \* receiptTimeout is in real time: a read that keeps failing is given up.
    /\ \A t \in Requests :
          SF_vars(~Crashed /\ WatcherExpires(t) /\ reader'[Watcher].step = "claim")
    /\ WF_vars(~Crashed /\ Mine)

FairSpec == Spec /\ Fairness

-----------------------------------------------------------------------------
(* Properties. *)

\* A metatx reserved on a chain still occupies its place: it is about to be
\* remembered, is remembered with its chain, or is being released.
Owed(r) ==
    \/ pc[r] = "remember"
    \/ entryChain[r] # 0
    \/ \E p \in Readers : reader[p].step = "release" /\ reader[p].tx = r

InFlightOn(c) == {r \in Requests : chainSent[r] = c /\ Owed(r)}

\* The pending counter of the live chain is exactly the number of its metatx
\* that are sent and not yet resolved, whatever the order of late results,
\* dropped chains and concurrent resolvers (tracker.go, releaseChain): it is
\* never skewed, so a user never runs out of quota with nothing in flight.
PendingExact ==
    senders.id # 0 => senders.pending = Cardinality(InFlightOn(senders.id))

\* Even when the memory of sent hashes is full or expires, a late result never
\* gives back a place that another metatx occupies: the counter is never short
\* (correlation.go, evictLocked, against tracker.go, releaseChain).
PendingNotShort ==
    senders.id # 0 => senders.pending >= Cardinality(InFlightOn(senders.id))

\* Only one goroutine of the user is past lockUser, and while it is about to
\* send or to note its send no chain expects anything but its nonce: the
\* reservation of noteSent never jumps over, nor falls behind, a live chain.
ReservationMatches ==
    /\ \A r \in Requests : pc[r] \in Locked <=> userLock = r
    /\ \A r \in Requests : pc[r] \in {"send", "note"} /\ senders.id # 0
                            => senders.next = nonce[r]

\* Metatx reserved on the same chain reach the account's queue in strictly
\* increasing nonce order, so no nonce is sent twice on one chain
\* (reorder.go, sendReordered: reserve and send under the same user lock).
ChainOrder ==
    \A i, j \in DOMAIN sent :
        i < j /\ chainSent[sent[i]] # 0 /\ chainSent[sent[i]] = chainSent[sent[j]]
            => nonce[sent[i]] < nonce[sent[j]]

\* The registry of held metatx holds each waiting one once, none that left
\* and none that was evicted: the quota is neither leaked nor freed twice
\* (tracker.go, hold/unhold/evictHeldLocked).
HeldExact ==
    /\ \A i, j \in DOMAIN held : held[i] = held[j] => i = j
    /\ \A r \in Requests :
          r \in HeldSet <=> /\ pc[r] \in Waiting
                            /\ lastExpected[r] # -1
                            /\ ~evicted[r]

\* A rejection for too many in flight always reports at least the maximum,
\* also when it is delivered long after the eviction (heldMetaTx.evictedInflight).
TooManyMeansFull ==
    \A r \in Requests : result[r] = "TOO_MANY_INFLIGHT" => reported[r] >= MaxInflight

\* The end of a metatx is logged at most once, whoever resolves it first: the
\* watcher, the synchronous relay or the expiry (settle.go, claimSettled).
ClosedOnce == \A r \in Requests : closures[r] <= 1

\* With a node that answers, a hub that rejects for the nonce only, results that
\* can be decoded and no timeout, the hub never rejects a metatx the service sent: every nonce is
\* the one the hub expects when its turn in the account's queue comes.
HubTakesEverySend == \A r \in Requests : outcome[r] # "rejected"

\* Every request that arrives is answered: no wait outlives its window, even
\* if the wake-up fell between reading the expected nonce and going to sleep.
\* Only the end of the process, which the watcher's panic causes, cuts it off.
EveryRequestAnswered ==
    \A r \in Requests : (pc[r] # "idle") ~> (pc[r] = "done" \/ Crashed)

\* Every place in flight is eventually given back, also that of a metatx
\* nobody consults (watcher.go), unless the watcher meets an output it cannot
\* decode and the process ends with the place still taken.
PlacesReturned == (senders.pending > 0) ~> (senders.pending = 0 \/ Crashed)

-----------------------------------------------------------------------------
(* What the documents say of the service and the code does not keep. *)

\* "Un resultado atrasado de una cadena descartada ... no altera la cantidad
\* en vuelo ni el proximo nonce del usuario": reading the result of a metatx
\* that was reserved on another chain leaves the live chain alone
\* (settle.go, readHubEvents).
LateResultHarmless ==
    [][\A p \in Readers :
          /\ reader[p].step = "idle"
          /\ reader'[p].step = "claim"
          /\ chainSent[reader'[p].tx] # senders.id
          => senders' = senders]_vars
=============================================================================
