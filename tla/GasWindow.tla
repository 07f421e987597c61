------------------------------ MODULE GasWindow ------------------------------
(***************************************************************************)
(* The gas of the current block and the writer node's account: the global  *)
(* critical section that reserves gas and sends (service/prepare.go,       *)
(* reserveGasAndSend), the private transactions that spend from the same   *)
(* account outside of it (DecreaseGasUsed), and the loop over new blocks   *)
(* that opens the window again and reconnects when its socket fails        *)
(* (service/relaySignerService.go, ProcessNewBlocks).                      *)
(*                                                                         *)
(* The pool takes a transaction of the account only with the next account  *)
(* nonce; nonces count from 0, so the pool's next one is its length.  What *)
(* a send does for its user is Reorder's business, what a header does for  *)
(* the sent metatx is Settlement's.  GAS_LIMIT and what is added to it are *)
(* uint64: the sum is taken modulo Word.                                   *)
(***************************************************************************)
EXTENDS Integers, Sequences, FiniteSetsExt

CONSTANTS
    Requests,       \* metatx on their way to the hub
    Privates,       \* private transactions, each charged by DecreaseGasUsed
    Word,           \* 2^64: a uint64 counts modulo Word
    GasValues,      \* the gas limits a metatx may have; its user signs them
    Limits,         \* the gas limits the hub may give the node, as a uint64
    MaxBackoff,     \* maxBackoff, in units of initialBackoff
    MaxHeaders,     \* bound: headers waiting in the subscription
    NodeMayFail,    \* the node may fail a call or drop the socket
    NoRequest       \* not a request: relayLock is free

ASSUME GasWindowAssumption ==
    /\ Requests \cap Privates = {}
    /\ NoRequest \notin Requests
    /\ Word \in Nat \ {0}
    /\ GasValues \subseteq 0..Word - 1 /\ Limits \subseteq 0..Word - 1 /\ Limits # {}
    /\ MaxBackoff \in Nat \ {0} /\ MaxHeaders \in Nat \ {0}
    /\ NodeMayFail \in BOOLEAN

VARIABLES
    gasUsed,        \* GAS_LIMIT: the gas reserved since the last header
    relayLock,      \* the holder of relayLock
    at,             \* where each request's goroutine is
    gas,            \* PreparedMetaTx.MetaTxGasLimit
    limit,          \* VerifyGasLimit: the node's limit it read
    txNonce,        \* ConfigTransaction: the account nonce a sender read
    privateAt,      \* where each DecreaseGasUsed is
    pool,           \* the account's transactions the node took, in nonce order
    mined,          \* how many of them are in a block
    loop,           \* where ProcessNewBlocks is
    backoff,        \* its backoff
    headers,        \* headers waiting in its subscription
    failed,         \* sub.Err has an error
    done,           \* the signal to stop
    wrapped,        \* ghost: the sum wrapped since the last reset
    granted,        \* requests whose gas was granted since the last reset
    escaped         \* requests sent since the last reset and granted before it

sendVars    == <<relayLock, at, gas, limit>>
accountVars == <<txNonce, privateAt, pool>>
loopVars    == <<loop, backoff, headers, failed, done>>
windowVars  == <<gasUsed, wrapped, granted, escaped>>
vars == <<sendVars, accountVars, mined, loopVars, windowVars>>

Senders == Requests \cup Privates
Inside  == {"verify", "reserve", "config", "send"}

TypeOK ==
    /\ gasUsed \in 0..Word - 1 /\ wrapped \in BOOLEAN
    /\ relayLock \in Requests \cup {NoRequest}
    /\ at \in [Requests -> {"idle", "lock", "refused", "failed", "sent"} \cup Inside]
    /\ gas \in [Requests -> GasValues \cup {0}]
    /\ limit \in [Requests -> Limits \cup {0}]
    /\ txNonce \in [Senders -> Nat]
    /\ privateAt \in [Privates -> {"idle", "send", "done"}]
    /\ pool \in Seq(Senders)
    /\ mined \in 0..Len(pool)
    /\ loop \in {"connect", "subscribe", "listening", "settling", "backoff", "exited"}
    /\ backoff \in 1..MaxBackoff
    /\ headers \in 0..MaxHeaders
    /\ failed \in BOOLEAN /\ done \in BOOLEAN
    /\ granted \subseteq Requests /\ escaped \subseteq Requests

Init ==
    /\ gasUsed = 0 /\ wrapped = FALSE /\ granted = {} /\ escaped = {}
    /\ relayLock = NoRequest
    /\ at = [r \in Requests |-> "idle"]
    /\ gas = [r \in Requests |-> 0]
    /\ limit = [r \in Requests |-> 0]
    /\ txNonce = [s \in Senders |-> 0]
    /\ privateAt = [p \in Privates |-> "idle"]
    /\ pool = <<>>
    /\ mined = 0
    /\ loop = "connect" /\ backoff = 1 /\ headers = 0
    /\ failed = FALSE /\ done = FALSE

-----------------------------------------------------------------------------
(* reserveGasAndSend. *)

Arrive(r, g) ==
    /\ at[r] = "idle"
    /\ at' = [at EXCEPT ![r] = "lock"]
    /\ gas' = [gas EXCEPT ![r] = g]
    /\ UNCHANGED <<relayLock, limit, accountVars, mined, loopVars, windowVars>>

\* Faulty variant: a send does not wait for the one before it.
EnterUnlocked(r) ==
    /\ at[r] = "lock"
    /\ relayLock' = r
    /\ at' = [at EXCEPT ![r] = "verify"]
    /\ UNCHANGED <<gas, limit, accountVars, mined, loopVars, windowVars>>

Enter(r) ==
    /\ at[r] = "lock"
    /\ relayLock = NoRequest
    /\ relayLock' = r
    /\ at' = [at EXCEPT ![r] = "verify"]
    /\ UNCHANGED <<gas, limit, accountVars, mined, loopVars, windowVars>>

\* The critical section ends, and what the call had read with it.
Leave(r, end) ==
    /\ at' = [at EXCEPT ![r] = end]
    /\ relayLock' = NoRequest
    /\ limit' = [limit EXCEPT ![r] = 0]
    /\ txNonce' = [txNonce EXCEPT ![r] = 0]

\* A call to the node fails before anything was sent.
CallFails(r) ==
    /\ NodeMayFail
    /\ at[r] \in {"verify", "config", "send"}
    /\ Leave(r, "failed")
    /\ UNCHANGED <<gas, privateAt, pool, mined, loopVars, windowVars>>

\* VerifyGasLimit: the limit the hub gives the node, which may differ from one
\* call to the next...
ReadLimit(r, l) ==
    /\ at[r] = "verify"
    /\ at' = [at EXCEPT ![r] = "reserve"]
    /\ limit' = [limit EXCEPT ![r] = l]
    /\ UNCHANGED <<relayLock, gas, accountVars, mined, loopVars, windowVars>>

\* Faulty variant: the gas is compared before it is added.
ReserveAfterwards(r) ==
    /\ at[r] = "reserve"
    /\ IF gasUsed > limit[r]
       THEN Leave(r, "refused") /\ UNCHANGED <<gasUsed, wrapped, granted>>
       ELSE /\ at' = [at EXCEPT ![r] = "config"]
            /\ gasUsed' = (gasUsed + gas[r]) % Word
            /\ wrapped' = (wrapped \/ gasUsed + gas[r] >= Word)
            /\ granted' = granted \cup {r}
            /\ limit' = [limit EXCEPT ![r] = 0]
            /\ UNCHANGED <<relayLock, txNonce>>
    /\ UNCHANGED <<gas, privateAt, pool, mined, loopVars, escaped>>

\* ... and increment: the gas is added first and compared then, and it stays
\* added when the metatx is refused.  The sum wraps around.
Reserve(r) ==
    /\ at[r] = "reserve"
    /\ gasUsed' = (gasUsed + gas[r]) % Word
    /\ wrapped' = (wrapped \/ gasUsed + gas[r] >= Word)
    /\ IF gasUsed' > limit[r]
       THEN Leave(r, "refused") /\ UNCHANGED granted
       ELSE /\ at' = [at EXCEPT ![r] = "config"]
            /\ granted' = granted \cup {r}
            /\ limit' = [limit EXCEPT ![r] = 0]
            /\ UNCHANGED <<relayLock, txNonce>>
    /\ UNCHANGED <<gas, privateAt, pool, mined, loopVars, escaped>>

\* ConfigTransaction with pending: the nonce after the pool's last transaction.
PendingNonceAt(r) ==
    /\ at[r] = "config"
    /\ at' = [at EXCEPT ![r] = "send"]
    /\ txNonce' = [txNonce EXCEPT ![r] = Len(pool)]
    /\ UNCHANGED <<relayLock, gas, limit, privateAt, pool, mined, loopVars, windowVars>>

\* SendMetatransaction: the pool takes it if its nonce is still the next one,
\* and the answer to a send the pool took may be lost.
Send(r) ==
    /\ at[r] = "send"
    /\ \/ /\ txNonce[r] = Len(pool)
          /\ pool' = Append(pool, r)
          /\ escaped' = IF r \in granted THEN escaped ELSE escaped \cup {r}
          /\ Leave(r, "sent") \/ (NodeMayFail /\ Leave(r, "failed"))
       \/ /\ txNonce[r] # Len(pool)
          /\ Leave(r, "failed")
          /\ UNCHANGED <<pool, escaped>>
    /\ UNCHANGED <<gas, privateAt, mined, loopVars, gasUsed, wrapped, granted>>

-----------------------------------------------------------------------------
(* DecreaseGasUsed: outside of relayLock, with the nonce of the last block. *)

NonceAt(p) ==
    /\ privateAt[p] = "idle"
    /\ \/ /\ privateAt' = [privateAt EXCEPT ![p] = "send"]
          /\ txNonce' = [txNonce EXCEPT ![p] = mined]
       \/ /\ NodeMayFail
          /\ privateAt' = [privateAt EXCEPT ![p] = "done"]
          /\ UNCHANGED txNonce
    /\ UNCHANGED <<sendVars, pool, mined, loopVars, windowVars>>

SendPrivate(p) ==
    /\ privateAt[p] = "send"
    /\ privateAt' = [privateAt EXCEPT ![p] = "done"]
    /\ pool' = IF txNonce[p] = Len(pool) THEN Append(pool, p) ELSE pool
    /\ txNonce' = [txNonce EXCEPT ![p] = 0]
    /\ UNCHANGED <<sendVars, mined, loopVars, windowVars>>

-----------------------------------------------------------------------------
(* The chain and ProcessNewBlocks. *)

\* A block with some of the pool's transactions.  Its header reaches whoever is
\* subscribed; without a subscription it is lost.
NewBlock ==
    /\ mined' \in mined..Len(pool)
    /\ IF loop \in {"listening", "settling"} /\ ~failed
       THEN headers < MaxHeaders /\ headers' = headers + 1
       ELSE UNCHANGED headers
    /\ UNCHANGED <<sendVars, accountVars, loop, backoff, failed, done, windowVars>>

SocketFails ==
    /\ NodeMayFail
    /\ loop \in {"listening", "settling"} /\ ~failed
    /\ failed' = TRUE
    /\ UNCHANGED <<sendVars, accountVars, mined, loop, backoff, headers, done, windowVars>>

Shutdown ==
    /\ ~done
    /\ done' = TRUE
    /\ UNCHANGED <<sendVars, accountVars, mined, loop, backoff, headers, failed, windowVars>>

\* The steps of the loop touch nothing of the sends.
LoopGoes(from, to) ==
    /\ loop = from
    /\ loop' = to
    /\ UNCHANGED <<sendVars, accountVars, mined, done>>

Connect ==
    /\ \/ done /\ LoopGoes("connect", "exited")
       \/ ~done /\ LoopGoes("connect", "subscribe")
       \/ ~done /\ NodeMayFail /\ LoopGoes("connect", "backoff")
    /\ UNCHANGED <<backoff, headers, failed, windowVars>>

\* A subscription that is made resets the backoff.
Subscribe ==
    /\ \/ /\ LoopGoes("subscribe", "listening")
          /\ backoff' = 1 /\ headers' = 0 /\ failed' = FALSE
       \/ /\ NodeMayFail /\ LoopGoes("subscribe", "backoff")
          /\ UNCHANGED <<backoff, headers, failed>>
    /\ UNCHANGED windowVars

nextBackoff == IF 2 * backoff > MaxBackoff THEN MaxBackoff ELSE 2 * backoff

waitOrDone ==
    /\ \/ done /\ LoopGoes("backoff", "exited") /\ UNCHANGED backoff
       \/ LoopGoes("backoff", "connect") /\ backoff' = nextBackoff
    /\ UNCHANGED <<headers, failed, windowVars>>

\* A header: decrement opens the window, then the sent metatx are settled.
Header ==
    /\ LoopGoes("listening", "settling")
    /\ headers > 0
    /\ headers' = headers - 1
    /\ gasUsed' = 0 /\ wrapped' = FALSE /\ granted' = {} /\ escaped' = {}
    /\ UNCHANGED <<backoff, failed>>

Settled ==
    /\ LoopGoes("settling", "listening")
    /\ UNCHANGED <<backoff, headers, failed, windowVars>>

\* Faulty variant: a socket that fails ends the loop.
SocketEnds ==
    /\ failed
    /\ LoopGoes("listening", "exited")
    /\ UNCHANGED <<backoff, headers, failed, windowVars>>

Reconnect ==
    /\ failed
    /\ LoopGoes("listening", "backoff")
    /\ UNCHANGED <<backoff, headers, failed, windowVars>>

\* Faulty variant: the signal to stop is only noticed once the socket failed.
StopAfterFailure ==
    /\ done /\ failed
    /\ LoopGoes("listening", "exited")
    /\ UNCHANGED <<backoff, headers, failed, windowVars>>

StopListening ==
    /\ done
    /\ LoopGoes("listening", "exited")
    /\ UNCHANGED <<backoff, headers, failed, windowVars>>

ProcessNewBlocks ==
    \/ Connect \/ Subscribe \/ waitOrDone
    \/ Header \/ Settled \/ Reconnect \/ StopListening

-----------------------------------------------------------------------------
SendRuns(r) ==
    \/ Enter(r) \/ CallFails(r) \/ (\E l \in Limits : ReadLimit(r, l))
    \/ Reserve(r) \/ PendingNonceAt(r) \/ Send(r)

Next ==
    \/ \E r \in Requests, g \in GasValues : Arrive(r, g)
    \/ \E r \in Requests : SendRuns(r)
    \/ \E p \in Privates : NonceAt(p) \/ SendPrivate(p)
    \/ NewBlock \/ SocketFails \/ Shutdown
    \/ ProcessNewBlocks

Spec == Init /\ [][Next]_vars

\* The loop is scheduled and its timers fire; select picks any ready case.  A
\* node that lives can be reached again, and now and then the socket stays up
\* for a block.  Nothing is assumed of the clients nor of the pool.
Fairness ==
    /\ WF_vars(ProcessNewBlocks)
    /\ SF_vars(Connect /\ loop' = "subscribe")
    /\ SF_vars(Subscribe /\ loop' = "listening")
    /\ SF_vars(NewBlock /\ headers' > headers)
    /\ SF_vars(Header)
    /\ SF_vars(StopListening)

FairSpec == Spec /\ Fairness

-----------------------------------------------------------------------------
(* Properties. *)

\* relayLock makes the reservation and the send one step for the other sends:
\* however headers fall, at most one metatx is sent in a window that was not
\* granted its gas in it (prepare.go, reserveGasAndSend, against decrement).
AtMostOneEscapes == \A r, s \in escaped : r = s

\* Whatever a window granted and refused before, a metatx is granted its gas only
\* if it fits together with the granted ones in the limit it read, or else the
\* sum of 64 bits has wrapped in this window: no bound is put on the gas a user
\* signs (relaySignerService.go, VerifyGasLimit and increment; prepare.go,
\* metaTxGasLimit), although docs/OVERVIEW.md has the signer refuse what
\* would "overpass the GAS remaining in each block".
GrantedFits ==
    [][\A r \in granted' \ granted :
           MapThenSumSet(LAMBDA s : gas[s], granted') <= limit[r] \/ wrapped']_vars

\* While a metatx is between reading its account nonce and sending, only a
\* private transaction can take that nonce from it: sends of metatx do not
\* cross (prepare.go, relayLock; relaySignerService.go, DecreaseGasUsed).
OnlyPrivatesCross ==
    \A r \in Requests : at[r] = "send" =>
        \A i \in DOMAIN pool : i > txNonce[r] => pool[i] \in Privates

\* "la ventana de gas se resincroniza sola con el proximo bloque": a window
\* with reserved gas is opened again, although the socket fails and connecting
\* fails, for as long as the service is not told to stop (ProcessNewBlocks).  A
\* sum that wraps to 0 does not count: only a header forgets that it did.
WindowReopens == (gasUsed > 0) ~> ((gasUsed = 0 /\ ~wrapped) \/ done)

\* "Solo sale por `done`": told to stop, the loop ends, whatever it was doing
\* (relaySignerService.go, isDone and waitOrDone).
LoopStops == done ~> (loop = "exited")
=============================================================================
