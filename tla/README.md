# A TLA+ model of the gas-management relay

The service signs nothing for its users: it receives meta-transactions (metatx) that users
signed, wraps each in a transaction of the *writer node*, and sends it to the RelayHub
contract, which demands the user's nonces one after the other. Everything hard about the
service follows from that: several metatx of one user are in the air at once, each a goroutine
of its own, and the service has to send them in order, count them, learn how each ended, and
give their places back, while the node fails, receipts are late and clients leave.

## Inventory

| Part | State it keeps | Operations | What makes it correct |
|---|---|---|---|
| nonce tracker (`service/tracker.go`) | per user: the chain (next nonce, in-flight count, grace timer), the held metatx | reserve, release, forget, hold, unhold, evict, wake | the count is the number of metatx in flight; a result of an old chain does not touch the new one |
| reordering (`service/reorder.go`, `reorder_turn.go`) | the stack of each waiting goroutine | door, wait, re-check, send, note | a chain is sent in nonce order; everyone is answered; a full quota refuses the highest nonce |
| user locks (`reorder.go`, `lockUser`) | a map of counted mutexes | lock, unlock | one holder per user although entries are deleted and made again; the map does not grow |
| sending path (`service/prepare.go`, `relaySignerService.go`) | the block's gas counter, the writer node's account | decode, reserve gas, send | a failed send leaves no nonce reserved (its gas stays counted until the next header) |
| settlement (`service/settle.go`), watcher (`watcher.go`), synchronous relay (`relay.go`) | none of their own; they work on the two below | read a receipt, claim its end, free its place, give it up | each end is logged once and each place freed once, whoever comes first |
| correlation memory (`service/correlation.go`) | sent hashes with the chain they were reserved on | remember, recall, evict | losing an entry never frees a place in use |
| nonce handout (`service/handout.go`) | a chain of tickets per user | ask, answer, close by metatx or timer | one number at a time; nobody waits for ever |
| event bus (`events/events.go`) | a ring of recent events, subscribers and their channels | publish, replay and subscribe, cancel | history and live events meet without loss or repetition |
| dashboard (`dashboard/dashboard.go`, `index.html`) | handlers' channels; on the page, its last `seq` | stream, reconnect | what is shown is a faithful log; places are given back |
| block loop and gas window (`relaySignerService.go`) | `GAS_LIMIT`, the socket, the backoff | reset on a header, reconnect | the window opens again; nothing escapes it |
| permissioning (`service/permissioning.go`, `info.go`) | the rules contract, a cache of permissions with a lifetime, what was learned of the node | resolve, check an account, report | fails closed; a revoked permission ends in bounded time; a failure is never a verdict |
| validation and admission (`service/validation.go`, `metatx.go`, `prepare.go`) | none | decode, check the suffix, size the envelope | exactly the admissible metatx are sent, at the edges of the integers too |
| configuration (`model/RuntimeConfig.go`, `Config.go`) | the values read | read each key, decode the older blocks | what is reported is what is in force, but for cases that are known exactly |
| start-up (`main.go`, `service.Init`) | none | read the file, the key, the hub's address; listen | without the key or the address of the hub it ends; once it has them, nothing about the rules keeps it from listening |
| controllers and JSON-RPC (`controller`, `rpc`, `errors`) | none | CORS, route, decode, answer | two doors, one verdict on what is well formed; one document per request; log and answer agree |
| answers (`relaySignerService.go`, `relay.go`, `settle.go`) | none | decode the hub's events, three times | a client is told what happened |
| RelayHub contracts (`relayhub/contracts`) | nonces, registry of nodes, gas limits | relay, deploy, add and delete a node, recompute | registry and limits agree |

Shared state and locks: `sendersLock` guards the tracker, `metaTxLock` the memory, the user's
lock orders the sends of one user, `relayLock` orders the writer node's transactions, the bus
has a mutex of its own. No two of the first three are ever held together across a call to the
node, so between two critical sections of one goroutine every other goroutine may act: those are
the steps of the models.

## Modules

| Module | Models | Extends |
|---|---|---|
| `Tracker` | the critical sections of `tracker.go`, for one user | |
| `Reorder` | `sendReordered` and `awaitTurn`, one process per metatx | `Tracker` |
| `Settlement` | the memory, the hub, the watcher, synchronous relays, settling | `Reorder` |
| `UserMutex`, `UserLocks` | one mutex per user; the counted locks that implement it | |
| `Handout` | the ticket queue | `Tracker` |
| `EventLog`, `EventBus`, `Dashboard` | an abstract log; the bus; handlers and pages | `Dashboard` extends `EventBus` |
| `SettlementProofs` | proofs about `Settlement`, `Reorder` and `Tracker` | `Settlement` |
| `UserLocksProofs`, `HandoutProofs`, `DashboardProofs`, `GatewayProofs` | proofs about `UserLocks`, `Handout`, `Dashboard` and `Gateway` | the module each is about |
| `GasWindow`, `GasWindowProofs` | the block's gas, the writer node's account, the loop over new blocks; proofs | |
| `RelayHub`, `RelayHubProofs` | the contracts: registry of nodes, gas limits, metatx; proofs | |
| `Permissioning`, `PermissioningProofs` | the rules, the cache, overlapping checks, the node's own permission; proofs | |
| `Configuration` | readers of `config.toml`, values in force, values reported | |
| `Admission` | decoding and validating a raw transaction, codes of its rejection | `Configuration` |
| `Answers` | the three decoders of a receipt | |
| `Gateway` | the service from its start to the answer of a request; composes the three above | `Admission`, instantiates `Answers` |
| `MCSettlement`, `MCHandout`, `MCDashboard` | symmetry sets for TLC | |
| `MCGateway` | the starts and the requests for TLC | `Gateway` |

### Correspondence

*Tracker, Reorder, Settlement.* `senders` is the user's `nonceEntry`; since a dropped entry is only
compared by pointer, the current entry is kept with an identity from a counter. `held`, `wake`,
`evicted`, `evictedInflight` are the fields of `heldMetaTx`. Maps are indexed by user and no function
touches two users, so one user is modelled; what users share is the user-lock map, which `UserLocks`
models for several. A request's `pc` names the critical section it is about to enter. A read of the
hub's nonce is a step apart from the look-up in the tracker because no lock spans them. Time is the
firing of timers: the deadline of a wait, the grace window, the lifetime of a chain (`old`) and the
receipt's deadline are steps that may happen when the timer is armed. A sent transaction is named by
its request. `Mine` is the hub: it takes the expected nonce, or rejects, or takes the nonce and still
emits `BadTransactionSent` (destination without code, not enough gas left), or rejects without an
event. Each reader (the watcher, a synchronous relay) reads a receipt (`readHubEvents`), claims the end
(`claimSettled`), takes the chain from the entry (`releaseSent`) and releases it (`ReleaseReserved`),
each under its own lock and so each its own step. A client that consults a receipt drops the chain on a
rejection but settles nothing (`ConsultReceipt`). A metatx may be executed and revert with an output that
`decodeRevertReason` cannot cut (`LengthMayWrap`): the panic ends the handler of a synchronous relay, which
settles nothing (`SyncPanics`), and in the watcher the whole process (`WatcherPanics`, `Crashed`), after which
no action is enabled and no fairness is assumed.

*UserLocks.* A lock is an object of a finite pool; the map points to one per user. `Register` is the
first critical section of `lockUser`, `Acquire` and `Release` the mutex of the object, `Deregister` the
second section. The refinement maps the holder of the object the user's goroutines share to the holder of
an abstract mutex.

*Handout.* `handouts` and `openTickets` are the two maps; a ticket has the name of its client. Closing a
ticket closes its channel first and takes it out of the maps in a later section, by the client itself on a
failure, by its timer, or by the metatx that uses the number; the latter reads the open ticket, closes it
and only then reserves. `asked` and `order` are history variables.

*EventBus, Dashboard.* The ring is an array with `start` and `size`. An event is its number. A connection
has the bus's channel, the goroutine that empties it (`deliver`) and the handler's own channel; both
discard when full. The page asks to resume after its `lastSeq` and loses its connection at any moment.

*GasWindow.* `gasUsed` is `GAS_LIMIT`. A request holds `relayLock` from `Enter` to `Leave`; in between it reads
its node's limit, reserves, reads its account nonce and sends, each a step, since the block loop and private
transactions take no `relayLock`. The account's pool is a sequence that takes a transaction only with the next
nonce (how the node behaves; external), and `mined` is how much of it is in blocks: a metatx reads the pool's
next nonce, `DecreaseGasUsed` that of the last block. The counter is a sum modulo `Word` (2^64), since nothing bounds the
gas a user signs; `wrapped` notes that it has wrapped around in this window. What a call had read is cleared when it returns.
`granted`, `escaped` and `wrapped` are history variables, emptied by a header. `loop` is where `ProcessNewBlocks` is;
a header that comes while nobody is subscribed is lost. `Reorder` has the same send as one step: it asks what
the send does for its user, `GasWindow` what it does for the block and for the account.

*RelayHub.* One step is one transaction; a transaction that reverts is not a step, and `Reverts` and `Fits`
say when arithmetic does (division by zero, overflow). The accounting of `GasLimit.sol` is the record `hub`,
which the modifier `evaluateCurrentBlock` and the charge transform one after the other. `Penalized` is the call
to the account contract, which is not in the repository: it removes the node or does not. Whether a taken metatx is
then forwarded changes nothing in the hub. `taken` is a history variable.

*Permissioning.* A check is `AccountPermitted`: look in the cache, read the chain, remember, each a step because no
lock spans them, so that two checks of one account overlap and the older reading may be remembered last. Time is
relative: an entry has the time left until `expiresAt`, a reading its age, and `Tick` moves them all. `ReadMax`
bounds how long after a reading it is remembered; the code has no such bound of its own, and the guarantee of the
properties grows with it. `InitService` needs the source of the rules and the hub's address, which the node must answer
(`hubRead`); the resolution of the rules comes after it and may fail. The check made at the start is one of the checks; what it found is kept unless it failed.
`sinceIn`, `sinceOut` and `said` are history variables about the lists of the chain.

*Configuration, Admission, Answers.* Definitions, not actions. A value of the file is what its reader tells apart
(absent, a number, a fraction, a flag, a text, a list). `InForce` is what the service does with a number: the default
for a zero, milliseconds as a `Duration` of 64 bits that may wrap around, and nothing at all if the part that would apply it is
switched off; of `windowMs` there are two values in force, since the grace window keeps a zero. A raw transaction is a record of what the checks look at, and
a verdict is the first objection in the order the code raises them; the expiration and the gas of the envelope are
computed modulo `2 ^ Width`, with the conversion to a signed number that the code makes. A receipt is the sequence of
the hub's events that each end of a metatx leaves, and the decoders go through it with the flags they have.

*Gateway.* One request at a time, since handlers share nothing but what the other modules model: the answers of those
parts and of the chain are the record `world`, chosen with the start and constant while a request and its counterpart
at the other door are compared. `ReadConfig` and `InitService` are `main` and `service.Init`; then `withCORS`, `Route`
and the handlers follow the code step by step. `trace` is what the handler logged, `acts` what it did at the node and
to the tracker, `reply` what it wrote; a panic of a handler writes nothing. `tried` and `offered` are history
variables for the comparison of the doors.

## Runs

| Run | Bounds | Checks |
|---|---|---|
| `settlement_faults` | 2 metatx, nonces 0..1, quota 1, every fault but a forgetful memory, the end of the process included | `PendingExact`, `ReservationMatches`, `ChainOrder`, `ClosedOnce`, `EveryRequestAnswered`, `PlacesReturned` |
| `settlement_burst` | 3 metatx, nonces 0..2, quota 2, healthy node, memory forgets | `HubTakesEverySend`, `HeldExact`, `TooManyMeansFull`, `PendingNotShort` |
| `userlocks` | 3 goroutines, 2 users, 3 lock objects, for ever | `MutualExclusion`, `EntryWhileUsed`, `ImplementsMutex`, `EveryoneEnters` |
| `handout_queue` | 3 clients, failing node, one chain that ends | `OneTurn`, `TicketsCleaned`, `EveryAskAnswered` |
| `dashboard_stream` | 1 page, 2 connections, ring of 2, 3 events, buffers of 2 and 1 | `ExactlyOnce`, `ImplementsLog`, `Delivered`, `PlaceFreed` |
| `gas_window` | 2 metatx of gas 1 or 3, a counter of 2 bits, 1 private transaction, limits 1 and 2, backoff 1..2, one header waiting, every failure | `AtMostOneEscapes`, `OnlyPrivatesCross`, `GrantedFits`, `WindowReopens`, `LoopStops` |
| `relay_hub` | 2 accounts, 1 user, nonces 0..1, 3 blocks, charges of 5 up to 20, block limit 10, frequencies 0 and 2 | `RegistryExact`, `LimitsWithinCurrent`, `LimitsFresh` |
| `permissioning` | 1 contract, the node's account, 2 requests and the check of the start, lifetime 2, readings up to 1 old | `NodeReportGrounded`, `AcceptedWasPermitted`, `RefusedWasRefused`, `ListensInTheEnd` |
| `gateway` | 20-bit integers, 8 units to a millisecond, the clock at 1000, the starts and requests of `MCGateway` | `InfoTellsInForce`, `AdmittedExactly`, `DoorsAgree`, `TraceOfMetaTx`, `OneDocument`, `AnswersTruthful`, `NonceDoorsAgree` |
| `settlement_late`, `handout_twice`, `gateway_expiration` | as small as shows it; that of `gateway` | one property each, violated |

Why the bounds suffice. Two metatx give every pair of concurrent resolvers, an old and a new chain, and a
lock with a waiter; quota 1 makes the second one surplus. Three are needed for a burst out of order with an
eviction (the lowest in flight, the highest held, the middle arriving). Three clients are the smallest queue
with a middle. Three events turn a ring of two, and overflow both buffers. Three goroutines on two users
delete, recreate and share a lock, and as many lock objects as goroutines are never exhausted. Two metatx and a
private transaction give every pair of senders on the account; a second metatx exceeds the limit 1 and fits
the limit 2, one of gas 3 fits neither, and with the first it wraps the counter around to zero. In the hub a first charge of 5 fits the limit of 8 and a second one exceeds it, four of them
lower the limit to 5, and with a frequency of 2 a
calculation is on time, late within a period, and skipped (3 blocks); the frequency 0 is the one that may divide
by zero. Two accounts move the last node of the registry; the theorem covers longer ones. In `permissioning` two
requests overlap on one entry while the check of the start may still be under way, an entry lives long enough to be
fresh, half over and expired, and a reading may be remembered a tick after it was made; accounts and contracts do not
interact. In `gateway` the starts are two configurations, one without any block and one with everything
switched on, each with every single key changed to every value its reader tells apart and every single thing around
the process changed: each check is met switched off and on, alone and among all the others. Twenty bits put every
edge of the integers (the sign bit, the wrap of a sum or of a Duration, one beyond the width) within TLC's numbers, above the
constant of the envelope (300000) that must not wrap by itself. For the invariants that are also theorems the bound does
not matter.

`Settlement` and `Handout` stop when every request was answered, `Dashboard` when its events are used up:
`Quiet` lets them stutter there, so that TLC's deadlock check stays on everywhere.

### What the violated properties show

- `settlement_late`: reading a rejection drops whatever chain the user has *now*; a receipt read twice (by
  the watcher and by a client) drops the chain that replaced the rejected one. The specification says a late
  result must not alter it.
- `handout_twice`: the metatx closes the ticket before it reserves its nonce; the next client reads in between
  and gets the same number.
- `gateway_expiration`: the expiration of a metatx is converted to a signed number before it is compared, so one from
  2^63 to 2^64-1 is refused as expired. The specification says that the validation lets pass what is valid for longer than
  the minimum (`metatx-gas-model-validation/spec.md:70-73`), and that an expiration which is no moment in time is no
  reason for a rejection (91-95).

### Where passing properties part from what the repository says

These properties state exactly when the code departs from a rule that a specification, a comment or a document gives
without exceptions; the run shows that it does, in this case and in no other. Each is a finding.

| Property | What the code does | What the repository says |
|---|---|---|
| `DoorsAgree` | the verdicts differ exactly for what lacks the prefix or is not digits: `IsHexData` is asked by `POST /relay` alone, and `POST /` relays a transaction without prefix | "las dos puertas aceptan y rechazan exactamente las mismas metatx" (`endpoints.go:110`, `prepare.go:20`); "No puede haber dos criterios" (`relay-sync-relay-endpoint/spec.md:18`) |
| `TraceOfMetaTx` | `relay.rejected` follows `relay.sent` exactly if `POST /relay` gets no receipt (`endpoints.go:137`) | "el vencimiento no es un rechazo" (`relay.go:71`); `relay.rejected` is "se rechazo sin enviarla" (`relay-event-stream/spec.md:141`) |
| `NonceDoorsAgree` | the doors give different numbers exactly if the tracker's chain is behind the hub (`nonce.go:56`) | "las dos SHALL informar el MISMO valor" (`relay-nonce-endpoint/spec.md:141`); "Es lo que contestan las dos puertas" (`handout.go:52`; the same in `relaySignerService.go:408`) |
| `InfoTellsInForce` | a zero for which a default is used, milliseconds that overflow, and `windowMs` and `maxInflightPerUser` of a reordering that is off are reported although they are not in force (`info.go:90-92`) | "los valores informados son los que el servicio esta usando" (`relay-info-endpoint/spec.md:100`, and 87) |
| `PlacesReturned` | every place comes back unless the process ends: `readHubEvents` decodes a revert whose declared length wraps around (`settle.go:63`, `relaySignerService.go:592-594`), and nothing recovers the watcher's panic | "Ningun fallo de aca puede tumbar el proceso" (`watcher.go:64`); "el proceso sigue en ejecucion" (`metatx-receipt-watching/spec.md:93`) |
| `AnswersTruthful` | of a metatx the hub rejected without an event (`TxRelay.sol:38-41`) the receipt says status 1 and the result success; the result says success of an enveloping transaction that reverted as a whole, too | "El RelaySigner reescribe el resultado a fallido" (`docs/RECEIPT-FALLO-INTERNO.md:7`; its line 93 names the events that are covered) |
| `GrantedFits` | once the 64-bit counter of the block has wrapped around, a metatx is granted gas that does not fit (`relaySignerService.go:784`, `prepare.go:168`) | "the signer is set by default to refuse sending transactions that overpass the GAS remaining in each block" (`docs/OVERVIEW.md:179`) |

`AdmittedExactly` has the exceptions of the words: an expiration of 64 bits (violated as `AmpleExpirationPasses`), a longer one that
passes as the specification wants, and an envelope beyond 64 bits that wraps around and fits. `OneDocument` names the
requests that get none or two: parameters that are missing, an unknown tag, a revert whose declared length wraps around.

Two further observations of the models are not runs: a held metatx looks for the mark of its eviction only when it
wakes up, so one that is marked while it re-evaluates its turn is sent; and the page resumes after the *highest*
number it saw, so an event that was discarded before that one is not asked for again although the bus retains it.

### Fairness

Goroutines that can run do run: weak fairness on each request, reader, ticket, handler and delivery goroutine
(Go's scheduler is preemptive). Timers fire: strong fairness on the deadline of a wait, because being woken
again and again does not stop a clock, and on the receipt's deadline for the same reason; weak fairness on the
timers of tickets. Headers keep coming and transactions of the pool are executed while the node lives: weak
fairness on the watcher and on `Mine`, all of it as long as the process lives. `Acquire` is strongly fair: Go's mutex hands over to a waiter that
starved for a millisecond. Of the clients, of the lifetime of the cache, of the memory's limits and of pages
nothing is assumed (and in `GasWindow` nothing of the senders nor of what a block takes from the pool): a client need not send the metatx for the nonce it got, a page need not come back.

In `GasWindow` the block loop is scheduled (weak fairness), and strong fairness says that a node which lives is
reached again some time: connecting and subscribing do not fail for ever, and now and then a header arrives while
the socket is up. `Header` and `StopListening` are strongly fair because `select` picks among the ready cases at
random, and so picks each of them in the end. Without that, a service whose node never answers again keeps its
window closed, which is what the code does. In `Permissioning` the start and each check are scheduled (weak
fairness): a call to the node returns, with an answer or without. `RelayHub` and `Gateway` need no fairness.

## Proofs

Every invariant, action property and refinement that a passing run checks is also a theorem, for every number of
requests, nonces, readers, users, goroutines, pages and connections and for every choice of the faults (unless said
otherwise). The run shows on a small instance that the property is about reachable states and that a fault in the
code would break it; the theorem removes the bounds.

- `SettlementProofs`: `TypeCorrect`, `Spec => []TypeOK`, where `TypeOK` is inductive as it stands, and
  `TooManyMeansFullCorrect`: `QuotaInv` says that an evicted metatx carries the count it was evicted with, which was at
  least the quota, so that the answer is right when it is delivered later.

  `ReservationCorrect` and `ChainOrderCorrect`. The invariant `ReservationInv` adds to the
  two properties that chain identities are never reused, that a metatx is in the account's queue exactly from
  its send on, and that every metatx reserved on the live chain has a nonce below the chain's next one; the
  last is what makes the order of a chain inductive, and it holds because the nonce is compared, sent and
  reserved under one lock of the user while anyone may drop the chain in between.

  `HeldExactCorrect`. The registry is a sequence from which one element is taken out at a time, and the one to evict is
  the highest nonce of it. The lemmas say what is left after either (each other element, once), and `HeldInv` adds for
  every request (`HeldLocal`) where it can be once it noted the nonce it waits for, and that an evicted one was held
  before, so that it is not held again; a step of one request moves the entry of at most one other, the one it evicts.

  `PendingNotShortCorrect`, and `PendingExactCorrect` for a memory that does not forget.
  `PendingInv` says where the one token of each reserved metatx is: with its goroutine, in its memory entry, or
  with exactly one reader; a chain some reader read a rejection of is not the live one. Each action moves a
  token or leaves the count alone. `ClosedOnceCorrect`, for a memory that does not forget, adds `ClosureInv`: a
  metatx whose end was logged is still remembered and marked as settled, so no other reader can claim it.

  `HubTakesEverySendCorrect`, with a node that answers, a hub that rejects for the nonce only, results that can be decoded and no timeout
  (`Undisturbed`; these are what the property is about, and the memory may still forget). `HubShape` says that the metatx
  sent and not mined have consecutive nonces from the hub's on, and that what a chain expects next comes right after
  them; `PendingCovers` that a chain cannot end while one of them is unresolved, which is why a chain that
  starts again from the hub's nonce does not start too low.
- `UserLocksProofs`: `TypeCorrect`, `MutualExclusionCorrect`, `EntryWhileUsedCorrect` and the refinement
  `ImplementsMutexCorrect`. `LockInv` says that a lock counts exactly the goroutines registered on it, that
  the goroutines of one user share one lock, which is the one in the map, and that users do not share locks.
- `HandoutProofs`: `OneTurnCorrect`, `TicketsCleanedCorrect`, `TypeCorrect`. `QueueInv` orders the clients by the time
  they asked: everyone in front of a client that had its turn has a closed ticket, the end of the queue is the last to ask unless every ticket
  is closed, and a ticket that a metatx or a timer is about to close or to take out has had its turn. `CleanInv`
  says who is still to take out the ticket a map points at: its client until it is answered, its timer from then on;
  the metatx is not counted on.
- `DashboardProofs`: `ExactlyOnceCorrect` and the refinement of the abstract log, `ImplementsLogCorrect`. `RingExact`
  says which event each slot of the ring holds; from it the lemmas derive what `replayLocked` returns for every starting
  point. `StreamInv` follows an event through a connection: what is left of the history, the channel of the handler and
  the channel of the bus rise one behind the other and without holes unless something was dropped, and all of it is later
  than what the page has shown, also after the page changed its connection.
- `GasWindowProofs`: `TypeCorrect`, `EscapesBounded`, `SendsDoNotCross` and the action property `GrantedFitsCorrect`.
  `IInv` adds that whoever is in the
  critical section holds `relayLock`, and that a metatx which lost its grant to a header and is still to be sent
  finds nobody escaped: it is alone in the critical section, so it is the only one the header could catch.
  `CounterCovers` says that the counter, unless it has wrapped around, has at least the gas of everything granted; the lemmas on `GasSum` show that the
  sum over a finite set exists, is a number and does not depend on the order of its elements.
- `RelayHubProofs`: `TypeCorrect`, `RegistryCorrect`, `LimitsCorrect`, `TakenInOrderCorrect` and the action property
  `LimitsFreshCorrect`. The registry is inductive with its
  type (the cases of a deletion are the node itself last, the last node moved, and the others). The limits need
  the registry, because a calculation writes to the array's nodes while `exists` asks the index; they need `TypeOK` for the
  divisions. The order of the metatx needs that a nonce counts what was taken. That limits are fresh follows step by
  step: an account's first transaction in a block calculates whatever is a period old before it is entered.
- `PermissioningProofs`: `TypeCorrect`, `NodeReportCorrect`, `AcceptedCorrect`, `RefusedCorrect`, for any accounts,
  contracts, overlapping checks, lifetimes and readings. `IInv` adds to the types that the history is up to date with
  the lists, that nothing is read or cached before the rules are resolved, that what a check has read was so as long
  ago as the reading is old (`ReadInv`), and that what an entry says was so no longer ago than the slowest reading and
  the part of its lifetime that is over (`CacheInv`). An older reading remembered last satisfies it as well, which is
  why overlapping checks do no harm beyond that window.
- `GatewayProofs`: `InfoTellsInForceCorrect`, `AdmittedExactlyCorrect`, `DoorsAgreeCorrect`, `TraceOfMetaTxCorrect`,
  `OneDocumentCorrect`, `AnswersTruthfulCorrect`, `NonceDoorsAgreeCorrect`: for any file, any world and any request,
  where the run has a table of them. `GatewayInv` says what a request has logged, done and answered at
  each step and lists the ways it can end (`Progress`, `Ended`), and that the configuration in force was read from the file
  (`Setting`). Four of the properties follow from the end a request came to; that a metatx is admitted exactly if it is
  admissible needs in addition that the conversions between words of 63 and 64 bits, with their wraps, decide as the comparison of
  the natural numbers does outside of the named exceptions. The two about doors compare requests: `History` says that every
  verdict and every nonce given so far is the one that this door gives of that transaction, or of that world. What is in
force needs that a product of milliseconds equals its Duration exactly below 2^63 (`DurationIs`).

Assumptions are those of the modules: finite sets of requests and goroutines, a positive quota, as many lock
objects as goroutines, a positive lifetime of the cache. `GatewayAssumption` says of what files, worlds and requests are
made, which is what the types of the code guarantee: an integer of the file fits an `int64`, a gas limit a `uint64`, and
the data of a transaction, which are held in memory, do not bring the gas computed from their length alone to 2^64;
numbers of the hub and lengths are natural, and each choice is among the cases the handlers tell apart.
`WordAssumption` says of powers of two what the provers cannot derive, and that the defaults of the configuration fit a
word, as milliseconds too. All are evaluated by the runs. The type invariants of the modules with proofs are theorems and not repeated by the runs.

Three facts recur. Sets of naturals have a least element: it stands for induction, which the provers cannot apply to an operator,
and gives the smallest counterexample in the proofs about the sum of gas, the scan of the ring and the highest held
nonce. Sequences that agree in length and in every place are equal; and a sequence after an
append or a removal has the old elements at known places.

Only model-checked: liveness, which these provers do not reach (`EveryRequestAnswered`, `PlacesReturned`, `EveryoneEnters`,
`EveryAskAnswered`, `Delivered`, `PlaceFreed`, `WindowReopens`, `LoopStops`, `ListensInTheEnd`). The three violated
properties are shown by their counterexamples.

## Not modelled

Generated contract bindings (`blockchain/contracts`), the vendored hash (`sha3`), samples and tutorials. Of the JSON-RPC
package the codec for connections and the error types that the service never raises; of the client the calls that no
modelled handler makes; formatting, identifiers, levels and redaction of log lines; the drawing of the page. They keep
no state that the service reads back. The settings of the HTTP server (its timeouts of a connection) are real time, of
which the models have only the order. A restart of the service is not modelled: it persists nothing.

There is no property about the chain of a user that goes on
over a nonce which the hub rejected without an event, or about a nonce that is sent twice after an answer of the node was lost.

## What could follow

1. The hub of `Settlement` as an abstraction of `RelayHub`, and `GasWindow` and `Reorder` over one account.
2. `Gateway` with concurrent requests, its `world` replaced by the modules it stands for.
3. A restart under `Dashboard`: numbers start again while the page remembers its own.
4. Proofs of what a composition of 1 and 2 would promise, from the theorems of its parts.
