------------------------------ MODULE Gateway ------------------------------
(***************************************************************************)
(* The service from its start to the answer of a request: main.go reads    *)
(* the configuration and service.Init checks it, the router                *)
(* (controller/router.go) passes requests to the JSON-RPC catch-all and to *)
(* the REST endpoints, and both doors of the relay lead to the one path of *)
(* PrepareMetaTx and ReserveGasAndSend.                                    *)
(*                                                                         *)
(* What happens between requests is in other modules (Reorder, Settlement, *)
(* Handout, GasWindow, Permissioning); "world" is what their parts and the *)
(* chain answer, and stays as it is while two requests are compared:       *)
(*   permit             AccountPermitted                                   *)
(*   room               the gas this node may use in a block (no metatx    *)
(*                      before this one in it: see GasWindow)              *)
(*   send               what becomes of the sending: "BAD_NONCE",          *)
(*                      "TOO_MANY_INFLIGHT" (of the turn), "quotaUnknown", *)
(*                      "notTaken" (of the node), "ok"                     *)
(*   connects, reads    whether the node takes a connection, a call        *)
(*   mined, outcome     whether a receipt comes in time, and which         *)
(*   output             of a revert                                        *)
(*   chain, tracked     the user's nonce at the hub, in the tracker        *)
(***************************************************************************)
EXTENDS Admission

CONSTANTS
    Starts,          \* [host, file, world] the service may start with
    Requests,        \* the requests it may get first
    Counterpart(_),  \* the requests that may follow one, to compare them
    NoNonce          \* the tracker has no chain of the user

INSTANCE Answers WITH WordWidth <- Width

VARIABLES
    host,       \* the process's arguments, key and node, and whether the file can be read
    file,       \* config.toml
    world,
    phase,      \* "start", "init", "serving", "exited", "aborted", "panicked"
    config,     \* the values read, by key; and the keys discarded
    served,     \* requests answered
    req, pc,    \* the request in hand, and its next step
    trace,      \* the events its handler logged, in order
    acts,       \* what it had done: at the node, and to the tracker
    reply,      \* what was written to its connection
    tried,      \* the transactions offered so far, with the verdict
    offered     \* the nonces given to clients so far

requestVars == <<req, pc, trace, acts, reply>>
historyVars == <<tried, offered>>
startVars == <<host, file, world, phase, config>>
vars == <<startVars, served, requestVars, historyVars>>

(***************************************************************************)
(* What the starts and the requests are made of: integers in the file are  *)
(* of 64 bits, the gas limit is a uint64, and the data of a transaction    *)
(* are held in memory, far below the 64 bits its gas is computed in.       *)
(***************************************************************************)
IsFile(f) ==
    \A k \in Keys : f[k].kind = "number" => f[k].n \in -(2 ^ (Width - 1))..(2 ^ (Width - 1) - 1)

IsWorld(w) ==
    /\ w.outcome \in Outcomes
    /\ w.send \in {"BAD_NONCE", "TOO_MANY_INFLIGHT", "quotaUnknown", "notTaken", "ok"}
    /\ w.output.declared \in Nat
    /\ w.room \in Nat
    /\ w.chain \in Nat /\ w.tracked \in Nat \cup {NoNonce}

IsRequest(r) ==
    /\ r.namespace \in {"eth", "priv", "eea"}
    /\ r.params \in {"notList", "none", "short", "full"}
    /\ r.tx.text \in {"blank", "junk", "odd", "even"}
    /\ r.tx.dataBytes \in Nat /\ r.tx.dataBytes * 105 + 300000 <= 2 ^ Width
    /\ r.tx.expiration \in Nat
    /\ r.tx.gas \in 0..(2 ^ Width - 1)

ASSUME GatewayAssumption ==
    /\ NoNonce \notin Nat
    /\ \A s \in Starts : IsFile(s.file) /\ IsWorld(s.world)
    /\ \A r \in Requests : IsRequest(r) /\ \A q \in Counterpart(r) : IsRequest(q)

NoConfig == [values |-> <<>>, discarded |-> {}]
NoReply == [status |-> 0, documents |-> 0, code |-> "none", number |-> "none",
            form |-> "none", value |-> {}]
c == config.values
Doors == {"POST /", "POST /relay"}

Init ==
    /\ \E s \in Starts : host = s.host /\ file = s.file /\ world = s.world
    /\ phase = "start"
    /\ config = NoConfig
    /\ served = 0
    /\ req = <<>> /\ pc = "idle"
    /\ trace = <<>> /\ acts = <<>> /\ reply = NoReply
    /\ tried = {} /\ offered = {}

-----------------------------------------------------------------------------
(***************************************************************************)
(* main: the version is printed before the file is looked for.             *)
(***************************************************************************)
ReadConfig ==
    /\ phase = "start"
    /\ LET read == IF host.readable THEN getConfigFromFile(file) ELSE {}
       IN CASE host.version -> phase' = "exited" /\ config' = config
            [] ~host.version /\ read = {} -> phase' = "aborted" /\ config' = config
            [] OTHER -> phase' = "init" /\ config' \in read
    /\ UNCHANGED <<host, file, world, served, requestVars, historyVars>>

(***************************************************************************)
(* service.Init, and the start of the server: the key of the node, of      *)
(* which 64 digits are cut out; somewhere to take the rules from; the      *)
(* address of the hub, which the node's proxy contract must give.  What    *)
(* ResolveAccountRules finds does not matter here (see Permissioning).     *)
(***************************************************************************)
HasRulesSource(v) ==
    \/ v["security.accountContractAddress"] \in HexAddresses
    \/ v["security.accountIngressAddress"] \in HexAddresses

(***************************************************************************)
(* The answer of the node's proxy contract must be one word; that of a     *)
(* proxy which was never set is the zero address, and is taken for one.    *)
(***************************************************************************)
getRelayHubContractAddress == host.proxy \in {"address", "zero"}

InitService ==
    /\ phase = "init"
    /\ phase' = CASE host.key = "short" -> "panicked"
                  [] host.key \in {"unset", "invalid"} -> "aborted"
                  [] OTHER -> IF c["security.permissionsEnabled"] /\ ~HasRulesSource(c)
                              THEN "aborted"
                              ELSE IF getRelayHubContractAddress THEN "serving" ELSE "aborted"
    /\ UNCHANGED <<host, file, world, config, served, requestVars, historyVars>>

-----------------------------------------------------------------------------
(***************************************************************************)
(* A request comes, is answered, and is closed.                            *)
(***************************************************************************)
Arrive ==
    /\ phase = "serving" /\ pc = "idle"
    /\ \/ served = 0 /\ req' \in Requests
       \/ served = 1 /\ req' \in Counterpart(req)
    /\ pc' = "cors"
    /\ trace' = <<>> /\ acts' = <<>> /\ reply' = NoReply
    /\ UNCHANGED <<startVars, served, historyVars>>

Close ==
    /\ pc = "done"
    /\ pc' = "idle"
    /\ served' = served + 1
    /\ UNCHANGED <<startVars, req, trace, acts, reply, historyVars>>

\* The document of a reply: its form, and the value in it that matters, if any.
Write(status, form, value) ==
    reply' = [reply EXCEPT !.status = status, !.documents = @ + 1,
                           !.form = form, !.value = value]
WriteError(status) == Write(status, "error", {})

Error(number) ==
    reply' = [reply EXCEPT !.status = 200, !.documents = @ + 1, !.form = "error",
                           !.number = errorMessage(number)]

Logged(event) == [event |-> event, number |-> "none"]
Log(event) == trace' = Append(trace, Logged(event))

(***************************************************************************)
(* withCORS: a preflight is answered here, but only when origins are       *)
(* configured; any other request goes on, from an unknown origin too.      *)
(***************************************************************************)
withCORS ==
    /\ pc = "cors"
    /\ IF req.method = "OPTIONS" /\ c["cors.allowedOrigins"] # {}
       THEN pc' = "done" /\ reply' = [reply EXCEPT !.status = 204]
       ELSE pc' = "route" /\ reply' = reply
    /\ UNCHANGED <<startVars, served, req, trace, acts, historyVars>>

(***************************************************************************)
(* Routes: every path without a handler of its own is JSON-RPC, whatever   *)
(* its method, the dashboard's paths too when it is switched off.          *)
(***************************************************************************)
Handlers ==
    LET rest == [p \in {"/info", "/relay", "/nonce/"} |->
                    CASE p = "/info" -> [method |-> "GET", handler |-> "info"]
                      [] p = "/relay" -> [method |-> "POST", handler |-> "relay"]
                      [] p = "/nonce/" -> [method |-> "GET", handler |-> "nonce"]]
    IN [p \in DOMAIN rest \cup (IF c["dashboard.enabled"] THEN {"/dashboard"} ELSE {}) |->
            IF p = "/dashboard" THEN [method |-> "GET", handler |-> "page"] ELSE rest[p]]

Route ==
    /\ pc = "route"
    /\ IF req.path \notin DOMAIN Handlers
       THEN pc' = "rpc" /\ reply' = reply
       ELSE IF req.method # Handlers[req.path].method
       THEN pc' = "done" /\ WriteError(405)
       ELSE pc' = Handlers[req.path].handler /\ reply' = reply
    /\ UNCHANGED <<startVars, served, req, trace, acts, historyVars>>

-----------------------------------------------------------------------------
(***************************************************************************)
(* The REST endpoints.                                                     *)
(***************************************************************************)
Info ==
    /\ pc = "info"
    /\ Write(200, "info", Reported(c))
    /\ pc' = "done"
    /\ UNCHANGED <<startVars, served, req, trace, acts, historyVars>>

Page ==
    /\ pc = "page"
    /\ Write(200, "page", {})
    /\ pc' = "done"
    /\ UNCHANGED <<startVars, served, req, trace, acts, historyVars>>

(***************************************************************************)
(* expectedNonce, which HandOutNonce gives to both doors: the tracker's,   *)
(* or the hub's; the set is empty when it cannot be read.                  *)
(***************************************************************************)
OnChain == IF world.connects /\ world.reads THEN {world.chain} ELSE {}
expectedNonce == IF world.tracked # NoNonce THEN {world.tracked} ELSE OnChain

\* Faulty variant: what was handed out is not looked at.
NonceOnChain ==
    {[onChain |-> n, next |-> n] : n \in OnChain}

(***************************************************************************)
(* NonceOf: the hub is asked first; the next nonce is what was handed out  *)
(* if that is more.                                                        *)
(***************************************************************************)
NonceOf ==
    {[onChain |-> n, next |-> IF \E h \in expectedNonce : h > n
                              THEN CHOOSE h \in expectedNonce : TRUE ELSE n] : n \in OnChain}

Nonce ==
    /\ pc = "nonce"
    /\ IF req.address = "good" /\ NonceOf # {}
       THEN \E state \in NonceOf :
                /\ Write(200, "nonce", state)
                /\ offered' = offered \cup {[door |-> "GET /nonce", nonce |-> state.next]}
                /\ trace' = trace
       ELSE /\ WriteError(400)
            /\ offered' = offered
            /\ IF req.address = "good" THEN Log("nonce.failed") ELSE trace' = trace
    /\ pc' = "done"
    /\ UNCHANGED <<startVars, served, req, acts, tried>>

-----------------------------------------------------------------------------
(***************************************************************************)
(* SignTransaction: the JSON-RPC methods are told apart by the namespace   *)
(* first, and then by what follows it.                                     *)
(***************************************************************************)
BadBody ==
    /\ pc = "rpc" /\ ~req.readable
    /\ Log("http.bad_body")
    /\ reply' = [reply EXCEPT !.status = 200]
    /\ pc' = "done"
    /\ UNCHANGED <<startVars, served, req, acts, historyVars>>

Private ==
    /\ pc = "rpc" /\ req.readable
    /\ req.namespace \in {"priv", "eea"}
    /\ acts' = IF req.namespace = "eea" THEN <<"DecreaseGasUsed", "proxy">> ELSE <<"proxy">>
    /\ pc' = "done"
    /\ UNCHANGED <<startVars, served, req, trace, reply, historyVars>>

Calls(suffix) ==
    /\ pc = "rpc" /\ req.readable
    /\ req.namespace \notin {"priv", "eea"}
    /\ req.suffix = suffix

Unsupported ==
    /\ Calls("other")
    /\ Error("none")
    /\ pc' = "done"
    /\ UNCHANGED <<startVars, served, req, trace, acts, historyVars>>

(***************************************************************************)
(* A panic of a handler: net/http closes the connection without an answer. *)
(***************************************************************************)
Panics == reply' = reply

(***************************************************************************)
(* processGetTransactionReceipt and GetTransactionReceipt: the first       *)
(* parameter is taken, and two characters of it cut off, unseen; an error  *)
(* in reading the receipt is logged and answered as no receipt.            *)
(***************************************************************************)
Faults == world.outcome = "reverted" /\ decodeRevertReason(world.output) = "fault"

(***************************************************************************)
(* All the decoders that meet BadTransactionSent discard what the tracker  *)
(* has of the user and log relay.hub_rejected; "more" is logged after it.  *)
(***************************************************************************)
HubRejected == Saw(Receipt(world.outcome), "BadTransactionSent")

ReadEvents(more) ==
    /\ acts' = IF HubRejected THEN Append(acts, "invalidateNonce") ELSE acts
    /\ trace' = trace \o (IF HubRejected THEN <<Logged("relay.hub_rejected")>> ELSE <<>>) \o more

processGetTransactionReceipt ==
    /\ Calls("getTransactionReceipt")
    /\ IF req.params = "full" /\ world.connects /\ world.reads /\ world.mined /\ ~Faults
       THEN /\ Write(200, "receipt", [status |-> GetTransactionReceipt(Receipt(world.outcome))])
            /\ ReadEvents(<<>>)
       ELSE /\ CASE req.params = "notList" -> Error("none")
                 [] req.params \in {"none", "short"} -> Panics
                 [] OTHER -> IF ~world.connects THEN Error("own")
                             ELSE IF Faults /\ world.reads /\ world.mined THEN Panics
                             ELSE Write(200, "null", {})
            /\ UNCHANGED <<trace, acts>>
    /\ pc' = "done"
    /\ UNCHANGED <<startVars, served, req, historyVars>>

processGetMetaTxResult ==
    /\ Calls("getMetaTxResult")
    /\ IF req.params = "full" /\ world.connects /\ world.reads /\ world.mined /\ ~Faults
       THEN /\ Write(200, "result", [success |-> GetMetaTxResult(Receipt(world.outcome))])
            /\ ReadEvents(<<>>)
       ELSE /\ CASE req.params \in {"notList", "none"} -> Error("none")
                 [] req.params = "short" -> Panics
                 [] OTHER -> IF world.connects /\ world.reads /\ world.mined
                             THEN Panics ELSE Error("own")
            /\ UNCHANGED <<trace, acts>>
    /\ pc' = "done"
    /\ UNCHANGED <<startVars, served, req, historyVars>>

(***************************************************************************)
(* processTransactionCount and GetTransactionCount.  A tag that is not     *)
(* known is an error, and then the answer that was never made is written   *)
(* as well; the error of a read is logged, and the number that is not      *)
(* there is formatted.                                                     *)
(***************************************************************************)
CountPending == req.tag = "pending" /\ expectedNonce # {}
Counted == IF CountPending THEN expectedNonce ELSE OnChain

processTransactionCount ==
    /\ Calls("getTransactionCount")
    /\ offered' = IF req.params \in {"short", "full"} /\ req.tag = "pending"
                  THEN offered \cup {[door |-> "POST /", nonce |-> n] : n \in Counted}
                  ELSE offered
    /\ CASE req.params = "notList" -> Error("none")
         [] req.params = "none" -> Panics
         [] OTHER ->
            IF req.tag = "other"
            THEN reply' = [reply EXCEPT !.status = 200, !.documents = 2,
                                        !.number = errorMessage("none"), !.form = "null"]
            ELSE IF ~CountPending /\ ~world.connects THEN Error("own")
            ELSE Write(200, IF Counted = {} THEN "0x<nil>" ELSE "count", Counted)
    /\ pc' = "done"
    /\ UNCHANGED <<startVars, served, req, trace, acts, tried>>

-----------------------------------------------------------------------------
(***************************************************************************)
(* The two doors of the relay.  A rejection is logged with the number of   *)
(* the error and written in the door's own form.                           *)
(***************************************************************************)
Door == IF req.path = "/relay" THEN "POST /relay" ELSE "POST /"

Reject(logged, code, number) ==
    /\ trace' = trace \o logged \o <<[event |-> "relay.rejected", number |-> number]>>
    /\ reply' = [reply EXCEPT
                    !.status = IF Door = "POST /" THEN 200 ELSE 400,
                    !.documents = @ + 1,
                    !.form = "error",
                    !.code = IF Door = "POST /" THEN "none" ELSE code,
                    !.number = IF Door = "POST /" THEN errorMessage(number) ELSE "none"]
    /\ pc' = "done"

Try(verdict) == tried' = tried \cup {[door |-> Door, tx |-> req.tx, verdict |-> verdict]}

processRawTransaction ==
    /\ Calls("sendRawTransaction")
    /\ IF req.params \in {"notList", "none"}
       THEN Reject(<<>>, "RELAY_ERROR", "none")
       ELSE pc' = "prepare" /\ UNCHANGED <<trace, reply>>
    /\ UNCHANGED <<startVars, served, req, acts, historyVars>>

\* Faulty variant: the answer to a bad request does not end the handler.
RelayGoesOn ==
    /\ pc = "relay"
    /\ IF req.readable /\ IsHexData(req.tx)
       THEN UNCHANGED <<trace, reply>> ELSE Log("relay.bad_request") /\ WriteError(400)
    /\ pc' = "prepare"
    /\ UNCHANGED <<startVars, served, req, acts, historyVars>>

Relay ==
    /\ pc = "relay"
    /\ IF req.readable /\ IsHexData(req.tx)
       THEN pc' = "prepare" /\ UNCHANGED <<trace, reply, tried>>
       ELSE /\ Log("relay.bad_request")
            /\ WriteError(400)
            /\ IF req.readable THEN Try("bad request") ELSE tried' = tried
            /\ pc' = "done"
    /\ UNCHANGED <<startVars, served, req, acts, offered>>

\* Faulty variant: a rejection leaves before its events are logged.
PrepareSilently ==
    /\ pc = "prepare"
    /\ LET verdict == PrepareMetaTx(req.tx, c, world.permit)
       IN IF verdict = "ok"
          THEN /\ trace' = trace \o <<Logged("relay.received"), Logged("relay.decoded")>>
               /\ pc' = "send"
               /\ UNCHANGED <<reply, tried>>
          ELSE Reject(<<>>, verdict, ErrorCode(req.tx)) /\ Try(verdict)
    /\ UNCHANGED <<startVars, served, req, acts, offered>>

(***************************************************************************)
(* PrepareMetaTx with the events it logs.                                  *)
(***************************************************************************)
Prepare ==
    /\ pc = "prepare"
    /\ LET verdict == PrepareMetaTx(req.tx, c, world.permit)
           logged == IF Decodes(req.tx)
                     THEN <<Logged("relay.received"), Logged("relay.decoded")>>
                     ELSE <<Logged("relay.received")>>
       IN IF verdict = "ok"
          THEN trace' = trace \o logged /\ pc' = "send" /\ UNCHANGED <<reply, tried>>
          ELSE Reject(logged, verdict, ErrorCode(req.tx)) /\ Try(verdict)
    /\ UNCHANGED <<startVars, served, req, acts, offered>>

(***************************************************************************)
(* ReserveGasAndSend: the quota of gas, the turn and the nonce when the    *)
(* reordering is on, and the sending itself.  The door of JSON-RPC answers *)
(* the hash, the other one waits.                                          *)
(***************************************************************************)
SendVerdict ==
    First(<<IF c["reorder.enabled"] /\ world.send \in {"BAD_NONCE", "TOO_MANY_INFLIGHT"}
            THEN world.send ELSE "ok",
            IF world.send = "quotaUnknown" THEN "SEND_FAILED" ELSE "ok",
            IF metaTxGasLimit(req.tx) > world.room THEN "RELAY_ERROR" ELSE "ok",
            IF world.send = "notTaken" THEN "SEND_FAILED" ELSE "ok">>)

ReserveGasAndSend ==
    /\ pc = "send"
    /\ Try(SendVerdict)
    /\ IF SendVerdict # "ok"
       THEN Reject(<<>>, SendVerdict, "own") /\ acts' = acts
       ELSE /\ acts' = Append(acts, "send")
            /\ Log("relay.sent")
            /\ IF Door = "POST /"
               THEN Write(200, "hash", {}) /\ pc' = "done"
               ELSE reply' = reply /\ pc' = "wait"
    /\ UNCHANGED <<startVars, served, req, offered>>

(***************************************************************************)
(* waitForReceipt and decodeRelayResult: the result, or that the metatx    *)
(* was sent and nothing is known of it.  The end is logged unless the      *)
(* watcher did so before (settle, claimSettled).                           *)
(***************************************************************************)
waitForReceipt ==
    /\ pc = "wait"
    /\ IF ~(world.connects /\ world.reads /\ world.mined)
       THEN Reject(<<>>, "RECEIPT_TIMEOUT", "own") /\ acts' = acts
       ELSE IF Faults
       THEN Panics /\ pc' = "done" /\ UNCHANGED <<trace, acts>>
       ELSE /\ \/ ReadEvents(<<Logged("relay.settled")>>)
               \/ c["reorder.enabled"] /\ ReadEvents(<<>>)
            /\ Write(200, "relayed", [executed |-> readHubEvents(Receipt(world.outcome))])
            /\ pc' = "done"
    /\ UNCHANGED <<startVars, served, req, historyVars>>

(***************************************************************************)
(* The process has stopped, or no further request is to be looked at.      *)
(***************************************************************************)
Rest ==
    /\ \/ phase \in {"exited", "aborted", "panicked"}
       \/ pc = "idle" /\ served = 1 /\ Counterpart(req) = {}
       \/ pc = "idle" /\ served = 2
    /\ UNCHANGED vars

Next ==
    \/ ReadConfig \/ InitService
    \/ Arrive \/ withCORS \/ Route \/ Close
    \/ Info \/ Page \/ Nonce
    \/ BadBody \/ Private \/ Unsupported
    \/ processGetTransactionReceipt \/ processGetMetaTxResult \/ processTransactionCount
    \/ processRawTransaction \/ Relay \/ Prepare \/ ReserveGasAndSend \/ waitForReceipt
    \/ Rest

Spec == Init /\ [][Next]_vars

-----------------------------------------------------------------------------
(***************************************************************************)
(* Properties, of a request that is done unless they say otherwise.        *)
(***************************************************************************)
Done == pc = "done"
HasActed(act) == \E i \in 1..Len(acts) : acts[i] = act

(***************************************************************************)
(* GET /info reports the value in force, and zero for what does not apply, *)
(* in exactly these cases; "los valores informados son los que el servicio *)
(* esta usando" (relay-info-endpoint/spec.md:100) has no exceptions, and   *)
(* the code has three: a zero in the file for which the default is used,   *)
(* milliseconds that overflow as a Duration, and what only the reordering  *)
(* would apply while it is switched off (info.go:90).                      *)
(***************************************************************************)
Parameters == {"windowMs", "maxInflightPerUser", "receiptTimeoutMs", "autoNonceTicketMs"}
Unit(k) == IF k = "maxInflightPerUser" THEN 1 ELSE Millisecond

Told(k) ==
    IF InForce(c, k) = {} THEN reply.value[k] = 0
    ELSE InForce(c, k) = {reply.value[k] * Unit(k)}

Misread(k) ==
    /\ k # "maxInflightPerUser"
    /\ \/ 0 \in toInt(file[k])
       \/ \E n \in toInt(file[k]) : n * Millisecond >= 2 ^ (Width - 1)

InfoTellsInForce ==
    Done /\ reply.form = "info" =>
        \A k \in Parameters :
            CASE k = "autoNonceTicketMs" /\ ~c["reorder.autoNonce"] -> Told(k)
              [] k \in {"windowMs", "maxInflightPerUser"} /\ ~c["reorder.enabled"] ->
                    Told(k) <=> k = "windowMs" /\ 0 \in toInt(file[k])
              [] OTHER -> Told(k) <=> ~Misread(k)

(***************************************************************************)
(* A metatx is sent exactly if it can be decoded, its suffix is accepted   *)
(* by the checks that are switched on, its sender is, and its turn, its    *)
(* gas and the node let it through (validation.go, prepare.go).  The       *)
(* expiration is compared as the natural number it is, except that one of  *)
(* 64 bits counts as expired, which the specification does not want (see   *)
(* AmpleExpirationPasses); and the gas is that of the whole envelope,      *)
(* except that a sum beyond 64 bits wraps around.                          *)
(***************************************************************************)
RPC(suffixes) ==
    /\ req.path \notin DOMAIN Handlers
    /\ req.readable /\ req.namespace = "eth" /\ req.suffix \in suffixes

RawOffered ==
    \/ RPC({"sendRawTransaction"}) /\ req.params \in {"short", "full"}
    \/ req.path = "/relay" /\ req.method = "POST" /\ req.readable /\ req.tx.prefix

ExpirationServes(tx) ==
    /\ tx.expiration > Now
    /\ tx.expiration + c.expirationToleranceSeconds >= Now + c.minExpirationSeconds
    /\ tx.expiration \notin (2 ^ (Width - 1))..(2 ^ Width - 1)

EnvelopeFits(tx) ==
    LET envelope == tx.gas + tx.dataBytes * 105 + 300000
    IN \/ envelope <= world.room
       \/ envelope >= 2 ^ Width /\ envelope - 2 ^ Width <= world.room

Admissible(tx) ==
    /\ tx.text = "even" /\ tx.signature = "good"
    /\ tx.dataBytes >= 64 =>
        /\ c["validation.enforceNodeAddress"] => tx.node = "me"
        /\ c["validation.enforceExpiration"] => ExpirationServes(tx)
    /\ c["security.permissionsEnabled"] => world.permit = "permitted"
    /\ EnvelopeFits(tx)
    /\ world.send \notin {"quotaUnknown", "notTaken"}
    /\ c["reorder.enabled"] => world.send = "ok"

AdmittedExactly ==
    Done => (HasActed("send") <=> RawOffered /\ reply.status # 204 /\ Admissible(req.tx))

(***************************************************************************)
(* The validation lets pass a metatx whose remaining validity is more than *)
(* the minimum, by both doors and whatever else it is refused for          *)
(* (metatx-gas-model-validation/spec.md:70-73).                            *)
(***************************************************************************)
AmpleExpirationPasses ==
    \A a \in tried :
        a.tx.expiration > Now + c.minExpirationSeconds =>
            a.verdict \notin {"EXPIRED", "EXPIRATION_TOO_LOW"}

(***************************************************************************)
(* Of the same transaction the doors give the same verdict, code for code, *)
(* exactly if it is written with a prefix and digits.  "Las dos puertas    *)
(* aceptan y rechazan exactamente las mismas metatx" (endpoints.go:110,    *)
(* relay-sync-relay-endpoint/spec.md:17) says it of every one; but the     *)
(* check of the form is POST /relay's alone (IsHexData), and POST / relays *)
(* what only lacks the prefix.                                             *)
(***************************************************************************)
DoorsAgree ==
    \A a, b \in tried :
        a.tx = b.tx =>
            (a.verdict = b.verdict <=>
                a.door = b.door \/ (a.tx.prefix /\ a.tx.text \in {"odd", "even"}))

(***************************************************************************)
(* The events of a metatx in the log: each at most once; whatever is taken *)
(* for a transaction leaves relay.received first, and relay.decoded before *)
(* it is judged or sent; it is closed by relay.sent or by relay.rejected,  *)
(* and nothing follows a rejection.  It is closed by both exactly when the *)
(* wait of POST /relay ends without a receipt: there the handler logs as   *)
(* rejected what was sent, although relay.rejected is "se rechazo sin      *)
(* enviarla" (relay-event-stream/spec.md:141) and "el vencimiento no es un *)
(* rechazo" (relay.go:71).  The number of an error in the log is the one   *)
(* the JSON-RPC client got (structured.go:158).                            *)
(***************************************************************************)
Names == {trace[i].event : i \in 1..Len(trace)}
At(event) == CHOOSE i \in 1..Len(trace) : trace[i].event = event

ReceiptComes == world.connects /\ world.reads /\ world.mined

Once(event) ==
    \A i, j \in 1..Len(trace) : trace[i].event = event /\ trace[j].event = event => i = j

TraceOfMetaTx ==
    /\ \A event \in {"relay.received", "relay.decoded", "relay.sent", "relay.rejected"} :
            Once(event)
    /\ "relay.decoded" \in Names => At("relay.received") < At("relay.decoded")
    /\ "relay.sent" \in Names =>
        "relay.decoded" \in Names /\ At("relay.decoded") < At("relay.sent")
    /\ "relay.rejected" \in Names => trace[Len(trace)].event = "relay.rejected"
    /\ Done /\ "relay.sent" \in Names =>
        ("relay.rejected" \in Names <=> req.path = "/relay" /\ ~ReceiptComes)
    /\ Done /\ "relay.received" \in Names =>
        "relay.sent" \in Names \/ "relay.rejected" \in Names
    /\ Done /\ "relay.rejected" \in Names /\ "relay.received" \notin Names =>
        req.path # "/relay" /\ req.params \in {"notList", "none"}
    /\ Done /\ reply.number # "none" /\ "relay.rejected" \in Names =>
        trace[Len(trace)].number \in {"none", reply.number}

(***************************************************************************)
(* A client gets one document for its request, except: a preflight and a   *)
(* body that is not JSON get none, a private transaction gets the node's;  *)
(* a handler that panics on parameters it did not look at, or on a revert  *)
(* whose declared length wraps around, writes none; and an unknown tag     *)
(* gets two.                                                               *)
(***************************************************************************)
OneDocument ==
    Done /\ reply.documents # 1 =>
        \/ reply.status = 204
        \/ ~req.readable
        \/ req.namespace # "eth"
        \/ RPC({"getTransactionReceipt", "getTransactionCount"}) /\ req.params = "none"
        \/ RPC({"getTransactionReceipt", "getMetaTxResult"}) /\ req.params = "short"
        \/ RPC({"getTransactionCount"}) /\ req.tag = "other" /\ reply.documents = 2
        \/ world.outcome = "reverted" /\ 68 + world.output.declared >= 2 ^ Width

(***************************************************************************)
(* What the clients are told of a metatx that was mined is what happened   *)
(* to it, by all three decoders, if the hub left any event at all.  Of a   *)
(* transaction without events POST /relay says nothing, the receipt has    *)
(* the status of the enveloping transaction, and the result says success,  *)
(* even of an enveloping transaction that reverted as a whole.  With       *)
(* "silent" that is a false success: the hub rejects without an event when *)
(* the rejection itself exhausts the node's gas (TxRelay.sol:38), and      *)
(* docs/RECEIPT-FALLO-INTERNO.md:7 says the failure is reported.           *)
(***************************************************************************)
AnswersTruthful ==
    /\ HasActed("invalidateNonce") =>
        ~TookEffect(world.outcome) /\ reply.form \in {"receipt", "result", "relayed"}
    /\ Done /\ reply.form = "receipt" =>
        (reply.value.status = 1 <=> TookEffect(world.outcome) \/ world.outcome = "silent")
    /\ Done /\ reply.form = "result" =>
        (reply.value.success <=>
            TookEffect(world.outcome) \/ world.outcome \in {"silent", "outerReverted"})
    /\ Done /\ reply.form = "relayed" =>
        /\ (reply.value.executed = "executed" <=> TookEffect(world.outcome))
        /\ (reply.value.executed = "unknown" <=> world.outcome \in {"silent", "outerReverted"})

(***************************************************************************)
(* The doors of the nonce give different numbers exactly if the tracker    *)
(* has a chain of the user that is behind the hub, where the user's        *)
(* transactions arrived some other way: then GET /nonce gives the hub's    *)
(* and JSON-RPC the tracker's, although "las dos SHALL informar el MISMO   *)
(* valor" while the handing out is off (relay-nonce-endpoint/spec.md:141). *)
(***************************************************************************)
NonceDoorsAgree ==
    \A a, b \in offered :
        a.nonce # b.nonce <=>
            a.door # b.door /\ world.tracked # NoNonce /\ world.tracked < world.chain
=============================================================================
