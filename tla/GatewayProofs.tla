---------------------------- MODULE GatewayProofs ----------------------------
(***************************************************************************)
(* Proofs about Gateway for every configuration file, every behaviour of   *)
(* the world and every request, of a shape the handlers tell apart         *)
(* (GatewayAssumption) and in words of any width that holds the defaults   *)
(* (WordAssumption).                                                       *)
(*                                                                         *)
(* GatewayInv says what a request has logged, done and answered at each    *)
(* step (Progress), which of the ends it came to (Ended), and with which   *)
(* configuration (Setting); what one request is answered follows from it.  *)
(* What two requests are answered is compared through History: each try of *)
(* a door is the verdict that its transaction deserves, and the world that *)
(* decides it does not change in between.                                  *)
(***************************************************************************)
EXTENDS Gateway, SequenceTheorems, TLAPS

-----------------------------------------------------------------------------
(* The three decoders of a receipt.                                        *)

\* What the decoders see of the events in a receipt, two, one or none.
LEMMA SawTwo ==
    ASSUME NEW a, NEW b, NEW r, r.logs = <<a, b>>
    PROVE  /\ \A t : Saw(r, t) <=> a.topic = t \/ b.topic = t
           /\ SawFailure(r) <=> \/ a.topic = "TransactionRelayed" /\ ~a.executed
                                \/ b.topic = "TransactionRelayed" /\ ~b.executed
<1>1. Len(r.logs) = 2 /\ r.logs[1] = a /\ r.logs[2] = b
  OBVIOUS
<1>2. \A i \in 1..2 : i = 1 \/ i = 2
  OBVIOUS
<1>3. 1 \in 1..2 /\ 2 \in 1..2
  OBVIOUS
<1> QED
  BY <1>1, <1>2, <1>3 DEF Saw, SawFailure

LEMMA SawOne ==
    ASSUME NEW a, NEW r, r.logs = <<a>>
    PROVE  /\ \A t : Saw(r, t) <=> a.topic = t
           /\ SawFailure(r) <=> a.topic = "TransactionRelayed" /\ ~a.executed
<1>1. Len(r.logs) = 1 /\ r.logs[1] = a
  OBVIOUS
<1>2. \A i : i \in 1..1 <=> i = 1
  OBVIOUS
<1> QED
  BY <1>1, <1>2 DEF Saw, SawFailure

LEMMA SawNone ==
    ASSUME NEW r, r.logs = <<>>
    PROVE  ~SawFailure(r) /\ \A t : ~Saw(r, t)
<1>1. Len(r.logs) = 0 /\ 1..0 = {}
  OBVIOUS
<1> QED
  BY <1>1 DEF Saw, SawFailure

\* An event of each topic: only the call that failed carries executed = FALSE.
LEMMA EventFields ==
    /\ \A t : Event(t).topic = t
    /\ Event("TransactionRelayed").executed
    /\ FailedEvent.topic = "TransactionRelayed" /\ ~FailedEvent.executed
  BY DEF Event, FailedEvent

\* Which end of a metatx its receipt shows as a failure, and which as an
\* execution (GetTransactionReceipt, GetMetaTxResult, readHubEvents).
LEMMA FailedIs ==
    ASSUME NEW o \in Outcomes
    PROVE  LET r == Receipt(o) IN
           /\ Failed(r) <=> ~TookEffect(o) /\ o \notin {"silent", "outerReverted"}
           /\ Saw(r, "BadTransactionSent") => ~TookEffect(o)
           /\ (Saw(r, "TransactionRelayed") \/ Saw(r, "ContractDeployed")) /\ ~Failed(r)
                <=> TookEffect(o)
           /\ r.status = (IF o = "outerReverted" THEN 0 ELSE 1)
<1> DEFINE r == Receipt(o)
<1>r. r.logs = LogsOf(o) /\ r.status = (IF o = "outerReverted" THEN 0 ELSE 1)
  BY DEF Receipt
<1> HIDE DEF r
<1>1. CASE o = "executed"
  <2>1. r.logs = <<Event("Relayed"), Event("TransactionRelayed")>>
    BY <1>r, <1>1 DEF LogsOf
  <2> QED
    BY <1>r, <1>1, <2>1, SawTwo, EventFields DEF Failed, ConstructorFailed, TookEffect, r
<1>2. CASE o = "reverted"
  <2>1. r.logs = <<Event("Relayed"), FailedEvent>>
    BY <1>r, <1>2 DEF LogsOf
  <2> QED
    BY <1>r, <1>2, <2>1, SawTwo, EventFields DEF Failed, ConstructorFailed, TookEffect, r
<1>3. CASE o \in {"notContract", "emptyCode", "shortOfGas"}
  <2>1. r.logs = <<Event("Relayed"), Event("BadTransactionSent")>>
    BY <1>r, <1>3 DEF LogsOf
  <2> QED
    BY <1>r, <1>3, <2>1, SawTwo, EventFields DEF Failed, ConstructorFailed, TookEffect, r
<1>4. CASE o = "verifyFailed"
  <2>1. r.logs = <<Event("BadTransactionSent")>>
    BY <1>r, <1>4 DEF LogsOf
  <2> QED
    BY <1>r, <1>4, <2>1, SawOne, EventFields DEF Failed, ConstructorFailed, TookEffect, r
<1>5. CASE o = "deployed"
  <2>1. r.logs = <<Event("Relayed"), Event("ContractDeployed")>>
    BY <1>r, <1>5 DEF LogsOf
  <2> QED
    BY <1>r, <1>5, <2>1, SawTwo, EventFields DEF Failed, ConstructorFailed, TookEffect, r
<1>6. CASE o = "constructorFailed"
  <2>1. r.logs = <<Event("Relayed")>>
    BY <1>r, <1>6 DEF LogsOf
  <2> QED
    BY <1>r, <1>6, <2>1, SawOne, EventFields DEF Failed, ConstructorFailed, TookEffect, r
<1>7. CASE o \in {"silent", "outerReverted"}
  <2>1. r.logs = <<>>
    BY <1>r, <1>7 DEF LogsOf
  <2> QED
    BY <1>r, <1>7, <2>1, SawNone DEF Failed, ConstructorFailed, TookEffect, r
<1> QED
  BY <1>1, <1>2, <1>3, <1>4, <1>5, <1>6, <1>7 DEF Outcomes

-----------------------------------------------------------------------------
(* How far a request is, and how it can end.                               *)

\* A raw transaction that one of the doors passes on.
Taken ==
    \/ RPC({"sendRawTransaction"}) /\ req.params \in {"short", "full"}
    \/ req.path = "/relay" /\ req.method = "POST" /\ req.readable /\ IsHexData(req.tx)

Prepared == PrepareMetaTx(req.tx, c, world.permit) = "ok"

Received == Logged("relay.received")
Decoded == Logged("relay.decoded")
Sent == Logged("relay.sent")
Rejected(number) == [event |-> "relay.rejected", number |-> number]

\* The fields of a reply that the log and the clients share.
Replied(documents, form, code, number) ==
    /\ reply.documents = documents /\ reply.form = form
    /\ reply.code = code /\ reply.number = number

\* Answered by the router or by an endpoint that relays nothing.
EndedPlain ==
    /\ acts = <<>>
    /\ trace \in {<<>>, <<Logged("nonce.failed")>>}
    /\ \/ Replied(0, "none", "none", "none") /\ reply.status = 204
       \/ /\ req.path \in DOMAIN Handlers
          /\ req.path = "/relay" => req.method # "POST"
          /\ \E form \in {"error", "page", "nonce"} : Replied(1, form, "none", "none")
          /\ reply.status # 204
       \/ /\ req.path = "/info"
          /\ Replied(1, "info", "none", "none") /\ reply.value = Reported(c)

\* A JSON-RPC call that is not served here, or not answered from a receipt.
EndedCall ==
    /\ req.path \notin DOMAIN Handlers
    /\ \/ /\ ~req.readable
          /\ Replied(0, "none", "none", "none")
          /\ trace = <<Logged("http.bad_body")>> /\ acts = <<>>
       \/ /\ req.namespace # "eth"
          /\ Replied(0, "none", "none", "none")
          /\ trace = <<>> /\ acts \in {<<"DecreaseGasUsed", "proxy">>, <<"proxy">>}
       \/ /\ req.suffix # "sendRawTransaction"
          /\ trace = <<>> /\ acts = <<>>
          /\ reply.form \in {"none", "error", "null", "0x<nil>", "count"}
          /\ reply.documents # 1 =>
                \/ RPC({"getTransactionReceipt", "getTransactionCount"}) /\ req.params = "none"
                \/ RPC({"getTransactionReceipt", "getMetaTxResult"}) /\ req.params = "short"
                \/ RPC({"getTransactionCount"}) /\ req.tag = "other" /\ reply.documents = 2
                \/ Faults

\* A JSON-RPC call answered from a receipt.
EndedRead ==
    /\ req.path \notin DOMAIN Handlers
    /\ req.suffix # "sendRawTransaction"
    /\ \/ /\ HubRejected
          /\ acts = <<"invalidateNonce">> /\ trace = <<Logged("relay.hub_rejected")>>
       \/ ~HubRejected /\ acts = <<>> /\ trace = <<>>
    /\ \/ /\ Replied(1, "receipt", "none", "none")
          /\ reply.value.status = GetTransactionReceipt(Receipt(world.outcome))
       \/ /\ Replied(1, "result", "none", "none")
          /\ reply.value.success = GetMetaTxResult(Receipt(world.outcome))

\* A raw transaction that was not taken, or turned away before it was sent.
EndedRejected ==
    /\ acts = <<>>
    /\ \/ /\ req.path \notin DOMAIN Handlers /\ req.path # "/relay"
          /\ req.params \in {"notList", "none"}
          /\ trace = <<Rejected("none")>>
          /\ Replied(1, "error", "none", "default")
       \/ /\ req.path = "/relay" /\ ~(req.readable /\ IsHexData(req.tx))
          /\ trace = <<Logged("relay.bad_request")>>
          /\ Replied(1, "error", "none", "none")
       \/ /\ Taken /\ ~(Prepared /\ SendVerdict = "ok")
          /\ \E number \in {"zero", "own"} :
                /\ \/ trace = <<Received, Rejected(number)>>
                   \/ trace = <<Received, Decoded, Rejected(number)>>
                /\ Replied(1, "error", reply.code, reply.number)
                /\ reply.number \in {"none", number}

\* A raw transaction that was sent.
EndedSent ==
    /\ Taken /\ Prepared /\ SendVerdict = "ok"
    /\ reply.status # 204
    /\ \/ /\ acts = <<"send">> /\ trace = <<Received, Decoded, Sent>>
          /\ \/ Replied(1, "hash", "none", "none") /\ req.path # "/relay"
             \/ Replied(0, "none", "none", "none") /\ Faults /\ ReceiptComes
       \/ /\ req.path = "/relay" /\ ~ReceiptComes
          /\ acts = <<"send">> /\ trace = <<Received, Decoded, Sent, Rejected("own")>>
          /\ Replied(1, "error", "RECEIPT_TIMEOUT", "none")
       \/ /\ ReceiptComes
          /\ Replied(1, "relayed", "none", "none")
          /\ reply.value.executed = readHubEvents(Receipt(world.outcome))
          /\ \/ /\ HubRejected /\ acts = <<"send", "invalidateNonce">>
                /\ \/ trace = <<Received, Decoded, Sent, Logged("relay.hub_rejected")>>
                   \/ trace = <<Received, Decoded, Sent, Logged("relay.hub_rejected"),
                                Logged("relay.settled")>>
             \/ /\ ~HubRejected /\ acts = <<"send">>
                /\ \/ trace = <<Received, Decoded, Sent>>
                   \/ trace = <<Received, Decoded, Sent, Logged("relay.settled")>>

Ended == EndedPlain \/ EndedCall \/ EndedRead \/ EndedRejected \/ EndedSent

\* What is known of a request at each of its steps.
Progress ==
    /\ pc \in {"idle", "cors", "route", "info", "page", "nonce", "rpc", "relay", "prepare",
               "send", "wait", "done"}
    /\ pc \in {"cors", "route", "info", "page", "nonce", "rpc", "relay", "prepare"}
       \/ (pc = "idle" /\ served = 0) => trace = <<>> /\ acts = <<>> /\ reply = NoReply
    /\ pc \in {"info", "page", "nonce"} => req.path \in DOMAIN Handlers /\ req.path # "/relay"
    /\ pc = "info" => req.path = "/info"
    /\ pc = "rpc" => req.path \notin DOMAIN Handlers
    /\ pc = "relay" => req.path = "/relay" /\ req.method = "POST"
    /\ pc = "prepare" => Taken
    /\ pc = "send" => /\ Taken /\ Prepared
                      /\ trace = <<Received, Decoded>> /\ acts = <<>> /\ reply = NoReply
    /\ pc = "wait" => /\ Taken /\ Prepared /\ SendVerdict = "ok" /\ req.path = "/relay"
                      /\ trace = <<Received, Decoded, Sent>> /\ acts = <<"send">>
                      /\ reply = NoReply
    /\ pc = "done" \/ (pc = "idle" /\ served # 0) => Ended

\* What the service is served with.
Setting ==
    /\ IsFile(file) /\ IsWorld(world)
    /\ phase \in {"start", "init", "serving", "exited", "aborted", "panicked"}
    /\ phase \in {"init", "serving"} => config \in getConfigFromFile(file)
    /\ served \in Nat
    /\ phase # "serving" => pc = "idle" /\ served = 0
    /\ pc # "idle" \/ served # 0 => IsRequest(req)
    /\ (pc # "idle" /\ served = 0) \/ (pc = "idle" /\ served = 1) => req \in Requests

GatewayInv == Setting /\ Progress

LEMMA Unmoved ==
    ASSUME UNCHANGED <<startVars, req>>
    PROVE  /\ Handlers' = Handlers
           /\ Taken' <=> Taken
           /\ Prepared' <=> Prepared
           /\ SendVerdict' = SendVerdict
           /\ Faults' <=> Faults
           /\ HubRejected' <=> HubRejected
           /\ \A S : RPC(S)' <=> RPC(S)
           /\ Reported(c)' = Reported(c)
<1>1. UNCHANGED <<host, file, world, phase, config, req>>
  BY DEF startVars
<1>2. c' = c
  BY <1>1 DEF c
<1>3. Handlers' = Handlers
  BY <1>2 DEF Handlers
<1>4. \A S : RPC(S)' <=> RPC(S)
  BY <1>1, <1>3 DEF RPC
<1>5. Taken' <=> Taken
  BY <1>1, <1>4 DEF Taken
<1>6. Prepared' <=> Prepared
  BY <1>1, <1>2 DEF Prepared
<1>7. SendVerdict' = SendVerdict
  BY <1>1, <1>2 DEF SendVerdict
<1>8. (Faults' <=> Faults) /\ (HubRejected' <=> HubRejected)
  BY <1>1 DEF Faults, HubRejected
<1>9. Reported(c)' = Reported(c)
  BY <1>2
<1> QED
  BY <1>3, <1>4, <1>5, <1>6, <1>7, <1>8, <1>9

LEMMA AtEnd ==
    ASSUME pc' = "done", Ended'
    PROVE  Progress'
  BY DEF Progress

-----------------------------------------------------------------------------
(* The router and the endpoints.                                           *)

\* Nothing was logged, done or written yet.
Blank == trace = <<>> /\ acts = <<>> /\ reply = NoReply

LEMMA withCORSStep ==
    ASSUME GatewayInv, withCORS
    PROVE  Progress'
<1>1. /\ pc = "cors" /\ Blank
      /\ UNCHANGED <<startVars, req, trace, acts>>
  BY DEF GatewayInv, Progress, withCORS, Blank
<1>2. CASE pc' = "done" /\ reply' = [reply EXCEPT !.status = 204]
  <2>1. Replied(0, "none", "none", "none")' /\ reply'.status = 204
    BY <1>1, <1>2 DEF Blank, NoReply, Replied
  <2>2. EndedPlain'
    BY <1>1, <2>1 DEF EndedPlain, Blank
  <2> QED
    BY <1>2, <2>2, AtEnd DEF Ended
<1>3. CASE pc' = "route" /\ reply' = reply
  BY <1>1, <1>3 DEF Progress, Blank
<1> QED
  BY <1>2, <1>3 DEF withCORS

\* The paths that have a handler of their own.
LEMMA HandlersAre ==
    /\ DOMAIN Handlers \subseteq {"/info", "/relay", "/nonce/", "/dashboard"}
    /\ {"/info", "/relay", "/nonce/"} \subseteq DOMAIN Handlers
    /\ Handlers["/info"] = [method |-> "GET", handler |-> "info"]
    /\ Handlers["/relay"] = [method |-> "POST", handler |-> "relay"]
    /\ Handlers["/nonce/"] = [method |-> "GET", handler |-> "nonce"]
    /\ "/dashboard" \in DOMAIN Handlers =>
            Handlers["/dashboard"] = [method |-> "GET", handler |-> "page"]
  BY DEF Handlers

LEMMA RouteStep ==
    ASSUME GatewayInv, Route
    PROVE  Progress'
<1>1. /\ pc = "route" /\ Blank
      /\ UNCHANGED <<startVars, req, trace, acts>>
  BY DEF GatewayInv, Progress, Route, Blank
<1>h. Handlers' = Handlers
  BY <1>1, Unmoved
<1>2. CASE req.path \notin DOMAIN Handlers
  <2>1. pc' = "rpc" /\ reply' = reply
    BY <1>2 DEF Route
  <2> QED
    BY <1>1, <1>2, <1>h, <2>1 DEF Progress, Blank
<1>3. CASE req.path \in DOMAIN Handlers /\ req.method # Handlers[req.path].method
  <2>1. pc' = "done" /\ WriteError(405)
    BY <1>3 DEF Route
  <2>2. Replied(1, "error", "none", "none")' /\ reply'.status # 204
    BY <1>1, <2>1 DEF Blank, NoReply, Replied, WriteError, Write
  <2>3. req.path = "/relay" => req.method # "POST"
    BY <1>3, HandlersAre
  <2>4. EndedPlain'
    BY <1>1, <1>3, <1>h, <2>2, <2>3 DEF EndedPlain, Blank
  <2> QED
    BY <2>1, <2>4, AtEnd DEF Ended
<1>4. CASE req.path \in DOMAIN Handlers /\ req.method = Handlers[req.path].method
  <2>1. pc' = Handlers[req.path].handler /\ reply' = reply
    BY <1>4 DEF Route
  <2>2. req.path \in {"/info", "/relay", "/nonce/", "/dashboard"}
    BY <1>4, HandlersAre
  <2>3. CASE req.path = "/relay"
    <3>1. pc' = "relay" /\ req.method = "POST"
      BY <1>4, <2>1, <2>3, HandlersAre
    <3> QED
      BY <1>1, <2>1, <2>3, <3>1 DEF Progress, Blank
  <2>4. CASE req.path = "/info"
    <3>1. pc' = "info"
      BY <1>4, <2>1, <2>4, HandlersAre
    <3> QED
      BY <1>1, <1>4, <1>h, <2>1, <2>4, <3>1 DEF Progress, Blank
  <2>5. CASE req.path \in {"/nonce/", "/dashboard"}
    <3>1. pc' \in {"nonce", "page"}
      BY <1>4, <2>1, <2>5, HandlersAre
    <3> QED
      BY <1>1, <1>4, <1>h, <2>1, <2>5, <3>1 DEF Progress, Blank
  <2> QED
    BY <2>2, <2>3, <2>4, <2>5
<1> QED
  BY <1>2, <1>3, <1>4

LEMMA InfoStep ==
    ASSUME GatewayInv, Info
    PROVE  Progress'
<1>1. /\ pc = "info" /\ Blank /\ req.path = "/info" /\ pc' = "done"
      /\ UNCHANGED <<startVars, req, trace, acts>>
  BY DEF GatewayInv, Progress, Info, Blank
<1>2. Replied(1, "info", "none", "none")' /\ reply'.value = Reported(c)
  BY <1>1 DEF Info, Blank, NoReply, Replied, Write
<1>3. Reported(c)' = Reported(c)
  BY <1>1, Unmoved
<1>4. EndedPlain'
  BY <1>1, <1>2, <1>3 DEF EndedPlain, Blank
<1> QED
  BY <1>1, <1>4, AtEnd DEF Ended

LEMMA PageStep ==
    ASSUME GatewayInv, Page
    PROVE  Progress'
<1>1. /\ pc = "page" /\ Blank /\ req.path \in DOMAIN Handlers /\ req.path # "/relay"
      /\ pc' = "done"
      /\ UNCHANGED <<startVars, req, trace, acts>>
  BY DEF GatewayInv, Progress, Page, Blank
<1>2. Replied(1, "page", "none", "none")' /\ reply'.status # 204
  BY <1>1 DEF Page, Blank, NoReply, Replied, Write
<1>3. Handlers' = Handlers
  BY <1>1, Unmoved
<1>4. EndedPlain'
  BY <1>1, <1>2, <1>3 DEF EndedPlain, Blank
<1> QED
  BY <1>1, <1>4, AtEnd DEF Ended

LEMMA NonceStep ==
    ASSUME GatewayInv, Nonce
    PROVE  Progress'
<1>1. /\ pc = "nonce" /\ Blank /\ req.path \in DOMAIN Handlers /\ req.path # "/relay"
      /\ pc' = "done"
      /\ UNCHANGED <<startVars, req, acts>>
  BY DEF GatewayInv, Progress, Nonce, Blank
<1>2. /\ \E form \in {"error", "page", "nonce"} : Replied(1, form, "none", "none")'
      /\ reply'.status # 204
  <2>1. CASE req.address = "good" /\ NonceOf # {}
    <3>1. PICK state \in NonceOf : Write(200, "nonce", state)
      BY <2>1 DEF Nonce
    <3>2. Replied(1, "nonce", "none", "none")' /\ reply'.status # 204
      BY <1>1, <3>1 DEF Blank, NoReply, Replied, Write
    <3> QED
      BY <3>2
  <2>2. CASE ~(req.address = "good" /\ NonceOf # {})
    <3>1. WriteError(400)
      BY <2>2 DEF Nonce
    <3>2. Replied(1, "error", "none", "none")' /\ reply'.status # 204
      BY <1>1, <3>1 DEF Blank, NoReply, Replied, Write, WriteError
    <3> QED
      BY <3>2
  <2> QED
    BY <2>1, <2>2
<1>3. trace' = <<>> \/ trace' = <<Logged("nonce.failed")>>
  <2>1. trace' = trace \/ trace' = Append(trace, Logged("nonce.failed"))
    BY DEF Nonce, Log
  <2> QED
    BY <1>1, <2>1 DEF Blank
<1>4. Handlers' = Handlers
  BY <1>1, Unmoved
<1>5. EndedPlain'
  BY <1>1, <1>2, <1>3, <1>4 DEF EndedPlain, Blank, Logged
<1> QED
  BY <1>1, <1>5, AtEnd DEF Ended

-----------------------------------------------------------------------------
(* The JSON-RPC calls.                                                     *)

\* A call begins with nothing done and at a path without a handler.
LEMMA AtCall ==
    ASSUME GatewayInv, pc = "rpc"
    PROVE  Blank /\ req.path \notin DOMAIN Handlers
  BY DEF GatewayInv, Progress, Blank

LEMMA BadBodyStep ==
    ASSUME GatewayInv, BadBody
    PROVE  Progress'
<1>1. /\ pc = "rpc" /\ ~req.readable /\ pc' = "done"
      /\ trace' = Append(trace, Logged("http.bad_body"))
      /\ reply' = [reply EXCEPT !.status = 200]
      /\ UNCHANGED <<startVars, req, acts>>
  BY DEF BadBody, Log
<1>2. Blank /\ req.path \notin DOMAIN Handlers
  BY <1>1, AtCall
<1>3. Replied(0, "none", "none", "none")'
  BY <1>1, <1>2 DEF Blank, NoReply, Replied
<1>4. trace' = <<Logged("http.bad_body")>>
  BY <1>1, <1>2 DEF Blank
<1>5. Handlers' = Handlers
  BY <1>1, Unmoved
<1>6. EndedCall'
  BY <1>1, <1>2, <1>3, <1>4, <1>5 DEF EndedCall, Blank, Logged
<1> QED
  BY <1>1, <1>6, AtEnd DEF Ended

LEMMA PrivateStep ==
    ASSUME GatewayInv, Private
    PROVE  Progress'
<1>1. /\ pc = "rpc" /\ req.namespace # "eth" /\ pc' = "done"
      /\ acts' \in {<<"DecreaseGasUsed", "proxy">>, <<"proxy">>}
      /\ UNCHANGED <<startVars, req, trace, reply>>
  BY DEF Private
<1>2. Blank /\ req.path \notin DOMAIN Handlers
  BY <1>1, AtCall
<1>3. Replied(0, "none", "none", "none")'
  BY <1>1, <1>2 DEF Blank, NoReply, Replied
<1>5. Handlers' = Handlers
  BY <1>1, Unmoved
<1>6. EndedCall'
  BY <1>1, <1>2, <1>3, <1>5 DEF EndedCall, Blank
<1> QED
  BY <1>1, <1>6, AtEnd DEF Ended

LEMMA UnsupportedStep ==
    ASSUME GatewayInv, Unsupported
    PROVE  Progress'
<1>1. /\ pc = "rpc" /\ req.suffix # "sendRawTransaction" /\ pc' = "done" /\ Error("none")
      /\ UNCHANGED <<startVars, req, trace, acts>>
  BY DEF Unsupported, Calls
<1>2. Blank /\ req.path \notin DOMAIN Handlers
  BY <1>1, AtCall
<1>3. reply'.documents = 1 /\ reply'.form = "error"
  BY <1>1, <1>2 DEF Blank, NoReply, Error
<1>5. Handlers' = Handlers
  BY <1>1, Unmoved
<1>6. EndedCall'
  BY <1>1, <1>2, <1>3, <1>5 DEF EndedCall, Blank
<1> QED
  BY <1>1, <1>6, AtEnd DEF Ended

\* Of the namespaces, the two private ones are passed on to the node.
LEMMA CallIs ==
    ASSUME GatewayInv, NEW s, Calls(s)
    PROVE  /\ Blank /\ req.path \notin DOMAIN Handlers
           /\ req.readable /\ req.suffix = s /\ IsRequest(req)
           /\ RPC({s}) /\ \A S : s \in S => RPC(S)
<1>1. pc = "rpc" /\ req.readable /\ req.namespace \notin {"priv", "eea"} /\ req.suffix = s
  BY DEF Calls
<1>2. Blank /\ req.path \notin DOMAIN Handlers
  BY <1>1, AtCall
<1>3. IsRequest(req)
  BY <1>1 DEF GatewayInv, Setting
<1>4. req.namespace = "eth"
  BY <1>1, <1>3 DEF IsRequest
<1> QED
  BY <1>1, <1>2, <1>3, <1>4 DEF RPC

\* The answer from a receipt, whatever its form.
LEMMA ReadEventsIs ==
    ASSUME trace = <<>>, acts = <<>>, ReadEvents(<<>>)
    PROVE  \/ /\ HubRejected
              /\ acts' = <<"invalidateNonce">> /\ trace' = <<Logged("relay.hub_rejected")>>
           \/ ~HubRejected /\ acts' = <<>> /\ trace' = <<>>
<1>1. CASE HubRejected
  <2>1. /\ acts' = Append(<<>>, "invalidateNonce")
        /\ trace' = <<>> \o <<Logged("relay.hub_rejected")>> \o <<>>
    BY <1>1 DEF ReadEvents
  <2> QED
    BY <1>1, <2>1
<1>2. CASE ~HubRejected
  <2>1. acts' = <<>> /\ trace' = <<>> \o <<>> \o <<>>
    BY <1>2 DEF ReadEvents
  <2> QED
    BY <1>2, <2>1
<1> QED
  BY <1>1, <1>2

\* The values that are answered from a receipt stay what they are.
LEMMA ReadUnmoved ==
    ASSUME UNCHANGED <<startVars, req>>
    PROVE  world' = world /\ req' = req /\ c' = c
  BY DEF startVars, c

\* The first document of a request.
LEMMA WriteIs ==
    ASSUME reply = NoReply, NEW status, NEW form, NEW value, Write(status, form, value)
    PROVE  reply'.documents = 1 /\ reply'.form = form
  BY DEF NoReply, Write

LEMMA ErrorIs ==
    ASSUME reply = NoReply, NEW number, Error(number)
    PROVE  reply'.documents = 1 /\ reply'.form = "error"
  BY DEF NoReply, Error

LEMMA processGetTransactionReceiptStep ==
    ASSUME GatewayInv, processGetTransactionReceipt
    PROVE  Progress'
<1>1. /\ Calls("getTransactionReceipt") /\ pc' = "done"
      /\ UNCHANGED <<startVars, req>>
  BY DEF processGetTransactionReceipt
<1>2. /\ Blank /\ req.path \notin DOMAIN Handlers /\ req.suffix = "getTransactionReceipt"
      /\ IsRequest(req)
      /\ RPC({"getTransactionReceipt", "getTransactionCount"})
      /\ RPC({"getTransactionReceipt", "getMetaTxResult"})
  BY <1>1, CallIs
<1>3. /\ Handlers' = Handlers /\ (HubRejected' <=> HubRejected) /\ (Faults' <=> Faults)
      /\ RPC({"getTransactionReceipt", "getTransactionCount"})'
      /\ RPC({"getTransactionReceipt", "getMetaTxResult"})'
      /\ world' = world /\ req' = req
  BY <1>1, <1>2, Unmoved, ReadUnmoved
<1>4. CASE req.params = "full" /\ world.connects /\ world.reads /\ world.mined /\ ~Faults
  <2>1. /\ Write(200, "receipt", [status |-> GetTransactionReceipt(Receipt(world.outcome))])
        /\ ReadEvents(<<>>)
    BY <1>4 DEF processGetTransactionReceipt
  <2>2. /\ Replied(1, "receipt", "none", "none")'
        /\ reply'.value.status = GetTransactionReceipt(Receipt(world.outcome))
    BY <1>2, <2>1 DEF Blank, NoReply, Replied, Write
  <2>3. \/ /\ HubRejected
           /\ acts' = <<"invalidateNonce">> /\ trace' = <<Logged("relay.hub_rejected")>>
        \/ ~HubRejected /\ acts' = <<>> /\ trace' = <<>>
    BY <1>2, <2>1, ReadEventsIs DEF Blank
  <2>4. EndedRead'
    BY <1>2, <1>3, <2>2, <2>3 DEF EndedRead, Logged
  <2> QED
    BY <1>1, <2>4, AtEnd DEF Ended
<1>5. CASE ~(req.params = "full" /\ world.connects /\ world.reads /\ world.mined /\ ~Faults)
  <2>1. /\ UNCHANGED <<trace, acts>>
        /\ CASE req.params = "notList" -> Error("none")
             [] req.params \in {"none", "short"} -> Panics
             [] OTHER -> IF ~world.connects THEN Error("own")
                         ELSE IF Faults /\ world.reads /\ world.mined THEN Panics
                         ELSE Write(200, "null", {})
    BY <1>5 DEF processGetTransactionReceipt
  <2>2. \/ Error("none") \/ Error("own") \/ Write(200, "null", {})
        \/ Panics /\ (req.params \in {"none", "short"} \/ Faults)
    BY <2>1
  <2>3. /\ reply'.form \in {"none", "error", "null"}
        /\ reply'.documents = 1 \/ req.params \in {"none", "short"} \/ Faults
    <3>1. CASE Error("none") \/ Error("own")
      BY <1>2, <3>1, ErrorIs DEF Blank
    <3>2. CASE Write(200, "null", {})
      BY <1>2, <3>2, WriteIs DEF Blank
    <3>3. CASE Panics /\ (req.params \in {"none", "short"} \/ Faults)
      BY <1>2, <3>3 DEF Blank, NoReply, Panics
    <3> QED
      BY <2>2, <3>1, <3>2, <3>3
  <2>4. EndedCall'
    BY <1>2, <1>3, <2>1, <2>3 DEF EndedCall, Blank
  <2> QED
    BY <1>1, <2>4, AtEnd DEF Ended
<1> QED
  BY <1>4, <1>5

LEMMA processGetMetaTxResultStep ==
    ASSUME GatewayInv, processGetMetaTxResult
    PROVE  Progress'
<1>1. /\ Calls("getMetaTxResult") /\ pc' = "done"
      /\ UNCHANGED <<startVars, req>>
  BY DEF processGetMetaTxResult
<1>2. /\ Blank /\ req.path \notin DOMAIN Handlers /\ req.suffix = "getMetaTxResult"
      /\ IsRequest(req)
      /\ RPC({"getTransactionReceipt", "getMetaTxResult"})
  BY <1>1, CallIs
<1>3. /\ Handlers' = Handlers /\ (HubRejected' <=> HubRejected) /\ (Faults' <=> Faults)
      /\ RPC({"getTransactionReceipt", "getMetaTxResult"})'
      /\ world' = world /\ req' = req
  BY <1>1, <1>2, Unmoved, ReadUnmoved
<1>4. CASE req.params = "full" /\ world.connects /\ world.reads /\ world.mined /\ ~Faults
  <2>1. /\ Write(200, "result", [success |-> GetMetaTxResult(Receipt(world.outcome))])
        /\ ReadEvents(<<>>)
    BY <1>4 DEF processGetMetaTxResult
  <2>2. /\ Replied(1, "result", "none", "none")'
        /\ reply'.value.success = GetMetaTxResult(Receipt(world.outcome))
    BY <1>2, <2>1 DEF Blank, NoReply, Replied, Write
  <2>3. \/ /\ HubRejected
           /\ acts' = <<"invalidateNonce">> /\ trace' = <<Logged("relay.hub_rejected")>>
        \/ ~HubRejected /\ acts' = <<>> /\ trace' = <<>>
    BY <1>2, <2>1, ReadEventsIs DEF Blank
  <2>4. EndedRead'
    BY <1>2, <1>3, <2>2, <2>3 DEF EndedRead, Logged
  <2> QED
    BY <1>1, <2>4, AtEnd DEF Ended
<1>5. CASE ~(req.params = "full" /\ world.connects /\ world.reads /\ world.mined /\ ~Faults)
  <2>1. /\ UNCHANGED <<trace, acts>>
        /\ CASE req.params \in {"notList", "none"} -> Error("none")
             [] req.params = "short" -> Panics
             [] OTHER -> IF world.connects /\ world.reads /\ world.mined
                         THEN Panics ELSE Error("own")
    BY <1>5 DEF processGetMetaTxResult
  <2>p. req.params \in {"notList", "none", "short", "full"}
    BY <1>2 DEF IsRequest
  <2>2. \/ Error("none") \/ Error("own")
        \/ Panics /\ (req.params = "short" \/ Faults)
    BY <1>5, <2>1, <2>p
  <2>3. /\ reply'.form \in {"none", "error"}
        /\ reply'.documents = 1 \/ req.params = "short" \/ Faults
    <3>1. CASE Error("none") \/ Error("own")
      BY <1>2, <3>1, ErrorIs DEF Blank
    <3>3. CASE Panics /\ (req.params = "short" \/ Faults)
      BY <1>2, <3>3 DEF Blank, NoReply, Panics
    <3> QED
      BY <2>2, <3>1, <3>3
  <2>4. EndedCall'
    BY <1>2, <1>3, <2>1, <2>3 DEF EndedCall, Blank
  <2> QED
    BY <1>1, <2>4, AtEnd DEF Ended
<1> QED
  BY <1>4, <1>5

LEMMA processTransactionCountStep ==
    ASSUME GatewayInv, processTransactionCount
    PROVE  Progress'
<1>1. /\ Calls("getTransactionCount") /\ pc' = "done"
      /\ UNCHANGED <<startVars, req, trace, acts>>
  BY DEF processTransactionCount
<1>2. /\ Blank /\ req.path \notin DOMAIN Handlers /\ req.suffix = "getTransactionCount"
      /\ RPC({"getTransactionReceipt", "getTransactionCount"})
      /\ RPC({"getTransactionCount"})
  BY <1>1, CallIs
<1>3. /\ Handlers' = Handlers
      /\ RPC({"getTransactionReceipt", "getTransactionCount"})'
      /\ RPC({"getTransactionCount"})'
      /\ req' = req
  BY <1>1, <1>2, Unmoved
<1>4. \/ Error("none") \/ Error("own")
      \/ Write(200, "0x<nil>", Counted) \/ Write(200, "count", Counted)
      \/ Panics /\ req.params = "none"
      \/ /\ req.tag = "other"
         /\ reply' = [reply EXCEPT !.status = 200, !.documents = 2,
                                   !.number = errorMessage("none"), !.form = "null"]
  BY DEF processTransactionCount
<1>5. /\ reply'.form \in {"none", "error", "0x<nil>", "count", "null"}
      /\ \/ reply'.documents = 1 \/ req.params = "none"
         \/ req.tag = "other" /\ reply'.documents = 2
  <2>1. CASE Error("none") \/ Error("own")
    BY <1>2, <2>1, ErrorIs DEF Blank
  <2>2. CASE Write(200, "0x<nil>", Counted) \/ Write(200, "count", Counted)
    BY <1>2, <2>2, WriteIs DEF Blank
  <2>3. CASE Panics /\ req.params = "none"
    BY <1>2, <2>3 DEF Blank, NoReply, Panics
  <2>4. CASE /\ req.tag = "other"
             /\ reply' = [reply EXCEPT !.status = 200, !.documents = 2,
                                       !.number = errorMessage("none"), !.form = "null"]
    BY <1>2, <2>4 DEF Blank, NoReply
  <2> QED
    BY <1>4, <2>1, <2>2, <2>3, <2>4
<1>6. EndedCall'
  BY <1>1, <1>2, <1>3, <1>5 DEF EndedCall, Blank
<1> QED
  BY <1>1, <1>6, AtEnd DEF Ended

-----------------------------------------------------------------------------
(* The objections, and the two doors of the relay.                         *)

\* The first objection is the one that only approvals precede.
LEMMA FirstIs ==
    ASSUME NEW s, Len(s) \in Nat, NEW n \in 1..Len(s),
           s[n] # "ok", \A i \in 1..Len(s) : i < n => s[i] = "ok"
    PROVE  First(s) = s[n]
<1> DEFINE raised == {i \in 1..Len(s) : s[i] # "ok"}
           least == CHOOSE i \in raised : \A j \in raised : i <= j
<1>1. n \in raised /\ raised \subseteq Nat
  OBVIOUS
<1>2. \A j \in raised : n <= j
  OBVIOUS
<1>3. least \in raised /\ \A j \in raised : least <= j
  BY <1>1, <1>2
<1>4. least = n
  <2>1. least <= n /\ n <= least /\ least \in Nat /\ n \in Nat
    BY <1>1, <1>2, <1>3
  <2> QED
    BY <2>1
<1>5. First(s) = s[least]
  BY <1>1 DEF First
<1> QED
  BY <1>4, <1>5

LEMMA FirstOk ==
    ASSUME NEW s, \A i \in 1..Len(s) : s[i] = "ok"
    PROVE  First(s) = "ok"
  BY DEF First

LEMMA FirstOfTwo ==
    ASSUME NEW x, NEW y
    PROVE  First(<<x, y>>) = IF x # "ok" THEN x ELSE y
<1> DEFINE s == <<x, y>>
<1>1. Len(s) = 2 /\ s[1] = x /\ s[2] = y
  OBVIOUS
<1>2. \A i : i \in 1..2 <=> i = 1 \/ i = 2
  OBVIOUS
<1> HIDE DEF s
<1>3. CASE x # "ok"
  <2>1. First(s) = s[1]
    BY <1>1, <1>2, <1>3, FirstIs
  <2> QED
    BY <1>1, <1>3, <2>1 DEF s
<1>4. CASE x = "ok" /\ y # "ok"
  <2>1. First(s) = s[2]
    BY <1>1, <1>2, <1>4, FirstIs
  <2> QED
    BY <1>1, <1>4, <2>1 DEF s
<1>5. CASE x = "ok" /\ y = "ok"
  <2>1. First(s) = "ok"
    BY <1>1, <1>2, <1>5, FirstOk
  <2> QED
    BY <1>5, <2>1 DEF s
<1> QED
  BY <1>3, <1>4, <1>5

LEMMA FirstOfFour ==
    ASSUME NEW x, NEW y, NEW z, NEW w
    PROVE  First(<<x, y, z, w>>) =
             IF x # "ok" THEN x ELSE IF y # "ok" THEN y ELSE IF z # "ok" THEN z ELSE w
<1> DEFINE s == <<x, y, z, w>>
<1>1. Len(s) = 4 /\ s[1] = x /\ s[2] = y /\ s[3] = z /\ s[4] = w
  OBVIOUS
<1>2. \A i : i \in 1..4 <=> i = 1 \/ i = 2 \/ i = 3 \/ i = 4
  OBVIOUS
<1> HIDE DEF s
<1>3. CASE x # "ok"
  <2>1. First(s) = s[1]
    BY <1>1, <1>2, <1>3, FirstIs
  <2> QED
    BY <1>1, <1>3, <2>1 DEF s
<1>4. CASE x = "ok" /\ y # "ok"
  <2>1. First(s) = s[2]
    BY <1>1, <1>2, <1>4, FirstIs
  <2> QED
    BY <1>1, <1>4, <2>1 DEF s
<1>5. CASE x = "ok" /\ y = "ok" /\ z # "ok"
  <2>1. First(s) = s[3]
    BY <1>1, <1>2, <1>5, FirstIs
  <2> QED
    BY <1>1, <1>5, <2>1 DEF s
<1>6. CASE x = "ok" /\ y = "ok" /\ z = "ok" /\ w # "ok"
  <2>1. First(s) = s[4]
    BY <1>1, <1>2, <1>6, FirstIs
  <2> QED
    BY <1>1, <1>6, <2>1 DEF s
<1>7. CASE x = "ok" /\ y = "ok" /\ z = "ok" /\ w = "ok"
  <2>1. First(s) = "ok"
    BY <1>1, <1>2, <1>7, FirstOk
  <2> QED
    BY <1>7, <2>1 DEF s
<1> QED
  BY <1>3, <1>4, <1>5, <1>6, <1>7

\* What PrepareMetaTx accepts was decoded, and what every check said of it.
LEMMA PreparedIs ==
    ASSUME NEW tx, NEW v, NEW permit
    PROVE  /\ PrepareMetaTx(tx, v, permit) = "ok" <=>
                /\ Decodes(tx)
                /\ validateGasModelSuffix(tx, v) = "ok" /\ VerifySender(v, permit) = "ok"
           /\ Decodes(tx) <=> tx.text = "even" /\ tx.signature = "good"
<1>1. Decodes(tx) <=> GetTransaction(tx) = "ok" /\ Signature(tx) = "ok"
  BY FirstOfTwo DEF Decodes
<1>2. PrepareMetaTx(tx, v, permit) = "ok" <=>
        /\ GetTransaction(tx) = "ok" /\ Signature(tx) = "ok"
        /\ validateGasModelSuffix(tx, v) = "ok" /\ VerifySender(v, permit) = "ok"
  BY FirstOfFour DEF PrepareMetaTx
<1>3. GetTransaction(tx) = "ok" /\ Signature(tx) = "ok" <=>
        tx.text = "even" /\ tx.signature = "good"
  BY DEF GetTransaction, Signature
<1> QED
  BY <1>1, <1>2, <1>3

\* What a rejection leaves in the answer.
LEMMA RejectIs ==
    ASSUME reply = NoReply, NEW logged, NEW code, NEW number, Reject(logged, code, number)
    PROVE  /\ pc' = "done"
           /\ reply'.documents = 1 /\ reply'.form = "error" /\ reply'.status # 204
           /\ reply'.code = (IF Door = "POST /" THEN "none" ELSE code)
           /\ reply'.number = (IF Door = "POST /" THEN errorMessage(number) ELSE "none")
           /\ trace' = trace \o logged \o <<Rejected(number)>>
<1>1. pc' = "done" /\ trace' = trace \o logged \o <<Rejected(number)>>
  BY DEF Reject, Rejected
<1>2. /\ reply'.documents = 1 /\ reply'.form = "error"
      /\ reply'.status = (IF Door = "POST /" THEN 200 ELSE 400)
      /\ reply'.code = (IF Door = "POST /" THEN "none" ELSE code)
      /\ reply'.number = (IF Door = "POST /" THEN errorMessage(number) ELSE "none")
  BY DEF Reject, NoReply
<1>3. reply'.status = 200 \/ reply'.status = 400
  BY <1>2, Zenon
<1>4. reply'.status # 204
  BY <1>3
<1> QED
  BY <1>1, <1>2, <1>4, Zenon

LEMMA processRawTransactionStep ==
    ASSUME GatewayInv, processRawTransaction
    PROVE  Progress'
<1>1. /\ Calls("sendRawTransaction")
      /\ UNCHANGED <<startVars, req, acts>>
  BY DEF processRawTransaction
<1>2. /\ Blank /\ req.path \notin DOMAIN Handlers /\ IsRequest(req)
      /\ RPC({"sendRawTransaction"})
  BY <1>1, CallIs
<1>3. Handlers' = Handlers /\ (Taken' <=> Taken) /\ req' = req
  BY <1>1, Unmoved
<1>4. req.path # "/relay" /\ Door = "POST /"
  BY <1>2, HandlersAre DEF Door
<1>5. CASE req.params \in {"notList", "none"}
  <2>1. Reject(<<>>, "RELAY_ERROR", "none")
    BY <1>5 DEF processRawTransaction
  <2>a. reply = NoReply
    BY <1>2 DEF Blank
  <2>b. pc' = "done" /\ trace' = trace \o <<>> \o <<Rejected("none")>>
    BY <2>1 DEF Reject, Rejected
  <2>c. /\ reply'.documents = 1 /\ reply'.form = "error"
        /\ reply'.code = (IF Door = "POST /" THEN "none" ELSE "RELAY_ERROR")
        /\ reply'.number = (IF Door = "POST /" THEN errorMessage("none") ELSE "none")
    BY <2>1, <2>a DEF Reject, NoReply
  <2>2. /\ pc' = "done"
        /\ reply'.documents = 1 /\ reply'.form = "error"
        /\ reply'.code = "none" /\ reply'.number = errorMessage("none")
        /\ trace' = trace \o <<>> \o <<Rejected("none")>>
    BY <1>4, <2>b, <2>c, Zenon
  <2>3. trace' = <<Rejected("none")>>
    BY <1>2, <2>2 DEF Blank
  <2>4. Replied(1, "error", "none", "default")'
    BY <2>2 DEF Replied, errorMessage
  <2>5. EndedRejected'
    BY <1>1, <1>2, <1>3, <1>4, <1>5, <2>3, <2>4 DEF EndedRejected, Blank, Rejected
  <2> QED
    BY <2>2, <2>5, AtEnd DEF Ended
<1>6. CASE req.params \notin {"notList", "none"}
  <2>1. pc' = "prepare" /\ UNCHANGED <<trace, reply>>
    BY <1>6 DEF processRawTransaction
  <2>2. Taken
    BY <1>2, <1>6 DEF Taken, IsRequest
  <2> QED
    BY <1>1, <1>2, <1>3, <2>1, <2>2 DEF Progress, Blank
<1> QED
  BY <1>5, <1>6

LEMMA RelayStep ==
    ASSUME GatewayInv, Relay
    PROVE  Progress'
<1>1. /\ pc = "relay" /\ Blank /\ req.path = "/relay" /\ req.method = "POST"
      /\ UNCHANGED <<startVars, req, acts>>
  BY DEF GatewayInv, Progress, Relay, Blank
<1>2. (Taken' <=> Taken) /\ req' = req
  BY <1>1, Unmoved
<1>3. CASE req.readable /\ IsHexData(req.tx)
  <2>1. pc' = "prepare" /\ UNCHANGED <<trace, reply>>
    BY <1>3 DEF Relay
  <2>2. Taken
    BY <1>1, <1>3 DEF Taken
  <2> QED
    BY <1>1, <1>2, <2>1, <2>2 DEF Progress, Blank
<1>4. CASE ~(req.readable /\ IsHexData(req.tx))
  <2>1. /\ trace' = Append(trace, Logged("relay.bad_request"))
        /\ WriteError(400) /\ pc' = "done"
    BY <1>4 DEF Relay, Log
  <2>2. Replied(1, "error", "none", "none")'
    BY <1>1, <2>1 DEF Blank, NoReply, Replied, WriteError, Write
  <2>3. trace' = <<Logged("relay.bad_request")>>
    BY <1>1, <2>1 DEF Blank
  <2>4. EndedRejected'
    BY <1>1, <1>2, <1>4, <2>2, <2>3 DEF EndedRejected, Blank, Logged
  <2> QED
    BY <2>1, <2>4, AtEnd DEF Ended
<1> QED
  BY <1>3, <1>4

\* Sequences written out.
LEMMA Extended ==
    ASSUME NEW S, NEW s \in Seq(S), NEW t \in Seq(S), NEW e \in S,
           Len(t) = Len(s) + 1, \A i \in 1..Len(s) : t[i] = s[i], t[Len(s) + 1] = e
    PROVE  s \o <<e>> = t /\ Append(s, e) = t
<1>1. Append(s, e) \in Seq(S) /\ Len(Append(s, e)) = Len(t)
  BY AppendProperties
<1>2. Append(s, e)[Len(s) + 1] = e /\ \A i \in 1..Len(s) : Append(s, e)[i] = s[i]
  BY AppendProperties
<1>3. Len(s) \in Nat
  BY LenProperties
<1>4. \A i \in 1..(Len(s) + 1) : i \in 1..Len(s) \/ i = Len(s) + 1
  BY <1>3
<1>5. \A i \in 1..Len(t) : Append(s, e)[i] = t[i]
  BY <1>2, <1>4
<1>6. Append(s, e) = t
  BY <1>1, <1>5, SeqEqual
<1> QED
  BY <1>6, AppendIsConcat

LEMMA JoinedFirst ==
    ASSUME NEW x, NEW y
    PROVE  <<x>> \o <<y>> = <<x, y>> /\ Append(<<x>>, y) = <<x, y>>
<1> DEFINE S == {x, y}
           s == <<x>>
           t == <<x, y>>
<1>1. Len(s) = 1 /\ Len(t) = 2 /\ s[1] = x
  OBVIOUS
<1>2. t[1] = x /\ t[2] = y
  OBVIOUS
<1>3. s \in Seq(S) /\ t \in Seq(S) /\ y \in S
  OBVIOUS
<1>4. \A i : i \in 1..1 <=> i = 1
  OBVIOUS
<1> HIDE DEF s, t, S
<1>5. Len(t) = Len(s) + 1 /\ t[Len(s) + 1] = y
  BY <1>1, <1>2
<1>6. \A i \in 1..Len(s) : t[i] = s[i]
  BY <1>1, <1>2, <1>4
<1>7. s \o <<y>> = t /\ Append(s, y) = t
  BY <1>3, <1>5, <1>6, Extended, Zenon
<1> QED
  BY <1>7 DEF s, t

LEMMA JoinedSecond ==
    ASSUME NEW x, NEW y, NEW z
    PROVE  <<x, y>> \o <<z>> = <<x, y, z>> /\ Append(<<x, y>>, z) = <<x, y, z>>
<1> DEFINE S == {x, y, z}
           s == <<x, y>>
           t == <<x, y, z>>
<1>1. Len(s) = 2 /\ Len(t) = 3 /\ s[1] = x /\ s[2] = y
  OBVIOUS
<1>2. t[1] = x /\ t[2] = y /\ t[3] = z
  OBVIOUS
<1>3. s \in Seq(S) /\ t \in Seq(S) /\ z \in S
  OBVIOUS
<1>4. \A i : i \in 1..2 <=> i = 1 \/ i = 2
  OBVIOUS
<1> HIDE DEF s, t, S
<1>5. Len(t) = Len(s) + 1 /\ t[Len(s) + 1] = z
  BY <1>1, <1>2
<1>6. \A i \in 1..Len(s) : t[i] = s[i]
  BY <1>1, <1>2, <1>4
<1>7. s \o <<z>> = t /\ Append(s, z) = t
  BY <1>3, <1>5, <1>6, Extended, Zenon
<1> QED
  BY <1>7 DEF s, t

LEMMA JoinedThird ==
    ASSUME NEW x, NEW y, NEW z, NEW w
    PROVE  <<x, y, z>> \o <<w>> = <<x, y, z, w>> /\ Append(<<x, y, z>>, w) = <<x, y, z, w>>
<1> DEFINE S == {x, y, z, w}
           s == <<x, y, z>>
           t == <<x, y, z, w>>
<1>1. Len(s) = 3 /\ Len(t) = 4 /\ s[1] = x /\ s[2] = y /\ s[3] = z
  OBVIOUS
<1>2. t[1] = x /\ t[2] = y /\ t[3] = z /\ t[4] = w
  OBVIOUS
<1>3. s \in Seq(S) /\ t \in Seq(S) /\ w \in S
  OBVIOUS
<1>4. \A i : i \in 1..3 <=> i = 1 \/ i = 2 \/ i = 3
  OBVIOUS
<1> HIDE DEF s, t, S
<1>5. Len(t) = Len(s) + 1 /\ t[Len(s) + 1] = w
  BY <1>1, <1>2
<1>6. \A i \in 1..Len(s) : t[i] = s[i]
  BY <1>1, <1>2, <1>4
<1>7. s \o <<w>> = t /\ Append(s, w) = t
  BY <1>3, <1>5, <1>6, Extended, Zenon
<1> QED
  BY <1>7 DEF s, t

LEMMA JoinedFourth ==
    ASSUME NEW x, NEW y, NEW z, NEW w, NEW v
    PROVE  <<x, y, z, w>> \o <<v>> = <<x, y, z, w, v>> /\ Append(<<x, y, z, w>>, v) = <<x, y, z, w, v>>
<1> DEFINE S == {x, y, z, w, v}
           s == <<x, y, z, w>>
           t == <<x, y, z, w, v>>
<1>1. Len(s) = 4 /\ Len(t) = 5 /\ s[1] = x /\ s[2] = y /\ s[3] = z /\ s[4] = w
  OBVIOUS
<1>2. t[1] = x /\ t[2] = y /\ t[3] = z /\ t[4] = w /\ t[5] = v
  OBVIOUS
<1>3. s \in Seq(S) /\ t \in Seq(S) /\ v \in S
  OBVIOUS
<1>4. \A i : i \in 1..4 <=> i = 1 \/ i = 2 \/ i = 3 \/ i = 4
  OBVIOUS
<1> HIDE DEF s, t, S
<1>5. Len(t) = Len(s) + 1 /\ t[Len(s) + 1] = v
  BY <1>1, <1>2
<1>6. \A i \in 1..Len(s) : t[i] = s[i]
  BY <1>1, <1>2, <1>4
<1>7. s \o <<v>> = t /\ Append(s, v) = t
  BY <1>3, <1>5, <1>6, Extended, Zenon
<1> QED
  BY <1>7 DEF s, t

\* A rejection after the transaction was received, seen from its end.
LEMMA TurnedAway ==
    ASSUME NEW code, NEW number \in {"zero", "own"}, NEW logged,
           reply = NoReply, acts = <<>>, UNCHANGED <<startVars, req, acts>>,
           Reject(logged, code, number), Taken, ~(Prepared /\ SendVerdict = "ok"),
           \/ trace \o logged = <<Received>>
           \/ trace \o logged = <<Received, Decoded>>
    PROVE  Progress'
<1>1. /\ (Taken' <=> Taken) /\ (Prepared' <=> Prepared) /\ SendVerdict' = SendVerdict
  BY Unmoved
<1>2. /\ pc' = "done"
      /\ reply'.documents = 1 /\ reply'.form = "error"
      /\ reply'.number = (IF Door = "POST /" THEN errorMessage(number) ELSE "none")
      /\ trace' = trace \o logged \o <<Rejected(number)>>
  <2>1. pc' = "done" /\ trace' = trace \o logged \o <<Rejected(number)>>
    BY DEF Reject, Rejected
  <2>2. reply'.documents = 1 /\ reply'.form = "error"
    BY RejectIs, Zenon
  <2>3. reply'.number = (IF Door = "POST /" THEN errorMessage(number) ELSE "none")
    BY RejectIs, Zenon
  <2> QED
    BY <2>1, <2>2, <2>3, Zenon
<1>3. reply'.number \in {"none", number}
  <2>1. errorMessage(number) = number
    BY DEF errorMessage
  <2> QED
    BY <1>2, <2>1, Zenon
<1>4. \/ trace' = <<Received, Rejected(number)>>
      \/ trace' = <<Received, Decoded, Rejected(number)>>
  <2>1. CASE trace \o logged = <<Received>>
    <3>1. trace' = <<Received>> \o <<Rejected(number)>>
      BY <1>2, <2>1
    <3> QED
      BY <3>1, JoinedFirst, Zenon
  <2>2. CASE trace \o logged = <<Received, Decoded>>
    <3>1. trace' = <<Received, Decoded>> \o <<Rejected(number)>>
      BY <1>2, <2>2
    <3> QED
      BY <3>1, JoinedSecond, Zenon
  <2> QED
    BY <2>1, <2>2
<1>5. Replied(1, "error", reply.code, reply.number)'
  BY <1>2 DEF Replied
<1>6. EndedRejected'
  BY <1>1, <1>3, <1>4, <1>5 DEF EndedRejected, Rejected, Received, Decoded, Logged
<1> QED
  BY <1>2, <1>6, AtEnd DEF Ended

LEMMA PrepareStep ==
    ASSUME GatewayInv, Prepare
    PROVE  Progress'
<1> DEFINE verdict == PrepareMetaTx(req.tx, c, world.permit)
           logged == IF Decodes(req.tx) THEN <<Received, Decoded>> ELSE <<Received>>
<1>1. /\ pc = "prepare" /\ Blank /\ Taken
      /\ UNCHANGED <<startVars, req, acts>>
  BY DEF GatewayInv, Progress, Prepare, Blank
<1>2. (Taken' <=> Taken) /\ (Prepared' <=> Prepared) /\ SendVerdict' = SendVerdict
  BY <1>1, Unmoved
<1>3. IF verdict = "ok"
      THEN trace' = trace \o logged /\ pc' = "send" /\ reply' = reply
      ELSE Reject(logged, verdict, ErrorCode(req.tx))
  BY DEF Prepare, Received, Decoded
<1>4. trace \o logged = logged
  BY <1>1 DEF Blank
<1>5. CASE verdict = "ok"
  <2>1. Prepared
    BY <1>5 DEF Prepared
  <2>2. Decodes(req.tx)
    BY <1>5, PreparedIs
  <2>3. trace' = <<Received, Decoded>> /\ pc' = "send" /\ reply' = reply
    BY <1>3, <1>4, <1>5, <2>2
  <2> QED
    BY <1>1, <1>2, <2>1, <2>3 DEF Progress, Blank, Received, Decoded, Logged
<1>6. CASE verdict # "ok"
  <2>1. ~Prepared
    BY <1>6 DEF Prepared
  <2>2. ErrorCode(req.tx) \in {"zero", "own"}
    BY DEF ErrorCode
  <2>3. Reject(logged, verdict, ErrorCode(req.tx))
    BY <1>3, <1>6
  <2>4. trace \o logged = <<Received>> \/ trace \o logged = <<Received, Decoded>>
    BY <1>4
  <2>5. reply = NoReply /\ acts = <<>>
    BY <1>1 DEF Blank
  <2> HIDE DEF verdict, logged
  <2> QED
    BY <1>1, <2>1, <2>2, <2>3, <2>4, <2>5, TurnedAway
<1> QED
  BY <1>5, <1>6

\* The sequences that a trace begins with, followed by nothing.
LEMMA JoinedEmpty ==
    ASSUME NEW x, NEW y, NEW z, NEW w
    PROVE  /\ <<>> \o <<x>> = <<x>>
           /\ <<x>> \o <<>> = <<x>>
           /\ <<x, y>> \o <<>> = <<x, y>>
           /\ <<x, y, z>> \o <<>> = <<x, y, z>>
           /\ <<x, y, z, w>> \o <<>> = <<x, y, z, w>>
<1> DEFINE S == {x, y, z, w}
<1>1. <<x>> \in Seq(S) /\ <<x, y>> \in Seq(S)
  OBVIOUS
<1>2. <<x, y, z>> \in Seq(S) /\ <<x, y, z, w>> \in Seq(S)
  OBVIOUS
<1> QED
  BY <1>1, <1>2, ConcatEmptySeq

LEMMA ReserveGasAndSendStep ==
    ASSUME GatewayInv, ReserveGasAndSend
    PROVE  Progress'
<1>1. /\ pc = "send" /\ Taken /\ Prepared
      /\ trace = <<Received, Decoded>> /\ acts = <<>> /\ reply = NoReply
      /\ UNCHANGED <<startVars, req>>
  BY DEF GatewayInv, Progress, ReserveGasAndSend
<1>2. /\ (Taken' <=> Taken) /\ (Prepared' <=> Prepared) /\ SendVerdict' = SendVerdict
      /\ req' = req
  BY <1>1, Unmoved
<1>3. CASE SendVerdict # "ok"
  <2>1. Reject(<<>>, SendVerdict, "own") /\ acts' = acts
    BY <1>3 DEF ReserveGasAndSend
  <2>2. trace \o <<>> = <<Received, Decoded>>
    BY <1>1, JoinedEmpty
  <2>3. "own" \in {"zero", "own"} /\ ~(Prepared /\ SendVerdict = "ok")
    BY <1>3
  <2> QED
    BY <1>1, <2>1, <2>2, <2>3, TurnedAway
<1>4. CASE SendVerdict = "ok"
  <2>1. /\ acts' = Append(acts, "send") /\ trace' = Append(trace, Sent)
        /\ IF Door = "POST /"
           THEN Write(200, "hash", {}) /\ pc' = "done"
           ELSE reply' = reply /\ pc' = "wait"
    BY <1>4 DEF ReserveGasAndSend, Log, Sent
  <2>2. acts' = <<"send">>
    <3>1. acts = <<>> /\ acts' = Append(acts, "send")
      BY <1>1, <2>1
    <3> QED
      BY <3>1
  <2>3. trace' = <<Received, Decoded, Sent>>
    BY <1>1, <2>1, JoinedSecond, Zenon
  <2>4. CASE Door = "POST /"
    <3>w. reply = NoReply /\ Write(200, "hash", {})
      BY <1>1, <2>1, <2>4
    <3>1. Replied(1, "hash", "none", "none")' /\ reply'.status # 204
      BY <3>w DEF NoReply, Replied, Write
    <3>2. EndedSent'
      <4>1. req'.path # "/relay"
        BY <1>2, <2>4 DEF Door
      <4> QED
        BY <1>1, <1>2, <1>4, <2>2, <2>3, <3>1, <4>1
           DEF EndedSent, Received, Decoded, Sent, Logged
    <3> QED
      BY <2>1, <2>4, <3>2, AtEnd DEF Ended
  <2>5. CASE Door # "POST /"
    <3>1. req.path = "/relay" /\ reply' = reply /\ pc' = "wait"
      BY <2>1, <2>5 DEF Door
    <3> QED
      BY <1>1, <1>2, <1>4, <2>2, <2>3, <3>1 DEF Progress, Received, Decoded, Sent, Logged
  <2> QED
    BY <2>4, <2>5
<1> QED
  BY <1>3, <1>4

LEMMA waitForReceiptStep ==
    ASSUME GatewayInv, waitForReceipt
    PROVE  Progress'
<1> DEFINE before == <<Received, Decoded, Sent>>
           rejection == Logged("relay.hub_rejected")
           settled == Logged("relay.settled")
<1>1. /\ pc = "wait" /\ Taken /\ Prepared /\ SendVerdict = "ok" /\ req.path = "/relay"
      /\ trace = before /\ acts = <<"send">> /\ reply = NoReply
      /\ UNCHANGED <<startVars, req>>
  BY DEF GatewayInv, Progress, waitForReceipt
<1>2. /\ (Taken' <=> Taken) /\ (Prepared' <=> Prepared) /\ SendVerdict' = SendVerdict
      /\ (Faults' <=> Faults) /\ (HubRejected' <=> HubRejected)
      /\ req' = req /\ world' = world
  BY <1>1, Unmoved, ReadUnmoved
<1>r. ReceiptComes' <=> ReceiptComes
  BY <1>2 DEF ReceiptComes
<1>a. ASSUME NEW w PROVE before \o <<w>> = <<Received, Decoded, Sent, w>>
  BY JoinedThird, Zenon
<1>b. ASSUME NEW w, NEW v
      PROVE  <<Received, Decoded, Sent, w>> \o <<v>> = <<Received, Decoded, Sent, w, v>>
  BY JoinedFourth, Zenon
<1>e. /\ before \o <<>> = before
      /\ \A w : <<Received, Decoded, Sent, w>> \o <<>> = <<Received, Decoded, Sent, w>>
  BY JoinedEmpty
<1>3. CASE ~ReceiptComes
  <2>1. Reject(<<>>, "RECEIPT_TIMEOUT", "own") /\ acts' = acts
    BY <1>3 DEF waitForReceipt, ReceiptComes
  <2>2. Door # "POST /"
    BY <1>1 DEF Door
  <2>3. /\ pc' = "done"
        /\ reply'.documents = 1 /\ reply'.form = "error" /\ reply'.status # 204
        /\ reply'.code = "RECEIPT_TIMEOUT" /\ reply'.number = "none"
        /\ trace' = trace \o <<>> \o <<Rejected("own")>>
    <3>1. pc' = "done" /\ trace' = trace \o <<>> \o <<Rejected("own")>>
      BY <2>1 DEF Reject, Rejected
    <3>2. /\ reply'.documents = 1 /\ reply'.form = "error"
          /\ reply'.status = (IF Door = "POST /" THEN 200 ELSE 400)
          /\ reply'.code = (IF Door = "POST /" THEN "none" ELSE "RECEIPT_TIMEOUT")
          /\ reply'.number = (IF Door = "POST /" THEN errorMessage("own") ELSE "none")
      BY <1>1, <2>1 DEF Reject, NoReply
    <3>3. reply'.status = 400 /\ reply'.code = "RECEIPT_TIMEOUT" /\ reply'.number = "none"
      BY <2>2, <3>2, Zenon
    <3>4. reply'.status # 204
      BY <3>3
    <3> QED
      BY <3>1, <3>2, <3>3, <3>4, Zenon
  <2>4. trace' = <<Received, Decoded, Sent, Rejected("own")>>
    BY <1>1, <1>a, <1>e, <2>3, Zenon
  <2>5. Replied(1, "error", "RECEIPT_TIMEOUT", "none")'
    BY <2>3 DEF Replied
  <2>6. acts' = <<"send">>
    BY <1>1, <2>1
  <2>7. EndedSent'
    BY <1>1, <1>2, <1>3, <1>r, <2>3, <2>4, <2>5, <2>6
       DEF EndedSent, Received, Decoded, Sent, Logged, Rejected
  <2> QED
    BY <2>3, <2>7, AtEnd DEF Ended
<1>4. CASE ReceiptComes /\ Faults
  <2>1. Panics /\ pc' = "done" /\ UNCHANGED <<trace, acts>>
    BY <1>4 DEF waitForReceipt, ReceiptComes
  <2>2. Replied(0, "none", "none", "none")' /\ reply'.status # 204
    BY <1>1, <2>1 DEF Replied, NoReply, Panics
  <2>3. EndedSent'
    BY <1>1, <1>2, <1>4, <1>r, <2>1, <2>2 DEF EndedSent, Received, Decoded, Sent, Logged
  <2> QED
    BY <2>1, <2>3, AtEnd DEF Ended
<1>5. CASE ReceiptComes /\ ~Faults
  <2>1. /\ Write(200, "relayed", [executed |-> readHubEvents(Receipt(world.outcome))])
        /\ pc' = "done"
        /\ ReadEvents(<<settled>>) \/ ReadEvents(<<>>)
    BY <1>5 DEF waitForReceipt, ReceiptComes
  <2>2. /\ Replied(1, "relayed", "none", "none")' /\ reply'.status # 204
        /\ reply'.value.executed = readHubEvents(Receipt(world.outcome))
    BY <1>1, <2>1 DEF Replied, NoReply, Write
  <2>3. CASE HubRejected
    <3>1. /\ acts' = Append(acts, "invalidateNonce")
          /\ \/ trace' = trace \o <<rejection>> \o <<settled>>
             \/ trace' = trace \o <<rejection>> \o <<>>
      BY <2>1, <2>3 DEF ReadEvents
    <3>2. acts' = <<"send", "invalidateNonce">>
      BY <1>1, <3>1, JoinedFirst, Zenon
    <3>3. trace \o <<rejection>> = <<Received, Decoded, Sent, rejection>>
      BY <1>1, <1>a, Zenon
    <3>4. \/ trace' = <<Received, Decoded, Sent, rejection>>
          \/ trace' = <<Received, Decoded, Sent, rejection, settled>>
      BY <1>b, <1>e, <3>1, <3>3, Zenon
    <3>5. EndedSent'
      BY <1>1, <1>2, <1>5, <1>r, <2>2, <2>3, <3>2, <3>4
         DEF EndedSent, Received, Decoded, Sent, Logged
    <3> QED
      BY <2>1, <3>5, AtEnd DEF Ended
  <2>4. CASE ~HubRejected
    <3>1. /\ acts' = <<"send">>
          /\ \/ trace' = trace \o <<>> \o <<settled>>
             \/ trace' = trace \o <<>> \o <<>>
      BY <1>1, <2>1, <2>4 DEF ReadEvents
    <3>2. trace \o <<>> = <<Received, Decoded, Sent>>
      BY <1>1, JoinedEmpty
    <3>3. \/ trace' = <<Received, Decoded, Sent>>
          \/ trace' = <<Received, Decoded, Sent, settled>>
      BY <1>a, <1>e, <3>1, <3>2, Zenon
    <3>4. EndedSent'
      BY <1>1, <1>2, <1>5, <1>r, <2>2, <2>4, <3>1, <3>3
         DEF EndedSent, Received, Decoded, Sent, Logged
    <3> QED
      BY <2>1, <3>4, AtEnd DEF Ended
  <2> QED
    BY <2>3, <2>4
<1> QED
  BY <1>3, <1>4, <1>5

-----------------------------------------------------------------------------
(* The steps between requests, and the invariant.                          *)

\* How a request ended stays as it is until the next one comes.
LEMMA EndedKept ==
    ASSUME Ended, UNCHANGED <<startVars, req, trace, acts, reply>>
    PROVE  Ended'
<1>1. /\ Handlers' = Handlers /\ (Taken' <=> Taken) /\ (Prepared' <=> Prepared)
      /\ SendVerdict' = SendVerdict /\ (Faults' <=> Faults) /\ (HubRejected' <=> HubRejected)
      /\ Reported(c)' = Reported(c)
  BY Unmoved
<1>2. \A S : RPC(S)' <=> RPC(S)
  BY Unmoved
<1>3. world' = world /\ req' = req /\ trace' = trace /\ acts' = acts /\ reply' = reply
  BY ReadUnmoved
<1>4. ASSUME NEW d, NEW f, NEW n, NEW m
      PROVE  Replied(d, f, n, m)' <=> Replied(d, f, n, m)
  BY <1>3 DEF Replied
<1>5. CASE EndedPlain
  <2>1. EndedPlain'
    BY <1>1, <1>3, <1>5 DEF EndedPlain, Replied, Logged
  <2> QED
    BY <2>1 DEF Ended
<1>6. CASE EndedCall
  <2>1. EndedCall'
    BY <1>1, <1>2, <1>3, <1>6 DEF EndedCall, Replied, Logged
  <2> QED
    BY <2>1 DEF Ended
<1>7. CASE EndedRead
  <2>1. EndedRead'
    BY <1>1, <1>3, <1>7 DEF EndedRead, Replied, Logged
  <2> QED
    BY <2>1 DEF Ended
<1>8. CASE EndedRejected
  <2>1. EndedRejected'
    BY <1>1, <1>3, <1>8 DEF EndedRejected, Replied, Logged, Received, Decoded, Rejected
  <2> QED
    BY <2>1 DEF Ended
<1>9. CASE EndedSent
  <2>1. EndedSent'
    BY <1>1, <1>3, <1>9
       DEF EndedSent, ReceiptComes, Replied, Logged, Received, Decoded, Sent, Rejected
  <2> QED
    BY <2>1 DEF Ended
<1> QED
  BY <1>5, <1>6, <1>7, <1>8, <1>9 DEF Ended

LEMMA ArriveStep ==
    ASSUME GatewayInv, Arrive
    PROVE  Progress'
  BY DEF Arrive, Progress

LEMMA CloseStep ==
    ASSUME GatewayInv, Close
    PROVE  Progress'
<1>1. /\ pc = "done" /\ pc' = "idle" /\ Ended /\ served \in Nat /\ served' = served + 1
      /\ UNCHANGED <<startVars, req, trace, acts, reply>>
  BY DEF Close, GatewayInv, Progress, Setting
<1>2. Ended' /\ served' # 0
  BY <1>1, EndedKept
<1> QED
  BY <1>1, <1>2 DEF Progress

\* Until the service runs there is no request.
LEMMA StartStep ==
    ASSUME GatewayInv, ReadConfig \/ InitService
    PROVE  Progress'
<1>1. pc = "idle" /\ served = 0
  BY DEF GatewayInv, Setting, ReadConfig, InitService
<1>2. UNCHANGED <<served, req, pc, trace, acts, reply>>
  BY DEF ReadConfig, InitService, requestVars
<1> QED
  BY <1>1, <1>2 DEF GatewayInv, Progress

LEMMA StutterStep ==
    ASSUME GatewayInv, UNCHANGED vars
    PROVE  Progress'
<1>1. UNCHANGED <<startVars, served, req, pc, trace, acts, reply>>
  BY DEF vars, requestVars
<1>2. /\ Handlers' = Handlers /\ (Taken' <=> Taken) /\ (Prepared' <=> Prepared)
      /\ SendVerdict' = SendVerdict
  BY <1>1, Unmoved
<1>3. Ended => Ended'
  BY <1>1, EndedKept
<1> QED
  BY <1>1, <1>2, <1>3 DEF GatewayInv, Progress, Received, Decoded, Sent, Logged

LEMMA ProgressStep ==
    ASSUME GatewayInv, [Next]_vars
    PROVE  Progress'
  BY withCORSStep, RouteStep, InfoStep, PageStep, NonceStep, BadBodyStep, PrivateStep,
     UnsupportedStep, processGetTransactionReceiptStep, processGetMetaTxResultStep,
     processTransactionCountStep, processRawTransactionStep, RelayStep, PrepareStep,
     ReserveGasAndSendStep, waitForReceiptStep, ArriveStep, CloseStep, StartStep, StutterStep
  DEF Next, Rest

LEMMA SettingStep ==
    ASSUME GatewayInv, [Next]_vars
    PROVE  Setting'
<1>s. Setting /\ pc \in {"idle", "cors", "route", "info", "page", "nonce", "rpc", "relay",
                        "prepare", "send", "wait", "done"}
  BY DEF GatewayInv, Progress
<1>1. CASE ReadConfig
  BY <1>s, <1>1 DEF ReadConfig, Setting, requestVars, NoConfig
<1>2. CASE InitService
  BY <1>s, <1>2 DEF InitService, Setting, requestVars
<1>3. CASE Arrive
  <2>1. /\ phase = "serving" /\ pc = "idle" /\ pc' = "cors"
        /\ \/ served = 0 /\ req' \in Requests
           \/ served = 1 /\ req' \in Counterpart(req)
        /\ UNCHANGED <<host, file, world, phase, config, served>>
    BY <1>3 DEF Arrive, startVars
  <2>2. served = 1 => req \in Requests
    BY <1>s, <2>1 DEF Setting
  <2>3. IsRequest(req)'
    BY <2>1, <2>2, GatewayAssumption DEF IsRequest
  <2> QED
    BY <1>s, <2>1, <2>3 DEF Setting
<1>4. CASE Close
  <2>1. /\ pc = "done" /\ pc' = "idle" /\ served' = served + 1
        /\ UNCHANGED <<host, file, world, phase, config, req>>
    BY <1>4 DEF Close, startVars
  <2>2. served \in Nat /\ served' # 0 /\ (served' = 1 => served = 0)
    BY <1>s, <2>1 DEF Setting
  <2> QED
    BY <1>s, <2>1, <2>2 DEF Setting
<1>5. CASE UNCHANGED vars
  BY <1>s, <1>5 DEF Setting, vars, startVars, requestVars
<1>6. CASE withCORS \/ Route \/ Info \/ Page \/ Nonce \/ BadBody \/ Private \/ Unsupported
  <2>1. pc \in {"cors", "route", "info", "page", "nonce", "rpc"}
    BY <1>6 DEF withCORS, Route, Info, Page, Nonce, BadBody, Private, Unsupported, Calls
  <2>2. UNCHANGED <<host, file, world, phase, config, served, req>>
    BY <1>6 DEF withCORS, Route, Info, Page, Nonce, BadBody, Private, Unsupported, startVars
  <2>3. pc' # "idle"
    <3>1. CASE Route
      <4>1. req.path \in DOMAIN Handlers => Handlers[req.path].handler # "idle"
        BY HandlersAre
      <4> QED
        BY <3>1, <4>1 DEF Route
    <3>2. CASE withCORS \/ Info \/ Page \/ Nonce \/ BadBody \/ Private \/ Unsupported
      BY <3>2 DEF withCORS, Info, Page, Nonce, BadBody, Private, Unsupported
    <3> QED
      BY <1>6, <3>1, <3>2
  <2> QED
    BY <1>s, <2>1, <2>2, <2>3 DEF Setting
<1>7. CASE \/ processGetTransactionReceipt \/ processGetMetaTxResult
           \/ processTransactionCount \/ processRawTransaction
  <2>1. pc = "rpc"
    BY <1>7 DEF processGetTransactionReceipt, processGetMetaTxResult, processTransactionCount,
                processRawTransaction, Calls
  <2>2. UNCHANGED <<host, file, world, phase, config, served, req>>
    BY <1>7 DEF processGetTransactionReceipt, processGetMetaTxResult, processTransactionCount,
                processRawTransaction, startVars
  <2>3. pc' # "idle"
    BY <1>7 DEF processGetTransactionReceipt, processGetMetaTxResult, processTransactionCount,
                processRawTransaction, Reject
  <2> QED
    BY <1>s, <2>1, <2>2, <2>3 DEF Setting
<1>8. CASE Relay \/ Prepare \/ ReserveGasAndSend \/ waitForReceipt
  <2>1. pc \in {"relay", "prepare", "send", "wait"}
    BY <1>8 DEF Relay, Prepare, ReserveGasAndSend, waitForReceipt
  <2>2. UNCHANGED <<host, file, world, phase, config, served, req>>
    BY <1>8 DEF Relay, Prepare, ReserveGasAndSend, waitForReceipt, startVars
  <2>3. pc' # "idle"
    BY <1>8 DEF Relay, Prepare, ReserveGasAndSend, waitForReceipt, Reject
  <2> QED
    BY <1>s, <2>1, <2>2, <2>3 DEF Setting
<1> QED
  BY <1>1, <1>2, <1>3, <1>4, <1>5, <1>6, <1>7, <1>8 DEF Next, Rest

\* How far every request is, and what it left behind: the invariant behind the
\* theorems about single requests.
THEOREM GatewayInvariant == Spec => []GatewayInv
<1>1. Init => GatewayInv
  <2> SUFFICES ASSUME Init PROVE GatewayInv
    OBVIOUS
  <2>1. PICK s \in Starts : host = s.host /\ file = s.file /\ world = s.world
    BY DEF Init
  <2>2. IsFile(file) /\ IsWorld(world)
    BY <2>1, GatewayAssumption
  <2>3. /\ phase = "start" /\ served = 0 /\ pc = "idle"
        /\ trace = <<>> /\ acts = <<>> /\ reply = NoReply
    BY DEF Init
  <2>4. Setting
    BY <2>2, <2>3 DEF Setting
  <2>5. Progress
    BY <2>3 DEF Progress
  <2> QED
    BY <2>4, <2>5 DEF GatewayInv
<1>2. GatewayInv /\ [Next]_vars => GatewayInv'
  BY SettingStep, ProgressStep DEF GatewayInv
<1> QED
  BY <1>1, <1>2, PTL DEF Spec

-----------------------------------------------------------------------------
(* What the clients are told of a metatx that was mined.                   *)

\* Whether an act was done, of the few that a request can do.
LEMMA HasActedNone ==
    ASSUME acts = <<>>, NEW act
    PROVE  ~HasActed(act)
<1>1. Len(acts) = 0 /\ 1..0 = {}
  OBVIOUS
<1> QED
  BY <1>1 DEF HasActed

LEMMA HasActedOne ==
    ASSUME NEW a, acts = <<a>>, NEW act
    PROVE  HasActed(act) <=> act = a
<1>1. Len(acts) = 1 /\ acts[1] = a
  OBVIOUS
<1>2. \A i : i \in 1..1 <=> i = 1
  OBVIOUS
<1> QED
  BY <1>1, <1>2 DEF HasActed

LEMMA HasActedTwo ==
    ASSUME NEW a, NEW b, acts = <<a, b>>, NEW act
    PROVE  HasActed(act) <=> act = a \/ act = b
<1>1. Len(acts) = 2 /\ acts[1] = a /\ acts[2] = b
  OBVIOUS
<1>2. \A i : i \in 1..2 <=> i = 1 \/ i = 2
  OBVIOUS
<1> QED
  BY <1>1, <1>2 DEF HasActed

\* A request that is on its way has at most sent a metatx.
LEMMA OnItsWay ==
    ASSUME GatewayInv, ~Ended
    PROVE  /\ pc # "done"
           /\ \/ trace = <<>> /\ acts = <<>>
              \/ trace = <<Received, Decoded>> /\ acts = <<>>
              \/ trace = <<Received, Decoded, Sent>> /\ acts = <<"send">>
  BY DEF GatewayInv, Progress

LEMMA TruthfulState == GatewayInv => AnswersTruthful
<1> SUFFICES ASSUME GatewayInv PROVE AnswersTruthful
  OBVIOUS
<1> DEFINE r == Receipt(world.outcome)
<1>1. world.outcome \in Outcomes
  BY DEF GatewayInv, Setting, IsWorld
<1>2. /\ Failed(r) <=>
            ~TookEffect(world.outcome) /\ world.outcome \notin {"silent", "outerReverted"}
      /\ HubRejected => ~TookEffect(world.outcome)
      /\ (Saw(r, "TransactionRelayed") \/ Saw(r, "ContractDeployed")) /\ ~Failed(r)
            <=> TookEffect(world.outcome)
      /\ r.status = (IF world.outcome = "outerReverted" THEN 0 ELSE 1)
  BY <1>1, FailedIs DEF HubRejected
<1>3. /\ GetTransactionReceipt(r) = 1 <=>
            TookEffect(world.outcome) \/ world.outcome = "silent"
      /\ GetMetaTxResult(r) <=>
            TookEffect(world.outcome) \/ world.outcome \in {"silent", "outerReverted"}
  BY <1>2 DEF GetTransactionReceipt, GetMetaTxResult, TookEffect
<1>4. /\ readHubEvents(r) = "executed" <=> TookEffect(world.outcome)
      /\ readHubEvents(r) = "unknown" <=> world.outcome \in {"silent", "outerReverted"}
  BY <1>2 DEF readHubEvents, TookEffect
<1> HIDE DEF r
<1>5. HasActed("invalidateNonce") =>
            ~TookEffect(world.outcome) /\ reply.form \in {"receipt", "result", "relayed"}
  <2>1. CASE ~Ended
    BY <2>1, OnItsWay, HasActedNone, HasActedOne
  <2>2. CASE EndedPlain \/ EndedRejected
    <3>1. acts = <<>>
      BY <2>2 DEF EndedPlain, EndedRejected
    <3> QED
      BY <3>1, HasActedNone
  <2>3. CASE EndedCall
    <3>1. acts = <<>> \/ acts = <<"proxy">> \/ acts = <<"DecreaseGasUsed", "proxy">>
      BY <2>3 DEF EndedCall
    <3> QED
      BY <3>1, HasActedNone, HasActedOne, HasActedTwo
  <2>4. CASE EndedRead
    <3>1. HubRejected \/ acts = <<>>
      BY <2>4 DEF EndedRead
    <3>2. reply.form \in {"receipt", "result"}
      BY <2>4 DEF EndedRead, Replied
    <3> QED
      BY <1>2, <3>1, <3>2, HasActedNone
  <2>5. CASE EndedSent
    <3>1. acts = <<"send">> \/ (HubRejected /\ Replied(1, "relayed", "none", "none"))
      BY <2>5 DEF EndedSent
    <3>2. Replied(1, "relayed", "none", "none") => reply.form = "relayed"
      BY DEF Replied
    <3> QED
      BY <1>2, <3>1, <3>2, HasActedOne
  <2> QED
    BY <2>1, <2>2, <2>3, <2>4, <2>5 DEF Ended
<1>6. ASSUME Done
      PROVE  /\ reply.form = "receipt" => reply.value.status = GetTransactionReceipt(r)
             /\ reply.form = "result" => reply.value.success = GetMetaTxResult(r)
             /\ reply.form = "relayed" => reply.value.executed = readHubEvents(r)
  <2>1. Ended
    BY <1>6 DEF Done, GatewayInv, Progress
  <2>2. CASE EndedPlain
    BY <2>2 DEF EndedPlain, Replied
  <2>3. CASE EndedCall
    BY <2>3 DEF EndedCall, Replied
  <2>4. CASE EndedRead
    BY <2>4 DEF EndedRead, Replied, r
  <2>5. CASE EndedRejected
    BY <2>5 DEF EndedRejected, Replied
  <2>6. CASE EndedSent
    BY <2>6 DEF EndedSent, Replied, r
  <2> QED
    BY <2>1, <2>2, <2>3, <2>4, <2>5, <2>6 DEF Ended
<1> QED
  BY <1>3, <1>4, <1>5, <1>6 DEF AnswersTruthful

\* What the clients are told of a metatx that was mined is what happened to it,
\* whatever the world and the configuration (GetTransactionReceipt,
\* GetMetaTxResult, readHubEvents).
THEOREM AnswersTruthfulCorrect == Spec => []AnswersTruthful
  BY GatewayInvariant, TruthfulState, PTL

-----------------------------------------------------------------------------
(* One document for one request.                                           *)

\* The remainder of a number by a larger one is the number.
LEMMA Remainder ==
    ASSUME NEW C \in Nat, NEW n \in Nat, n < C
    PROVE  n % C = n
  OBVIOUS

\* A slice that ends before it begins needs a declared length that wraps around.
LEMMA FaultsIs ==
    ASSUME GatewayInv, Faults
    PROVE  world.outcome = "reverted" /\ 68 + world.output.declared >= 2 ^ Width
<1>1. world.outcome = "reverted" /\ decodeRevertReason(world.output) = "fault"
  BY DEF Faults
<1>2. ~(TextEnd(world.output) >= 68)
  BY <1>1 DEF decodeRevertReason
<1>3. world.output.declared \in Nat
  BY DEF GatewayInv, Setting, IsWorld
<1>4. 2 ^ Width \in Nat
  BY WordAssumption
<1> DEFINE n == 68 + world.output.declared
           C == 2 ^ Width
<1>5. n \in Nat /\ C \in Nat /\ TextEnd(world.output) = n % C
  BY <1>3, <1>4 DEF TextEnd
<1>6. n >= 68
  BY <1>3
<1> HIDE DEF n, C
<1>7. n >= C
  <2> SUFFICES ASSUME n < C PROVE FALSE
    BY <1>5
  <2>1. n % C = n
    BY <1>5, Remainder
  <2> QED
    BY <1>2, <1>5, <1>6, <2>1
<1> QED
  BY <1>1, <1>7 DEF n, C

LEMMA OneDocumentState == GatewayInv => OneDocument
<1> SUFFICES ASSUME GatewayInv, Done, reply.documents # 1
             PROVE  \/ reply.status = 204
                    \/ ~req.readable
                    \/ req.namespace # "eth"
                    \/ RPC({"getTransactionReceipt", "getTransactionCount"}) /\ req.params = "none"
                    \/ RPC({"getTransactionReceipt", "getMetaTxResult"}) /\ req.params = "short"
                    \/ RPC({"getTransactionCount"}) /\ req.tag = "other" /\ reply.documents = 2
                    \/ world.outcome = "reverted" /\ 68 + world.output.declared >= 2 ^ Width
  BY DEF OneDocument
<1>1. Ended
  BY DEF GatewayInv, Progress, Done
<1>2. CASE EndedPlain
  BY <1>2 DEF EndedPlain, Replied
<1>3. CASE EndedCall
  BY <1>3, FaultsIs, Zenon DEF EndedCall
<1>4. CASE EndedRead
  BY <1>4 DEF EndedRead, Replied
<1>5. CASE EndedRejected
  BY <1>5 DEF EndedRejected, Replied
<1>6. CASE EndedSent
  <2>1. Faults
    BY <1>6 DEF EndedSent, Replied
  <2> QED
    BY <2>1, FaultsIs, Zenon
<1> QED
  BY <1>1, <1>2, <1>3, <1>4, <1>5, <1>6 DEF Ended

\* A client gets one document for its request, with the exceptions that the
\* property names (the handlers of controller and the JSON-RPC codec).
THEOREM OneDocumentCorrect == Spec => []OneDocument
  BY GatewayInvariant, OneDocumentState, PTL

-----------------------------------------------------------------------------
(* The events of a metatx in the log.                                      *)

\* The place of an event that occurs once.
LEMMA AtIs ==
    ASSUME NEW e, NEW i \in 1..Len(trace), trace[i].event = e,
           \A j \in 1..Len(trace) : trace[j].event = e => j = i
    PROVE  At(e) = i
  BY DEF At

\* A trace of up to five events, and the names in it.
LEMMA NamesAre ==
    ASSUME NEW x, NEW y, NEW z, NEW w, NEW v
    PROVE  /\ trace = <<>> => \A e : e \notin Names
           /\ trace = <<x>> => /\ \A e : e \in Names <=> e = x.event
                               /\ Len(trace) = 1 /\ trace[1] = x
           /\ trace = <<x, y>> =>
                /\ \A e : e \in Names <=> e \in {x.event, y.event}
                /\ Len(trace) = 2 /\ trace[1] = x /\ trace[2] = y
           /\ trace = <<x, y, z>> =>
                /\ \A e : e \in Names <=> e \in {x.event, y.event, z.event}
                /\ Len(trace) = 3 /\ trace[1] = x /\ trace[2] = y /\ trace[3] = z
           /\ trace = <<x, y, z, w>> =>
                /\ \A e : e \in Names <=> e \in {x.event, y.event, z.event, w.event}
                /\ Len(trace) = 4 /\ trace[1] = x /\ trace[2] = y /\ trace[3] = z
                /\ trace[4] = w
           /\ trace = <<x, y, z, w, v>> =>
                /\ \A e : e \in Names <=> e \in {x.event, y.event, z.event, w.event, v.event}
                /\ Len(trace) = 5 /\ trace[1] = x /\ trace[2] = y /\ trace[3] = z
                /\ trace[4] = w /\ trace[5] = v
<1>0. CASE trace = <<>>
  <2>1. Len(trace) = 0 /\ 1..0 = {}
    BY <1>0
  <2> QED
    BY <1>0, <2>1 DEF Names
<1>1. ASSUME trace = <<x>>
      PROVE  /\ \A e : e \in Names <=> e = x.event
             /\ Len(trace) = 1 /\ trace[1] = x
  <2>1. Len(trace) = 1 /\ trace[1] = x
    BY <1>1
  <2>2. \A i : i \in 1..1 <=> i = 1
    OBVIOUS
  <2> QED
    BY <2>1, <2>2 DEF Names
<1>2. ASSUME trace = <<x, y>>
      PROVE  /\ \A e : e \in Names <=> e \in {x.event, y.event}
             /\ Len(trace) = 2 /\ trace[1] = x /\ trace[2] = y
  <2>1. Len(trace) = 2 /\ trace[1] = x /\ trace[2] = y
    BY <1>2
  <2>2. \A i : i \in 1..2 <=> i = 1 \/ i = 2
    OBVIOUS
  <2> QED
    BY <2>1, <2>2 DEF Names
<1>3. ASSUME trace = <<x, y, z>>
      PROVE  /\ \A e : e \in Names <=> e \in {x.event, y.event, z.event}
             /\ Len(trace) = 3 /\ trace[1] = x /\ trace[2] = y /\ trace[3] = z
  <2>1. Len(trace) = 3 /\ trace[1] = x /\ trace[2] = y /\ trace[3] = z
    BY <1>3
  <2>2. \A i : i \in 1..3 <=> i = 1 \/ i = 2 \/ i = 3
    OBVIOUS
  <2> QED
    BY <2>1, <2>2 DEF Names
<1>4. ASSUME trace = <<x, y, z, w>>
      PROVE  /\ \A e : e \in Names <=> e \in {x.event, y.event, z.event, w.event}
             /\ Len(trace) = 4 /\ trace[1] = x /\ trace[2] = y /\ trace[3] = z
             /\ trace[4] = w
  <2>1. Len(trace) = 4 /\ trace[1] = x /\ trace[2] = y /\ trace[3] = z /\ trace[4] = w
    BY <1>4
  <2>2. \A i : i \in 1..4 <=> i = 1 \/ i = 2 \/ i = 3 \/ i = 4
    OBVIOUS
  <2> QED
    BY <2>1, <2>2 DEF Names
<1>5. ASSUME trace = <<x, y, z, w, v>>
      PROVE  /\ \A e : e \in Names <=> e \in {x.event, y.event, z.event, w.event, v.event}
             /\ Len(trace) = 5 /\ trace[1] = x /\ trace[2] = y /\ trace[3] = z
             /\ trace[4] = w /\ trace[5] = v
  <2>1. /\ Len(trace) = 5 /\ trace[1] = x /\ trace[2] = y /\ trace[3] = z /\ trace[4] = w
        /\ trace[5] = v
    BY <1>5
  <2>2. \A i : i \in 1..5 <=> i = 1 \/ i = 2 \/ i = 3 \/ i = 4 \/ i = 5
    OBVIOUS
  <2> QED
    BY <2>1, <2>2 DEF Names
<1> QED
  BY <1>0, <1>1, <1>2, <1>3, <1>4, <1>5

\* The fields of the events.
LEMMA LoggedIs ==
    /\ Received.event = "relay.received" /\ Decoded.event = "relay.decoded"
    /\ Sent.event = "relay.sent"
    /\ \A e : Logged(e).event = e
    /\ \A n : Rejected(n).event = "relay.rejected" /\ Rejected(n).number = n
  BY DEF Received, Decoded, Sent, Logged, Rejected

\* Nothing of a metatx in the trace.
LEMMA TraceQuiet ==
    ASSUME \A e \in {"relay.received", "relay.decoded", "relay.sent", "relay.rejected"} :
                e \notin Names
    PROVE  TraceOfMetaTx
<1>1. \A e \in {"relay.received", "relay.decoded", "relay.sent", "relay.rejected"} : Once(e)
  BY DEF Once, Names
<1> QED
  BY <1>1 DEF TraceOfMetaTx

\* A trace in which no event is twice.
LEMMA OnceEach ==
    ASSUME NEW x, NEW y, NEW z, NEW w, NEW v,
           \/ trace = <<x>>
           \/ trace = <<x, y>> /\ x.event # y.event
           \/ trace = <<x, y, z>> /\ x.event # y.event /\ z.event \notin {x.event, y.event}
           \/ /\ trace = <<x, y, z, w>>
              /\ x.event # y.event /\ z.event \notin {x.event, y.event}
              /\ w.event \notin {x.event, y.event, z.event}
           \/ /\ trace = <<x, y, z, w, v>>
              /\ x.event # y.event /\ z.event \notin {x.event, y.event}
              /\ w.event \notin {x.event, y.event, z.event}
              /\ v.event \notin {x.event, y.event, z.event, w.event}
    PROVE  \A e : Once(e)
<1> SUFFICES ASSUME NEW i \in 1..Len(trace), NEW j \in 1..Len(trace),
                    trace[i].event = trace[j].event
             PROVE  i = j
  BY DEF Once
<1>1. CASE trace = <<x>>
  <2>1. Len(trace) = 1
    BY <1>1
  <2> QED
    BY <2>1
<1>2. CASE trace = <<x, y>> /\ x.event # y.event
  <2>1. Len(trace) = 2 /\ trace[1] = x /\ trace[2] = y
    BY <1>2
  <2>2. \A m : m \in 1..2 => m = 1 \/ m = 2
    OBVIOUS
  <2> QED
    BY <1>2, <2>1, <2>2
<1>3. CASE trace = <<x, y, z>> /\ x.event # y.event /\ z.event \notin {x.event, y.event}
  <2>1. Len(trace) = 3 /\ trace[1] = x /\ trace[2] = y /\ trace[3] = z
    BY <1>3
  <2>2. \A m : m \in 1..3 => m = 1 \/ m = 2 \/ m = 3
    OBVIOUS
  <2> QED
    BY <1>3, <2>1, <2>2
<1>4. CASE /\ trace = <<x, y, z, w>>
           /\ x.event # y.event /\ z.event \notin {x.event, y.event}
           /\ w.event \notin {x.event, y.event, z.event}
  <2>1. Len(trace) = 4 /\ trace[1] = x /\ trace[2] = y /\ trace[3] = z /\ trace[4] = w
    BY <1>4
  <2>2. \A m : m \in 1..4 => m = 1 \/ m = 2 \/ m = 3 \/ m = 4
    OBVIOUS
  <2> QED
    BY <1>4, <2>1, <2>2
<1>5. CASE /\ trace = <<x, y, z, w, v>>
           /\ x.event # y.event /\ z.event \notin {x.event, y.event}
           /\ w.event \notin {x.event, y.event, z.event}
           /\ v.event \notin {x.event, y.event, z.event, w.event}
  <2>1. /\ Len(trace) = 5 /\ trace[1] = x /\ trace[2] = y /\ trace[3] = z /\ trace[4] = w
        /\ trace[5] = v
    BY <1>5
  <2>2. \A m : m \in 1..5 => m = 1 \/ m = 2 \/ m = 3 \/ m = 4 \/ m = 5
    OBVIOUS
  <2> QED
    BY <1>5, <2>1, <2>2
<1> QED
  BY <1>1, <1>2, <1>3, <1>4, <1>5

\* Where the first events are, whatever follows them.
LEMMA DecodedAt ==
    ASSUME NEW n \in {2, 3, 4, 5}, Len(trace) = n, trace[1] = Received, trace[2] = Decoded,
           \A j \in 3..n : trace[j].event \notin {"relay.received", "relay.decoded"}
    PROVE  At("relay.received") = 1 /\ At("relay.decoded") = 2
<1>1. \A j \in 1..n : j = 1 \/ j = 2 \/ j \in 3..n
  OBVIOUS
<1>2. 1 \in 1..n /\ 2 \in 1..n
  OBVIOUS
<1>3. \A j \in 1..Len(trace) : trace[j].event = "relay.received" => j = 1
  BY <1>1, LoggedIs
<1>4. \A j \in 1..Len(trace) : trace[j].event = "relay.decoded" => j = 2
  BY <1>1, LoggedIs
<1> QED
  BY <1>2, <1>3, <1>4, AtIs, LoggedIs

LEMMA SentAt ==
    ASSUME NEW n \in {3, 4, 5}, Len(trace) = n,
           trace[1] = Received, trace[2] = Decoded, trace[3] = Sent,
           \A j \in 4..n : trace[j].event # "relay.sent"
    PROVE  At("relay.sent") = 3
<1>1. \A j \in 1..n : j = 1 \/ j = 2 \/ j = 3 \/ j \in 4..n
  OBVIOUS
<1>2. 3 \in 1..n
  OBVIOUS
<1>3. \A j \in 1..Len(trace) : trace[j].event = "relay.sent" => j = 3
  BY <1>1, LoggedIs
<1> QED
  BY <1>2, <1>3, AtIs, LoggedIs

\* The order of the events of a metatx that was sent.
LEMMA TraceSent ==
    ASSUME NEW x, NEW y,
           x.event \in {"relay.rejected", "relay.hub_rejected", "relay.settled"},
           y.event = "relay.settled",
           \/ trace = <<Received, Decoded, Sent>>
           \/ trace = <<Received, Decoded, Sent, x>>
           \/ trace = <<Received, Decoded, Sent, x, y>>
    PROVE  /\ At("relay.received") = 1 /\ At("relay.decoded") = 2 /\ At("relay.sent") = 3
           /\ "relay.decoded" \in Names /\ "relay.sent" \in Names
           /\ trace = <<Received, Decoded, Sent>> => "relay.rejected" \notin Names
           /\ trace = <<Received, Decoded, Sent, x>> =>
                /\ trace[Len(trace)] = x
                /\ "relay.rejected" \in Names => x.event = "relay.rejected"
           /\ trace = <<Received, Decoded, Sent, x, y>> =>
                ("relay.rejected" \in Names => x.event = "relay.rejected")
<1>1. CASE trace = <<Received, Decoded, Sent>>
  <2>1. /\ \A e : e \in Names <=> e \in {Received.event, Decoded.event, Sent.event}
        /\ Len(trace) = 3 /\ trace[1] = Received /\ trace[2] = Decoded /\ trace[3] = Sent
    BY <1>1, NamesAre
  <2>2. \A j : (j \in 3..3 => j = 3) /\ j \notin 4..3
    OBVIOUS
  <2>3. At("relay.received") = 1 /\ At("relay.decoded") = 2
    BY <2>1, <2>2, DecodedAt, LoggedIs
  <2>4. At("relay.sent") = 3
    BY <2>1, <2>2, SentAt, LoggedIs
  <2>5. "relay.decoded" \in Names /\ "relay.sent" \in Names /\ "relay.rejected" \notin Names
    BY <2>1, LoggedIs
  <2>6. trace # <<Received, Decoded, Sent, x>> /\ trace # <<Received, Decoded, Sent, x, y>>
    BY <2>1
  <2> QED
    BY <2>3, <2>4, <2>5, <2>6
<1>2. CASE trace = <<Received, Decoded, Sent, x>>
  <2>1. /\ \A e : e \in Names <=> e \in {Received.event, Decoded.event, Sent.event, x.event}
        /\ Len(trace) = 4 /\ trace[1] = Received /\ trace[2] = Decoded /\ trace[3] = Sent
        /\ trace[4] = x
    BY <1>2, NamesAre
  <2>2. \A j : (j \in 3..4 => j = 3 \/ j = 4) /\ (j \in 4..4 => j = 4)
    OBVIOUS
  <2>3. At("relay.received") = 1 /\ At("relay.decoded") = 2
    BY <2>1, <2>2, DecodedAt, LoggedIs
  <2>4. At("relay.sent") = 3
    BY <2>1, <2>2, SentAt, LoggedIs
  <2>5. "relay.decoded" \in Names /\ "relay.sent" \in Names
    BY <2>1, LoggedIs
  <2>6. "relay.rejected" \in Names => x.event = "relay.rejected"
    BY <2>1, LoggedIs
  <2>7. trace # <<Received, Decoded, Sent>> /\ trace # <<Received, Decoded, Sent, x, y>>
    BY <2>1
  <2> QED
    BY <2>1, <2>3, <2>4, <2>5, <2>6, <2>7
<1>3. CASE trace = <<Received, Decoded, Sent, x, y>>
  <2>1. /\ \A e : e \in Names <=>
                    e \in {Received.event, Decoded.event, Sent.event, x.event, y.event}
        /\ Len(trace) = 5 /\ trace[1] = Received /\ trace[2] = Decoded /\ trace[3] = Sent
        /\ trace[4] = x /\ trace[5] = y
    BY <1>3, NamesAre
  <2>2. \A j : (j \in 3..5 => j = 3 \/ j = 4 \/ j = 5) /\ (j \in 4..5 => j = 4 \/ j = 5)
    OBVIOUS
  <2>3. At("relay.received") = 1 /\ At("relay.decoded") = 2
    BY <2>1, <2>2, DecodedAt, LoggedIs
  <2>4. At("relay.sent") = 3
    BY <2>1, <2>2, SentAt, LoggedIs
  <2>5. "relay.decoded" \in Names /\ "relay.sent" \in Names
    BY <2>1, LoggedIs
  <2>6. "relay.rejected" \in Names => x.event = "relay.rejected"
    BY <2>1, LoggedIs
  <2>7. trace # <<Received, Decoded, Sent>> /\ trace # <<Received, Decoded, Sent, x>>
    BY <2>1
  <2> QED
    BY <2>3, <2>4, <2>5, <2>6, <2>7
<1> QED
  BY <1>1, <1>2, <1>3

LEMMA TraceState == GatewayInv => TraceOfMetaTx
<1> SUFFICES ASSUME GatewayInv PROVE TraceOfMetaTx
  OBVIOUS
<1>e. trace = <<>> => TraceOfMetaTx
  BY NamesAre, TraceQuiet
<1>o. ASSUME NEW x, trace = <<x>>,
             x.event \notin {"relay.received", "relay.decoded", "relay.sent", "relay.rejected"}
      PROVE  TraceOfMetaTx
  <2>1. \A n : n \in Names <=> n = x.event
    BY <1>o, NamesAre
  <2> QED
    BY <1>o, <2>1, TraceQuiet
<1>1. CASE ~Ended
  <2>1. pc # "done"
    BY <1>1, OnItsWay
  <2>2. CASE trace = <<Received, Decoded>>
    <3>1. /\ \A e : e \in Names <=> e \in {Received.event, Decoded.event}
          /\ Len(trace) = 2 /\ trace[1] = Received /\ trace[2] = Decoded
      BY <2>2, NamesAre
    <3>2. \A j : j \notin 3..2
      OBVIOUS
    <3>3. At("relay.received") = 1 /\ At("relay.decoded") = 2
      BY <3>1, <3>2, DecodedAt
    <3>4. "relay.sent" \notin Names /\ "relay.rejected" \notin Names
      BY <3>1, LoggedIs
    <3>5. \A e : Once(e)
      BY <2>2, OnceEach, LoggedIs
    <3> QED
      BY <2>1, <3>3, <3>4, <3>5 DEF TraceOfMetaTx, Done
  <2>3. CASE trace = <<Received, Decoded, Sent>>
    <3>0. Logged("relay.settled").event = "relay.settled"
      BY LoggedIs
    <3>1. /\ At("relay.received") = 1 /\ At("relay.decoded") = 2 /\ At("relay.sent") = 3
          /\ "relay.decoded" \in Names /\ "relay.rejected" \notin Names
      BY <2>3, <3>0, TraceSent
    <3>2. \A e : Once(e)
      BY <2>3, OnceEach, LoggedIs
    <3> QED
      BY <2>1, <3>1, <3>2 DEF TraceOfMetaTx, Done
  <2> QED
    BY <1>1, <1>e, <2>2, <2>3, OnItsWay
<1>2. CASE EndedPlain \/ EndedCall \/ EndedRead
  <2>1. \/ trace = <<>> \/ trace = <<Logged("nonce.failed")>>
        \/ trace = <<Logged("http.bad_body")>> \/ trace = <<Logged("relay.hub_rejected")>>
    BY <1>2 DEF EndedPlain, EndedCall, EndedRead
  <2> QED
    BY <1>e, <1>o, <2>1, LoggedIs
<1>3. CASE EndedRejected
  <2>1. CASE /\ req.path # "/relay" /\ req.params \in {"notList", "none"}
             /\ trace = <<Rejected("none")>>
    <3>1. /\ \A e : e \in Names <=> e = "relay.rejected"
          /\ Len(trace) = 1 /\ trace[1] = Rejected("none")
      BY <2>1, NamesAre, LoggedIs
    <3>2. trace[Len(trace)].event = "relay.rejected" /\ trace[Len(trace)].number = "none"
      BY <3>1, LoggedIs
    <3>3. /\ "relay.decoded" \notin Names /\ "relay.sent" \notin Names
          /\ "relay.received" \notin Names
      BY <3>1
    <3>4. \A e : Once(e)
      BY <2>1, OnceEach
    <3> QED
      BY <2>1, <3>2, <3>3, <3>4 DEF TraceOfMetaTx
  <2>2. CASE trace = <<Logged("relay.bad_request")>>
    BY <1>o, <2>2, LoggedIs
  <2>3. ASSUME NEW number, trace = <<Received, Rejected(number)>>,
               reply.number \in {"none", number}
        PROVE  TraceOfMetaTx
    <3>1. /\ \A e : e \in Names <=> e \in {"relay.received", "relay.rejected"}
          /\ Len(trace) = 2 /\ trace[2] = Rejected(number)
      BY <2>3, NamesAre, LoggedIs
    <3>2. trace[Len(trace)].event = "relay.rejected" /\ trace[Len(trace)].number = number
      BY <3>1, LoggedIs
    <3>3. /\ "relay.decoded" \notin Names /\ "relay.sent" \notin Names
          /\ "relay.received" \in Names /\ "relay.rejected" \in Names
      BY <3>1
    <3>4. \A e : Once(e)
      BY <2>3, OnceEach, LoggedIs
    <3> QED
      BY <2>3, <3>2, <3>3, <3>4 DEF TraceOfMetaTx
  <2>4. ASSUME NEW number, trace = <<Received, Decoded, Rejected(number)>>,
               reply.number \in {"none", number}
        PROVE  TraceOfMetaTx
    <3>1. /\ \A e : e \in Names <=> e \in {"relay.received", "relay.decoded", "relay.rejected"}
          /\ Len(trace) = 3 /\ trace[1] = Received /\ trace[2] = Decoded
          /\ trace[3] = Rejected(number)
      BY <2>4, NamesAre, LoggedIs
    <3>2. trace[Len(trace)].event = "relay.rejected" /\ trace[Len(trace)].number = number
      BY <3>1, LoggedIs
    <3>3. "relay.sent" \notin Names /\ "relay.received" \in Names /\ "relay.rejected" \in Names
      BY <3>1
    <3>4. \A j : j \in 3..3 => j = 3
      OBVIOUS
    <3>5. At("relay.received") = 1 /\ At("relay.decoded") = 2
      BY <3>1, <3>4, DecodedAt, LoggedIs
    <3>6. \A e : Once(e)
      BY <2>4, OnceEach, LoggedIs
    <3> QED
      BY <2>4, <3>2, <3>3, <3>5, <3>6 DEF TraceOfMetaTx
  <2> QED
    BY <1>3, <2>1, <2>2, <2>3, <2>4 DEF EndedRejected
<1>4. CASE EndedSent
  <2>s. Logged("relay.settled").event = "relay.settled"
    BY LoggedIs
  <2>1. CASE /\ trace = <<Received, Decoded, Sent>>
             /\ req.path # "/relay" \/ ReceiptComes
    <3>1. /\ At("relay.received") = 1 /\ At("relay.decoded") = 2 /\ At("relay.sent") = 3
          /\ "relay.decoded" \in Names /\ "relay.sent" \in Names /\ "relay.rejected" \notin Names
      BY <2>s, <2>1, TraceSent
    <3>2. \A e : Once(e)
      BY <2>1, OnceEach, LoggedIs
    <3> QED
      BY <2>1, <3>1, <3>2 DEF TraceOfMetaTx
  <2>2. CASE /\ trace = <<Received, Decoded, Sent, Rejected("own")>>
             /\ req.path = "/relay" /\ ~ReceiptComes
             /\ Replied(1, "error", "RECEIPT_TIMEOUT", "none")
    <3>1. Rejected("own").event = "relay.rejected"
      BY LoggedIs
    <3>2. /\ At("relay.received") = 1 /\ At("relay.decoded") = 2 /\ At("relay.sent") = 3
          /\ "relay.decoded" \in Names /\ "relay.sent" \in Names
          /\ trace[Len(trace)] = Rejected("own")
      BY <2>s, <2>2, <3>1, TraceSent
    <3>3. reply.code = "RECEIPT_TIMEOUT" /\ reply.number = "none"
      BY <2>2 DEF Replied
    <3>4. "relay.received" \in Names /\ "relay.rejected" \in Names
      BY <2>2, NamesAre, LoggedIs
    <3>5. \A e : Once(e)
      BY <2>2, OnceEach, LoggedIs
    <3> QED
      BY <2>2, <3>1, <3>2, <3>3, <3>4, <3>5 DEF TraceOfMetaTx
  <2>3. ASSUME NEW x, x.event \in {"relay.hub_rejected", "relay.settled"}, ReceiptComes,
               \/ trace = <<Received, Decoded, Sent, x>>
               \/ /\ trace = <<Received, Decoded, Sent, x, Logged("relay.settled")>>
                  /\ x.event # "relay.settled"
        PROVE  TraceOfMetaTx
    <3>1. /\ At("relay.received") = 1 /\ At("relay.decoded") = 2 /\ At("relay.sent") = 3
          /\ "relay.decoded" \in Names /\ "relay.sent" \in Names
          /\ "relay.rejected" \in Names => x.event = "relay.rejected"
      BY <2>s, <2>3, TraceSent
    <3>2. "relay.rejected" \notin Names
      BY <2>3, <3>1
    <3>3. \A e : Once(e)
      <4>1. /\ Received.event # Decoded.event
            /\ Sent.event \notin {Received.event, Decoded.event}
            /\ x.event \notin {Received.event, Decoded.event, Sent.event}
            /\ x.event # "relay.settled" =>
                  Logged("relay.settled").event
                      \notin {Received.event, Decoded.event, Sent.event, x.event}
        BY <2>3, LoggedIs
      <4>2. CASE trace = <<Received, Decoded, Sent, x>>
        BY <4>1, <4>2, OnceEach
      <4>3. CASE /\ trace = <<Received, Decoded, Sent, x, Logged("relay.settled")>>
                 /\ x.event # "relay.settled"
        BY <4>1, <4>3, OnceEach
      <4> QED
        BY <2>3, <4>2, <4>3
    <3> QED
      BY <2>3, <3>1, <3>2, <3>3 DEF TraceOfMetaTx
  <2>4. \/ /\ trace = <<Received, Decoded, Sent>>
           /\ req.path # "/relay" \/ ReceiptComes
        \/ /\ trace = <<Received, Decoded, Sent, Rejected("own")>>
           /\ req.path = "/relay" /\ ~ReceiptComes
           /\ Replied(1, "error", "RECEIPT_TIMEOUT", "none")
        \/ /\ ReceiptComes
           /\ \/ trace = <<Received, Decoded, Sent, Logged("relay.hub_rejected")>>
              \/ trace = <<Received, Decoded, Sent, Logged("relay.hub_rejected"),
                           Logged("relay.settled")>>
              \/ trace = <<Received, Decoded, Sent, Logged("relay.settled")>>
    BY <1>4, Zenon DEF EndedSent
  <2>5. /\ Logged("relay.hub_rejected").event = "relay.hub_rejected"
        /\ Logged("relay.settled").event = "relay.settled"
    BY LoggedIs
  <2> QED
    BY <2>1, <2>2, <2>3, <2>4, <2>5
<1> QED
  BY <1>1, <1>2, <1>3, <1>4 DEF Ended

\* The events of a metatx are in the log in their order and once each, and every
\* metatx that was received is closed by relay.sent or by relay.rejected; by both
\* exactly if POST /relay gets no receipt (structured.go, prepare.go, relay.go,
\* endpoints.go).
THEOREM TraceOfMetaTxCorrect == Spec => []TraceOfMetaTx
  BY GatewayInvariant, TraceState, PTL

-----------------------------------------------------------------------------
(* The numbers of the configuration.                                       *)

\* An integer that was read from a word of the file.
Word == -(2 ^ (Width - 1))..(2 ^ (Width - 1) - 1)

\* What the reading of a number finds: nothing, or one number.
LEMMA toIntIs ==
    ASSUME NEW raw, raw.kind = "number" => raw.n \in Word
    PROVE  toInt(raw) = {} \/ \E n \in Word : toInt(raw) = {n}
<1>1. 2 ^ (Width - 1) \in Nat /\ 2 ^ (Width - 1) > 300
  BY WordAssumption DEF Defaults
<1>2. {-1, 0, 1, 40} \subseteq Word
  <2> DEFINE half == 2 ^ (Width - 1)
  <2>1. half \in Nat /\ half > 300
    BY <1>1
  <2> HIDE DEF half
  <2>2. {-1, 0, 1, 40} \subseteq -half..(half - 1)
    BY <2>1
  <2> QED
    BY <2>2 DEF Word, half
<1>3. CASE raw.kind = "number"
  BY <1>3 DEF toInt
<1>4. CASE raw.kind = "text" /\ raw.t \in DOMAIN Atoi
  <2>1. toInt(raw) = {Atoi[raw.t]}
    BY <1>4 DEF toInt
  <2>2. Atoi[raw.t] \in {-1, 0, 1, 40}
    BY <1>4 DEF Atoi
  <2> QED
    BY <1>2, <2>1, <2>2
<1>5. CASE ~(raw.kind = "number") /\ ~(raw.kind = "text" /\ raw.t \in DOMAIN Atoi)
  BY <1>5 DEF toInt
<1> QED
  BY <1>3, <1>4, <1>5

\* The value of a number, and where it comes from.
LEMMA readIntIs ==
    ASSUME NEW raw, raw.kind = "number" => raw.n \in Word, NEW default, NEW min \in Int
    PROVE  LET value == readInt(raw, default, min).value IN
           \/ value = default /\ \A n \in toInt(raw) : n < min
           \/ value \in Word /\ value >= min /\ toInt(raw) = {value}
<1> DEFINE usable == {n \in toInt(raw) : n >= min}
           value == readInt(raw, default, min).value
<1>1. value = IF raw # Absent /\ usable # {} THEN CHOOSE v \in usable : TRUE ELSE default
  BY DEF readInt, Reading
<1>2. CASE raw # Absent /\ usable # {}
  <2>1. value \in usable
    BY <1>1, <1>2
  <2>2. value \in toInt(raw) /\ value >= min
    BY <2>1
  <2>3. PICK n \in Word : toInt(raw) = {n}
    BY <2>2, toIntIs
  <2> QED
    BY <2>2, <2>3
<1>3. CASE ~(raw # Absent /\ usable # {})
  <2>1. \A n \in toInt(raw) : n \in Int
    BY toIntIs, WordAssumption DEF Word
  <2>2. raw = Absent => toInt(raw) = {}
    BY DEF Absent, toInt
  <2> QED
    BY <1>1, <1>3, <2>1, <2>2
<1> QED
  BY <1>2, <1>3

\* The numbers in force while the service runs.
LEMMA NumbersAre ==
    ASSUME GatewayInv, phase = "serving", NEW k \in Numbers
    PROVE  \/ c[k] = Defaults[k] /\ \A n \in toInt(file[k]) : n < Least(k)
           \/ c[k] \in Word /\ c[k] >= Least(k) /\ toInt(file[k]) = {c[k]}
<1>1. config \in getConfigFromFile(file) /\ IsFile(file)
  BY DEF GatewayInv, Setting
<1>2. /\ k \in RuntimeKeys /\ k \in Keys /\ k \notin MainKeys /\ k \notin Flags
      /\ k # "log.level" /\ k # "cors.allowedOrigins"
  BY DEF Numbers, Defaults, RuntimeKeys, Keys, MainKeys, Flags
<1>3. c[k] = LoadBlocks(file)[k].value
  <2>1. PICK main \in Unmarshal(file) :
            config.values = [j \in Keys |-> IF j \in MainKeys THEN main[j]
                                            ELSE LoadBlocks(file)[j].value]
    BY <1>1 DEF getConfigFromFile
  <2> QED
    BY <1>2, <2>1 DEF c
<1>4. LoadBlocks(file)[k] = ReadKey(k, file[k])
  BY <1>2 DEF LoadBlocks
<1>5. ReadKey(k, file[k]) = readInt(file[k], Defaults[k], Least(k))
  BY <1>2, Zenon DEF ReadKey
<1>6. file[k].kind = "number" => file[k].n \in Word
  BY <1>1, <1>2 DEF IsFile, Word
<1>7. Least(k) \in Int
  BY DEF Least
<1> QED
  BY <1>3, <1>4, <1>5, <1>6, <1>7, readIntIs

\* A request is only served by a service that has started.
LEMMA ServingIs ==
    ASSUME GatewayInv, pc # "idle"
    PROVE  phase = "serving" /\ IsRequest(req) /\ IsWorld(world)
  BY DEF GatewayInv, Setting

\* Milliseconds as a Duration, exactly if they do not overflow.
LEMMA DurationIs ==
    ASSUME NEW n \in Nat
    PROVE  Duration(n) = n * Millisecond <=> n * Millisecond < 2 ^ (Width - 1)
<1> DEFINE half == 2 ^ (Width - 1)
           p == n * Millisecond
           word == 2 ^ Width
<1>1. half \in Nat /\ half > 300 /\ word = 2 * half
  BY WordAssumption DEF Defaults
<1>2. p \in Nat
  BY AdmissionAssumption
<1>3. Duration(n) = IF p % word < half THEN p % word ELSE (p % word) - word
  BY DEF Duration, int64
<1> HIDE DEF half, p, word
<1>4. word \in Nat /\ word > 0
  BY <1>1
<1>5. p % word \in 0..(word - 1)
  BY <1>2, <1>4
<1>6. p < word => p % word = p
  BY <1>2, <1>4
<1>7. p < half => Duration(n) = p
  BY <1>1, <1>2, <1>3, <1>6
<1>8. ~(p < half) => Duration(n) < half
  BY <1>1, <1>3, <1>4, <1>5
<1>9. ~(p < half) => Duration(n) # p
  BY <1>1, <1>2, <1>8
<1> QED
  BY <1>7, <1>9 DEF half, p

\* A number of the configuration that stands for milliseconds, and its misreading.
LEMMA MisreadIs ==
    ASSUME GatewayInv, phase = "serving", NEW k \in Parameters
    PROVE  /\ c[k] \in Nat
           /\ k = "maxInflightPerUser" => c[k] > 0 /\ ~Misread(k)
           /\ k # "maxInflightPerUser" => (0 \in toInt(file[k]) <=> c[k] = 0)
           /\ k # "maxInflightPerUser" =>
                (Misread(k) <=> c[k] = 0 \/ c[k] * Millisecond >= 2 ^ (Width - 1))
<1>1. /\ k \in Numbers /\ Defaults[k] \in Nat /\ Defaults[k] > 0
      /\ (k = "maxInflightPerUser" => Least(k) = 1)
      /\ (k # "maxInflightPerUser" => Least(k) = 0)
  BY DEF Parameters, Numbers, Defaults, Least
<1>2. 2 ^ (Width - 1) \in Nat /\ Defaults[k] * Millisecond < 2 ^ (Width - 1)
  BY <1>1, WordAssumption
<1>3. Millisecond \in Nat /\ Millisecond > 0
  BY AdmissionAssumption
<1>4. ~Misread("maxInflightPerUser")
  BY DEF Misread
<1>5. k # "maxInflightPerUser" =>
        (Misread(k) <=> \/ 0 \in toInt(file[k])
                        \/ \E n \in toInt(file[k]) : n * Millisecond >= 2 ^ (Width - 1))
  BY DEF Misread
<1>6. CASE c[k] = Defaults[k] /\ \A n \in toInt(file[k]) : n < Least(k)
  <2>1. \A n \in toInt(file[k]) : n \in Int
    <3>1. file[k].kind = "number" => file[k].n \in Word
      BY <1>1 DEF GatewayInv, Setting, IsFile, Word, Keys, RuntimeKeys
    <3> QED
      BY <3>1, toIntIs, WordAssumption DEF Word
  <2>2. CASE k = "maxInflightPerUser"
    BY <1>1, <1>4, <1>6, <2>2
  <2>3. CASE k # "maxInflightPerUser"
    <3>1. \A n \in toInt(file[k]) : n \in Int /\ n < 0
      BY <1>1, <1>6, <2>1, <2>3
    <3>2. ASSUME NEW n \in toInt(file[k]) PROVE ~(n * Millisecond >= 2 ^ (Width - 1))
      <4> DEFINE half == 2 ^ (Width - 1)
      <4>1. half \in Nat
        BY <1>2
      <4> HIDE DEF half
      <4>2. n \in Int /\ n < 0
        BY <3>1
      <4>3. n * Millisecond < 0
        BY <1>3, <4>2
      <4>4. n * Millisecond \in Int
        BY <1>3, <4>2
      <4>5. ~(n * Millisecond >= half)
        BY <4>1, <4>3, <4>4
      <4> QED
        BY <4>5 DEF half
    <3>3. 0 \notin toInt(file[k])
      BY <3>1
    <3>4. c[k] \in Nat /\ c[k] # 0
      BY <1>1, <1>6
    <3>5. ~(c[k] * Millisecond >= 2 ^ (Width - 1))
      <4> DEFINE half == 2 ^ (Width - 1)
                 p == Defaults[k] * Millisecond
      <4>1. half \in Nat /\ p < half /\ p \in Nat
        BY <1>1, <1>2, <1>3
      <4> HIDE DEF half, p
      <4>2. ~(p >= half)
        BY <4>1
      <4> QED
        BY <1>6, <4>2 DEF half, p
    <3> QED
      BY <1>5, <2>3, <3>2, <3>3, <3>4, <3>5
  <2> QED
    BY <2>2, <2>3
<1>7. CASE c[k] \in Word /\ c[k] >= Least(k) /\ toInt(file[k]) = {c[k]}
  <2>1. c[k] \in Int
    BY <1>2, <1>7 DEF Word
  <2>2. CASE k = "maxInflightPerUser"
    BY <1>1, <1>4, <1>7, <2>1, <2>2
  <2>3. CASE k # "maxInflightPerUser"
    <3>1. c[k] \in Nat
      BY <1>1, <1>7, <2>1, <2>3
    <3> QED
      BY <1>5, <1>7, <2>3, <3>1
  <2> QED
    BY <2>2, <2>3
<1> QED
  BY <1>1, <1>6, <1>7, NumbersAre

\* What is in force, of milliseconds, is the reported value unless it is misread.
LEMMA ToldOfTime ==
    ASSUME GatewayInv, phase = "serving", NEW k \in Parameters \ {"maxInflightPerUser"},
           reply.value[k] = c[k],
           \/ InForce(c, k) = {Duration(OrDefault(c, k))}
           \/ InForce(c, k) = {Duration(OrDefault(c, k)),
                               IF c[k] > 0 THEN Duration(c[k]) ELSE 0}
    PROVE  Told(k) <=> ~Misread(k)
<1>1. /\ c[k] \in Nat
      /\ Misread(k) <=> c[k] = 0 \/ c[k] * Millisecond >= 2 ^ (Width - 1)
  BY MisreadIs
<1>2. Told(k) <=> InForce(c, k) = {c[k] * Millisecond}
  <2>1. InForce(c, k) # {}
    OBVIOUS
  <2>2. Unit(k) = Millisecond
    BY DEF Unit
  <2> QED
    BY <2>1, <2>2 DEF Told
<1>3. CASE c[k] = 0
  <2>1. /\ Defaults[k] \in Nat /\ Defaults[k] > 0
        /\ Defaults[k] * Millisecond < 2 ^ (Width - 1)
    BY WordAssumption DEF Parameters, Defaults, Numbers
  <2>2. Duration(Defaults[k]) = Defaults[k] * Millisecond
    BY <2>1, DurationIs
  <2>3. Defaults[k] * Millisecond # 0 /\ 0 * Millisecond = 0
    BY <2>1, AdmissionAssumption
  <2>4. OrDefault(c, k) = Defaults[k]
    BY <1>3 DEF OrDefault
  <2>5. InForce(c, k) # {0 * Millisecond}
    BY <2>2, <2>3, <2>4
  <2> QED
    BY <1>1, <1>2, <1>3, <2>5
<1>4. CASE c[k] # 0
  <2>1. c[k] > 0 /\ OrDefault(c, k) = c[k]
    BY <1>1, <1>4 DEF OrDefault
  <2>2. InForce(c, k) = {Duration(c[k])}
    BY <2>1
  <2>3. Told(k) <=> Duration(c[k]) = c[k] * Millisecond
    BY <1>2, <2>2
  <2>4. Told(k) <=> c[k] * Millisecond < 2 ^ (Width - 1)
    BY <1>1, <2>3, DurationIs
  <2>5. c[k] * Millisecond < 2 ^ (Width - 1) <=> ~(c[k] * Millisecond >= 2 ^ (Width - 1))
    <3> DEFINE half == 2 ^ (Width - 1)
               p == c[k] * Millisecond
    <3>1. half \in Nat /\ p \in Nat
      BY <1>1, WordAssumption, AdmissionAssumption
    <3> HIDE DEF half, p
    <3>2. p < half <=> ~(p >= half)
      BY <3>1
    <3> QED
      BY <3>2 DEF half, p
  <2> QED
    BY <1>1, <1>4, <2>4, <2>5
<1> QED
  BY <1>3, <1>4

LEMMA InfoState == GatewayInv => InfoTellsInForce
<1> SUFFICES ASSUME GatewayInv, Done, reply.form = "info", NEW k \in Parameters
             PROVE  CASE k = "autoNonceTicketMs" /\ ~c["reorder.autoNonce"] -> Told(k)
                      [] k \in {"windowMs", "maxInflightPerUser"} /\ ~c["reorder.enabled"] ->
                            Told(k) <=> k = "windowMs" /\ 0 \in toInt(file[k])
                      [] OTHER -> Told(k) <=> ~Misread(k)
  BY DEF InfoTellsInForce
<1>1. phase = "serving"
  BY ServingIs DEF Done
<1>2. reply.value = Reported(c)
  <2>1. Ended
    BY DEF GatewayInv, Progress, Done
  <2>2. CASE EndedPlain
    BY <2>2 DEF EndedPlain, Replied
  <2>3. CASE EndedCall
    BY <2>3 DEF EndedCall, Replied
  <2>4. CASE EndedRead
    BY <2>4 DEF EndedRead, Replied
  <2>5. CASE EndedRejected
    BY <2>5 DEF EndedRejected, Replied
  <2>6. CASE EndedSent
    BY <2>6 DEF EndedSent, Replied
  <2> QED
    BY <2>1, <2>2, <2>3, <2>4, <2>5, <2>6 DEF Ended
<1>3. CASE k = "windowMs"
  <2>1. reply.value[k] = c[k]
    BY <1>2, <1>3 DEF Reported
  <2>2. CASE c["reorder.enabled"]
    <3>1. InForce(c, k) = {Duration(OrDefault(c, k)), IF c[k] > 0 THEN Duration(c[k]) ELSE 0}
      BY <1>3, <2>2 DEF InForce, graceWindow
    <3>2. Told(k) <=> ~Misread(k)
      BY <1>1, <1>3, <2>1, <3>1, ToldOfTime
    <3> QED
      BY <1>3, <2>2, <3>2
  <2>3. CASE ~c["reorder.enabled"]
    <3>1. InForce(c, k) = {}
      BY <1>3, <2>3 DEF InForce
    <3>2. Told(k) <=> c[k] = 0
      BY <2>1, <3>1 DEF Told
    <3>3. 0 \in toInt(file[k]) <=> c[k] = 0
      BY <1>1, <1>3, MisreadIs
    <3> QED
      BY <1>3, <2>3, <3>2, <3>3
  <2> QED
    BY <2>2, <2>3
<1>4. CASE k = "maxInflightPerUser"
  <2>1. reply.value[k] = c[k]
    BY <1>2, <1>4 DEF Reported
  <2>2. c[k] \in Nat /\ c[k] > 0 /\ ~Misread(k)
    BY <1>1, <1>4, MisreadIs
  <2>3. CASE c["reorder.enabled"]
    <3>1. InForce(c, k) = {c[k]}
      BY <1>4, <2>2, <2>3 DEF InForce, OrDefault
    <3>2. Unit(k) = 1 /\ c[k] * 1 = c[k]
      BY <1>4, <2>2 DEF Unit
    <3>3. Told(k)
      BY <2>1, <3>1, <3>2 DEF Told
    <3> QED
      BY <1>4, <2>2, <2>3, <3>3
  <2>4. CASE ~c["reorder.enabled"]
    <3>1. InForce(c, k) = {}
      BY <1>4, <2>4 DEF InForce
    <3>2. ~Told(k)
      BY <2>1, <2>2, <3>1 DEF Told
    <3> QED
      BY <1>4, <2>4, <3>2
  <2> QED
    BY <2>3, <2>4
<1>5. CASE k = "receiptTimeoutMs"
  <2>1. reply.value[k] = c[k]
    BY <1>2, <1>5 DEF Reported
  <2>2. InForce(c, k) = {Duration(OrDefault(c, k))}
    BY <1>5 DEF InForce
  <2>3. Told(k) <=> ~Misread(k)
    BY <1>1, <1>5, <2>1, <2>2, ToldOfTime
  <2> QED
    BY <1>5, <2>3
<1>6. CASE k = "autoNonceTicketMs"
  <2>1. CASE c["reorder.autoNonce"]
    <3>1. reply.value[k] = c[k]
      BY <1>2, <1>6, <2>1 DEF Reported, ticketMsInEffect
    <3>2. InForce(c, k) = {Duration(OrDefault(c, k))}
      BY <1>6, <2>1 DEF InForce
    <3>3. Told(k) <=> ~Misread(k)
      BY <1>1, <1>6, <3>1, <3>2, ToldOfTime
    <3> QED
      BY <1>6, <2>1, <3>3
  <2>2. CASE ~c["reorder.autoNonce"]
    <3>1. reply.value[k] = 0
      BY <1>2, <1>6, <2>2 DEF Reported, ticketMsInEffect
    <3>2. InForce(c, k) = {}
      BY <1>6, <2>2 DEF InForce
    <3> QED
      BY <1>6, <2>2, <3>1, <3>2 DEF Told
  <2> QED
    BY <2>1, <2>2
<1> QED
  BY <1>3, <1>4, <1>5, <1>6 DEF Parameters

\* GET /info reports what the service applies, whatever is in the file, except in
\* exactly the three cases that the property names: a zero, an overflow, and what
\* only the reordering would apply (main.go, RuntimeConfig.go, info.go).
THEOREM InfoTellsInForceCorrect == Spec => []InfoTellsInForce
  BY GatewayInvariant, InfoState, PTL

-----------------------------------------------------------------------------
(* What is sent.                                                           *)

\* The remainder of a number that exceeds the divisor at most once.
LEMMA RemainderWraps ==
    ASSUME NEW C \in Nat, NEW n \in Nat, C <= n, n < 2 * C
    PROVE  n % C = n - C
  OBVIOUS

\* The signed comparison of checkExpiration against that of natural numbers.
LEMMA ExpirationIs ==
    ASSUME GatewayInv, phase = "serving", NEW tx, tx.expiration \in Nat
    PROVE  checkExpiration(tx, c) = "ok" <=> ExpirationServes(tx)
<1> DEFINE half == 2 ^ (Width - 1)
           e == tx.expiration
           least == c.minExpirationSeconds
           slack == c.expirationToleranceSeconds
<1>1. half \in Nat /\ 2 ^ Width = 2 * half /\ Now \in 0..(half - 1) /\ half > 300 /\ e \in Nat
  BY WordAssumption, AdmissionAssumption DEF Defaults
<1>2. least \in 0..(half - 1)
  <2>1. "minExpirationSeconds" \in Numbers /\ Defaults["minExpirationSeconds"] = 300
    BY DEF Numbers, Defaults
  <2>2. Least("minExpirationSeconds") = 0
    BY DEF Least
  <2>3. least = 300 \/ (least \in Word /\ least >= 0)
    BY <2>1, <2>2, NumbersAre
  <2>4. least = 300 \/ (least \in -half..(half - 1) /\ least >= 0)
    BY <2>3 DEF Word
  <2> HIDE DEF half, least
  <2> QED
    BY <1>1, <2>4
<1>3. slack \in Nat
  <2>1. /\ "expirationToleranceSeconds" \in Numbers
        /\ Defaults["expirationToleranceSeconds"] = 2
    BY DEF Numbers, Defaults
  <2>2. Least("expirationToleranceSeconds") = 0
    BY DEF Least
  <2>3. slack = 2 \/ (slack \in Word /\ slack >= 0)
    BY <2>1, <2>2, NumbersAre
  <2>4. slack = 2 \/ (slack \in -half..(half - 1) /\ slack >= 0)
    BY <2>3 DEF Word
  <2> HIDE DEF half, slack
  <2> QED
    BY <1>1, <2>4
<1>4. Representable(e) <=> e < 2 * half
  BY <1>1 DEF Representable
<1>5. int64(e) = IF e < half THEN e ELSE e - 2 * half
  BY <1>1 DEF int64
<1>6. ExpirationFloor(c) = IF least - slack < 0 THEN 0 ELSE least - slack
  BY DEF ExpirationFloor
<1>7. ExpirationServes(tx) <=>
        e > Now /\ e + slack >= Now + least /\ e \notin half..(2 * half - 1)
  BY <1>1 DEF ExpirationServes
<1>8. checkExpiration(tx, c) = "ok" <=>
        \/ ~Representable(e)
        \/ ~(int64(e) <= Now) /\ int64(e) - Now >= ExpirationFloor(c)
  BY DEF checkExpiration
<1> DEFINE floor == ExpirationFloor(c)
<1> HIDE DEF half, e, least, slack, floor
<1>9. CASE e < half
  <2>1. int64(e) = e /\ Representable(e)
    BY <1>1, <1>4, <1>5, <1>9
  <2>2. ~(e <= Now) /\ e - Now >= floor <=> e > Now /\ e + slack >= Now + least
    BY <1>1, <1>2, <1>3, <1>6 DEF floor
  <2>3. e \notin half..(2 * half - 1)
    BY <1>1, <1>9
  <2> QED
    BY <1>7, <1>8, <2>1, <2>2, <2>3 DEF floor
<1>10. CASE ~(e < half) /\ e < 2 * half
  <2>1. int64(e) = e - 2 * half /\ Representable(e)
    BY <1>1, <1>4, <1>5, <1>10
  <2>2. e - 2 * half <= Now
    BY <1>1, <1>10
  <2>3. e \in half..(2 * half - 1)
    BY <1>1, <1>10
  <2> QED
    BY <1>7, <1>8, <2>1, <2>2, <2>3
<1>11. CASE ~(e < 2 * half)
  <2>1. ~Representable(e)
    BY <1>4, <1>11
  <2>2. e > Now /\ e + slack >= Now + least /\ e \notin half..(2 * half - 1)
    BY <1>1, <1>2, <1>3, <1>11
  <2> QED
    BY <1>7, <1>8, <2>1, <2>2
<1> QED
  BY <1>9, <1>10, <1>11

\* The gas of the envelope, computed in a word, against the natural number.
LEMMA EnvelopeIs ==
    ASSUME GatewayInv, pc # "idle"
    PROVE  metaTxGasLimit(req.tx) > world.room <=> ~EnvelopeFits(req.tx)
<1> DEFINE C == 2 ^ Width
           d == req.tx.dataBytes * 105 + 300000
           g == req.tx.gas
           n == d + g
           room == world.room
<1>1. IsRequest(req) /\ IsWorld(world)
  BY ServingIs
<1>2. C \in Nat
  BY WordAssumption
<1>3. d \in Nat /\ d <= C /\ g \in 0..(C - 1) /\ room \in Nat
  BY <1>1 DEF IsRequest, IsWorld
<1>4. req.tx.gas + req.tx.dataBytes * 105 + 300000 = n
  BY <1>1 DEF IsRequest
<1>5. metaTxGasLimit(req.tx) = n % C
  BY DEF metaTxGasLimit
<1>6. EnvelopeFits(req.tx) <=> n <= room \/ (n >= C /\ n - C <= room)
  BY <1>4 DEF EnvelopeFits
<1> HIDE DEF C, d, g, room
<1>7. n \in Nat /\ n < 2 * C
  BY <1>2, <1>3
<1> HIDE DEF n
<1>8. CASE n < C
  <2>1. n % C = n
    BY <1>2, <1>7, <1>8, Remainder
  <2>2. n > room <=> ~(n <= room \/ (n >= C /\ n - C <= room))
    BY <1>2, <1>3, <1>7, <1>8
  <2> QED
    BY <1>5, <1>6, <2>1, <2>2 DEF room
<1>9. CASE ~(n < C)
  <2>0. C <= n
    BY <1>2, <1>7, <1>9
  <2>1. n % C = n - C
    BY <1>2, <1>7, <2>0, RemainderWraps
  <2>2. n - C > room <=> ~(n <= room \/ (n >= C /\ n - C <= room))
    BY <1>2, <1>3, <1>7, <1>9
  <2> QED
    BY <1>5, <1>6, <2>1, <2>2 DEF room
<1> QED
  BY <1>8, <1>9

\* Every check on the way to the sending, against what makes a metatx admissible.
LEMMA AdmissibleIs ==
    ASSUME GatewayInv, pc # "idle"
    PROVE  Prepared /\ SendVerdict = "ok" <=> Admissible(req.tx)
<1> DEFINE tx == req.tx
<1>1. phase = "serving" /\ IsRequest(req) /\ IsWorld(world)
  BY ServingIs
<1>2. checkExpiration(tx, c) = "ok" <=> ExpirationServes(tx)
  BY <1>1, ExpirationIs DEF IsRequest
<1>3. validateGasModelSuffix(tx, c) = "ok" <=>
        (tx.dataBytes >= 64 =>
            /\ c["validation.enforceNodeAddress"] => tx.node = "me"
            /\ c["validation.enforceExpiration"] => ExpirationServes(tx))
  <2>1. checkNodeAddress(tx) = "ok" <=> tx.node = "me"
    BY DEF checkNodeAddress
  <2> DEFINE x == IF c["validation.enforceNodeAddress"] THEN checkNodeAddress(tx) ELSE "ok"
             y == IF c["validation.enforceExpiration"] THEN checkExpiration(tx, c) ELSE "ok"
  <2>2. First(<<x, y>>) = "ok" <=> x = "ok" /\ y = "ok"
    <3> HIDE DEF x, y
    <3> QED
      BY FirstOfTwo
  <2>3. x = "ok" <=> (c["validation.enforceNodeAddress"] => tx.node = "me")
    BY <2>1
  <2>4. y = "ok" <=> (c["validation.enforceExpiration"] => ExpirationServes(tx))
    BY <1>2
  <2>5. validateGasModelSuffix(tx, c) =
            IF ~(tx.dataBytes >= 64) THEN "ok" ELSE First(<<x, y>>)
    BY DEF validateGasModelSuffix, DecodeGasModelSuffix
  <2> HIDE DEF x, y
  <2> QED
    BY <2>2, <2>3, <2>4, <2>5
<1>4. VerifySender(c, world.permit) = "ok" <=>
        (c["security.permissionsEnabled"] => world.permit = "permitted")
  BY DEF VerifySender
<1>5. Prepared <=>
        /\ tx.text = "even" /\ tx.signature = "good"
        /\ tx.dataBytes >= 64 =>
            /\ c["validation.enforceNodeAddress"] => tx.node = "me"
            /\ c["validation.enforceExpiration"] => ExpirationServes(tx)
        /\ c["security.permissionsEnabled"] => world.permit = "permitted"
  BY <1>3, <1>4, PreparedIs DEF Prepared
<1>6. SendVerdict = "ok" <=>
        /\ EnvelopeFits(tx)
        /\ world.send \notin {"quotaUnknown", "notTaken"}
        /\ c["reorder.enabled"] => world.send = "ok"
  <2> DEFINE x == IF c["reorder.enabled"] /\ world.send \in {"BAD_NONCE", "TOO_MANY_INFLIGHT"}
                  THEN world.send ELSE "ok"
             y == IF world.send = "quotaUnknown" THEN "SEND_FAILED" ELSE "ok"
             z == IF metaTxGasLimit(req.tx) > world.room THEN "RELAY_ERROR" ELSE "ok"
             w == IF world.send = "notTaken" THEN "SEND_FAILED" ELSE "ok"
  <2>1. SendVerdict = First(<<x, y, z, w>>)
    BY DEF SendVerdict
  <2>2. First(<<x, y, z, w>>) = "ok" <=> x = "ok" /\ y = "ok" /\ z = "ok" /\ w = "ok"
    <3> HIDE DEF x, y, z, w
    <3> QED
      BY FirstOfFour
  <2>3. x = "ok" <=> ~(c["reorder.enabled"] /\ world.send \in {"BAD_NONCE", "TOO_MANY_INFLIGHT"})
    OBVIOUS
  <2>4. (y = "ok" <=> world.send # "quotaUnknown") /\ (w = "ok" <=> world.send # "notTaken")
    OBVIOUS
  <2>5. z = "ok" <=> EnvelopeFits(tx)
    BY EnvelopeIs
  <2>6. world.send \in {"BAD_NONCE", "TOO_MANY_INFLIGHT", "quotaUnknown", "notTaken", "ok"}
    BY <1>1 DEF IsWorld
  <2> HIDE DEF x, y, z, w
  <2> QED
    BY <2>1, <2>2, <2>3, <2>4, <2>5, <2>6
<1> QED
  BY <1>5, <1>6 DEF Admissible

LEMMA AdmittedState == GatewayInv => AdmittedExactly
<1> SUFFICES ASSUME GatewayInv, Done
             PROVE  HasActed("send") <=>
                        RawOffered /\ reply.status # 204 /\ Admissible(req.tx)
  BY DEF AdmittedExactly
<1>1. Ended
  BY DEF GatewayInv, Progress, Done
<1>2. Prepared /\ SendVerdict = "ok" <=> Admissible(req.tx)
  BY AdmissibleIs DEF Done
<1>3. "/relay" \in DOMAIN Handlers /\ "/info" # "/relay" /\ "/info" \in DOMAIN Handlers
  BY HandlersAre
<1>4. Admissible(req.tx) => req.tx.text = "even"
  BY DEF Admissible
<1>5. CASE EndedPlain
  <2>1. acts = <<>>
    BY <1>5 DEF EndedPlain
  <2>2. \/ reply.status = 204
        \/ req.path \in DOMAIN Handlers /\ (req.path = "/relay" => req.method # "POST")
    BY <1>3, <1>5 DEF EndedPlain
  <2> QED
    BY <2>1, <2>2, HasActedNone DEF RawOffered, RPC
<1>6. CASE EndedCall
  <2>1. acts = <<>> \/ acts = <<"proxy">> \/ acts = <<"DecreaseGasUsed", "proxy">>
    BY <1>6 DEF EndedCall
  <2>2. /\ req.path \notin DOMAIN Handlers
        /\ ~req.readable \/ req.namespace # "eth" \/ req.suffix # "sendRawTransaction"
    BY <1>6 DEF EndedCall
  <2>3. ~HasActed("send")
    BY <2>1, HasActedNone, HasActedOne, HasActedTwo
  <2> QED
    BY <1>3, <2>2, <2>3 DEF RawOffered, RPC
<1>7. CASE EndedRead
  <2>1. acts = <<>> \/ acts = <<"invalidateNonce">>
    BY <1>7 DEF EndedRead
  <2>2. req.path \notin DOMAIN Handlers /\ req.suffix # "sendRawTransaction"
    BY <1>7 DEF EndedRead
  <2>3. ~HasActed("send")
    BY <2>1, HasActedNone, HasActedOne
  <2> QED
    BY <1>3, <2>2, <2>3 DEF RawOffered, RPC
<1>8. CASE EndedRejected
  <2>1. ~HasActed("send")
    BY <1>8, HasActedNone DEF EndedRejected
  <2>2. \/ req.path \notin DOMAIN Handlers /\ req.params \in {"notList", "none"}
        \/ req.path = "/relay" /\ ~(req.readable /\ IsHexData(req.tx))
        \/ ~(Prepared /\ SendVerdict = "ok")
    BY <1>8 DEF EndedRejected
  <2>3. CASE req.path \notin DOMAIN Handlers /\ req.params \in {"notList", "none"}
    BY <1>3, <2>1, <2>3 DEF RawOffered
  <2>4. CASE req.path = "/relay" /\ ~(req.readable /\ IsHexData(req.tx))
    BY <1>3, <1>4, <2>1, <2>4 DEF RawOffered, RPC, IsHexData
  <2>5. CASE ~(Prepared /\ SendVerdict = "ok")
    BY <1>2, <2>1, <2>5
  <2> QED
    BY <2>2, <2>3, <2>4, <2>5
<1>9. CASE EndedSent
  <2>1. acts = <<"send">> \/ acts = <<"send", "invalidateNonce">>
    BY <1>9 DEF EndedSent
  <2>2. HasActed("send")
    BY <2>1, HasActedOne, HasActedTwo
  <2>3. Taken /\ Prepared /\ SendVerdict = "ok" /\ reply.status # 204
    BY <1>9 DEF EndedSent
  <2>4. RawOffered
    BY <2>3 DEF Taken, RawOffered, IsHexData
  <2> QED
    BY <1>2, <2>2, <2>3, <2>4
<1> QED
  BY <1>1, <1>5, <1>6, <1>7, <1>8, <1>9 DEF Ended

\* A metatx is sent exactly if every check that is switched on accepts it, for
\* every configuration and every transaction (validation.go, prepare.go).
THEOREM AdmittedExactlyCorrect == Spec => []AdmittedExactly
  BY GatewayInvariant, AdmittedState, PTL

-----------------------------------------------------------------------------
(* Two requests compared: what was offered to the doors, and by them.      *)

\* The verdict on a transaction, of whichever request.
SendVerdictOn(tx) ==
    First(<<IF c["reorder.enabled"] /\ world.send \in {"BAD_NONCE", "TOO_MANY_INFLIGHT"}
            THEN world.send ELSE "ok",
            IF world.send = "quotaUnknown" THEN "SEND_FAILED" ELSE "ok",
            IF metaTxGasLimit(tx) > world.room THEN "RELAY_ERROR" ELSE "ok",
            IF world.send = "notTaken" THEN "SEND_FAILED" ELSE "ok">>)

VerdictOn(tx) ==
    IF PrepareMetaTx(tx, c, world.permit) # "ok"
    THEN PrepareMetaTx(tx, c, world.permit) ELSE SendVerdictOn(tx)

\* The verdict of a door: that on the transaction, or a bad request of POST /relay.
VerdictAt(door, tx) ==
    IF door = "POST /relay" /\ ~IsHexData(tx) THEN "bad request" ELSE VerdictOn(tx)

TriedOnce(a) == a.door \in Doors /\ a.verdict = VerdictAt(a.door, a.tx)

\* A nonce is the hub's, or the tracker's if that has one; with the tracker behind
\* the hub, that depends on the door.
OfferedOnce(a) ==
    /\ a.door \in {"GET /nonce", "POST /"}
    /\ world.tracked = NoNonce => a.nonce = world.chain
    /\ world.tracked # NoNonce /\ world.tracked >= world.chain => a.nonce = world.tracked
    /\ world.tracked # NoNonce /\ world.tracked < world.chain =>
            a.nonce = IF a.door = "POST /" THEN world.tracked ELSE world.chain

History ==
    /\ phase # "serving" => tried = {}
    /\ \A a \in tried : TriedOnce(a)
    /\ \A a \in offered : OfferedOnce(a)

\* A step that offers nothing to anybody.
LEMMA HistoryKept ==
    ASSUME History, UNCHANGED <<startVars, historyVars>>
    PROVE  History'
<1>1. c' = c /\ world' = world /\ phase' = phase /\ tried' = tried /\ offered' = offered
  BY DEF startVars, historyVars, c
<1>2. \A tx : VerdictOn(tx)' = VerdictOn(tx)
  BY <1>1 DEF VerdictOn, SendVerdictOn
<1>3. \A a : TriedOnce(a)' <=> TriedOnce(a)
  BY <1>1, <1>2 DEF TriedOnce, VerdictAt
<1>4. \A a : OfferedOnce(a)' <=> OfferedOnce(a)
  BY <1>1 DEF OfferedOnce
<1> QED
  BY <1>1, <1>3, <1>4 DEF History

\* A step that gives one verdict on the request's transaction.
LEMMA HistoryTried ==
    ASSUME History, phase = "serving", NEW verdict, Try(verdict),
           UNCHANGED <<startVars, offered>>,
           verdict = VerdictAt(Door, req.tx)
    PROVE  History'
<1>1. c' = c /\ world' = world /\ phase' = phase /\ offered' = offered
  BY DEF startVars, c
<1>2. \A tx : VerdictOn(tx)' = VerdictOn(tx)
  BY <1>1 DEF VerdictOn, SendVerdictOn
<1>3. \A a : TriedOnce(a)' <=> TriedOnce(a)
  BY <1>1, <1>2 DEF TriedOnce, VerdictAt
<1>4. \A a : OfferedOnce(a)' <=> OfferedOnce(a)
  BY <1>1 DEF OfferedOnce
<1> DEFINE new == [door |-> Door, tx |-> req.tx, verdict |-> verdict]
<1>5. tried' = tried \cup {new}
  BY DEF Try
<1>6. TriedOnce(new)
  BY DEF TriedOnce, Doors, Door
<1> HIDE DEF new
<1>7. \A a \in tried' : TriedOnce(a)
  BY <1>5, <1>6 DEF History
<1> QED
  BY <1>1, <1>3, <1>4, <1>7 DEF History

\* A step that gives nonces to a client.
LEMMA HistoryOffered ==
    ASSUME History, NEW new, offered' = offered \cup new, \A a \in new : OfferedOnce(a),
           UNCHANGED <<startVars, tried>>
    PROVE  History'
<1>1. c' = c /\ world' = world /\ phase' = phase /\ tried' = tried
  BY DEF startVars, c
<1>2. \A tx : VerdictOn(tx)' = VerdictOn(tx)
  BY <1>1 DEF VerdictOn, SendVerdictOn
<1>3. \A a : TriedOnce(a)' <=> TriedOnce(a)
  BY <1>1, <1>2 DEF TriedOnce, VerdictAt
<1>4. \A a : OfferedOnce(a)' <=> OfferedOnce(a)
  BY <1>1 DEF OfferedOnce
<1> QED
  BY <1>1, <1>3, <1>4 DEF History

\* The two ways to the nonce of a user.
LEMMA NoncesAre ==
    ASSUME IsWorld(world)
    PROVE  /\ \A state \in NonceOf : OfferedOnce([door |-> "GET /nonce", nonce |-> state.next])
           /\ CountPending =>
                \A n \in Counted : OfferedOnce([door |-> "POST /", nonce |-> n])
           /\ expectedNonce = {} => OnChain = {}
<1>1. world.chain \in Nat /\ world.tracked \in Nat \cup {NoNonce} /\ NoNonce \notin Nat
  BY GatewayAssumption DEF IsWorld
<1>2. OnChain = {} \/ OnChain = {world.chain}
  BY DEF OnChain
<1>3. expectedNonce = IF world.tracked # NoNonce THEN {world.tracked} ELSE OnChain
  BY DEF expectedNonce
<1>4. ASSUME NEW state \in NonceOf
      PROVE  OfferedOnce([door |-> "GET /nonce", nonce |-> state.next])
  <2>1. PICK n \in OnChain :
            state = [onChain |-> n, next |-> IF \E h \in expectedNonce : h > n
                                             THEN CHOOSE h \in expectedNonce : TRUE ELSE n]
    BY <1>4 DEF NonceOf
  <2>2. n = world.chain /\ OnChain = {world.chain}
    BY <1>2, <2>1
  <2>3. state.next = IF \E h \in expectedNonce : h > world.chain
                     THEN CHOOSE h \in expectedNonce : TRUE ELSE world.chain
    BY <2>1, <2>2
  <2>4. CASE world.tracked = NoNonce
    <3>1. expectedNonce = {world.chain}
      BY <1>3, <2>2, <2>4
    <3>2. state.next = world.chain
      BY <1>1, <2>3, <3>1
    <3> QED
      BY <2>4, <3>2 DEF OfferedOnce
  <2>5. CASE world.tracked # NoNonce
    <3>1. expectedNonce = {world.tracked} /\ world.tracked \in Nat
      BY <1>1, <1>3, <2>5
    <3>2. CASE world.tracked > world.chain
      <4>1. state.next = world.tracked
        BY <2>3, <3>1, <3>2
      <4>2. ~(world.tracked < world.chain)
        BY <1>1, <3>1, <3>2
      <4> QED
        BY <2>5, <4>1, <4>2 DEF OfferedOnce
    <3>3. CASE ~(world.tracked > world.chain)
      <4>1. state.next = world.chain
        BY <2>3, <3>1, <3>3
      <4>2. world.tracked >= world.chain => world.chain = world.tracked
        BY <1>1, <3>1, <3>3
      <4> QED
        BY <2>5, <4>1, <4>2 DEF OfferedOnce
    <3> QED
      BY <3>2, <3>3
  <2> QED
    BY <2>4, <2>5
<1>5. ASSUME CountPending, NEW n \in Counted
      PROVE  OfferedOnce([door |-> "POST /", nonce |-> n])
  <2>1. n \in expectedNonce
    BY <1>5 DEF Counted
  <2>2. n = IF world.tracked # NoNonce THEN world.tracked ELSE world.chain
    BY <1>2, <1>3, <2>1
  <2> QED
    BY <2>2 DEF OfferedOnce
<1>6. expectedNonce = {} => OnChain = {}
  BY <1>3
<1> QED
  BY <1>4, <1>5, <1>6

\* What POST /relay takes has the form it asks for.
LEMMA TakenByRelay ==
    ASSUME Taken
    PROVE  Door = "POST /relay" => IsHexData(req.tx)
<1>1. "/relay" \in DOMAIN Handlers
  BY HandlersAre
<1> QED
  BY <1>1 DEF Taken, RPC, Door

LEMMA HistoryStep ==
    ASSUME GatewayInv, History, [Next]_vars
    PROVE  History'
<1>1. CASE ReadConfig \/ InitService
  <2>1. tried = {} /\ tried' = tried /\ offered' = offered /\ world' = world
    BY <1>1 DEF History, ReadConfig, InitService, historyVars
  <2>2. \A a : OfferedOnce(a)' <=> OfferedOnce(a)
    BY <2>1 DEF OfferedOnce
  <2> QED
    BY <2>1, <2>2 DEF History
<1>2. CASE \/ Arrive \/ withCORS \/ Route \/ Close \/ Info \/ Page \/ BadBody \/ Private
           \/ Unsupported
  <2>1. UNCHANGED <<startVars, historyVars>>
    BY <1>2 DEF Arrive, withCORS, Route, Close, Info, Page, BadBody, Private, Unsupported
  <2> QED
    BY <2>1, HistoryKept
<1>3. CASE \/ processGetTransactionReceipt \/ processGetMetaTxResult \/ processRawTransaction
           \/ waitForReceipt
  <2>1. UNCHANGED <<startVars, historyVars>>
    BY <1>3 DEF processGetTransactionReceipt, processGetMetaTxResult, processRawTransaction,
                waitForReceipt
  <2> QED
    BY <2>1, HistoryKept
<1>4. CASE UNCHANGED vars
  <2>1. UNCHANGED <<startVars, historyVars>>
    BY <1>4 DEF vars
  <2> QED
    BY <2>1, HistoryKept
<1>5. CASE Nonce
  <2>1. pc # "idle" /\ UNCHANGED <<startVars, tried>>
    BY <1>5 DEF Nonce
  <2>2. IsWorld(world)
    BY <2>1, ServingIs
  <2>3. CASE req.address = "good" /\ NonceOf # {}
    <3>1. PICK state \in NonceOf :
                offered' = offered \cup {[door |-> "GET /nonce", nonce |-> state.next]}
      BY <1>5, <2>3 DEF Nonce
    <3>2. OfferedOnce([door |-> "GET /nonce", nonce |-> state.next])
      BY <2>2, NoncesAre
    <3> DEFINE new == {[door |-> "GET /nonce", nonce |-> state.next]}
    <3>3. offered' = offered \cup new /\ \A a \in new : OfferedOnce(a)
      BY <3>1, <3>2
    <3> HIDE DEF new
    <3> QED
      BY <2>1, <3>3, HistoryOffered
  <2>4. CASE ~(req.address = "good" /\ NonceOf # {})
    <3>1. UNCHANGED <<startVars, historyVars>>
      BY <1>5, <2>1, <2>4 DEF Nonce, historyVars
    <3> QED
      BY <3>1, HistoryKept
  <2> QED
    BY <2>3, <2>4
<1>6. CASE processTransactionCount
  <2>1. pc # "idle" /\ UNCHANGED <<startVars, tried>>
    BY <1>6 DEF processTransactionCount, Calls
  <2>2. IsWorld(world)
    BY <2>1, ServingIs
  <2>3. CASE req.params \in {"short", "full"} /\ req.tag = "pending"
    <3> DEFINE new == {[door |-> "POST /", nonce |-> n] : n \in Counted}
    <3>1. offered' = offered \cup new
      BY <1>6, <2>3 DEF processTransactionCount
    <3>2. \A n \in Counted : OfferedOnce([door |-> "POST /", nonce |-> n])
      <4>1. CASE CountPending
        BY <2>2, <4>1, NoncesAre
      <4>2. CASE ~CountPending
        <5>1. Counted = {}
          BY <2>2, <2>3, <4>2, NoncesAre DEF CountPending, Counted
        <5> QED
          BY <5>1
      <4> QED
        BY <4>1, <4>2
    <3>3. \A a \in new : OfferedOnce(a)
      BY <3>2
    <3> HIDE DEF new
    <3> QED
      BY <2>1, <3>1, <3>3, HistoryOffered
  <2>4. CASE ~(req.params \in {"short", "full"} /\ req.tag = "pending")
    <3>1. UNCHANGED <<startVars, historyVars>>
      BY <1>6, <2>1, <2>4 DEF processTransactionCount, historyVars
    <3> QED
      BY <3>1, HistoryKept
  <2> QED
    BY <2>3, <2>4
<1>7. CASE Relay
  <2>1. pc # "idle" /\ UNCHANGED <<startVars, offered>> /\ pc = "relay"
    BY <1>7 DEF Relay
  <2>2. phase = "serving"
    BY <2>1, ServingIs
  <2>3. CASE req.readable /\ ~IsHexData(req.tx)
    <3>1. Try("bad request")
      BY <1>7, <2>3 DEF Relay
    <3>2. Door = "POST /relay"
      BY <2>1 DEF GatewayInv, Progress, Door
    <3>3. VerdictAt(Door, req.tx) = "bad request"
      BY <2>3, <3>2 DEF VerdictAt
    <3> QED
      BY <2>1, <2>2, <3>1, <3>3, HistoryTried
  <2>4. CASE ~(req.readable /\ ~IsHexData(req.tx))
    <3>1. UNCHANGED <<startVars, historyVars>>
      BY <1>7, <2>1, <2>4 DEF Relay, historyVars
    <3> QED
      BY <3>1, HistoryKept
  <2> QED
    BY <2>3, <2>4
<1>8. CASE Prepare
  <2> DEFINE verdict == PrepareMetaTx(req.tx, c, world.permit)
  <2>1. pc # "idle" /\ UNCHANGED <<startVars, offered>>
    BY <1>8 DEF Prepare
  <2>d. Door = "POST /relay" => IsHexData(req.tx)
    BY <1>8, TakenByRelay DEF Prepare, GatewayInv, Progress
  <2>2. phase = "serving"
    BY <2>1, ServingIs
  <2>3. CASE verdict # "ok"
    <3>1. Try(verdict)
      BY <1>8, <2>3 DEF Prepare
    <3>2. verdict = VerdictAt(Door, req.tx)
      BY <2>3, <2>d DEF VerdictOn, VerdictAt
    <3> HIDE DEF verdict
    <3> QED
      BY <2>1, <2>2, <3>1, <3>2, HistoryTried
  <2>4. CASE verdict = "ok"
    <3>1. UNCHANGED <<startVars, historyVars>>
      BY <1>8, <2>1, <2>4 DEF Prepare, historyVars
    <3> QED
      BY <3>1, HistoryKept
  <2> QED
    BY <2>3, <2>4
<1>9. CASE ReserveGasAndSend
  <2>1. pc = "send" /\ UNCHANGED <<startVars, offered>> /\ Try(SendVerdict)
    BY <1>9 DEF ReserveGasAndSend
  <2>2. phase = "serving"
    BY <2>1, ServingIs
  <2>3. PrepareMetaTx(req.tx, c, world.permit) = "ok"
    BY <2>1 DEF GatewayInv, Progress, Prepared
  <2>d. Door = "POST /relay" => IsHexData(req.tx)
    BY <2>1, TakenByRelay DEF GatewayInv, Progress
  <2>4. SendVerdict = VerdictAt(Door, req.tx)
    BY <2>3, <2>d DEF VerdictAt, VerdictOn, SendVerdictOn, SendVerdict
  <2> QED
    BY <2>1, <2>2, <2>4, HistoryTried
<1> QED
  BY <1>1, <1>2, <1>3, <1>4, <1>5, <1>6, <1>7, <1>8, <1>9 DEF Next, Rest

\* What the doors were offered and what they gave, over all requests so far.
THEOREM HistoryInvariant == Spec => []History
<1>1. Init => History
  BY DEF Init, History
<1>2. GatewayInv /\ History /\ [Next]_vars => History'
  BY HistoryStep
<1> QED
  BY <1>1, <1>2, GatewayInvariant, PTL DEF Spec

\* The checks behind the doors have verdicts of their own.
LEMMA VerdictsAre ==
    ASSUME NEW tx
    PROVE  VerdictOn(tx) # "bad request"
<1>1. GetTransaction(tx) # "bad request" /\ Signature(tx) # "bad request"
  BY DEF GetTransaction, Signature
<1>2. validateGasModelSuffix(tx, c) # "bad request"
  <2> DEFINE x == IF c["validation.enforceNodeAddress"] THEN checkNodeAddress(tx) ELSE "ok"
             y == IF c["validation.enforceExpiration"] THEN checkExpiration(tx, c) ELSE "ok"
  <2>1. x # "bad request"
    BY DEF checkNodeAddress
  <2>2. y # "bad request"
    BY DEF checkExpiration
  <2>3. \/ validateGasModelSuffix(tx, c) = "ok"
        \/ validateGasModelSuffix(tx, c) = First(<<x, y>>)
    BY DEF validateGasModelSuffix
  <2> HIDE DEF x, y
  <2>4. First(<<x, y>>) # "bad request"
    BY <2>1, <2>2, FirstOfTwo
  <2> QED
    BY <2>3, <2>4
<1>3. VerifySender(c, world.permit) # "bad request"
  BY DEF VerifySender
<1>f. ASSUME NEW x, NEW y, NEW z, NEW w, x # "bad request", y # "bad request",
             z # "bad request", w # "bad request"
      PROVE  First(<<x, y, z, w>>) # "bad request"
  <2>1. First(<<x, y, z, w>>) =
             IF x # "ok" THEN x ELSE IF y # "ok" THEN y ELSE IF z # "ok" THEN z ELSE w
    BY FirstOfFour
  <2> QED
    BY <1>f, <2>1
<1>4. PrepareMetaTx(tx, c, world.permit) # "bad request"
  BY <1>1, <1>2, <1>3, <1>f DEF PrepareMetaTx
<1>5. SendVerdictOn(tx) # "bad request"
  <2> DEFINE x == IF c["reorder.enabled"] /\ world.send \in {"BAD_NONCE", "TOO_MANY_INFLIGHT"}
                  THEN world.send ELSE "ok"
             y == IF world.send = "quotaUnknown" THEN "SEND_FAILED" ELSE "ok"
             z == IF metaTxGasLimit(tx) > world.room THEN "RELAY_ERROR" ELSE "ok"
             w == IF world.send = "notTaken" THEN "SEND_FAILED" ELSE "ok"
  <2>1. SendVerdictOn(tx) = First(<<x, y, z, w>>)
    BY DEF SendVerdictOn
  <2>2. x # "bad request" /\ y # "bad request" /\ z # "bad request" /\ w # "bad request"
    OBVIOUS
  <2> HIDE DEF x, y, z, w
  <2> QED
    BY <2>1, <2>2, <1>f
<1> QED
  BY <1>4, <1>5 DEF VerdictOn

LEMMA DoorsState == History => DoorsAgree
<1> SUFFICES ASSUME History, NEW a \in tried, NEW b \in tried, a.tx = b.tx
             PROVE  a.verdict = b.verdict <=>
                        a.door = b.door \/ (a.tx.prefix /\ a.tx.text \in {"odd", "even"})
  BY DEF DoorsAgree
<1>1. TriedOnce(a) /\ TriedOnce(b)
  BY DEF History
<1>2. VerdictOn(a.tx) # "bad request"
  BY VerdictsAre
<1>3. IsHexData(a.tx) <=> a.tx.prefix /\ a.tx.text \in {"odd", "even"}
  BY DEF IsHexData
<1> QED
  BY <1>1, <1>2, <1>3 DEF TriedOnce, VerdictAt, Doors

\* The two doors of the relay give the same verdict on the same transaction exactly
\* if it has the form that POST /relay alone asks for, for every pair of requests
\* (endpoints.go, handler of POST /relay and of JSON-RPC).
THEOREM DoorsAgreeCorrect == Spec => []DoorsAgree
  BY HistoryInvariant, DoorsState, PTL

LEMMA NonceDoorsState == GatewayInv /\ History => NonceDoorsAgree
<1> SUFFICES ASSUME GatewayInv, History, NEW a \in offered, NEW b \in offered
             PROVE  a.nonce # b.nonce <=>
                        /\ a.door # b.door
                        /\ world.tracked # NoNonce /\ world.tracked < world.chain
  BY DEF NonceDoorsAgree
<1>1. OfferedOnce(a) /\ OfferedOnce(b)
  BY DEF History
<1>2. world.chain \in Nat /\ (world.tracked # NoNonce => world.tracked \in Nat)
  BY DEF GatewayInv, Setting, IsWorld
<1>3. CASE world.tracked # NoNonce /\ world.tracked < world.chain
  <2>1. world.tracked # world.chain
    BY <1>2, <1>3
  <2>2. /\ a.nonce = IF a.door = "POST /" THEN world.tracked ELSE world.chain
        /\ b.nonce = IF b.door = "POST /" THEN world.tracked ELSE world.chain
        /\ a.door \in {"GET /nonce", "POST /"} /\ b.door \in {"GET /nonce", "POST /"}
    BY <1>1, <1>3 DEF OfferedOnce
  <2> QED
    BY <1>3, <2>1, <2>2
<1>4. CASE world.tracked # NoNonce /\ world.tracked >= world.chain
  <2>1. ~(world.tracked < world.chain)
    BY <1>2, <1>4
  <2> QED
    BY <1>1, <1>4, <2>1 DEF OfferedOnce
<1>5. CASE world.tracked = NoNonce
  BY <1>1, <1>5 DEF OfferedOnce
<1> QED
  BY <1>2, <1>3, <1>4, <1>5

\* The two doors of the nonce give different numbers exactly if the tracker has a
\* chain of the user that is behind the hub (handout.go, HandOutNonce and NonceOf).
THEOREM NonceDoorsAgreeCorrect == Spec => []NonceDoorsAgree
  BY GatewayInvariant, HistoryInvariant, NonceDoorsState, PTL
=============================================================================
