----------------------------- MODULE MCGateway -----------------------------
(***************************************************************************)
(* Model checking Gateway.  The starts are two configurations, one with    *)
(* every block absent and one with everything switched on, each with every *)
(* single key changed to every value its reader tells apart, and each with *)
(* every single thing in the process's surroundings changed.               *)
(***************************************************************************)
EXTENDS Gateway

GoodHost == [version |-> FALSE, readable |-> TRUE, key |-> "valid", proxy |-> "address"]
GoodWorld ==
    [permit |-> "permitted", room |-> 400000, send |-> "ok", connects |-> TRUE, reads |-> TRUE,
     mined |-> TRUE, outcome |-> "executed",
     output |-> [bytes |-> 100, kind |-> "Error", declared |-> 32],
     chain |-> 5, tracked |-> NoNonce]

\* The functions that differ from f at the one argument k.
Changed(f, k, values) == {[f EXCEPT ![k] = v] : v \in values}

-----------------------------------------------------------------------------
Quiet == [k \in Keys |-> Absent]
Strict ==
    [k \in Keys |->
        CASE k \in Flags \cup {"security.permissionsEnabled"} -> Flag(TRUE)
          [] k \in Numbers -> Number(IF k = "expirationToleranceSeconds" THEN 2 ELSE 40)
          [] k = "log.level" -> Text("debug")
          [] k = "cors.allowedOrigins" -> List(<<Text("https://a")>>)
          [] OTHER -> Text("0xAA")]

Raws(k) ==
    {Absent, Text("junk"), Text("")} \cup
    CASE k \in Flags \cup {"security.permissionsEnabled"} ->
            {Flag(TRUE), Flag(FALSE), Text("true"), Text("0"), Number(1), Fraction}
      [] k \in Numbers -> {Number(0), Number(-1), Number(1), Number(600), Text("40"), Fraction,
                            Number(65535), Number(65536), Number(2 ^ Width \div Millisecond)}
      [] k = "log.level" -> {Text("warn"), Number(1)}
      [] k = "cors.allowedOrigins" -> {List(<<>>), List(<<Text("https://a"), Number(1)>>)}
      [] OTHER -> {Text("0xAA"), Number(1), Flag(TRUE), List(<<>>)}

Files == UNION {Changed(base, k, Raws(k)) : base \in {Quiet, Strict}, k \in Keys}

\* More than one value at fault.
BadFiles == {[Strict EXCEPT !.windowMs = Text("junk"), !["log.level"] = Text("loud"),
                            !["reorder.enabled"] = Number(2)],
             [Quiet EXCEPT !["security.permissionsEnabled"] = Flag(TRUE)]}

Hosts == UNION {Changed(GoodHost, "version", {TRUE}), Changed(GoodHost, "readable", {FALSE}),
                Changed(GoodHost, "key", {"unset", "short", "invalid"}),
                Changed(GoodHost, "proxy",
                        {"zero", "noAnswer", "rpcError", "notText", "wrongLength"})}

Worlds ==
    UNION {Changed(GoodWorld, "permit", {"refused", "error"}),
           Changed(GoodWorld, "room", {0, 300000, 356720}),
           Changed(GoodWorld, "send", {"BAD_NONCE", "TOO_MANY_INFLIGHT", "quotaUnknown", "notTaken"}),
           Changed(GoodWorld, "connects", {FALSE}),
           Changed(GoodWorld, "reads", {FALSE}),
           Changed(GoodWorld, "mined", {FALSE}),
           Changed(GoodWorld, "outcome", Outcomes),
           Changed(GoodWorld, "tracked", {4, 5, 6}),
           Changed([GoodWorld EXCEPT !.reads = FALSE], "tracked", {6}),
           Changed([GoodWorld EXCEPT !.outcome = "reverted"], "output",
                   [bytes : {67, 100}, kind : {"Error"},
                    declared : {0, 32, 33, 2 ^ Width - 68, 2 ^ Width - 1}]
                   \cup [bytes : {0, 3, 100}, kind : {"Panic", "ERC20InsufficientBalance"},
                         declared : {2 ^ Width - 1}])}

MCStarts ==
    [host : {GoodHost}, file : Files \cup BadFiles, world : {GoodWorld}]
    \cup [host : Hosts, file : {Quiet, Strict}, world : {GoodWorld}]
    \cup [host : {GoodHost}, file : {Quiet, Strict}, world : Worlds]

-----------------------------------------------------------------------------
GoodTx == [prefix |-> TRUE, text |-> "even", signature |-> "good", dataBytes |-> 64,
           node |-> "me", expiration |-> Now + 600, gas |-> 50000]

Txs ==
    {[GoodTx EXCEPT !.prefix = p, !.text = t, !.signature = s] :
        p \in BOOLEAN, t \in {"blank", "junk", "odd", "even"},
        s \in {"none", "eip155", "unsound", "good"}}
    \cup {[GoodTx EXCEPT !.dataBytes = d, !.node = n, !.expiration = e] :
        d \in {63, 64}, n \in {"me", "other"},
        e \in {0, Now, Now + 1, Now + 37, Now + 38, Now + 297, Now + 298, 2 ^ (Width - 1) - 1,
               2 ^ (Width - 1), 2 ^ Width - 1, 2 ^ Width}}
    \cup Changed(GoodTx, "gas", {0, 93280, 93281, 2 ^ Width - 306721, 2 ^ Width - 306720, 2 ^ Width - 1})

Plain(method, path) ==
    [method |-> method, path |-> path, readable |-> TRUE, namespace |-> "eth",
     suffix |-> "sendRawTransaction", params |-> "full", tag |-> "latest", tx |-> GoodTx,
     address |-> "good"]
Call(suffix) == [Plain("POST", "/") EXCEPT !.suffix = suffix]

Suffixes == {"sendRawTransaction", "getTransactionReceipt", "getTransactionCount",
             "getMetaTxResult", "other"}

MCRequests ==
    UNION {{Plain(m, p) : m \in {"GET", "POST", "OPTIONS"},
                          p \in {"/", "/other", "/info", "/relay", "/nonce/", "/dashboard"}},
           UNION {Changed(Plain("POST", p), "tx", Txs) : p \in {"/", "/relay"}},
           UNION {Changed(Call(s), "params", {"notList", "none", "short", "full"}) : s \in Suffixes},
           Changed(Call("getTransactionCount"), "tag", {"pending", "other"}),
           Changed(Plain("POST", "/"), "namespace", {"priv", "eea"}),
           {[Plain("POST", p) EXCEPT !.readable = FALSE] : p \in {"/", "/relay"}},
           Changed(Plain("GET", "/nonce/"), "address", {"blank", "bad"})}

(***************************************************************************)
(* The other door: of the relay, and of the nonce.                         *)
(***************************************************************************)
MCCounterpart(r) ==
    CASE r.method = "POST" /\ r.path = "/" /\ r.suffix = "sendRawTransaction" /\ r.params = "full"
                           /\ r.namespace = "eth" /\ r.readable -> {[r EXCEPT !.path = "/relay"]}
      [] r.path = "/nonce/" /\ r.method = "GET" /\ r.address = "good" ->
            {[Call("getTransactionCount") EXCEPT !.tag = "pending"]}
      [] OTHER -> {}
=============================================================================
