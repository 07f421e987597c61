--------------------------- MODULE Configuration ---------------------------
(***************************************************************************)
(* What the service makes of config.toml (model/RuntimeConfig.go,          *)
(* model/Config.go): each key of the newer blocks is read by itself, a     *)
(* value that does not serve is replaced by the default and noted; the     *)
(* older blocks are decoded all at once.  And what the service does with   *)
(* the numbers it read: the value in force, and the one GET /info shows.   *)
(***************************************************************************)
EXTENDS Integers, Sequences, FiniteSets

CONSTANTS
    Width,          \* bits of a uint64, scaled down
    Millisecond     \* time.Millisecond in nanoseconds, scaled down with it

(***************************************************************************)
(* The values a key can have in the file.  A text stands for all its       *)
(* spellings: blanks around it and capitals are removed by the readers.    *)
(***************************************************************************)
Absent == [kind |-> "absent"]
Number(n) == [kind |-> "number", n |-> n]     \* an integer, or a float without decimals
Fraction == [kind |-> "fraction"]
Flag(b) == [kind |-> "flag", b |-> b]
Text(t) == [kind |-> "text", t |-> t]
List(items) == [kind |-> "list", items |-> items]

Atoi == [t \in {"-1", "0", "1", "40"} |->
            CASE t = "-1" -> -1 [] t = "0" -> 0 [] t = "1" -> 1 [] t = "40" -> 40]
ParseBool == [t \in {"0", "1", "false", "true"} |-> t \in {"1", "true"}]
HexAddresses == {"0xAA"}
Levels == {"debug", "info", "warn", "error"}

(***************************************************************************)
(* The conversions: the set of the value, or of none.                      *)
(***************************************************************************)
toInt(raw) ==
    CASE raw.kind = "number" -> {raw.n}
      [] raw.kind = "text" /\ raw.t \in DOMAIN Atoi -> {Atoi[raw.t]}
      [] OTHER -> {}

toBool(raw) ==
    CASE raw.kind = "flag" -> {raw.b}
      [] raw.kind = "text" /\ raw.t \in DOMAIN ParseBool -> {ParseBool[raw.t]}
      [] OTHER -> {}

(***************************************************************************)
(* The reading of one key: a value that is absent is the default, one that *)
(* cannot be used is the default and is noted.                             *)
(***************************************************************************)
Reading(raw, usable, default) ==
    [value     |-> IF raw # Absent /\ usable # {} THEN CHOOSE v \in usable : TRUE ELSE default,
     discarded |-> raw # Absent /\ usable = {}]

readInt(raw, default, min) == Reading(raw, {n \in toInt(raw) : n >= min}, default)

readBool(raw, default) == Reading(raw, toBool(raw), default)

readLevel(raw, default) ==
    Reading(raw, {l \in Levels : raw.kind = "text" /\ raw.t = l}, default)

IsText(raw) == raw.kind = "text" /\ raw.t # ""

readOrigins(raw) ==
    Reading(raw,
            IF raw.kind = "list" /\ \A i \in 1..Len(raw.items) : IsText(raw.items[i])
            THEN {{raw.items[i].t : i \in 1..Len(raw.items)}} ELSE {},
            {})

readAddress(raw) ==
    Reading(raw, {a \in HexAddresses \cup {""} : raw.kind = "text" /\ raw.t = a}, "")

(***************************************************************************)
(* The keys, their defaults and their least values.                        *)
(***************************************************************************)
Flags == {"reorder.enabled", "reorder.autoNonce", "dashboard.enabled", "log.rawTx",
          "validation.enforceNodeAddress", "validation.enforceExpiration"}

Defaults ==
    [windowMs |-> 3000, maxInflightPerUser |-> 5, receiptTimeoutMs |-> 60000,
     autoNonceTicketMs |-> 2000, bufferSize |-> 500, minExpirationSeconds |-> 300,
     expirationToleranceSeconds |-> 2, accountRulesCacheMs |-> 30000]
Numbers == DOMAIN Defaults
Least(k) == IF k = "maxInflightPerUser" THEN 1 ELSE 0

RuntimeKeys == Flags \cup Numbers \cup {"log.level", "cors.allowedOrigins",
                                        "security.accountIngressAddress"}
MainKeys == {"security.permissionsEnabled", "security.accountContractAddress"}
Keys == RuntimeKeys \cup MainKeys

(***************************************************************************)
(* LoadRuntimeBlocks and LoadValidationBlocks: key by key.                 *)
(***************************************************************************)
ReadKey(k, raw) ==
    CASE k \in Flags -> readBool(raw, FALSE)
      [] k \in Numbers -> readInt(raw, Defaults[k], Least(k))
      [] k = "log.level" -> readLevel(raw, "info")
      [] k = "cors.allowedOrigins" -> readOrigins(raw)
      [] OTHER -> readAddress(raw)

LoadBlocks(file) == [k \in RuntimeKeys |-> ReadKey(k, file[k])]

(***************************************************************************)
(* The Unmarshal of the rest, which viper decodes with weak types: it      *)
(* takes a number for a flag, an empty text for FALSE, and for a text a    *)
(* number, of which only its being digits matters, or a flag; what it      *)
(* cannot convert fails all of it.                                         *)
(***************************************************************************)
Unmarshal(file) ==
    LET enabled == file["security.permissionsEnabled"]
        address == file["security.accountContractAddress"]
        flag == CASE enabled = Absent -> {FALSE}
                  [] enabled.kind = "number" -> {enabled.n # 0}
                  [] enabled.kind = "fraction" -> {TRUE}
                  [] enabled = Text("") -> {FALSE}
                  [] OTHER -> toBool(enabled)
        text == CASE address = Absent -> {""}
                  [] address.kind = "text" -> {address.t}
                  [] address.kind \in {"number", "fraction"} -> {"digits"}
                  [] address.kind = "flag" -> {IF address.b THEN "1" ELSE "0"}
                  [] OTHER -> {}
    IN {[k \in MainKeys |-> IF k = "security.permissionsEnabled" THEN f ELSE t] :
            f \in flag, t \in text}

(***************************************************************************)
(* getConfigFromFile: the configuration, and the keys that were discarded; *)
(* none when the Unmarshal fails.                                          *)
(***************************************************************************)
getConfigFromFile(file) ==
    LET blocks == LoadBlocks(file)
    IN {[values    |-> [k \in Keys |-> IF k \in MainKeys THEN main[k] ELSE blocks[k].value],
         discarded |-> {k \in RuntimeKeys : blocks[k].discarded}] : main \in Unmarshal(file)}

-----------------------------------------------------------------------------
(***************************************************************************)
(* The floor of the expiration, never negative.                            *)
(***************************************************************************)
ExpirationFloor(c) ==
    LET floor == c.minExpirationSeconds - c.expirationToleranceSeconds
    IN IF floor < 0 THEN 0 ELSE floor

(***************************************************************************)
(* int64 of a uint64, negative in the upper half; and milliseconds as a    *)
(* time.Duration, an int64 of nanoseconds that wraps around.               *)
(***************************************************************************)
int64(n) == IF n < 2 ^ (Width - 1) THEN n ELSE n - 2 ^ Width

Duration(ms) == int64((ms * Millisecond) % 2 ^ Width)

(***************************************************************************)
(* What the service makes of a number: the default in place of a zero      *)
(* (reorderWindow, maxInflightPerUser, ticketWindow, and the timeout of a  *)
(* receipt); and a zero as it is, for the time a chain is kept after its   *)
(* last metatx (graceWindow).                                              *)
(***************************************************************************)
OrDefault(c, k) == IF c[k] > 0 THEN c[k] ELSE Defaults[k]

graceWindow(c) == IF c.windowMs > 0 THEN Duration(c.windowMs) ELSE 0

(***************************************************************************)
(* The values of a key that are in force, none if nothing applies them:    *)
(* turns, chains and the limit of metatx in flight are of the reordering,  *)
(* tickets of the handing out of nonces; receipts are always waited for.   *)
(***************************************************************************)
InForce(c, k) ==
    CASE k = "windowMs" -> IF c["reorder.enabled"]
                           THEN {Duration(OrDefault(c, k)), graceWindow(c)} ELSE {}
      [] k = "maxInflightPerUser" -> IF c["reorder.enabled"] THEN {OrDefault(c, k)} ELSE {}
      [] k = "receiptTimeoutMs" -> {Duration(OrDefault(c, k))}
      [] k = "autoNonceTicketMs" -> IF c["reorder.autoNonce"]
                                    THEN {Duration(OrDefault(c, k))} ELSE {}

\* Faulty variant: the wrong switch decides whether the tickets apply.
ticketMsOfReorder(c) == IF c["reorder.enabled"] THEN c.autoNonceTicketMs ELSE 0

(***************************************************************************)
(* The value in the answer of GET /info: what does not apply is zero.      *)
(***************************************************************************)
ticketMsInEffect(c) == IF c["reorder.autoNonce"] THEN c.autoNonceTicketMs ELSE 0

Reported(c) ==
    [windowMs             |-> c.windowMs,
     maxInflightPerUser   |-> c.maxInflightPerUser,
     receiptTimeoutMs     |-> c.receiptTimeoutMs,
     autoNonceTicketMs    |-> ticketMsInEffect(c),
     minExpirationSeconds |->
        IF c["validation.enforceExpiration"] THEN c.minExpirationSeconds ELSE 0,
     expirationToleranceSeconds |->
        IF c["validation.enforceExpiration"] THEN c.expirationToleranceSeconds ELSE 0]
=============================================================================
