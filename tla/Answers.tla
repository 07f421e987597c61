------------------------------ MODULE Answers ------------------------------
(***************************************************************************)
(* What the service says of a metatx that was mined.  Three decoders read  *)
(* the events of the relay hub in the same receipt, for three clients:     *)
(* GetTransactionReceipt, GetMetaTxResult and readHubEvents, which POST    *)
(* /relay and the watcher use.                                             *)
(***************************************************************************)
EXTENDS Integers, Sequences

CONSTANT WordWidth     \* bits of a uint64, scaled down

(***************************************************************************)
(* The ends that the hub (relayhub/contracts/TxRelay.sol) gives a metatx,  *)
(* with the events each one leaves behind.  "silent" is a rejection that   *)
(* itself runs out of the node's gas; "outerReverted" is an enveloping     *)
(* transaction that failed as a whole.                                     *)
(***************************************************************************)
Outcomes == {"executed", "reverted", "notContract", "verifyFailed", "silent", "outerReverted",
             "deployed", "constructorFailed", "emptyCode", "shortOfGas"}

Event(topic) == [topic |-> topic, executed |-> topic = "TransactionRelayed"]
FailedEvent == [topic |-> "TransactionRelayed", executed |-> FALSE]

LogsOf(outcome) ==
    CASE outcome = "executed" -> <<Event("Relayed"), Event("TransactionRelayed")>>
      [] outcome = "reverted" -> <<Event("Relayed"), FailedEvent>>
      [] outcome \in {"notContract", "emptyCode", "shortOfGas"} ->
            <<Event("Relayed"), Event("BadTransactionSent")>>
      [] outcome = "verifyFailed" -> <<Event("BadTransactionSent")>>
      [] outcome = "deployed" -> <<Event("Relayed"), Event("ContractDeployed")>>
      [] outcome = "constructorFailed" -> <<Event("Relayed")>>
      [] OTHER -> <<>>

Receipt(outcome) ==
    [logs |-> LogsOf(outcome), status |-> IF outcome = "outerReverted" THEN 0 ELSE 1]

(***************************************************************************)
(* Whether the metatx did what its user signed.                            *)
(***************************************************************************)
TookEffect(outcome) == outcome \in {"executed", "deployed"}

-----------------------------------------------------------------------------
Saw(receipt, topic) == \E i \in 1..Len(receipt.logs) : receipt.logs[i].topic = topic

(***************************************************************************)
(* TransactionRelayed with executed = FALSE (transactionRelayedFailed).    *)
(***************************************************************************)
SawFailure(receipt) ==
    \E i \in 1..Len(receipt.logs) :
        receipt.logs[i].topic = "TransactionRelayed" /\ ~receipt.logs[i].executed

(***************************************************************************)
(* The failure of a constructor leaves only the event Relayed.             *)
(***************************************************************************)
ConstructorFailed(receipt) ==
    /\ Saw(receipt, "Relayed")
    /\ ~Saw(receipt, "ContractDeployed")
    /\ ~Saw(receipt, "TransactionRelayed")
    /\ ~Saw(receipt, "BadTransactionSent")

Failed(receipt) ==
    SawFailure(receipt) \/ Saw(receipt, "BadTransactionSent") \/ ConstructorFailed(receipt)

\* Faulty variant: a constructor that failed is overlooked.
ReceiptStatusKept(receipt) ==
    IF SawFailure(receipt) \/ Saw(receipt, "BadTransactionSent") THEN 0 ELSE receipt.status

(***************************************************************************)
(* The status of the receipt, lowered; the success of the result, TRUE     *)
(* unless something says otherwise; and what is known of the execution,    *)
(* nothing unless something says so.                                       *)
(***************************************************************************)
GetTransactionReceipt(receipt) == IF Failed(receipt) THEN 0 ELSE receipt.status

GetMetaTxResult(receipt) == ~Failed(receipt)

readHubEvents(receipt) ==
    CASE Failed(receipt) -> "failed"
      [] OTHER -> IF Saw(receipt, "TransactionRelayed") \/ Saw(receipt, "ContractDeployed")
                  THEN "executed" ELSE "unknown"

-----------------------------------------------------------------------------
(***************************************************************************)
(* decodeRevertReason: what is made of the output of a revert, of which    *)
(* the decoder looks at the length, at the kind its selector announces and *)
(* at the length of text it declares, the low word of a uint256.  The end  *)
(* of the text is computed in a uint64; "fault" is a slice that ends       *)
(* before it begins, a panic in Go.                                        *)
(***************************************************************************)
TextEnd(output) == (68 + output.declared) % 2 ^ WordWidth

KnownWords == [ERC20InsufficientBalance |-> 3, OwnableUnauthorizedAccount |-> 1]

decodeRevertReason(output) ==
    CASE output.bytes = 0 -> "no reason"
      [] output.bytes \in 1..3 -> "short"
      [] output.bytes > 3 /\ output.kind = "Error" /\ output.bytes >= 68
                          /\ output.bytes >= TextEnd(output) ->
            IF TextEnd(output) >= 68 THEN "text" ELSE "fault"
      [] output.bytes > 3 /\ output.kind = "Panic" /\ output.bytes >= 36 -> "panic code"
      [] output.bytes > 3 /\ output.kind \in DOMAIN KnownWords
                          /\ output.bytes - 4 >= 32 * KnownWords[output.kind] -> "known error"
      [] OTHER -> "custom error"
=============================================================================
