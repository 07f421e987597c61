----------------------------- MODULE Admission -----------------------------
(***************************************************************************)
(* From a raw transaction to a metatx that can be sent, or to the code of  *)
(* its rejection: PrepareMetaTx (service/prepare.go), the validation of    *)
(* the suffix of the gas model (service/validation.go, service/metatx.go)  *)
(* and the two vocabularies of a rejection.  A raw transaction is what the *)
(* checks tell apart:                                                      *)
(*   prefix      whether it is written with 0x or 0X                       *)
(*   text        "blank", "junk" (not hexadecimal), "odd" (digits that     *)
(*               are no bytes: an odd number of them, or a second prefix,  *)
(*               which the check of the form trims too), "even"            *)
(*   signature   "none" (not a transaction), "eip155", "unsound", "good"   *)
(*   dataBytes   the length of its data; a suffix needs 64                 *)
(*   node        whom the suffix names: "other", "me"                      *)
(*   expiration  a natural number of any size                              *)
(*   gas         the gas limit the user signed                             *)
(***************************************************************************)
EXTENDS Configuration

CONSTANT Now    \* the clock, in seconds

ASSUME AdmissionAssumption ==
    /\ Width \in Nat \ {0} /\ Millisecond \in Nat \ {0}
    /\ Now \in 0..(2 ^ (Width - 1) - 1)

(***************************************************************************)
(* What the proofs use of powers of two, which the provers know nothing    *)
(* of, and a word wide enough for the defaults of the configuration.       *)
(***************************************************************************)
ASSUME WordAssumption ==
    /\ 2 ^ (Width - 1) \in Nat /\ 2 ^ Width = 2 * 2 ^ (Width - 1)
    /\ 2 ^ (Width - 1) > Defaults.minExpirationSeconds
    /\ \A k \in Numbers : Defaults[k] * Millisecond < 2 ^ (Width - 1)

(***************************************************************************)
(* The first of the objections, in the order the code raises them.         *)
(***************************************************************************)
First(objections) ==
    LET raised == {i \in 1..Len(objections) : objections[i] # "ok"}
    IN IF raised = {} THEN "ok"
       ELSE objections[CHOOSE i \in raised : \A j \in raised : i <= j]

\* Faulty variant: an odd number of digits is a bad request.
IsHexDataEven(tx) == tx.prefix /\ tx.text = "even"

(***************************************************************************)
(* IsHexData: the form that POST /relay asks for, an odd length included.  *)
(***************************************************************************)
IsHexData(tx) == tx.prefix /\ tx.text \in {"odd", "even"}

(***************************************************************************)
(* GetTransaction: the prefix is trimmed when there is one; bytes that are *)
(* not a transaction leave an empty one without a signature.               *)
(***************************************************************************)
GetTransaction(tx) == IF tx.text \in {"junk", "odd"} THEN "BAD_RAW_TX" ELSE "ok"

Signature(tx) ==
    IF tx.text = "even" /\ tx.signature = "good" THEN "ok" ELSE "BAD_META_TX"

(***************************************************************************)
(* The gas of the enveloping transaction, a uint64 that nothing bounds.    *)
(***************************************************************************)
metaTxGasLimit(tx) == (tx.dataBytes * 105 + 300000 + tx.gas) % 2 ^ Width

(***************************************************************************)
(* ExpirationSeconds: representable as a uint64.                           *)
(***************************************************************************)
Representable(expiration) == expiration < 2 ^ Width

\* Faulty variant: the comparison is made without the conversion.
ExpirationUnsigned(tx, c) ==
    CASE ~Representable(tx.expiration) -> "ok"
      [] tx.expiration <= Now -> "EXPIRED"
      [] tx.expiration - Now >= ExpirationFloor(c) -> "ok"
      [] OTHER -> "EXPIRATION_TOO_LOW"

checkExpiration(tx, c) ==
    CASE ~Representable(tx.expiration) -> "ok"
      [] Representable(tx.expiration) /\ int64(tx.expiration) <= Now -> "EXPIRED"
      [] OTHER -> IF int64(tx.expiration) - Now >= ExpirationFloor(c)
                  THEN "ok" ELSE "EXPIRATION_TOO_LOW"

checkNodeAddress(tx) == IF tx.node = "me" THEN "ok" ELSE "WRONG_NODE_ADDRESS"

DecodeGasModelSuffix(tx) == tx.dataBytes >= 64

(***************************************************************************)
(* validateGasModelSuffix: without a readable suffix nothing is objected.  *)
(***************************************************************************)
validateGasModelSuffix(tx, c) ==
    IF ~DecodeGasModelSuffix(tx) THEN "ok"
    ELSE First(<<IF c["validation.enforceNodeAddress"] THEN checkNodeAddress(tx) ELSE "ok",
                 IF c["validation.enforceExpiration"] THEN checkExpiration(tx, c) ELSE "ok">>)

(***************************************************************************)
(* The check of the sender; "permit" is what AccountPermitted answers (see *)
(* Permissioning).                                                         *)
(***************************************************************************)
VerifySender(c, permit) ==
    CASE ~c["security.permissionsEnabled"] -> "ok"
      [] c["security.permissionsEnabled"] /\ permit = "error" -> "PERMISSIONING_UNAVAILABLE"
      [] OTHER -> IF permit = "permitted" THEN "ok" ELSE "SENDER_NOT_PERMITTED"

PrepareMetaTx(tx, c, permit) ==
    First(<<GetTransaction(tx), Signature(tx), validateGasModelSuffix(tx, c),
            VerifySender(c, permit)>>)

(***************************************************************************)
(* relay.decoded is logged between the decoding and the validation.        *)
(***************************************************************************)
Decodes(tx) == First(<<GetTransaction(tx), Signature(tx)>>) = "ok"

-----------------------------------------------------------------------------
(***************************************************************************)
(* The number of an error in a JSON-RPC answer and in the log: "own" is    *)
(* the code the cause brings.  A rejection has the number of its cause or  *)
(* zero; any other error without one gets the default, and none in the     *)
(* log.                                                                    *)
(***************************************************************************)
Uncoded(tx) == Decodes([tx EXCEPT !.signature = "good"]) /\ tx.signature = "unsound"

ErrorCode(tx) == IF Uncoded(tx) THEN "zero" ELSE "own"

errorMessage(number) == IF number = "none" THEN "default" ELSE number
=============================================================================
