------------------------------ MODULE RelayHub ------------------------------
(***************************************************************************)
(* The relay hub's contracts (relayhub/contracts): the registry of writer  *)
(* nodes and the gas they may spend (GasLimit.sol), and the metatx they    *)
(* relay (TxRelay.sol).  A transaction is one step; one that reverts       *)
(* changes nothing and is no step at all.                                  *)
(*                                                                         *)
(* What is written and never read (nodeWasPenalized, gasUsedRelayHub) is   *)
(* left out, and so is the change of the account contract's address.       *)
(***************************************************************************)
EXTENDS Integers, Sequences, FiniteSets

CONSTANTS
    Accounts,       \* accounts that send transactions to the hub
    Admin,          \* the one with DEFAULT_ADMIN_ROLE
    Users,          \* those who sign metatx
    MaxNonce,       \* bound: nonces of metatx
    MaxBlock,       \* bound: block.number
    UserGas,        \* gas limits in metatx
    MaxGasUsed,     \* gasUsedLastBlocks overflows above it
    Charges,        \* gas a transaction uses, or that increaseGasUsed is told
    BlockLimits,    \* values of maxGasBlockLimit
    Frequencies     \* values of blocksFrequency

ASSUME RelayHubAssumption ==
    /\ Admin \in Accounts
    /\ MaxNonce \in Nat /\ MaxBlock \in Nat
    /\ MaxGasUsed \in Nat /\ UserGas \subseteq Nat /\ Charges \subseteq Nat
    /\ BlockLimits \subseteq Nat /\ Frequencies \subseteq Nat

VARIABLES
    writerNodes,        \* the registered nodes, in no particular order
    indexOf,            \* where each is, from 1; 0: not registered
    hub,                \* the gas accounting of GasLimit.sol
    maxGasBlockLimit,
    blocksFrequency,
    nonces,             \* TxRelay.sol: node, user => nonce
    block,              \* block.number, counted from the hub's own block
    taken               \* nonces of the metatx taken, by node and user

vars == <<writerNodes, indexOf, hub, maxGasBlockLimit, blocksFrequency, nonces,
          block, taken>>

registry == <<writerNodes, indexOf>>
metaTxs  == <<nonces, taken>>
settings == <<maxGasBlockLimit, blocksFrequency>>

MetaTx == [signed : BOOLEAN, from : Users, nonce : 0..MaxNonce, gasLimit : UserGas,
           toIngress : BOOLEAN]

Hub == [gasLimits : [Accounts -> Nat], blockLastTranx : [Accounts -> 0..MaxBlock],
        currentGasLimit : Nat, gasUsedLastBlocks : Nat, averageLastBlocks : Nat,
        blockCalculateExecuted : 0..MaxBlock, nodeAdded : BOOLEAN]

TypeOK ==
    /\ writerNodes \in Seq(Accounts)
    /\ indexOf \in [Accounts -> Nat]
    /\ hub \in Hub
    /\ maxGasBlockLimit \in BlockLimits
    /\ blocksFrequency \in Frequencies
    /\ nonces \in [Accounts -> [Users -> 0..(MaxNonce + 1)]]
    /\ block \in 0..MaxBlock
    /\ taken \in [Accounts -> [Users -> Seq(0..MaxNonce)]]

Init ==
    /\ writerNodes = <<>>
    /\ indexOf = [n \in Accounts |-> 0]
    /\ hub = [gasLimits |-> [n \in Accounts |-> 0],
              blockLastTranx |-> [n \in Accounts |-> 0],
              currentGasLimit |-> 0, gasUsedLastBlocks |-> 0, averageLastBlocks |-> 0,
              blockCalculateExecuted |-> 0, nodeAdded |-> FALSE]
    /\ maxGasBlockLimit \in BlockLimits
    /\ blocksFrequency \in Frequencies
    /\ nonces = [n \in Accounts |-> [u \in Users |-> 0]]
    /\ block = 0
    /\ taken = [n \in Accounts |-> [u \in Users |-> <<>>]]

-----------------------------------------------------------------------------
(* The registry of nodes, kept by the account contract. *)

exists(n) == indexOf[n] # 0

addNode(n) ==
    /\ ~exists(n)
    /\ writerNodes' = Append(writerNodes, n)
    /\ indexOf' = [indexOf EXCEPT ![n] = Len(writerNodes) + 1]
    /\ hub' = [hub EXCEPT !.nodeAdded = TRUE]
    /\ UNCHANGED <<settings, block, metaTxs>>

\* Faulty variant: the node's index is cleared before its place is given to
\* the last one.
DeletedClearFirst(n) ==
    LET index    == indexOf[n]
        lastNode == writerNodes[Len(writerNodes)]
    IN  /\ writerNodes' = SubSeq([writerNodes EXCEPT ![index] = lastNode],
                                 1, Len(writerNodes) - 1)
        /\ indexOf' = [indexOf EXCEPT ![n] = 0, ![lastNode] = index]

\* The last node takes the place of the one that goes.
Deleted(n) ==
    LET index    == indexOf[n]
        lastNode == writerNodes[Len(writerNodes)]
    IN  /\ writerNodes' = SubSeq([writerNodes EXCEPT ![index] = lastNode],
                                 1, Len(writerNodes) - 1)
        /\ indexOf' = [indexOf EXCEPT ![lastNode] = index, ![n] = 0]

deleteNode(n) ==
    /\ exists(n)
    /\ indexOf[n] <= Len(writerNodes)
    /\ Deleted(n)
    /\ UNCHANGED <<hub, settings, block, metaTxs>>

-----------------------------------------------------------------------------
(* The gas limits.  Operators take and give the accounting h. *)

Percent(p) == (p * maxGasBlockLimit) \div 100

\* The quieter the last blocks, the larger a node's share.
Shares(average) == CASE average <= Percent(20) -> 5
                     [] average > Percent(20) /\ average <= Percent(40) -> 4
                     [] average > Percent(40) /\ average <= Percent(60) -> 3
                     [] average > Percent(60) /\ average <= Percent(80) -> 2
                     [] OTHER -> 1

newGasLimit(average) ==
    LET share == Shares(average) * (maxGasBlockLimit \div Len(writerNodes))
    IN  IF share > Percent(80) THEN Percent(80) ELSE share

\* Faulty variant: only a node that asks gets the new limit.
calculateForNobody(h) ==
    [h EXCEPT !.currentGasLimit = newGasLimit(h.averageLastBlocks),
              !.gasUsedLastBlocks = 0,
              !.blockCalculateExecuted = block,
              !.nodeAdded = FALSE]

calculateGasLimit(h) ==
    LET limit == newGasLimit(h.averageLastBlocks)
    IN  [h EXCEPT !.gasLimits = [n \in Accounts |->
                      IF \E i \in DOMAIN writerNodes : writerNodes[i] = n
                      THEN limit ELSE h.gasLimits[n]],
                  !.currentGasLimit = limit,
                  !.gasUsedLastBlocks = 0,
                  !.blockCalculateExecuted = block,
                  !.nodeAdded = FALSE]

\* recalcuteGasLimit: the average over the blocks since the last calculation,
\* of which a period that was missed altogether counts as quiet.
Averaged(h) ==
    LET blocks == block - h.blockCalculateExecuted
        used == IF blocks = blocksFrequency THEN h.gasUsedLastBlocks
                ELSE (blocks - blocksFrequency) * (h.gasUsedLastBlocks \div blocks)
    IN  IF blocks - blocksFrequency >= blocksFrequency
        THEN [h EXCEPT !.gasUsedLastBlocks = 0, !.averageLastBlocks = 0]
        ELSE [h EXCEPT !.gasUsedLastBlocks = used,
                       !.averageLastBlocks = used \div blocksFrequency]

\* Faulty variant: a period is over a block late.
RecalculatesLate(h) ==
    block # 0 /\ block - h.blockCalculateExecuted > blocksFrequency

Recalculates(h) ==
    block # 0 /\ block - h.blockCalculateExecuted >= blocksFrequency

\* evaluateCurrentBlock: the sender's first transaction in a block renews its
\* limit, then the limits of all are calculated if that is due.
Renewed(h, n) ==
    IF block > h.blockLastTranx[n]
    THEN [h EXCEPT !.blockLastTranx[n] = block, !.gasLimits[n] = h.currentGasLimit]
    ELSE h

evaluateCurrentBlock(n) ==
    LET h == Renewed(hub, n)
    IN  IF h.nodeAdded THEN calculateGasLimit(h)
        ELSE IF Recalculates(h) THEN calculateGasLimit(Averaged(h))
        ELSE h

\* Without nodes there is nothing to divide by, nor with a frequency of zero
\* in the block of the last calculation: the transaction reverts.
Reverts ==
    /\ hub.nodeAdded \/ Recalculates(hub)
    /\ \/ writerNodes = <<>>
       \/ ~hub.nodeAdded /\ blocksFrequency = 0 /\ block = hub.blockCalculateExecuted

\* _addGasUsed.  The sum is checked: a transaction that overflows it reverts.
Fits(h, gas) == h.gasUsedLastBlocks + gas <= MaxGasUsed

Charged(h, n, gas) ==
    [h EXCEPT !.gasLimits[n] = IF gas > @ THEN 0 ELSE @ - gas,
              !.gasUsedLastBlocks = @ + gas]

\* _penalizeNode: a node over its limit is removed, if the account contract
\* lets the hub remove it.
Penalized(h, n, gas) ==
    \/ UNCHANGED registry
    \/ /\ gas > h.gasLimits[n]
       /\ exists(n)
       /\ Deleted(n)

increaseGasUsed(n, gas) ==
    /\ ~Reverts
    /\ exists(n)
    /\ LET h == evaluateCurrentBlock(n)
       IN  /\ Fits(h, gas)
           /\ hub' = Charged(h, n, gas)
           /\ Penalized(h, n, gas)
    /\ UNCHANGED <<settings, block, metaTxs>>

-----------------------------------------------------------------------------
(* Metatx. *)

\* _verifyTransaction
Verified(h, n, m) ==
    /\ m.signed
    /\ m.nonce = nonces[n][m.from]
    /\ ~m.toIngress
    /\ m.gasLimit <= maxGasBlockLimit
    /\ m.gasLimit <= h.gasLimits[n]

\* A verified metatx uses up its nonce, whatever becomes of it afterwards: it
\* is forwarded, or refused for lack of gas, of a contract or of code.
Take(h, n, m) ==
    IF Verified(h, n, m)
    THEN /\ nonces' = [nonces EXCEPT ![n][m.from] = @ + 1]
         /\ taken' = [taken EXCEPT ![n][m.from] = Append(@, m.nonce)]
    ELSE UNCHANGED metaTxs

\* The node pays for a metatx that is refused as for one that is forwarded.
\* What is forwarded cannot call the hub again (nonReentrant).
relayMetaTx(n, m, gas) ==
    /\ ~Reverts
    /\ LET h == evaluateCurrentBlock(n)
       IN  /\ Fits(h, gas)
           /\ Take(h, n, m)
           /\ hub' = Charged(h, n, gas)
           /\ Penalized(h, n, gas)
    /\ UNCHANGED <<settings, block>>

\* A metatx that deploys has no destination.
deployMetaTx(n, m, gas) == ~m.toIngress /\ relayMetaTx(n, m, gas)

-----------------------------------------------------------------------------
(* The administrator, and time. *)

setBlocksFrequency(f) ==
    /\ ~Reverts
    /\ hub' = evaluateCurrentBlock(Admin)
    /\ blocksFrequency' = f
    /\ UNCHANGED <<registry, maxGasBlockLimit, block, metaTxs>>

setMaxGasBlockLimit(limit) ==
    /\ maxGasBlockLimit' = limit
    /\ UNCHANGED <<registry, hub, blocksFrequency, block, metaTxs>>

setGasUsedLastBlocks(gas) ==
    /\ hub' = [hub EXCEPT !.gasUsedLastBlocks = gas]
    /\ UNCHANGED <<registry, settings, block, metaTxs>>

NextBlock ==
    /\ block < MaxBlock
    /\ block' = block + 1
    /\ UNCHANGED <<registry, hub, settings, metaTxs>>

Next ==
    \/ \E n \in Accounts : addNode(n) \/ deleteNode(n)
    \/ \E n \in Accounts, gas \in Charges : increaseGasUsed(n, gas)
    \/ \E n \in Accounts, m \in MetaTx, gas \in Charges :
           relayMetaTx(n, m, gas) \/ deployMetaTx(n, m, gas)
    \/ \E f \in Frequencies : setBlocksFrequency(f)
    \/ \E limit \in BlockLimits : setMaxGasBlockLimit(limit)
    \/ \E gas \in Charges : setGasUsedLastBlocks(gas)
    \/ NextBlock

Spec == Init /\ [][Next]_vars

-----------------------------------------------------------------------------
(* Properties. *)

\* The array of nodes and the index into it say the same, whichever nodes are
\* added, removed by the account contract or removed as a penalty
\* (GasLimit.sol, addNode and deleteNode).
RegistryExact ==
    /\ \A i \in DOMAIN writerNodes : indexOf[writerNodes[i]] = i
    /\ \A n \in Accounts : exists(n) =>
           indexOf[n] \in DOMAIN writerNodes /\ writerNodes[indexOf[n]] = n

\* No registered node has more gas than the current limit, unless a node was
\* added and the limits are to be calculated before anyone spends: a node that
\* comes back does not spend the limit of the day it left (GasLimit.sol,
\* evaluateCurrentBlock and _setGasLimit).
LimitsWithinCurrent ==
    \A n \in Accounts : exists(n) =>
        hub.nodeAdded \/ hub.gasLimits[n] <= hub.currentGasLimit

\* The first transaction of an account in a block never works with limits that
\* are a whole period old (GasLimit.sol, recalcuteGasLimit).
LimitsFresh ==
    [][\A n \in Accounts :
           hub'.blockLastTranx[n] # hub.blockLastTranx[n] /\ blocksFrequency > 0
               => block - hub'.blockCalculateExecuted < blocksFrequency]_vars

\* A node's hub account takes the metatx of a user once each, in the order of
\* their nonces and without a hole (TxRelay.sol, _verifyTransaction).
TakenInOrder ==
    \A n \in Accounts, u \in Users :
        \A i \in DOMAIN taken[n][u] : taken[n][u][i] = i - 1
=============================================================================
