--------------------------- MODULE RelayHubProofs ---------------------------
(***************************************************************************)
(* For any accounts, gas and frequencies: the hub's registry of nodes is   *)
(* exact, and no registered node spends more than the current limit.       *)
(***************************************************************************)
EXTENDS RelayHub, TLAPS

RegistryType == writerNodes \in Seq(Accounts) /\ indexOf \in [Accounts -> Nat]

-----------------------------------------------------------------------------
(* The registry. *)

\* A node is added at the end, and nobody else moves.
LEMMA AddKeepsRegistry ==
    ASSUME RegistryType, RegistryExact, NEW n \in Accounts, addNode(n)
    PROVE  RegistryType' /\ RegistryExact'
<1>1. writerNodes' = Append(writerNodes, n) /\ indexOf' = [indexOf EXCEPT ![n] = Len(writerNodes) + 1]
  BY DEF addNode
<1>2. writerNodes' \in Seq(Accounts) /\ Len(writerNodes') = Len(writerNodes) + 1
  BY <1>1 DEF RegistryType
<1>3. \A i \in DOMAIN writerNodes : writerNodes[i] # n
  BY DEF RegistryExact, RegistryType, addNode, exists
<1>4. \A i \in DOMAIN writerNodes : i \in DOMAIN writerNodes' /\ writerNodes'[i] = writerNodes[i]
  BY <1>1 DEF RegistryType
<1>5. writerNodes'[Len(writerNodes) + 1] = n /\ Len(writerNodes) + 1 \in DOMAIN writerNodes'
  BY <1>1, <1>2 DEF RegistryType
<1>6. \A i \in DOMAIN writerNodes' : i \in DOMAIN writerNodes \/ i = Len(writerNodes) + 1
  BY <1>2 DEF RegistryType
<1>7. RegistryType'
  BY <1>1, <1>2 DEF RegistryType
<1>8. \A i \in DOMAIN writerNodes' : indexOf'[writerNodes'[i]] = i
  <2> SUFFICES ASSUME NEW i \in DOMAIN writerNodes' PROVE indexOf'[writerNodes'[i]] = i
    OBVIOUS
  <2>1. CASE i \in DOMAIN writerNodes
    <3>1. writerNodes[i] \in Accounts
      BY <2>1 DEF RegistryType
    <3>2. QED
      BY <1>1, <1>3, <1>4, <2>1, <3>1 DEF RegistryExact, RegistryType
  <2>2. CASE i = Len(writerNodes) + 1
    BY <1>1, <1>5, <2>2 DEF RegistryType
  <2>3. QED BY <1>6, <2>1, <2>2
<1>9. \A k \in Accounts : exists(k)' =>
          indexOf'[k] \in DOMAIN writerNodes' /\ writerNodes'[indexOf'[k]] = k
  <2> SUFFICES ASSUME NEW k \in Accounts, exists(k)'
               PROVE  indexOf'[k] \in DOMAIN writerNodes' /\ writerNodes'[indexOf'[k]] = k
    OBVIOUS
  <2>1. CASE k = n
    BY <1>1, <1>5, <2>1 DEF RegistryType
  <2>2. CASE k # n
    BY <1>1, <1>4, <2>2 DEF RegistryExact, RegistryType, exists
  <2>3. QED BY <2>1, <2>2
<1>10. QED
  BY <1>7, <1>8, <1>9 DEF RegistryExact

\* The last node moves to the place of the one that goes, which may be itself.
LEMMA DeleteKeepsRegistry ==
    ASSUME RegistryType, RegistryExact, NEW n \in Accounts, exists(n), Deleted(n)
    PROVE  /\ RegistryType' /\ RegistryExact'
           /\ \A k \in Accounts : exists(k)' => exists(k)
<1> DEFINE L == Len(writerNodes)
           x == indexOf[n]
           z == writerNodes[L]
<1>1. x \in 1..L /\ writerNodes[x] = n /\ L \in Nat /\ L > 0
  BY DEF RegistryExact, RegistryType, exists
<1>2. z \in Accounts /\ indexOf[z] = L
  BY <1>1 DEF RegistryExact, RegistryType
<1>3. indexOf' = [indexOf EXCEPT ![z] = x, ![n] = 0]
  BY DEF Deleted
<1>4. writerNodes' = SubSeq([writerNodes EXCEPT ![x] = z], 1, L - 1)
  BY DEF Deleted
<1>5. [writerNodes EXCEPT ![x] = z] \in Seq(Accounts) /\ Len([writerNodes EXCEPT ![x] = z]) = L
  BY <1>1, <1>2 DEF RegistryType
<1>6. writerNodes' \in Seq(Accounts) /\ Len(writerNodes') = L - 1
  BY <1>1, <1>4, <1>5
<1>7. \A i \in 1..(L - 1) : writerNodes'[i] = IF i = x THEN z ELSE writerNodes[i]
  BY <1>1, <1>4, <1>5 DEF RegistryType
<1>8. RegistryType'
  BY <1>1, <1>3, <1>6 DEF RegistryType
<1>9. \A k \in Accounts : k # n /\ k # z => indexOf'[k] = indexOf[k]
  BY <1>3 DEF RegistryType
<1>10. indexOf'[n] = 0 /\ (z # n => indexOf'[z] = x)
  BY <1>2, <1>3 DEF RegistryType
<1> HIDE DEF L, x, z
<1>11. DOMAIN writerNodes = 1..L /\ DOMAIN writerNodes' = 1..(L - 1)
  BY <1>1, <1>6 DEF RegistryType, L
<1>12. \A i \in 1..L : writerNodes[i] \in Accounts /\ indexOf[writerNodes[i]] = i
  <2>1. \A i \in DOMAIN writerNodes : writerNodes[i] \in Accounts
    BY DEF RegistryType
  <2>2. QED BY <1>11, <2>1 DEF RegistryExact
<1>13. \A i \in DOMAIN writerNodes' : indexOf'[writerNodes'[i]] = i
  <2> SUFFICES ASSUME NEW i \in 1..(L - 1) PROVE indexOf'[writerNodes'[i]] = i
    BY <1>11
  <2>0. i \in 1..L /\ i # L
    BY <1>1
  <2>1. CASE i = x
    <3>1. z # n
      BY <1>1, <1>2, <2>0, <2>1 DEF x
    <3>2. QED
      BY <1>7, <1>10, <2>1, <3>1
  <2>2. CASE i # x
    <3>1. writerNodes'[i] = writerNodes[i]
      BY <1>7, <2>2
    <3>2. writerNodes[i] # n /\ writerNodes[i] # z
      BY <1>2, <1>12, <2>0, <2>2 DEF x
    <3>3. QED
      BY <1>9, <1>12, <2>0, <3>1, <3>2
  <2>3. QED BY <2>1, <2>2
<1>14. ASSUME NEW k \in Accounts, exists(k)'
       PROVE  /\ exists(k)
              /\ indexOf'[k] \in DOMAIN writerNodes' /\ writerNodes'[indexOf'[k]] = k
  <2>1. k # n /\ indexOf'[k] # 0
    BY <1>10, <1>14 DEF exists
  <2>2. CASE k = z
    <3>1. x # L
      BY <1>1, <2>1, <2>2 DEF z
    <3>2. x \in 1..(L - 1) /\ indexOf[z] # 0
      BY <1>1, <1>2, <3>1
    <3>3. QED
      BY <1>7, <1>10, <1>11, <2>1, <2>2, <3>2 DEF exists
  <2>3. CASE k # z
    <3>1. indexOf'[k] = indexOf[k]
      BY <1>9, <2>1, <2>3
    <3>2. indexOf[k] \in 1..L /\ writerNodes[indexOf[k]] = k
      BY <1>11, <2>1, <3>1 DEF RegistryExact, exists
    <3>3. indexOf[k] # L /\ indexOf[k] # x
      BY <1>1, <2>1, <2>3, <3>2 DEF z
    <3>4. indexOf[k] \in 1..(L - 1)
      BY <1>1, <3>2, <3>3
    <3>5. QED
      BY <1>7, <1>11, <2>1, <3>1, <3>2, <3>3, <3>4 DEF exists
  <2>4. QED BY <2>2, <2>3
<1>15. QED
  BY <1>8, <1>13, <1>14 DEF RegistryExact

-----------------------------------------------------------------------------
(* The gas accounting. *)

LEMMA DivNat == ASSUME NEW a \in Nat, NEW b \in Nat \ {0} PROVE a \div b \in Nat
OBVIOUS

\* The new limit is a number as soon as there is a node to share it.
LEMMA LimitNat ==
    ASSUME TypeOK, writerNodes # <<>>, NEW average \in Nat
    PROVE  newGasLimit(average) \in Nat
<1>1. maxGasBlockLimit \in Nat
  BY RelayHubAssumption DEF TypeOK
<1>2. Len(writerNodes) \in Nat \ {0}
  BY DEF TypeOK
<1>3. maxGasBlockLimit \div Len(writerNodes) \in Nat
  BY <1>1, <1>2, DivNat
<1>4. 80 * maxGasBlockLimit \in Nat /\ 100 \in Nat \ {0}
  BY <1>1
<1>5. Percent(80) \in Nat
  BY <1>4, DivNat DEF Percent
<1>6. Shares(average) \in 1..5
  BY DEF Shares
<1>7. \A s \in 1..5, q \in Nat : s * q \in Nat
  OBVIOUS
<1>8. Shares(average) * (maxGasBlockLimit \div Len(writerNodes)) \in Nat
  BY <1>3, <1>6, <1>7
<1>9. QED
  BY <1>5, <1>8 DEF newGasLimit

\* The accounting keeps its type when gas and average are set.
LEMMA HubUsed ==
    ASSUME NEW h \in Hub, NEW u \in Nat, NEW a \in Nat
    PROVE  [h EXCEPT !.gasUsedLastBlocks = u, !.averageLastBlocks = a] \in Hub
BY DEF Hub

\* The average over a period is a number.
LEMMA AveragedHub ==
    ASSUME TypeOK, NEW h \in Hub, Recalculates(h),
           ~(blocksFrequency = 0 /\ block = h.blockCalculateExecuted)
    PROVE  Averaged(h) \in Hub
<1> DEFINE blocks == block - h.blockCalculateExecuted
           f == blocksFrequency
           u == h.gasUsedLastBlocks
           used == IF blocks = f THEN u ELSE (blocks - f) * (u \div blocks)
<1>1. blocks \in Int /\ f \in Nat /\ u \in Nat /\ blocks >= f
  BY RelayHubAssumption DEF TypeOK, Hub, Recalculates
<1>2. CASE blocks - f >= f
  <2>1. Averaged(h) = [h EXCEPT !.gasUsedLastBlocks = 0, !.averageLastBlocks = 0]
    BY <1>2 DEF Averaged
  <2>2. QED BY <2>1, HubUsed, 0 \in Nat, Zenon
<1>3. CASE ~(blocks - f >= f)
  <2>1. Averaged(h) = [h EXCEPT !.gasUsedLastBlocks = used, !.averageLastBlocks = used \div f]
    BY <1>3 DEF Averaged
  <2> HIDE DEF blocks, f, u
  <2>2. f \in Nat \ {0} /\ blocks \in Nat \ {0} /\ blocks - f \in Nat
    BY <1>1, <1>3
  <2>3. u \div blocks \in Nat
    BY <1>1, <2>2, DivNat
  <2>4. \A p, q \in Nat : p * q \in Nat
    OBVIOUS
  <2>5. used \in Nat
    BY <1>1, <2>2, <2>3, <2>4
  <2> HIDE DEF used
  <2>6. used \div f \in Nat
    BY <2>2, <2>5, DivNat
  <2>7. QED BY <2>1, <2>5, <2>6, HubUsed
<1>4. QED BY <1>2, <1>3

\* What a calculation leaves: everyone registered has the current limit.
LEMMA CalculatedHub ==
    ASSUME TypeOK, RegistryExact, writerNodes # <<>>, NEW h \in Hub
    PROVE  /\ calculateGasLimit(h) \in Hub
           /\ \A k \in Accounts : exists(k) =>
                calculateGasLimit(h).gasLimits[k] <= calculateGasLimit(h).currentGasLimit
<1> DEFINE limit == newGasLimit(h.averageLastBlocks)
           g == [k \in Accounts |-> IF \E i \in DOMAIN writerNodes : writerNodes[i] = k
                                    THEN limit ELSE h.gasLimits[k]]
<1>1. limit \in Nat
  BY LimitNat DEF Hub
<1>2. calculateGasLimit(h) = [h EXCEPT !.gasLimits = g, !.currentGasLimit = limit,
          !.gasUsedLastBlocks = 0, !.blockCalculateExecuted = block, !.nodeAdded = FALSE]
  BY DEF calculateGasLimit
<1>3. \A k \in Accounts : exists(k) => g[k] = limit
  BY DEF RegistryExact
<1> HIDE DEF limit
<1>4. g \in [Accounts -> Nat]
  BY <1>1 DEF Hub
<1> HIDE DEF g
<1>5. calculateGasLimit(h) \in Hub
  <2>1. block \in 0..MaxBlock
    BY DEF TypeOK
  <2>2. [h EXCEPT !.gasLimits = g, !.currentGasLimit = limit, !.gasUsedLastBlocks = 0,
                  !.blockCalculateExecuted = block, !.nodeAdded = FALSE] \in Hub
    BY <1>1, <1>4, <2>1 DEF Hub
  <2>3. QED BY <1>2, <2>2, Zenon
<1>6. calculateGasLimit(h).gasLimits = g /\ calculateGasLimit(h).currentGasLimit = limit
  BY <1>2 DEF Hub
<1>7. limit <= limit
  BY <1>1
<1>8. \A k \in Accounts : exists(k) => g[k] <= limit
  BY <1>3, <1>7
<1>9. QED
  BY <1>5, <1>6, <1>8

\* Within(h): what LimitsWithinCurrent says of an accounting h.
Within(h) == \A k \in Accounts : exists(k) => h.nodeAdded \/ h.gasLimits[k] <= h.currentGasLimit

LEMMA EvaluatedHub ==
    ASSUME TypeOK, RegistryExact, LimitsWithinCurrent, ~Reverts, NEW n \in Accounts
    PROVE  evaluateCurrentBlock(n) \in Hub /\ Within(evaluateCurrentBlock(n))
<1> DEFINE h == Renewed(hub, n)
<1>0. hub \in Hub /\ block \in 0..MaxBlock
  BY DEF TypeOK
<1>1. h \in Hub
  BY <1>0 DEF Renewed, Hub
<1>2. h.nodeAdded = hub.nodeAdded /\ h.blockCalculateExecuted = hub.blockCalculateExecuted
  BY <1>0 DEF Renewed, Hub
<1>3. Within(h)
  <2>1. hub.gasLimits \in [Accounts -> Nat] /\ hub.currentGasLimit \in Nat
    BY <1>0 DEF Hub
  <2>2. h.currentGasLimit = hub.currentGasLimit
    BY <1>0 DEF Renewed, Hub
  <2>3. \A k \in Accounts : h.gasLimits[k] = hub.gasLimits[k] \/ h.gasLimits[k] = hub.currentGasLimit
    BY <1>0, <2>1 DEF Renewed, Hub
  <2>4. \A a \in Nat : a <= a
    OBVIOUS
  <2> HIDE DEF h
  <2>5. QED
    BY <1>2, <2>1, <2>2, <2>3, <2>4 DEF Within, LimitsWithinCurrent
<1>4. evaluateCurrentBlock(n) = IF h.nodeAdded THEN calculateGasLimit(h)
        ELSE IF Recalculates(h) THEN calculateGasLimit(Averaged(h)) ELSE h
  BY DEF evaluateCurrentBlock
<1>5. Recalculates(h) = Recalculates(hub)
  BY <1>2 DEF Recalculates
<1> HIDE DEF h
<1>6. CASE h.nodeAdded
  <2>1. writerNodes # <<>>
    BY <1>2, <1>6 DEF Reverts
  <2>2. QED
    BY <1>1, <1>4, <1>6, <2>1, CalculatedHub DEF Within
<1>7. CASE ~h.nodeAdded /\ Recalculates(h)
  <2>1. writerNodes # <<>> /\ ~(blocksFrequency = 0 /\ block = h.blockCalculateExecuted)
    BY <1>2, <1>5, <1>7 DEF Reverts
  <2>2. Averaged(h) \in Hub
    BY <1>1, <1>7, <2>1, AveragedHub
  <2>3. QED
    BY <1>4, <1>7, <2>1, <2>2, CalculatedHub DEF Within
<1>8. CASE ~h.nodeAdded /\ ~Recalculates(h)
  BY <1>1, <1>3, <1>4, <1>8
<1>9. QED BY <1>6, <1>7, <1>8

LEMMA ChargedHub ==
    ASSUME NEW h \in Hub, Within(h), NEW n \in Accounts, NEW gas \in Nat
    PROVE  Charged(h, n, gas) \in Hub /\ Within(Charged(h, n, gas))
<1>1. h.gasLimits \in [Accounts -> Nat] /\ h.gasUsedLastBlocks \in Nat /\ h.currentGasLimit \in Nat
  BY DEF Hub
<1> DEFINE left == IF gas > h.gasLimits[n] THEN 0 ELSE h.gasLimits[n] - gas
<1>2. left \in Nat /\ left <= h.gasLimits[n]
  BY <1>1
<1>3. Charged(h, n, gas) = [h EXCEPT !.gasLimits = [h.gasLimits EXCEPT ![n] = left],
                                     !.gasUsedLastBlocks = h.gasUsedLastBlocks + gas]
  BY <1>1 DEF Charged, Hub
<1> HIDE DEF left
<1>4. [h.gasLimits EXCEPT ![n] = left] \in [Accounts -> Nat]
  BY <1>1, <1>2
<1>5. Charged(h, n, gas) \in Hub
  <2>1. h.gasUsedLastBlocks + gas \in Nat
    BY <1>1
  <2>2. [h EXCEPT !.gasLimits = [h.gasLimits EXCEPT ![n] = left],
                  !.gasUsedLastBlocks = h.gasUsedLastBlocks + gas] \in Hub
    BY <1>4, <2>1 DEF Hub
  <2>3. QED BY <1>3, <2>2, Zenon
<1>6. /\ Charged(h, n, gas).gasLimits = [h.gasLimits EXCEPT ![n] = left]
      /\ Charged(h, n, gas).currentGasLimit = h.currentGasLimit
      /\ Charged(h, n, gas).nodeAdded = h.nodeAdded
  BY <1>3 DEF Hub
<1>7. \A k \in Accounts : [h.gasLimits EXCEPT ![n] = left][k] <= h.gasLimits[k]
  BY <1>1, <1>2
<1>8. \A k \in Accounts : [h.gasLimits EXCEPT ![n] = left][k] \in Nat /\ h.gasLimits[k] \in Nat
  BY <1>1, <1>4
<1>9. Within(Charged(h, n, gas))
  <2> SUFFICES ASSUME NEW k \in Accounts, exists(k), ~h.nodeAdded
               PROVE  [h.gasLimits EXCEPT ![n] = left][k] <= h.currentGasLimit
    BY <1>6 DEF Within
  <2>1. h.gasLimits[k] <= h.currentGasLimit
    BY DEF Within
  <2>2. QED BY <1>1, <1>7, <1>8, <2>1
<1>10. QED BY <1>5, <1>9

-----------------------------------------------------------------------------
(* Metatx. *)

\* A user's nonce counts the metatx that were taken.
NoncesCount == \A n \in Accounts, u \in Users : nonces[n][u] = Len(taken[n][u])

MetaTxType ==
    /\ nonces \in [Accounts -> [Users -> 0..(MaxNonce + 1)]]
    /\ taken \in [Accounts -> [Users -> Seq(0..MaxNonce)]]

MetaTxInv == MetaTxType /\ NoncesCount /\ TakenInOrder

LEMMA TakeKeeps ==
    ASSUME MetaTxInv, NEW h, NEW n \in Accounts, NEW m \in MetaTx, Take(h, n, m)
    PROVE  MetaTxInv'
<1>1. CASE ~Verified(h, n, m)
  BY <1>1 DEF Take, MetaTxInv, MetaTxType, NoncesCount, TakenInOrder, metaTxs
<1>2. CASE Verified(h, n, m)
  <2> DEFINE v == m.from
             s == taken[n][v]
  <2>1. v \in Users /\ m.nonce \in 0..MaxNonce
    BY DEF MetaTx
  <2>2. s \in Seq(0..MaxNonce) /\ nonces[n][v] \in Nat /\ MaxNonce \in Nat
    BY <2>1, RelayHubAssumption DEF MetaTxInv, MetaTxType
  <2>3. m.nonce = Len(s) /\ nonces[n][v] = Len(s)
    BY <1>2, <2>1 DEF Verified, MetaTxInv, NoncesCount
  <2>4. taken' = [taken EXCEPT ![n][v] = Append(s, m.nonce)]
    BY <1>2 DEF Take
  <2>5. nonces' = [nonces EXCEPT ![n][v] = nonces[n][v] + 1]
    BY <1>2 DEF Take
  <2>6. Append(s, m.nonce) \in Seq(0..MaxNonce) /\ Len(Append(s, m.nonce)) = Len(s) + 1
    BY <2>1, <2>2
  <2>7. \A i \in 1..(Len(s) + 1) : Append(s, m.nonce)[i] = IF i = Len(s) + 1 THEN Len(s) ELSE s[i]
    BY <2>1, <2>2, <2>3, SMTT(30)
  <2>8. nonces[n][v] + 1 \in 0..(MaxNonce + 1)
    BY <2>1, <2>2, <2>3
  <2> HIDE DEF s, v
  <2>9. taken' \in [Accounts -> [Users -> Seq(0..MaxNonce)]]
    BY <2>1, <2>4, <2>6 DEF MetaTxInv, MetaTxType
  <2>10. nonces' \in [Accounts -> [Users -> 0..(MaxNonce + 1)]]
    BY <2>1, <2>5, <2>8 DEF MetaTxInv, MetaTxType
  <2>11. \A k \in Accounts, u \in Users :
            IF k = n /\ u = v
            THEN taken'[k][u] = Append(s, m.nonce) /\ nonces'[k][u] = nonces[n][v] + 1
            ELSE taken'[k][u] = taken[k][u] /\ nonces'[k][u] = nonces[k][u]
    BY <2>1, <2>4, <2>5 DEF MetaTxInv, MetaTxType
  <2>12. NoncesCount'
    BY <2>3, <2>6, <2>11 DEF MetaTxInv, NoncesCount
  <2>13. TakenInOrder'
    <3> SUFFICES ASSUME NEW k \in Accounts, NEW u \in Users, NEW i \in DOMAIN taken'[k][u]
                 PROVE  taken'[k][u][i] = i - 1
      BY DEF TakenInOrder
    <3>1. CASE k = n /\ u = v
      <4>1. taken'[k][u] = Append(s, m.nonce) /\ i \in 1..(Len(s) + 1) /\ Len(s) \in Nat
        BY <2>2, <2>6, <2>11, <3>1
      <4>2. CASE i = Len(s) + 1
        BY <2>7, <4>1, <4>2
      <4>3. CASE i # Len(s) + 1
        <5>1. i \in DOMAIN s /\ taken'[k][u][i] = s[i]
          BY <2>2, <2>7, <4>1, <4>3
        <5>2. \A j \in DOMAIN s : s[j] = j - 1
          BY <2>1 DEF s, MetaTxInv, TakenInOrder
        <5>3. QED BY <5>1, <5>2
      <4>4. QED BY <4>2, <4>3
    <3>2. CASE ~(k = n /\ u = v)
      BY <2>11, <3>2 DEF MetaTxInv, TakenInOrder
    <3>3. QED BY <3>1, <3>2
  <2>14. QED
    BY <2>9, <2>10, <2>12, <2>13 DEF MetaTxInv, MetaTxType
<1>3. QED BY <1>1, <1>2

-----------------------------------------------------------------------------
(* The invariant. *)

IInv == TypeOK /\ RegistryExact /\ LimitsWithinCurrent /\ NoncesCount /\ TakenInOrder

LEMMA InitIInv == Init => IInv
<1> SUFFICES ASSUME Init PROVE IInv
  OBVIOUS
<1>1. hub \in Hub
  BY RelayHubAssumption DEF Init, Hub
<1>2. MetaTxType
  BY RelayHubAssumption DEF Init, MetaTxType
<1>3. TypeOK
  BY <1>1, <1>2, RelayHubAssumption DEF Init, TypeOK, MetaTxType
<1>4. RegistryExact /\ LimitsWithinCurrent
  BY DEF Init, RegistryExact, LimitsWithinCurrent, exists
<1>5. NoncesCount /\ TakenInOrder
  BY DEF Init, NoncesCount, TakenInOrder
<1>6. QED BY <1>3, <1>4, <1>5 DEF IInv

\* A transaction that charges a node, and may cost it its place.
LEMMA ChargeKeeps ==
    ASSUME IInv, ~Reverts, NEW n \in Accounts, NEW gas \in Charges,
           hub' = Charged(evaluateCurrentBlock(n), n, gas),
           Penalized(evaluateCurrentBlock(n), n, gas)
    PROVE  hub' \in Hub /\ RegistryType' /\ RegistryExact' /\ LimitsWithinCurrent'
<1>1. gas \in Nat
  BY RelayHubAssumption
<1>2. evaluateCurrentBlock(n) \in Hub /\ Within(evaluateCurrentBlock(n))
  BY EvaluatedHub DEF IInv
<1>3. hub' \in Hub /\ Within(hub')
  BY <1>1, <1>2, ChargedHub
<1>4. RegistryType
  BY DEF IInv, TypeOK, RegistryType
<1>5. RegistryType' /\ RegistryExact' /\ \A k \in Accounts : exists(k)' => exists(k)
  <2>1. CASE UNCHANGED registry
    BY <1>4, <2>1 DEF registry, IInv, RegistryType, RegistryExact, exists
  <2>2. CASE exists(n) /\ Deleted(n)
    BY <1>4, <2>2, DeleteKeepsRegistry DEF IInv
  <2>3. QED
    BY <2>1, <2>2 DEF Penalized
<1>6. LimitsWithinCurrent'
  BY <1>3, <1>5 DEF LimitsWithinCurrent, Within
<1>7. QED BY <1>3, <1>5, <1>6

LEMMA IInvStep == IInv /\ [Next]_vars => IInv'
<1> SUFFICES ASSUME IInv, [Next]_vars PROVE IInv'
  OBVIOUS
<1>a. RegistryType /\ MetaTxInv /\ hub \in Hub
  BY DEF IInv, TypeOK, RegistryType, MetaTxInv, MetaTxType
<1>1. ASSUME NEW n \in Accounts, addNode(n) PROVE IInv'
  <2>1. RegistryType' /\ RegistryExact'
    BY <1>a, <1>1, AddKeepsRegistry DEF IInv
  <2>2. hub' = [hub EXCEPT !.nodeAdded = TRUE] /\ UNCHANGED <<settings, block, metaTxs>>
    BY <1>1 DEF addNode
  <2>3. hub' \in Hub /\ hub'.nodeAdded
    BY <1>a, <2>2 DEF Hub
  <2>4. LimitsWithinCurrent'
    BY <2>3 DEF LimitsWithinCurrent
  <2>5. QED
    BY <2>1, <2>2, <2>3, <2>4
    DEF IInv, TypeOK, RegistryType, settings, metaTxs, NoncesCount, TakenInOrder
<1>2. ASSUME NEW n \in Accounts, deleteNode(n) PROVE IInv'
  <2>1. exists(n) /\ Deleted(n) /\ UNCHANGED <<hub, settings, block, metaTxs>>
    BY <1>2 DEF deleteNode
  <2>2. RegistryType' /\ RegistryExact' /\ \A k \in Accounts : exists(k)' => exists(k)
    BY <1>a, <2>1, DeleteKeepsRegistry DEF IInv
  <2>3. LimitsWithinCurrent'
    BY <2>1, <2>2 DEF IInv, LimitsWithinCurrent
  <2>4. QED
    BY <2>1, <2>2, <2>3
    DEF IInv, TypeOK, RegistryType, settings, metaTxs, NoncesCount, TakenInOrder
<1>3. ASSUME NEW n \in Accounts, NEW gas \in Charges, increaseGasUsed(n, gas) PROVE IInv'
  <2>1. hub' \in Hub /\ RegistryType' /\ RegistryExact' /\ LimitsWithinCurrent'
    BY <1>3, ChargeKeeps DEF increaseGasUsed
  <2>2. UNCHANGED <<settings, block, metaTxs>>
    BY <1>3 DEF increaseGasUsed
  <2>3. QED
    BY <2>1, <2>2
    DEF IInv, TypeOK, RegistryType, settings, metaTxs, NoncesCount, TakenInOrder
<1>4. ASSUME NEW n \in Accounts, NEW m \in MetaTx, NEW gas \in Charges, relayMetaTx(n, m, gas)
      PROVE  IInv'
  <2>1. hub' \in Hub /\ RegistryType' /\ RegistryExact' /\ LimitsWithinCurrent'
    BY <1>4, ChargeKeeps DEF relayMetaTx
  <2>2. MetaTxInv'
    BY <1>4, <1>a, TakeKeeps DEF relayMetaTx
  <2>3. UNCHANGED <<settings, block>>
    BY <1>4 DEF relayMetaTx
  <2>4. QED
    BY <2>1, <2>2, <2>3 DEF IInv, TypeOK, RegistryType, MetaTxInv, MetaTxType, settings
<1>5. ASSUME NEW f \in Frequencies, setBlocksFrequency(f) PROVE IInv'
  <2>1. hub' = evaluateCurrentBlock(Admin) /\ ~Reverts /\ blocksFrequency' = f
       /\ UNCHANGED <<registry, maxGasBlockLimit, block, metaTxs>>
    BY <1>5 DEF setBlocksFrequency
  <2>2. hub' \in Hub /\ Within(hub')
    BY <2>1, EvaluatedHub, RelayHubAssumption DEF IInv
  <2>3. LimitsWithinCurrent'
    BY <2>1, <2>2 DEF LimitsWithinCurrent, Within, registry, exists
  <2>4. RegistryExact'
    BY <2>1 DEF IInv, RegistryExact, registry, exists
  <2>5. QED
    BY <2>1, <2>2, <2>3, <2>4 DEF IInv, TypeOK, registry, metaTxs, NoncesCount, TakenInOrder
<1>6. ASSUME NEW limit \in BlockLimits, setMaxGasBlockLimit(limit) PROVE IInv'
  BY <1>6 DEF setMaxGasBlockLimit, IInv, TypeOK, RegistryExact, LimitsWithinCurrent, exists,
    NoncesCount, TakenInOrder, registry, metaTxs
<1>7. ASSUME NEW gas \in Charges, setGasUsedLastBlocks(gas) PROVE IInv'
  <2>1. gas \in Nat /\ hub' = [hub EXCEPT !.gasUsedLastBlocks = gas]
       /\ UNCHANGED <<registry, settings, block, metaTxs>>
    BY <1>7, RelayHubAssumption DEF setGasUsedLastBlocks
  <2>2. [hub EXCEPT !.gasUsedLastBlocks = gas] \in Hub
    BY <1>a, <2>1 DEF Hub
  <2>3. hub' \in Hub
    BY <2>1, <2>2, Zenon
  <2>4. /\ hub'.gasLimits = hub.gasLimits /\ hub'.currentGasLimit = hub.currentGasLimit
        /\ hub'.nodeAdded = hub.nodeAdded
    BY <1>a, <2>1 DEF Hub
  <2>5. LimitsWithinCurrent'
    BY <2>1, <2>4 DEF IInv, LimitsWithinCurrent, registry, exists
  <2>6. RegistryExact'
    BY <2>1 DEF IInv, RegistryExact, registry, exists
  <2>7. QED
    BY <2>1, <2>3, <2>5, <2>6
    DEF IInv, TypeOK, registry, settings, metaTxs, NoncesCount, TakenInOrder
<1>8. CASE NextBlock
  BY <1>8, RelayHubAssumption DEF NextBlock, IInv, TypeOK, RegistryExact, LimitsWithinCurrent,
    exists, NoncesCount, TakenInOrder, registry, settings, metaTxs
<1>9. CASE UNCHANGED vars
  BY <1>9 DEF vars, IInv, TypeOK, RegistryExact, LimitsWithinCurrent, exists,
    NoncesCount, TakenInOrder
<1>10. QED
  BY <1>1, <1>2, <1>3, <1>4, <1>5, <1>6, <1>7, <1>8, <1>9 DEF Next, deployMetaTx

\* The registry, the limits and the metatx taken are right together: the limits
\* are those of the nodes the registry has (GasLimit.sol, TxRelay.sol).
THEOREM IInvHolds == Spec => []IInv
BY InitIInv, IInvStep, PTL DEF Spec

\* The array of nodes and its index agree for any number of accounts, additions,
\* removals and penalties (GasLimit.sol, addNode and deleteNode).
THEOREM RegistryCorrect == Spec => []RegistryExact
BY IInvHolds, PTL DEF IInv

\* A registered node never has more gas than the current limit when limits are
\* not about to be calculated (GasLimit.sol, evaluateCurrentBlock).
THEOREM LimitsCorrect == Spec => []LimitsWithinCurrent
BY IInvHolds, PTL DEF IInv

\* Metatx of a user are taken once each and in order (TxRelay.sol,
\* _verifyTransaction).
THEOREM TakenInOrderCorrect == Spec => []TakenInOrder
BY IInvHolds, PTL DEF IInv


\* Counters and limits of the hub stay within their types: no charge and no
\* calculation takes one below zero (GasLimit.sol, _addGasUsed).
THEOREM TypeCorrect == Spec => []TypeOK
BY IInvHolds, PTL DEF IInv

-----------------------------------------------------------------------------
(* The age of the limits.                                                  *)

\* What of the accounting tells the age of the limits.
SameAge(g, h) ==
    /\ g.blockLastTranx = h.blockLastTranx
    /\ g.blockCalculateExecuted = h.blockCalculateExecuted

\* A calculation leaves the blocks of the last transactions, and is of this block.
LEMMA CalculatedAge ==
    ASSUME NEW h \in Hub
    PROVE  /\ calculateGasLimit(h).blockLastTranx = h.blockLastTranx
           /\ calculateGasLimit(h).blockCalculateExecuted = block
  BY DEF calculateGasLimit, Hub

LEMMA AveragedAge ==
    ASSUME NEW h \in Hub
    PROVE  SameAge(Averaged(h), h)
  BY DEF Averaged, Hub, SameAge

LEMMA ChargedAge ==
    ASSUME NEW h \in Hub, NEW n, NEW gas
    PROVE  SameAge(Charged(h, n, gas), h)
  BY DEF Charged, Hub, SameAge

\* A transaction that moves an account's last block has limits of this period.
LEMMA EvaluatedFresh ==
    ASSUME IInv, ~Reverts, NEW n \in Accounts, NEW k \in Accounts,
           evaluateCurrentBlock(n).blockLastTranx[k] # hub.blockLastTranx[k],
           blocksFrequency > 0
    PROVE  block - evaluateCurrentBlock(n).blockCalculateExecuted < blocksFrequency
<1> DEFINE h == Renewed(hub, n)
<1>t. TypeOK
  BY DEF IInv
<1>0. hub \in Hub /\ block \in 0..MaxBlock /\ blocksFrequency \in Nat
  BY <1>t, RelayHubAssumption DEF TypeOK
<1>1. h \in Hub /\ hub.blockLastTranx \in [Accounts -> 0..MaxBlock]
  BY <1>0 DEF Renewed, Hub
<1>2. evaluateCurrentBlock(n) = IF h.nodeAdded THEN calculateGasLimit(h)
        ELSE IF Recalculates(h) THEN calculateGasLimit(Averaged(h)) ELSE h
  BY DEF evaluateCurrentBlock
<1>3. h.blockLastTranx # hub.blockLastTranx => block > hub.blockLastTranx[n]
  BY DEF Renewed
<1> HIDE DEF h
<1>4. block - block < blocksFrequency
  BY <1>0
<1>5. CASE h.nodeAdded
  BY <1>1, <1>2, <1>4, <1>5, CalculatedAge
<1>6. CASE ~h.nodeAdded /\ Recalculates(h)
  <2>1. ~(blocksFrequency = 0 /\ block = h.blockCalculateExecuted)
    BY <1>0
  <2>2. Averaged(h) \in Hub
    BY <1>t, <1>1, <1>6, <2>1, AveragedHub
  <2> QED
    BY <1>2, <1>4, <1>6, <2>2, CalculatedAge
<1>7. CASE ~h.nodeAdded /\ ~Recalculates(h)
  <2>1. evaluateCurrentBlock(n) = h
    BY <1>2, <1>7
  <2>2. block > hub.blockLastTranx[n] /\ hub.blockLastTranx[n] \in 0..MaxBlock
    BY <1>1, <1>3, <2>1
  <2>3. block # 0
    BY <1>0, <2>2, RelayHubAssumption
  <2>4. ~(block - h.blockCalculateExecuted >= blocksFrequency)
    BY <1>7, <2>3 DEF Recalculates
  <2>5. h.blockCalculateExecuted \in 0..MaxBlock
    BY <1>1 DEF Hub
  <2> QED
    BY <1>0, <2>1, <2>4, <2>5, RelayHubAssumption
<1> QED
  BY <1>5, <1>6, <1>7

\* The same once the transaction is charged.
LEMMA ChargedFresh ==
    ASSUME IInv, ~Reverts, NEW n \in Accounts, NEW gas, NEW k \in Accounts,
           Charged(evaluateCurrentBlock(n), n, gas).blockLastTranx[k] # hub.blockLastTranx[k],
           blocksFrequency > 0
    PROVE  block - Charged(evaluateCurrentBlock(n), n, gas).blockCalculateExecuted
                < blocksFrequency
<1>1. evaluateCurrentBlock(n) \in Hub
  BY EvaluatedHub DEF IInv
<1>2. SameAge(Charged(evaluateCurrentBlock(n), n, gas), evaluateCurrentBlock(n))
  BY <1>1, ChargedAge
<1> QED
  BY <1>2, EvaluatedFresh DEF SameAge

LEMMA FreshStep ==
    ASSUME IInv, [Next]_vars, NEW k \in Accounts,
           hub'.blockLastTranx[k] # hub.blockLastTranx[k], blocksFrequency > 0
    PROVE  block - hub'.blockCalculateExecuted < blocksFrequency
<1>0. hub \in Hub
  BY DEF IInv, TypeOK
<1>1. ASSUME NEW n \in Accounts, addNode(n)
      PROVE  FALSE
  BY <1>0, <1>1 DEF addNode, Hub
<1>2. ASSUME NEW n \in Accounts, NEW gas \in Charges, increaseGasUsed(n, gas)
      PROVE  block - hub'.blockCalculateExecuted < blocksFrequency
  <2>1. ~Reverts /\ hub' = Charged(evaluateCurrentBlock(n), n, gas)
    BY <1>2 DEF increaseGasUsed
  <2> QED
    BY <2>1, ChargedFresh
<1>3. ASSUME NEW n \in Accounts, NEW m \in MetaTx, NEW gas \in Charges,
             relayMetaTx(n, m, gas) \/ deployMetaTx(n, m, gas)
      PROVE  block - hub'.blockCalculateExecuted < blocksFrequency
  <2>1. ~Reverts /\ hub' = Charged(evaluateCurrentBlock(n), n, gas)
    BY <1>3 DEF relayMetaTx, deployMetaTx
  <2> QED
    BY <2>1, ChargedFresh
<1>4. ASSUME NEW f \in Frequencies, setBlocksFrequency(f)
      PROVE  block - hub'.blockCalculateExecuted < blocksFrequency
  <2>1. ~Reverts /\ hub' = evaluateCurrentBlock(Admin) /\ Admin \in Accounts
    BY <1>4, RelayHubAssumption DEF setBlocksFrequency
  <2> QED
    BY <2>1, EvaluatedFresh
<1>5. ASSUME NEW gas \in Charges, setGasUsedLastBlocks(gas)
      PROVE  FALSE
  BY <1>0, <1>5 DEF setGasUsedLastBlocks, Hub
<1>6. ASSUME hub' = hub
      PROVE  FALSE
  BY <1>6
<1> QED
  BY <1>1, <1>2, <1>3, <1>4, <1>5, <1>6
  DEF Next, deleteNode, setMaxGasBlockLimit, NextBlock, vars

\* The first transaction of an account in a block never works with limits that
\* are a whole period old, whatever the administrator sets in between
\* (GasLimit.sol, recalcuteGasLimit).
THEOREM LimitsFreshCorrect == Spec => LimitsFresh
<1>1. IInv /\ [Next]_vars =>
        \A n \in Accounts :
           hub'.blockLastTranx[n] # hub.blockLastTranx[n] /\ blocksFrequency > 0
               => block - hub'.blockCalculateExecuted < blocksFrequency
  BY FreshStep
<1>2. IInv /\ [Next]_vars =>
        [\A n \in Accounts :
           hub'.blockLastTranx[n] # hub.blockLastTranx[n] /\ blocksFrequency > 0
               => block - hub'.blockCalculateExecuted < blocksFrequency]_vars
  BY <1>1
<1> QED
  BY <1>2, IInvHolds, PTL DEF Spec, LimitsFresh
=============================================================================
