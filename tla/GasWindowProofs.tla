--------------------------- MODULE GasWindowProofs ---------------------------
(***************************************************************************)
(* For any metatx, private transactions, gas values and limits: relayLock  *)
(* keeps the sends of metatx apart, so that at most one of them outlives   *)
(* the window it was granted in, and none takes another's account nonce;   *)
(* and what a window grants fits in the limit of whoever it granted last.  *)
(***************************************************************************)
EXTENDS GasWindow, FiniteSetTheorems, WellFoundedInduction, TLAPS

\* Whoever is in the critical section holds relayLock.
LockHeld == \A r \in Requests : at[r] \in Inside => relayLock = r

\* A metatx that lost its grant to a header and is still to be sent is the
\* first to escape.
FirstToEscape ==
    \A r \in Requests : at[r] \in {"config", "send"} /\ r \notin granted => escaped = {}

IInv == TypeOK /\ LockHeld /\ FirstToEscape /\ AtMostOneEscapes /\ OnlyPrivatesCross

\* Gas values, and the limits they are compared with, are numbers.
LEMMA GasIsNat ==
    \A x \in GasValues \cup Limits \cup {0} : x \in Nat /\ x \in 0..Word - 1
BY GasWindowAssumption

\* A sum of two words is taken modulo Word: it is itself unless it wraps.
LEMMA WordSum ==
    ASSUME NEW a \in 0..Word - 1, NEW b \in 0..Word - 1
    PROVE  /\ (a + b) % Word \in 0..Word - 1
           /\ a + b < Word => (a + b) % Word = a + b
BY GasWindowAssumption

LEMMA InitIInv == Init => IInv
<1> SUFFICES ASSUME Init PROVE IInv
  OBVIOUS
<1>1. TypeOK
  <2>1. pool \in Seq(Senders) /\ mined \in 0..Len(pool)
    BY DEF Init
  <2>2. backoff \in 1..MaxBackoff /\ headers \in 0..MaxHeaders
    BY GasWindowAssumption DEF Init
  <2>3. gasUsed \in 0..Word - 1
    BY GasWindowAssumption DEF Init
  <2>4. QED
    BY <2>1, <2>2, <2>3 DEF Init, TypeOK, Inside
<1>2. QED
  BY <1>1 DEF Init, IInv, LockHeld, FirstToEscape, AtMostOneEscapes, OnlyPrivatesCross, Inside

\* The type invariant is kept by every step.
LEMMA TypeStep == TypeOK /\ [Next]_vars => TypeOK'
<1> SUFFICES ASSUME TypeOK, [Next]_vars PROVE TypeOK'
  OBVIOUS
<1> USE GasWindowAssumption
<1>1. ASSUME NEW r \in Requests, NEW g \in GasValues, Arrive(r, g) PROVE TypeOK'
  BY <1>1 DEF TypeOK, Arrive, accountVars, loopVars, windowVars, Inside, Senders
<1>2. ASSUME NEW r \in Requests, Enter(r) PROVE TypeOK'
  BY <1>2 DEF TypeOK, Enter, accountVars, loopVars, windowVars, Inside, Senders
<1>3. ASSUME NEW r \in Requests, CallFails(r) PROVE TypeOK'
  BY <1>3 DEF TypeOK, CallFails, Leave, loopVars, windowVars, Inside, Senders
<1>4. ASSUME NEW r \in Requests, NEW l \in Limits, ReadLimit(r, l) PROVE TypeOK'
  BY <1>4 DEF TypeOK, ReadLimit, accountVars, loopVars, windowVars, Inside, Senders
<1>5. ASSUME NEW r \in Requests, Reserve(r) PROVE TypeOK'
  <2>1. gas[r] \in 0..Word - 1
    <3>1. gas[r] \in GasValues \cup Limits \cup {0}
      BY DEF TypeOK
    <3>2. QED BY <3>1, GasIsNat
  <2>2. gasUsed' \in 0..Word - 1 /\ wrapped' \in BOOLEAN
    <3>1. gasUsed \in 0..Word - 1 /\ gasUsed' = (gasUsed + gas[r]) % Word
      BY <1>5 DEF TypeOK, Reserve
    <3>2. wrapped' \in BOOLEAN
      BY <1>5, Zenon DEF Reserve
    <3>3. QED BY <2>1, <3>1, <3>2, WordSum
  <2>3. CASE gasUsed' > limit[r]
    <3>1. Leave(r, "refused") /\ granted' = granted
      BY <1>5, <2>3 DEF Reserve
    <3>2. UNCHANGED <<gas, privateAt, pool, mined, loopVars, escaped>>
      BY <1>5 DEF Reserve
    <3>3. at' \in [Requests -> {"idle", "lock", "refused", "failed", "sent"} \cup Inside]
      BY <3>1 DEF TypeOK, Leave
    <3>4. limit' \in [Requests -> Limits \cup {0}] /\ txNonce' \in [Senders -> Nat]
      BY <3>1 DEF TypeOK, Leave
    <3>5. relayLock' \in Requests \cup {NoRequest}
      BY <3>1 DEF Leave
    <3>6. QED
      BY <2>2, <3>1, <3>2, <3>3, <3>4, <3>5 DEF TypeOK, loopVars
  <2>4. CASE ~(gasUsed' > limit[r])
    BY <1>5, <2>2, <2>4 DEF TypeOK, Reserve, loopVars, Inside, Senders
  <2>5. QED BY <2>3, <2>4
<1>6. ASSUME NEW r \in Requests, PendingNonceAt(r) PROVE TypeOK'
  BY <1>6 DEF TypeOK, PendingNonceAt, loopVars, windowVars, Inside, Senders
<1>7. ASSUME NEW r \in Requests, Send(r) PROVE TypeOK'
  <2>1. pool' \in Seq(Senders) /\ Len(pool) <= Len(pool')
    <3>1. r \in Senders /\ pool \in Seq(Senders)
      BY DEF TypeOK, Senders
    <3>2. pool' = Append(pool, r) \/ pool' = pool
      BY <1>7 DEF Send
    <3>3. QED BY <3>1, <3>2
  <2>2. mined' \in 0..Len(pool')
    BY <1>7, <2>1 DEF TypeOK, Send
  <2>3. \E end \in {"sent", "failed"} : Leave(r, end)
    BY <1>7 DEF Send
  <2>4. escaped' \subseteq Requests
    BY <1>7 DEF Send, TypeOK
  <2>5. QED
    BY <1>7, <2>1, <2>2, <2>3, <2>4
    DEF TypeOK, Send, Leave, loopVars, windowVars, Inside, Senders
<1>8. ASSUME NEW p \in Privates, NonceAt(p) PROVE TypeOK'
  <2>1. mined \in Nat
    BY DEF TypeOK
  <2>2. txNonce' \in [Senders -> Nat]
    BY <1>8, <2>1 DEF TypeOK, NonceAt, Senders
  <2>3. QED
    BY <1>8, <2>2 DEF TypeOK, NonceAt, sendVars, loopVars, windowVars
<1>9. ASSUME NEW p \in Privates, SendPrivate(p) PROVE TypeOK'
  <2>1. pool' \in Seq(Senders) /\ Len(pool) <= Len(pool')
    BY <1>9 DEF TypeOK, SendPrivate, Senders
  <2>2. mined' \in 0..Len(pool')
    BY <1>9, <2>1 DEF TypeOK, SendPrivate
  <2>3. QED
    BY <1>9, <2>1, <2>2 DEF TypeOK, SendPrivate, sendVars, loopVars, windowVars, Senders
<1>10. CASE NewBlock
  BY <1>10 DEF TypeOK, NewBlock, sendVars, accountVars, windowVars
<1>11. CASE SocketFails \/ Shutdown
  BY <1>11 DEF TypeOK, SocketFails, Shutdown, sendVars, accountVars, windowVars
<1>12. CASE ProcessNewBlocks
  <2>1. UNCHANGED <<sendVars, accountVars, mined, done>>
    BY <1>12 DEF ProcessNewBlocks, Connect, Subscribe, waitOrDone, Header, Settled,
      Reconnect, StopListening, LoopGoes
  <2>2. loop' \in {"connect", "subscribe", "listening", "settling", "backoff", "exited"}
    BY <1>12 DEF ProcessNewBlocks, Connect, Subscribe, waitOrDone, Header, Settled,
      Reconnect, StopListening, LoopGoes
  <2>3. backoff' \in 1..MaxBackoff
    BY <1>12 DEF TypeOK, ProcessNewBlocks, Connect, Subscribe, waitOrDone, nextBackoff,
      Header, Settled, Reconnect, StopListening
  <2>4. headers' \in 0..MaxHeaders
    BY <1>12 DEF TypeOK, ProcessNewBlocks, Connect, Subscribe, waitOrDone,
      Header, Settled, Reconnect, StopListening
  <2>7. failed' \in BOOLEAN
    BY <1>12 DEF TypeOK, ProcessNewBlocks, Connect, Subscribe, waitOrDone,
      Header, Settled, Reconnect, StopListening
  <2>8. wrapped' \in BOOLEAN
    BY <1>12 DEF TypeOK, ProcessNewBlocks, Connect, Subscribe, waitOrDone,
      Header, Settled, Reconnect, StopListening, windowVars
  <2>5. gasUsed' \in 0..Word - 1 /\ granted' \subseteq Requests /\ escaped' \subseteq Requests
    BY <1>12 DEF TypeOK, ProcessNewBlocks, Connect, Subscribe, waitOrDone,
      Header, Settled, Reconnect, StopListening, windowVars
  <2>6. QED
    BY <2>1, <2>2, <2>3, <2>4, <2>5, <2>7, <2>8 DEF TypeOK, sendVars, accountVars
<1>13. CASE UNCHANGED vars
  BY <1>13 DEF TypeOK, vars, sendVars, accountVars, loopVars, windowVars
<1>14. QED
  BY <1>1, <1>2, <1>3, <1>4, <1>5, <1>6, <1>7, <1>8, <1>9, <1>10, <1>11, <1>12, <1>13
  DEF Next, SendRuns

-----------------------------------------------------------------------------
\* What the steps of everyone but the senders of metatx leave alone.
LEMMA OthersKeep ==
    ASSUME IInv, UNCHANGED <<relayLock, at, txNonce, pool>>,
           \/ UNCHANGED <<granted, escaped>>
           \/ granted' = {} /\ escaped' = {}
    PROVE  (LockHeld /\ FirstToEscape /\ AtMostOneEscapes /\ OnlyPrivatesCross)'
BY DEF IInv, LockHeld, FirstToEscape, AtMostOneEscapes, OnlyPrivatesCross, Inside

\* A metatx in the critical section is alone there.
LEMMA Alone ==
    ASSUME LockHeld, NEW r \in Requests, at[r] \in Inside, NEW s \in Requests, s # r
    PROVE  at[s] \notin Inside
BY DEF LockHeld

\* The steps of the sends: one at a time in the critical section.
LEMMA SendStep ==
    ASSUME IInv, TypeOK', NEW r \in Requests, SendRuns(r)
    PROVE  (LockHeld /\ FirstToEscape /\ AtMostOneEscapes /\ OnlyPrivatesCross)'
<1> USE DEF IInv
<1>a. at \in [Requests -> {"idle", "lock", "refused", "failed", "sent"} \cup Inside]
  BY DEF TypeOK
<1>b. txNonce \in [Senders -> Nat] /\ r \in Senders
  BY DEF TypeOK, Senders
<1>1. CASE Enter(r)
  <2>1. \A s \in Requests : at[s] \notin Inside
    BY <1>1, GasWindowAssumption DEF Enter, LockHeld
  <2>2. at' = [at EXCEPT ![r] = "verify"] /\ relayLock' = r
       /\ UNCHANGED <<txNonce, pool, granted, escaped>>
    BY <1>1 DEF Enter, accountVars, windowVars
  <2>3. LockHeld'
    BY <1>a, <2>1, <2>2 DEF LockHeld, Inside
  <2>4. \A s \in Requests : at'[s] \notin {"config", "send"}
    BY <1>a, <2>1, <2>2 DEF Inside
  <2>5. QED
    BY <2>2, <2>3, <2>4 DEF FirstToEscape, AtMostOneEscapes, OnlyPrivatesCross
<1>2. CASE CallFails(r)
  <2>1. at[r] \in Inside /\ \E end \in {"failed"} : Leave(r, end)
    BY <1>2 DEF CallFails, Inside
  <2>2. \A s \in Requests : at'[s] \notin Inside
    BY <1>a, <2>1, Alone DEF Leave, Inside
  <2>3. UNCHANGED <<granted, escaped, pool>>
    BY <1>2 DEF CallFails, windowVars
  <2>4. QED
    BY <2>2, <2>3 DEF LockHeld, FirstToEscape, AtMostOneEscapes, OnlyPrivatesCross, Inside
<1>3. ASSUME NEW l \in Limits, ReadLimit(r, l)
      PROVE  (LockHeld /\ FirstToEscape /\ AtMostOneEscapes /\ OnlyPrivatesCross)'
  <2>1. at[r] \in Inside /\ at' = [at EXCEPT ![r] = "reserve"]
       /\ UNCHANGED <<relayLock, txNonce, pool, granted, escaped>>
    BY <1>3 DEF ReadLimit, accountVars, windowVars, Inside
  <2>2. \A s \in Requests : at'[s] = at[s] \/ (s = r /\ at'[s] = "reserve")
    BY <1>a, <2>1
  <2>3. QED
    BY <2>1, <2>2 DEF LockHeld, FirstToEscape, AtMostOneEscapes, OnlyPrivatesCross, Inside
<1>4. CASE Reserve(r)
  <2>1. at[r] = "reserve" /\ UNCHANGED <<pool, escaped>>
    BY <1>4 DEF Reserve
  <2>2. \A s \in Requests : s # r => at[s] \notin Inside
    BY <2>1, Alone DEF Inside
  <2>3. CASE gasUsed' > limit[r]
    <3>1. \A s \in Requests : at'[s] \notin Inside
      BY <1>4, <1>a, <2>2, <2>3 DEF Reserve, Leave, Inside
    <3>2. QED
      BY <2>1, <3>1 DEF LockHeld, FirstToEscape, AtMostOneEscapes, OnlyPrivatesCross, Inside
  <2>4. CASE ~(gasUsed' > limit[r])
    <3>1. at' = [at EXCEPT ![r] = "config"] /\ granted' = granted \cup {r}
         /\ UNCHANGED <<relayLock, txNonce>>
      BY <1>4, <2>4 DEF Reserve
    <3>2. \A s \in Requests : at'[s] \in Inside => s = r /\ at'[s] = "config"
      BY <1>a, <2>2, <3>1 DEF Inside
    <3>3. LockHeld'
      BY <2>1, <3>1, <3>2 DEF LockHeld, Inside
    <3>4. FirstToEscape'
      BY <3>1, <3>2 DEF FirstToEscape, Inside
    <3>5. QED
      BY <2>1, <3>2, <3>3, <3>4 DEF AtMostOneEscapes, OnlyPrivatesCross, Inside
  <2>5. QED BY <2>3, <2>4
<1>5. CASE PendingNonceAt(r)
  <2>1. at[r] = "config" /\ at' = [at EXCEPT ![r] = "send"]
       /\ txNonce' = [txNonce EXCEPT ![r] = Len(pool)]
       /\ UNCHANGED <<relayLock, pool, granted, escaped>>
    BY <1>5 DEF PendingNonceAt, windowVars
  <2>2. \A s \in Requests : at'[s] \in Inside => s = r
    BY <1>a, <2>1, Alone DEF Inside
  <2>3. LockHeld'
    BY <2>1, <2>2 DEF LockHeld, Inside
  <2>4. FirstToEscape'
    BY <2>1, <2>2 DEF FirstToEscape, Inside
  <2>5. txNonce'[r] = Len(pool) /\ pool \in Seq(Senders)
    BY <1>b, <2>1 DEF TypeOK
  <2>6. OnlyPrivatesCross'
    BY <2>1, <2>2, <2>5 DEF OnlyPrivatesCross, Inside
  <2>7. QED
    BY <2>1, <2>3, <2>4, <2>6 DEF AtMostOneEscapes
<1>6. CASE Send(r)
  <2>1. at[r] = "send" /\ \E end \in {"sent", "failed"} : Leave(r, end)
    BY <1>6 DEF Send
  <2>2. \A s \in Requests : at'[s] \notin Inside
    BY <1>a, <2>1, Alone DEF Leave, Inside
  <2>3. AtMostOneEscapes'
    <3>1. CASE escaped' = escaped
      BY <3>1 DEF AtMostOneEscapes
    <3>2. CASE escaped' = escaped \cup {r} /\ r \notin granted
      BY <2>1, <3>2 DEF FirstToEscape, AtMostOneEscapes
    <3>3. QED
      BY <1>6, <3>1, <3>2 DEF Send
  <2>4. QED
    BY <2>2, <2>3 DEF LockHeld, FirstToEscape, OnlyPrivatesCross, Inside
<1>7. QED
  BY <1>1, <1>2, <1>3, <1>4, <1>5, <1>6 DEF SendRuns

LEMMA IInvStep == IInv /\ [Next]_vars => IInv'
<1> SUFFICES ASSUME IInv, [Next]_vars PROVE IInv'
  OBVIOUS
<1>0. TypeOK'
  BY TypeStep DEF IInv
<1> SUFFICES (LockHeld /\ FirstToEscape /\ AtMostOneEscapes /\ OnlyPrivatesCross)'
  BY <1>0 DEF IInv
<1>1. ASSUME NEW r \in Requests, NEW g \in GasValues, Arrive(r, g)
      PROVE  (LockHeld /\ FirstToEscape /\ AtMostOneEscapes /\ OnlyPrivatesCross)'
  <2>1. at' = [at EXCEPT ![r] = "lock"] /\ UNCHANGED <<relayLock, txNonce, pool, granted, escaped>>
    BY <1>1 DEF Arrive, accountVars, windowVars
  <2>2. \A s \in Requests : at'[s] = at[s] \/ at'[s] = "lock"
    BY <2>1 DEF IInv, TypeOK
  <2>3. QED
    BY <2>1, <2>2 DEF IInv, LockHeld, FirstToEscape, AtMostOneEscapes, OnlyPrivatesCross, Inside
<1>2. ASSUME NEW r \in Requests, SendRuns(r)
      PROVE  (LockHeld /\ FirstToEscape /\ AtMostOneEscapes /\ OnlyPrivatesCross)'
  BY <1>0, <1>2, SendStep
<1>3. ASSUME NEW p \in Privates, NonceAt(p) \/ SendPrivate(p)
      PROVE  (LockHeld /\ FirstToEscape /\ AtMostOneEscapes /\ OnlyPrivatesCross)'
  <2>1. UNCHANGED <<relayLock, at, granted, escaped>>
    BY <1>3 DEF NonceAt, SendPrivate, sendVars, windowVars
  <2>2. \A r \in Requests : txNonce'[r] = txNonce[r]
    BY <1>3, GasWindowAssumption DEF NonceAt, SendPrivate, IInv, TypeOK, Senders
  <2>3. pool' = pool \/ pool' = Append(pool, p)
    BY <1>3 DEF NonceAt, SendPrivate
  <2>4. pool \in Seq(Senders) /\ p \in Senders
    BY DEF IInv, TypeOK, Senders
  <2>5. \A i \in DOMAIN pool' : (i \in DOMAIN pool /\ pool'[i] = pool[i]) \/ pool'[i] = p
    BY <2>3, <2>4
  <2>6. OnlyPrivatesCross'
    BY <2>1, <2>2, <2>5 DEF IInv, OnlyPrivatesCross
  <2>7. QED
    BY <2>1, <2>6 DEF IInv, LockHeld, FirstToEscape, AtMostOneEscapes, Inside
<1>4. CASE NewBlock \/ SocketFails \/ Shutdown
  BY <1>4, OthersKeep
  DEF NewBlock, SocketFails, Shutdown, sendVars, accountVars, windowVars
<1>5. CASE ProcessNewBlocks
  <2>1. UNCHANGED <<relayLock, at, txNonce, pool>>
    BY <1>5 DEF ProcessNewBlocks, Connect, Subscribe, waitOrDone, Header, Settled,
      Reconnect, StopListening, LoopGoes, sendVars, accountVars
  <2>2. UNCHANGED <<granted, escaped>> \/ (granted' = {} /\ escaped' = {})
    BY <1>5 DEF ProcessNewBlocks, Connect, Subscribe, waitOrDone, Header, Settled,
      Reconnect, StopListening, windowVars
  <2>3. QED
    BY <2>1, <2>2, OthersKeep
<1>6. CASE UNCHANGED vars
  BY <1>6, OthersKeep DEF vars, sendVars, accountVars, windowVars
<1>7. QED
  BY <1>1, <1>2, <1>3, <1>4, <1>5, <1>6 DEF Next

\* Holding relayLock, and being the first to escape, are kept by every step of
\* the sends, of the private transactions and of the loop over new blocks.
THEOREM IInvHolds == Spec => []IInv
BY InitIInv, IInvStep, PTL DEF Spec

\* The gas window's variables keep their types; the backoff of the loop over new
\* blocks never passes its cap (relaySignerService.go, nextBackoff).
THEOREM TypeCorrect == Spec => []TypeOK
BY IInvHolds, PTL DEF IInv

\* However many metatx wait for relayLock and however headers fall between a
\* reservation and its send, at most one metatx a window is sent without having
\* been granted its gas in it (prepare.go, reserveGasAndSend).
THEOREM EscapesBounded == Spec => []AtMostOneEscapes
BY IInvHolds, PTL DEF IInv

\* For any number of senders, a metatx loses the account nonce it read to
\* private transactions only (prepare.go, relayLock).
THEOREM SendsDoNotCross == Spec => []OnlyPrivatesCross
BY IInvHolds, PTL DEF IInv

-----------------------------------------------------------------------------
(* Sums of gas over a set of requests.                                     *)

\* The sum of g over S, and the recursion that defines it: take any element,
\* add the sum of the rest.
GasSum(g, S) == MapThenSumSet(LAMBDA s : g[s], S)
Some(s) == CHOOSE x \in s : TRUE
Equation(f, g, D) ==
    f = [s \in D |-> IF s = {} THEN 0 ELSE g[Some(s)] + f[s \ {Some(s)}]]
Total(g, S) == CHOOSE h : Equation(h, g, SUBSET S)

\* Every non-empty set of naturals has a least element.
LEMMA LeastNatural ==
    ASSUME NEW T \in SUBSET Nat, T # {}
    PROVE  \E x \in T : \A y \in T : x <= y
<1> DEFINE R == OpToRel(<, Nat)
<1>1. IsWellFoundedOn(R, Nat)
  BY NatLessThanWellFounded
<1>2. \A x, y \in Nat : <<y, x>> \in R <=> y < x
  BY DEF OpToRel
<1> HIDE DEF R
<1>3. PICK x \in T : \A y \in T : ~(<<y, x>> \in R)
  BY <1>1, WFMin
<1>4. ASSUME NEW y \in T PROVE x <= y
  <2>1. x \in Nat /\ y \in Nat /\ ~(<<y, x>> \in R)
    BY <1>3
  <2>2. ~(y < x)
    BY <1>2, <2>1
  <2> QED
    BY <2>1, <2>2
<1> QED
  BY <1>4

\* Among finite sets there is one with the fewest elements.
LEMMA SmallestSet ==
    ASSUME NEW B, B # {}, \A s \in B : IsFiniteSet(s)
    PROVE  \E s \in B : \A t \in B : Cardinality(s) <= Cardinality(t)
<1> DEFINE T == {Cardinality(s) : s \in B}
<1>1. T \in SUBSET Nat /\ T # {}
  BY FS_CardinalityType
<1>2. PICK n \in T : \A m \in T : n <= m
  BY <1>1, LeastNatural
<1> QED
  BY <1>2

\* What is left without the element taken first is smaller.
LEMMA SomeLeft ==
    ASSUME NEW s, IsFiniteSet(s), NEW x \in s
    PROVE  /\ Some(s) \in s
           /\ IsFiniteSet(s \ {x}) /\ Cardinality(s \ {x}) = Cardinality(s) - 1
           /\ Cardinality(s) \in Nat /\ Cardinality(s \ {x}) \in Nat
<1>1. Some(s) \in s
  BY DEF Some
<1>2. IsFiniteSet(s \ {x}) /\ Cardinality(s \ {x}) = Cardinality(s) - 1
  BY FS_RemoveElement
<1> QED
  BY <1>1, <1>2, FS_CardinalityType

\* The recursion has a solution on the subsets of a finite set.
LEMMA SolutionExists ==
    ASSUME NEW g, NEW S, IsFiniteSet(S)
    PROVE  \E f : Equation(f, g, SUBSET S)
<1> DEFINE D(n) == {t \in SUBSET S : Cardinality(t) <= n}
           Bad == {n \in Nat : ~\E f : Equation(f, g, D(n))}
<1>0. \A t \in SUBSET S : IsFiniteSet(t) /\ Cardinality(t) \in Nat
  BY FS_Subset, FS_CardinalityType
<1>1. SUBSET S = D(Cardinality(S)) /\ Cardinality(S) \in Nat
  <2>1. \A t \in SUBSET S : Cardinality(t) <= Cardinality(S)
    BY FS_Subset
  <2> QED
    BY <2>1, FS_CardinalityType
<1>2. Bad = {}
  <2> SUFFICES ASSUME Bad # {} PROVE FALSE
    OBVIOUS
  <2>1. PICK n \in Bad : \A m \in Bad : n <= m
    <3>1. Bad \in SUBSET Nat
      OBVIOUS
    <3> HIDE DEF Bad
    <3> QED
      BY <3>1, LeastNatural
  <2>2. n \in Nat /\ ~\E f : Equation(f, g, D(n))
    BY <2>1
  <2>3. CASE n = 0
    <3> DEFINE f == [s \in D(n) |-> 0]
    <3>1. \A s \in D(n) : s = {}
      BY <1>0, <2>3, FS_EmptySet
    <3>2. f = [s \in D(n) |-> IF s = {} THEN 0 ELSE g[Some(s)] + f[s \ {Some(s)}]]
      BY <3>1
    <3>3. Equation(f, g, D(n))
      BY <3>2 DEF Equation
    <3> QED
      BY <2>2, <3>3
  <2>4. CASE n # 0
    <3>1. n - 1 \in Nat /\ ~(n <= n - 1)
      BY <2>2, <2>4
    <3>2. n - 1 \notin Bad
      BY <2>1, <3>1
    <3>3. PICK f : Equation(f, g, D(n - 1))
      BY <3>1, <3>2
    <3>4. \A u \in D(n - 1) : f[u] = IF u = {} THEN 0 ELSE g[Some(u)] + f[u \ {Some(u)}]
      <4> HIDE DEF D
      <4> QED
        BY <3>3 DEF Equation
    <3> DEFINE h == [s \in D(n) |-> IF s = {} THEN 0 ELSE g[Some(s)] + f[s \ {Some(s)}]]
    <3>5. \A s \in D(n) : s # {} => s \ {Some(s)} \in D(n - 1)
      <4> SUFFICES ASSUME NEW s \in D(n), s # {} PROVE s \ {Some(s)} \in D(n - 1)
        OBVIOUS
      <4>1. IsFiniteSet(s) /\ Some(s) \in s
        BY <1>0 DEF Some
      <4>2. Cardinality(s \ {Some(s)}) = Cardinality(s) - 1 /\ Cardinality(s) \in Nat
        BY <4>1, SomeLeft
      <4>3. Cardinality(s \ {Some(s)}) <= n - 1
        BY <2>2, <4>2
      <4> QED
        BY <4>3
    <3>6. \A u \in D(n - 1) : u \in D(n)
      BY <1>0, <2>2
    <3> HIDE DEF D
    <3>7. \A u \in D(n - 1) : h[u] = f[u]
      BY <3>4, <3>6
    <3>8. h = [s \in D(n) |-> IF s = {} THEN 0 ELSE g[Some(s)] + h[s \ {Some(s)}]]
      <4>1. \A s \in D(n) : s # {} => h[s \ {Some(s)}] = f[s \ {Some(s)}]
        BY <3>5, <3>7
      <4> DEFINE k == [s \in D(n) |-> IF s = {} THEN 0 ELSE g[Some(s)] + h[s \ {Some(s)}]]
      <4>2. ASSUME NEW s \in D(n) PROVE h[s] = k[s]
        <5>1. CASE s = {}
          BY <5>1
        <5>2. CASE s # {}
          <6>1. h[s] = g[Some(s)] + f[s \ {Some(s)}]
            BY <5>2
          <6>2. k[s] = g[Some(s)] + h[s \ {Some(s)}]
            BY <5>2
          <6> HIDE DEF h, k
          <6> QED
            BY <4>1, <5>2, <6>1, <6>2
        <5> QED
          BY <5>1, <5>2
      <4>3. h = [s \in D(n) |-> h[s]] /\ k = [s \in D(n) |-> k[s]]
        OBVIOUS
      <4> HIDE DEF h, k
      <4>4. h = k
        BY <4>2, <4>3
      <4> QED
        BY <4>4 DEF k
    <3>9. Equation(h, g, D(n))
      <4> HIDE DEF h
      <4> QED
        BY <3>8 DEF Equation
    <3> QED
      BY <2>2, <3>9
  <2> QED
    BY <2>3, <2>4
<1> QED
  BY <1>1, <1>2

\* The sum over a subset, by the recursion.
LEMMA TotalUnfolds ==
    ASSUME NEW g, NEW S, IsFiniteSet(S), NEW s \in SUBSET S
    PROVE  Total(g, S)[s] = IF s = {} THEN 0 ELSE g[Some(s)] + Total(g, S)[s \ {Some(s)}]
<1> DEFINE f == Total(g, S)
<1>1. Equation(f, g, SUBSET S)
  BY SolutionExists DEF Total
<1> HIDE DEF f
<1>2. f = [t \in SUBSET S |-> IF t = {} THEN 0 ELSE g[Some(t)] + f[t \ {Some(t)}]]
  BY <1>1 DEF Equation
<1>3. f[s] = IF s = {} THEN 0 ELSE g[Some(s)] + f[s \ {Some(s)}]
  BY <1>2
<1> QED
  BY <1>3 DEF f

\* What is summed over a subset does not depend on the set it is a subset of,
\* nor on what g is elsewhere; it is a number.
LEMMA TotalsAgree ==
    ASSUME NEW g, NEW h, NEW S, NEW T, IsFiniteSet(S), IsFiniteSet(T),
           NEW s \in SUBSET S, s \in SUBSET T,
           \A x \in s : g[x] \in Nat /\ h[x] = g[x]
    PROVE  Total(g, S)[s] \in Nat /\ Total(h, T)[s] = Total(g, S)[s]
<1> DEFINE Good(t) == Total(g, S)[t] \in Nat /\ Total(h, T)[t] = Total(g, S)[t]
           Bad == {t \in SUBSET s : ~Good(t)}
<1>0. \A t \in SUBSET s : IsFiniteSet(t) /\ t \in SUBSET S /\ t \in SUBSET T
  BY FS_Subset
<1> SUFFICES ASSUME Bad # {} PROVE FALSE
  OBVIOUS
<1>1. PICK t \in Bad : \A u \in Bad : Cardinality(t) <= Cardinality(u)
  <2> HIDE DEF Bad
  <2>1. \A u \in Bad : IsFiniteSet(u)
    BY <1>0 DEF Bad
  <2> QED
    BY <2>1, SmallestSet
<1>2. t \in SUBSET s /\ ~Good(t)
  BY <1>1
<1>a. t \in SUBSET S /\ t \in SUBSET T
  BY <1>0, <1>2
<1>b. Total(g, S)[t] = IF t = {} THEN 0 ELSE g[Some(t)] + Total(g, S)[t \ {Some(t)}]
  BY <1>a, TotalUnfolds
<1>c. Total(h, T)[t] = IF t = {} THEN 0 ELSE h[Some(t)] + Total(h, T)[t \ {Some(t)}]
  BY <1>a, TotalUnfolds
<1>3. /\ Total(g, S)[t] = IF t = {} THEN 0 ELSE g[Some(t)] + Total(g, S)[t \ {Some(t)}]
      /\ Total(h, T)[t] = IF t = {} THEN 0 ELSE h[Some(t)] + Total(h, T)[t \ {Some(t)}]
  BY <1>b, <1>c
<1>4. CASE t = {}
  BY <1>2, <1>3, <1>4
<1>5. CASE t # {}
  <2>1. Some(t) \in t
    BY <1>5 DEF Some
  <2>2. Cardinality(t \ {Some(t)}) = Cardinality(t) - 1 /\ Cardinality(t) \in Nat
    BY <1>0, <1>2, <2>1, SomeLeft
  <2>3. ~(Cardinality(t) <= Cardinality(t \ {Some(t)}))
    BY <2>2
  <2>4. Good(t \ {Some(t)})
    <3>1. t \ {Some(t)} \notin Bad
      BY <1>1, <2>3
    <3> QED
      BY <1>2, <3>1
  <2>5. g[Some(t)] \in Nat /\ h[Some(t)] = g[Some(t)]
    BY <1>2, <2>1
  <2> QED
    BY <1>2, <1>3, <1>5, <2>4, <2>5
<1> QED
  BY <1>4, <1>5

LEMMA GasSumIsTotal ==
    ASSUME NEW g, NEW S
    PROVE  GasSum(g, S) = Total(g, S)[S]
BY DEF GasSum, MapThenSumSet, MapThenFoldSet, Total, Equation, Some

\* The sum over no request is 0; a sum is a number and reads g on its set only.
LEMMA GasSumEmpty == ASSUME NEW g PROVE GasSum(g, {}) = 0
BY FS_EmptySet, GasSumIsTotal, TotalUnfolds

LEMMA GasSumReads ==
    ASSUME NEW g, NEW h, NEW S, IsFiniteSet(S), \A x \in S : g[x] \in Nat /\ h[x] = g[x]
    PROVE  GasSum(g, S) \in Nat /\ GasSum(h, S) = GasSum(g, S)
BY GasSumIsTotal, TotalsAgree

\* The element that is taken first.
LEMMA GasSumFirst ==
    ASSUME NEW g, NEW S, IsFiniteSet(S), S # {}, \A x \in S : g[x] \in Nat
    PROVE  Some(S) \in S /\ GasSum(g, S) = g[Some(S)] + GasSum(g, S \ {Some(S)})
<1> DEFINE T == S \ {Some(S)}
<1>1. Some(S) \in S
  BY DEF Some
<1>2. IsFiniteSet(T) /\ T \in SUBSET S /\ S \in SUBSET S
  BY <1>1, SomeLeft
<1>3. Total(g, S)[S] = g[Some(S)] + Total(g, S)[T]
  BY <1>2, TotalUnfolds
<1>4. Total(g, T)[T] = Total(g, S)[T]
  <2>1. T \in SUBSET T /\ \A x \in T : g[x] \in Nat
    OBVIOUS
  <2> HIDE DEF T
  <2> QED
    BY <1>2, <2>1, TotalsAgree
<1> QED
  BY <1>1, <1>3, <1>4, GasSumIsTotal

\* The order in which the elements are taken does not matter.
LEMMA GasSumAny ==
    ASSUME NEW g, NEW S, IsFiniteSet(S), \A x \in S : g[x] \in Nat, NEW a \in S
    PROVE  GasSum(g, S) = g[a] + GasSum(g, S \ {a})
<1> DEFINE Bad == {s \in SUBSET S : \E x \in s : GasSum(g, s) # g[x] + GasSum(g, s \ {x})}
<1>0. \A s \in SUBSET S : IsFiniteSet(s) /\ \A x \in s : g[x] \in Nat
  BY FS_Subset
<1> SUFFICES ASSUME Bad # {} PROVE FALSE
  OBVIOUS
<1>1. PICK s \in Bad : \A t \in Bad : Cardinality(s) <= Cardinality(t)
  <2> HIDE DEF Bad
  <2>1. \A t \in Bad : IsFiniteSet(t)
    BY <1>0 DEF Bad
  <2> QED
    BY <2>1, SmallestSet
<1>2. PICK x \in s : GasSum(g, s) # g[x] + GasSum(g, s \ {x})
  BY <1>1
<1> DEFINE y == Some(s)
<1>3. s \in SUBSET S /\ IsFiniteSet(s) /\ \A z \in s : g[z] \in Nat
  BY <1>0, <1>1
<1>4. y \in s /\ GasSum(g, s) = g[y] + GasSum(g, s \ {y})
  BY <1>2, <1>3, GasSumFirst
<1> HIDE DEF y
<1>5. x # y
  BY <1>2, <1>4
<1>6. \A z \in s : s \ {z} \notin Bad
  <2> SUFFICES ASSUME NEW z \in s PROVE s \ {z} \notin Bad
    OBVIOUS
  <2>1. Cardinality(s \ {z}) = Cardinality(s) - 1 /\ Cardinality(s) \in Nat
    BY <1>3, SomeLeft
  <2>2. ~(Cardinality(s) <= Cardinality(s \ {z}))
    BY <2>1
  <2> QED
    BY <1>1, <2>2
<1>7. GasSum(g, s \ {y}) = g[x] + GasSum(g, (s \ {y}) \ {x})
  <2>1. s \ {y} \in SUBSET S /\ x \in s \ {y}
    BY <1>2, <1>3, <1>5
  <2> QED
    BY <1>4, <1>6, <2>1
<1>8. GasSum(g, s \ {x}) = g[y] + GasSum(g, (s \ {x}) \ {y})
  <2>1. s \ {x} \in SUBSET S /\ y \in s \ {x}
    BY <1>3, <1>4, <1>5
  <2> QED
    BY <1>2, <1>6, <2>1
<1> DEFINE rest == (s \ {x}) \ {y}
<1>9. (s \ {y}) \ {x} = rest
  OBVIOUS
<1>10. GasSum(g, rest) \in Nat
  <2>1. rest \in SUBSET S
    BY <1>3
  <2>2. IsFiniteSet(rest) /\ \A z \in rest : g[z] \in Nat
    BY <1>0, <2>1
  <2> HIDE DEF rest
  <2> QED
    BY <2>2, GasSumReads
<1> HIDE DEF rest
<1>11. g[x] \in Nat /\ g[y] \in Nat
  BY <1>2, <1>3, <1>4
<1>12. /\ GasSum(g, s) = g[y] + (g[x] + GasSum(g, rest))
       /\ GasSum(g, s \ {x}) = g[y] + GasSum(g, rest)
  BY <1>4, <1>7, <1>8, <1>9 DEF rest
<1>13. GasSum(g, s) = g[x] + GasSum(g, s \ {x})
  BY <1>10, <1>11, <1>12
<1> QED
  BY <1>2, <1>13

-----------------------------------------------------------------------------
(* What a window grants is in what it has counted.                         *)

\* The requests a window granted are past the reservation, so that their gas
\* does not change any more, and a counter that has not wrapped has all of it:
\* it also counts what was refused, hence the inequality.
CounterCovers ==
    /\ IsFiniteSet(granted)
    /\ \A r \in granted : at[r] \in {"config", "send", "sent", "failed"}
    /\ ~wrapped => GasSum(gas, granted) <= gasUsed

LEMMA GrantedGas ==
    ASSUME TypeOK
    PROVE  gas \in [Requests -> Nat] /\ gasUsed \in Nat /\ granted \subseteq Requests
<1>1. \A r \in Requests : gas[r] \in Nat
  <2>1. \A r \in Requests : gas[r] \in GasValues \cup Limits \cup {0}
    BY DEF TypeOK
  <2> QED
    BY <2>1, GasIsNat
<1> QED
  BY <1>1 DEF TypeOK

\* Steps that leave the window and the gas of what it granted alone.
LEMMA CoverKept ==
    ASSUME TypeOK, CounterCovers, UNCHANGED <<gasUsed, wrapped, granted>>,
           \A r \in granted : gas'[r] = gas[r] /\ at'[r] \in {"config", "send", "sent", "failed"}
    PROVE  CounterCovers'
<1>1. \A r \in granted : gas[r] \in Nat /\ gas'[r] = gas[r]
  BY GrantedGas
<1>2. GasSum(gas', granted) = GasSum(gas, granted)
  BY <1>1, GasSumReads DEF CounterCovers
<1>3. IsFiniteSet(granted') /\ \A r \in granted' : at'[r] \in {"config", "send", "sent", "failed"}
  BY DEF CounterCovers
<1>4. ~wrapped' => GasSum(gas', granted') <= gasUsed'
  BY <1>2 DEF CounterCovers
<1> QED
  BY <1>3, <1>4 DEF CounterCovers

\* A grant adds the gas of the request once, to the sum and to the counter.
LEMMA GrantAdds ==
    ASSUME TypeOK, CounterCovers, NEW r \in Requests, at[r] = "reserve"
    PROVE  /\ r \notin granted
           /\ IsFiniteSet(granted \cup {r})
           /\ ~wrapped => GasSum(gas, granted \cup {r}) <= gasUsed + gas[r]
<1>1. r \notin granted
  BY DEF CounterCovers
<1>2. IsFiniteSet(granted \cup {r})
  BY FS_AddElement DEF CounterCovers
<1>3. \A x \in granted \cup {r} : gas[x] \in Nat
  BY GrantedGas
<1>4. (granted \cup {r}) \ {r} = granted /\ r \in granted \cup {r}
  BY <1>1
<1>5. GasSum(gas, granted \cup {r}) = gas[r] + GasSum(gas, granted)
  BY <1>2, <1>3, <1>4, GasSumAny
<1>6. GasSum(gas, granted) \in Nat /\ gas[r] \in Nat /\ gasUsed \in Nat
  <2>1. \A x \in granted : gas[x] \in Nat /\ gas[x] = gas[x]
    BY <1>3
  <2>2. GasSum(gas, granted) \in Nat
    BY <2>1, GasSumReads DEF CounterCovers
  <2> QED
    BY <2>2, GrantedGas
<1>7. ~wrapped => GasSum(gas, granted) <= gasUsed
  BY DEF CounterCovers
<1> QED
  BY <1>1, <1>2, <1>5, <1>6, <1>7

\* A reservation that does not wrap counts the gas as it is.
LEMMA ReserveCounts ==
    ASSUME TypeOK, NEW r \in Requests, Reserve(r), ~wrapped'
    PROVE  ~wrapped /\ gasUsed' = gasUsed + gas[r]
<1>1. ~wrapped /\ ~(gasUsed + gas[r] >= Word) /\ gasUsed' = (gasUsed + gas[r]) % Word
  BY DEF Reserve
<1>2. gasUsed \in 0..Word - 1 /\ gas[r] \in 0..Word - 1
  <2>1. gas[r] \in GasValues \cup Limits \cup {0}
    BY DEF TypeOK
  <2> QED
    BY <2>1, GasIsNat DEF TypeOK
<1>3. gasUsed + gas[r] < Word
  BY <1>1, <1>2, GasWindowAssumption
<1> QED
  BY <1>1, <1>2, <1>3, WordSum

LEMMA InitCovers == Init => CounterCovers
BY FS_EmptySet, GasSumEmpty DEF Init, CounterCovers

LEMMA CoverStep == TypeOK /\ CounterCovers /\ [Next]_vars => CounterCovers'
<1> SUFFICES ASSUME TypeOK, CounterCovers, [Next]_vars PROVE CounterCovers'
  OBVIOUS
<1>0. \A r \in granted : r \in Requests /\ at[r] \in {"config", "send", "sent", "failed"}
  BY GrantedGas DEF CounterCovers
<1>a. at \in [Requests -> {"idle", "lock", "refused", "failed", "sent"} \cup Inside]
  BY DEF TypeOK
<1>b. gas \in [Requests -> Nat]
  BY GrantedGas
<1>1. ASSUME NEW r \in Requests, NEW g \in GasValues, Arrive(r, g) PROVE CounterCovers'
  <2>1. at[r] = "idle" /\ at' = [at EXCEPT ![r] = "lock"] /\ gas' = [gas EXCEPT ![r] = g]
    BY <1>1 DEF Arrive
  <2>2. UNCHANGED <<gasUsed, wrapped, granted>>
    BY <1>1 DEF Arrive, windowVars
  <2>3. \A s \in granted : s # r
    BY <1>0, <2>1
  <2>4. \A s \in granted : gas'[s] = gas[s] /\ at'[s] = at[s]
    BY <1>0, <1>a, <1>b, <2>1, <2>3
  <2> QED
    BY <1>0, <2>2, <2>4, CoverKept
<1>2. ASSUME NEW r \in Requests, Enter(r) \/ \E l \in Limits : ReadLimit(r, l)
      PROVE  CounterCovers'
  <2>1. at[r] \in {"lock", "verify"} /\ UNCHANGED <<gas, gasUsed, wrapped, granted>>
    BY <1>2 DEF Enter, ReadLimit, windowVars
  <2>2. PICK p : at' = [at EXCEPT ![r] = p]
    BY <1>2 DEF Enter, ReadLimit
  <2>3. \A s \in granted : at'[s] = at[s]
    <3>1. \A s \in granted : s # r
      BY <1>0, <2>1
    <3> QED
      BY <1>0, <1>a, <2>2, <3>1
  <2> QED
    BY <1>0, <2>1, <2>3, CoverKept
<1>3. ASSUME NEW r \in Requests, CallFails(r) \/ PendingNonceAt(r) \/ Send(r)
      PROVE  CounterCovers'
  <2>1. UNCHANGED <<gas, gasUsed, wrapped, granted>>
    BY <1>3 DEF CallFails, PendingNonceAt, Send, windowVars
  <2>2. PICK p \in {"failed", "send", "sent"} : at' = [at EXCEPT ![r] = p]
    BY <1>3 DEF CallFails, PendingNonceAt, Send, Leave
  <2>3. \A s \in granted : at'[s] = at[s] \/ at'[s] = p
    BY <1>0, <1>a, <2>2
  <2> QED
    BY <1>0, <2>1, <2>3, CoverKept
<1>4. ASSUME NEW r \in Requests, Reserve(r) PROVE CounterCovers'
  <2>1. at[r] = "reserve" /\ gas' = gas
    BY <1>4 DEF Reserve
  <2>2. \A s \in granted : s # r
    BY <1>0, <2>1
  <2>3. /\ r \notin granted /\ IsFiniteSet(granted \cup {r})
        /\ ~wrapped => GasSum(gas, granted \cup {r}) <= gasUsed + gas[r]
    BY <2>1, GrantAdds
  <2>a. ~wrapped' => ~wrapped /\ gasUsed' = gasUsed + gas[r]
    BY <1>4, ReserveCounts
  <2>4. CASE granted' = granted /\ at' = [at EXCEPT ![r] = "refused"]
    <3>1. \A s \in granted : at'[s] = at[s]
      BY <1>0, <1>a, <2>2, <2>4
    <3>2. GasSum(gas, granted) \in Nat /\ (~wrapped => GasSum(gas, granted) <= gasUsed)
      <4>1. \A x \in granted : gas[x] \in Nat /\ gas[x] = gas[x]
        BY <1>0, <1>b
      <4> QED
        BY <4>1, GasSumReads DEF CounterCovers
    <3>3. ~wrapped => GasSum(gas, granted) <= gasUsed + gas[r]
      BY <1>b, <3>2, GrantedGas
    <3>4. ~wrapped' => GasSum(gas', granted') <= gasUsed'
      BY <2>1, <2>4, <2>a, <3>3
    <3> QED
      BY <1>0, <2>4, <3>1, <3>4 DEF CounterCovers
  <2>5. CASE granted' = granted \cup {r} /\ at' = [at EXCEPT ![r] = "config"]
    <3>1. \A s \in granted' : at'[s] \in {"config", "send", "sent", "failed"}
      BY <1>0, <1>a, <2>5
    <3>2. ~wrapped' => GasSum(gas', granted') <= gasUsed'
      BY <2>1, <2>3, <2>5, <2>a
    <3> QED
      BY <2>3, <2>5, <3>1, <3>2 DEF CounterCovers
  <2> QED
    BY <1>4, <2>4, <2>5 DEF Reserve, Leave
<1>5. CASE UNCHANGED <<at, gas, gasUsed, wrapped, granted>>
  BY <1>0, <1>5, CoverKept
<1>6. ASSUME NEW p \in Privates, NonceAt(p) \/ SendPrivate(p) PROVE CounterCovers'
  BY <1>5, <1>6 DEF NonceAt, SendPrivate, sendVars, windowVars
<1>7. CASE NewBlock \/ SocketFails \/ Shutdown
  BY <1>5, <1>7 DEF NewBlock, SocketFails, Shutdown, sendVars, windowVars
<1>8. CASE ProcessNewBlocks
  <2>1. CASE Header
    <3>1. granted' = {} /\ gasUsed' = 0
      BY <2>1 DEF Header
    <3>2. ~wrapped' => GasSum(gas', granted') <= gasUsed'
      BY <3>1, GasSumEmpty
    <3> QED
      BY <3>1, <3>2, FS_EmptySet DEF CounterCovers
  <2>2. CASE Connect \/ Subscribe \/ waitOrDone \/ Settled \/ Reconnect \/ StopListening
    BY <1>5, <2>2 DEF Connect, Subscribe, waitOrDone, Settled, Reconnect, StopListening,
      LoopGoes, sendVars, windowVars
  <2> QED
    BY <1>8, <2>1, <2>2 DEF ProcessNewBlocks
<1>9. CASE UNCHANGED vars
  BY <1>5, <1>9 DEF vars, sendVars, windowVars
<1> QED
  BY <1>1, <1>2, <1>3, <1>4, <1>6, <1>7, <1>8, <1>9 DEF Next, SendRuns

\* GAS_LIMIT counts at least the gas of every metatx the window granted, however
\* often others were refused, unless its sum of 64 bits wrapped in the window
\* (relaySignerService.go, increment and decrement).
THEOREM CounterAlwaysCovers == Spec => []CounterCovers
<1>1. TypeOK /\ CounterCovers /\ [Next]_vars => CounterCovers'
  BY CoverStep
<1> QED
  BY InitCovers, TypeCorrect, <1>1, PTL DEF Spec

\* Only a reservation grants, and what it grants without a wrap fits.
LEMMA GrantStep ==
    ASSUME TypeOK, CounterCovers, Next, NEW r \in granted' \ granted, ~wrapped'
    PROVE  GasSum(gas, granted') <= limit[r]
<1>1. ASSUME NEW q \in Requests, Reserve(q) PROVE GasSum(gas, granted') <= limit[r]
  <2>1. at[q] = "reserve" /\ granted' # granted
    BY <1>1 DEF Reserve
  <2>2. ~(gasUsed' > limit[q]) /\ granted' = granted \cup {q}
    BY <1>1, <2>1 DEF Reserve
  <2>3. r = q
    BY <2>2
  <2>a. ~wrapped /\ gasUsed' = gasUsed + gas[q]
    BY <1>1, ReserveCounts
  <2>4. /\ IsFiniteSet(granted \cup {q})
        /\ GasSum(gas, granted \cup {q}) <= gasUsed + gas[q]
    BY <2>1, <2>a, GrantAdds
  <2>5. gasUsed + gas[q] \in Nat /\ limit[q] \in Nat
    <3>1. limit[q] \in GasValues \cup Limits \cup {0}
      BY DEF TypeOK
    <3> QED
      BY <3>1, GasIsNat, GrantedGas
  <2>6. GasSum(gas, granted \cup {q}) \in Nat
    <3>1. \A x \in granted \cup {q} : gas[x] \in Nat /\ gas[x] = gas[x]
      BY GrantedGas
    <3> QED
      BY <2>4, <3>1, GasSumReads
  <2>7. GasSum(gas, granted \cup {q}) <= limit[q]
    BY <2>2, <2>4, <2>5, <2>6, <2>a
  <2> QED
    BY <2>2, <2>3, <2>7
<1>2. CASE granted' \subseteq granted
  BY <1>2
<1>3. ASSUME NEW q \in Requests, SendRuns(q), ~Reserve(q) PROVE granted' \subseteq granted
  BY <1>3 DEF SendRuns, Enter, CallFails, ReadLimit, PendingNonceAt, Send, windowVars
<1>4. ASSUME NEW q \in Requests, NEW g \in GasValues, Arrive(q, g) PROVE granted' \subseteq granted
  BY <1>4 DEF Arrive, windowVars
<1>5. ASSUME NEW p \in Privates, NonceAt(p) \/ SendPrivate(p) PROVE granted' \subseteq granted
  BY <1>5 DEF NonceAt, SendPrivate, windowVars
<1>6. CASE NewBlock \/ SocketFails \/ Shutdown
  BY <1>2, <1>6 DEF NewBlock, SocketFails, Shutdown, windowVars
<1>7. CASE ProcessNewBlocks
  BY <1>2, <1>7 DEF ProcessNewBlocks, Connect, Subscribe, waitOrDone, Header, Settled,
    Reconnect, StopListening, windowVars
<1> QED
  BY <1>1, <1>2, <1>3, <1>4, <1>5, <1>6, <1>7 DEF Next

\* For any number of metatx, any gas of 64 bits and any limits, also when refused
\* metatx and headers come in between: a metatx is granted its gas only if it
\* fits together with what the window granted before, or the uint64 sum wrapped
\* in this window (relaySignerService.go, VerifyGasLimit and increment).
THEOREM GrantedFitsCorrect == Spec => GrantedFits
<1>1. TypeOK /\ CounterCovers /\ [Next]_vars =>
        [\A r \in granted' \ granted :
           MapThenSumSet(LAMBDA s : gas[s], granted') <= limit[r] \/ wrapped']_vars
  <2> SUFFICES ASSUME TypeOK, CounterCovers, [Next]_vars, vars' # vars,
                      NEW r \in granted' \ granted, ~wrapped'
               PROVE  MapThenSumSet(LAMBDA s : gas[s], granted') <= limit[r]
    OBVIOUS
  <2>1. GasSum(gas, granted') <= limit[r]
    BY GrantStep
  <2> QED
    BY <2>1 DEF GasSum
<1> QED
  BY TypeCorrect, CounterAlwaysCovers, <1>1, PTL DEF Spec, GrantedFits

=============================================================================
