-------------------------- MODULE SettlementProofs --------------------------
(***************************************************************************)
(* Proofs about Settlement for every set of requests, readers and nonces   *)
(* and every combination of faults, each section with the invariant it     *)
(* needs on top of those before it: the types and the quota (QuotaInv); the *)
(* reservation under the user's lock and the order of a chain              *)
(* (ReservationInv); the registry of held metatx (HeldInv); the place of   *)
(* each metatx in the in-flight count and its one closing log (PendingInv, *)
(* ClosureInv); and, when nothing disturbs the chain, that the queue is    *)
(* what the hub expects next (HubInv).                                     *)
(***************************************************************************)
EXTENDS Settlement, FiniteSetTheorems, SequenceTheorems, WellFoundedInduction, TLAPS

\* What is left of the registry after unhold is again a sequence of requests
\* (tracker.go, unholdLocked).
LEMMA UnheldType ==
    ASSUME held \in Seq(Requests), NEW r
    PROVE  Unheld(r) \in Seq(Requests)
<1>1. CASE r \notin HeldSet
  BY <1>1 DEF Unheld
<1>2. CASE r \in HeldSet
  <2> DEFINE i == CHOOSE j \in DOMAIN held : held[j] = r
  <2>1. i \in DOMAIN held
    BY <1>2 DEF HeldSet
  <2>2. i \in 1..Len(held) /\ Len(held) \in Nat
    BY <2>1
  <2>a. \A k \in 1..Len(held) : held[k] \in Requests
    OBVIOUS
  <2> HIDE DEF i
  <2>3. SubSeq(held, 1, i - 1) \in Seq(Requests)
    <3>1. \A k \in 1..(i - 1) : held[k] \in Requests
      BY <2>2, <2>a
    <3> QED
      BY <2>2, <3>1, SubSeqProperties
  <2>4. SubSeq(held, i + 1, Len(held)) \in Seq(Requests)
    <3>1. \A k \in (i + 1)..Len(held) : held[k] \in Requests
      BY <2>2, <2>a
    <3> QED
      BY <2>2, <3>1, SubSeqProperties
  <2>5. Unheld(r) = SubSeq(held, 1, i - 1) \o SubSeq(held, i + 1, Len(held))
    BY <1>2 DEF Unheld, i
  <2> QED
    BY <2>3, <2>4, <2>5, ConcatProperties
<1> QED
  BY <1>1, <1>2

LEMMA ChainLockedType ==
    ASSUME senders \in Chain
    PROVE  /\ chainLocked \in Chain
           /\ NoChain \in Chain
BY DEF chainLocked, NoChain, Chain

LEMMA InflightType ==
    ASSUME TrackerTypeOK
    PROVE  inflightLocked \in Nat
BY ChainLockedType DEF inflightLocked, TrackerTypeOK, Chain

LEMMA InitType == Init => TypeOK
<1> SUFFICES ASSUME Init PROVE TypeOK
  OBVIOUS
<1>1. TrackerTypeOK
  BY ChainLockedType DEF Init, ReorderInit, TrackerInit, TrackerTypeOK, NoChain, Chain
<1>2. ReorderTypeOK
  BY <1>1 DEF Init, ReorderInit, ReorderTypeOK, PCs, Results, Waiting, Locked
<1>3. reader \in [Readers -> ReaderState]
  BY DEF Init, ReaderState
<1> QED
  BY <1>2, <1>3 DEF Init, ReorderInit, TypeOK, Outcomes, Bad

-----------------------------------------------------------------------------
(* Type correctness. *)

\* The registry of sent metatx and readers plays no part in a request's step.
LEMMA SettleUnchangedType ==
    ASSUME TypeOK, ReorderTypeOK', UNCHANGED settleVars, UNCHANGED sent
    PROVE  TypeOK'
BY DEF TypeOK, settleVars

\* The entry that an expired look-up leaves is a chain, and so is what
\* releaseChain, reserveLocked and forgetChain leave (tracker.go).
LEMMA ReleaseChainType ==
    ASSUME senders \in Chain, NEW c, releaseChain(c)
    PROVE  senders' \in Chain
<1>1. CASE c = 0 \/ senders.id # c
  BY <1>1 DEF releaseChain
<1>2. CASE ~(c = 0 \/ senders.id # c)
  <2> DEFINE left == IF senders.pending > 0 THEN senders.pending - 1 ELSE 0
  <2>1. left \in Nat
    BY DEF Chain
  <2>2. senders' = NoChain \/ senders' = [senders EXCEPT !.pending = left,
                                                !.expiry = @ \/ left = 0]
    BY <1>2 DEF releaseChain
  <2>3. (senders.expiry \/ left = 0) \in BOOLEAN
    BY DEF Chain
  <2> QED
    BY <2>1, <2>2, <2>3, ChainLockedType DEF Chain
<1> QED
  BY <1>1, <1>2

LEMMA ReserveType ==
    ASSUME senders \in Chain, lastChain \in Nat, NEW n \in Nat, reserveLocked(n)
    PROVE  /\ senders' \in Chain
           /\ lastChain' \in Nat
<1>1. chainLocked \in Chain
  BY ChainLockedType
<1>2. CASE chainLocked.id = 0
  <2>1. /\ senders' = [id |-> lastChain + 1, next |-> n + 1, pending |-> 1,
                       expiry |-> FALSE, old |-> FALSE]
        /\ lastChain' = lastChain + 1
    BY <1>2 DEF reserveLocked
  <2> QED
    BY <2>1 DEF Chain
<1>3. CASE chainLocked.id # 0
  <2> DEFINE ahead == IF chainLocked.next > n + 1 THEN chainLocked.next ELSE n + 1
  <2>1. ahead \in Nat /\ chainLocked.pending + 1 \in Nat
    BY <1>1 DEF Chain
  <2>2. /\ senders' = [chainLocked EXCEPT !.next = ahead, !.pending = @ + 1, !.expiry = FALSE]
        /\ lastChain' = lastChain
    BY <1>3 DEF reserveLocked
  <2> QED
    BY <1>1, <2>1, <2>2 DEF Chain
<1> QED
  BY <1>2, <1>3

\* Waking closes channels and does nothing else (tracker.go, wakeLocked).
LEMMA NotifyType ==
    ASSUME wake \in [Requests -> {"nil", "open", "closed"}], notifyTurnLocked
    PROVE  wake' \in [Requests -> {"nil", "open", "closed"}]
BY DEF notifyTurnLocked, wakeLocked

\* An answer leaves the locals of the request well typed.
LEMMA AnswerType ==
    ASSUME ReorderTypeOK, NEW r \in Requests, NEW code \in Results, Answer(r, code)
    PROVE  /\ pc' \in [Requests -> PCs]
           /\ expected' \in [Requests -> Nat]
           /\ lastExpected' \in [Requests -> Nat \cup {-1}]
           /\ timedOut' \in [Requests -> BOOLEAN]
           /\ result' \in [Requests -> Results]
BY DEF ReorderTypeOK, Answer, Goto, PCs

LEMMA EndWaitType ==
    ASSUME ReorderTypeOK, NEW r \in Requests, EndWait(r)
    PROVE  /\ pc' \in [Requests -> PCs]
           /\ held' \in Seq(Requests)
           /\ expected' \in [Requests -> Nat]
           /\ lastExpected' \in [Requests -> Nat \cup {-1}]
           /\ timedOut' \in [Requests -> BOOLEAN]
BY UnheldType DEF ReorderTypeOK, TrackerTypeOK, EndWait, Goto, PCs

LEMMA GotoType ==
    ASSUME ReorderTypeOK, NEW r \in Requests, NEW l \in PCs, Goto(r, l)
    PROVE  pc' \in [Requests -> PCs]
BY DEF ReorderTypeOK, Goto

LEMMA ArriveType ==
    ASSUME ReorderTypeOK, NEW r \in Requests, NEW n \in Nonces, Arrive(r, n)
    PROVE  ReorderTypeOK'
<1> USE DEF ReorderTypeOK, TrackerTypeOK
<1>1. n \in Nat
  BY ReorderAssumption
<1>2. senders' \in Chain /\ nonce' \in [Requests -> Nat]
  BY <1>1, ChainLockedType DEF Arrive
<1>3. inflightLocked \in Nat
  BY InflightType
<1>4. "turn" \in PCs /\ "TOO_MANY_INFLIGHT" \in Results
  BY DEF PCs, Waiting, Results
<1>5. CASE Goto(r, "turn") /\ UNCHANGED <<held, wake, evicted, evictedInflight, expected,
                         lastExpected, timedOut, result, reported>>
  BY <1>2, <1>4, <1>5, GotoType DEF Arrive
<1>6. CASE RejectSurplus(r, inflightLocked)
              /\ UNCHANGED <<held, wake, evicted, evictedInflight>>
  BY <1>2, <1>3, <1>4, <1>6, AnswerType DEF Arrive, RejectSurplus
<1>7. CASE /\ evictHeldLocked(highestHeldLocked)
           /\ Goto(r, "turn")
           /\ UNCHANGED <<expected, lastExpected, timedOut, result, reported>>
  <2>1. held' \in Seq(Requests)
    BY <1>7, UnheldType DEF evictHeldLocked
  <2>2. /\ evicted' \in [Requests -> BOOLEAN]
        /\ evictedInflight' \in [Requests -> Nat]
        /\ wake' \in [Requests -> {"nil", "open", "closed"}]
    BY <1>7, <1>3 DEF evictHeldLocked, wakeLocked
  <2> QED
    BY <1>2, <1>4, <1>7, <2>1, <2>2, GotoType DEF Arrive
<1> QED
  BY <1>5, <1>6, <1>7 DEF Arrive

\* One case per action of a request's goroutine (reorder.go, reorder_turn.go).
LEMMA RequestStepType ==
    ASSUME ReorderTypeOK, NEW r \in Requests, RequestStep(r)
    PROVE  ReorderTypeOK'
<1> USE DEF ReorderTypeOK, TrackerTypeOK
<1>a. chainLocked \in Chain /\ inflightLocked \in Nat /\ Unheld(r) \in Seq(Requests)
  BY ChainLockedType, InflightType, UnheldType
<1>n. chainLocked.next \in Nat
  BY <1>a DEF Chain
<1>b. {"RELAY_ERROR", "BAD_NONCE", "TOO_MANY_INFLIGHT", "SENT"} \subseteq Results
  BY DEF Results
<1>c. {"turn", "turnHub", "decide", "surplus", "arm", "asleep", "lock", "expect",
       "expectHub", "send", "failed", "note", "remember", "done"} \subseteq PCs
  BY DEF PCs, Waiting, Locked
<1>1. CASE TurnCached(r)
  BY <1>1, <1>a, <1>n, <1>c, GotoType DEF TurnCached
<1>2. CASE TurnHub(r)
  <2>1. CASE /\ expected' = [expected EXCEPT ![r] = hubNonce]
             /\ Goto(r, "decide")
             /\ UNCHANGED <<held, lastExpected, timedOut, result>>
    BY <1>2, <2>1, <1>a, <1>c, GotoType DEF TurnHub
  <2>2. CASE Answer(r, "RELAY_ERROR")
    BY <1>2, <2>2, <1>a, <1>b, AnswerType DEF TurnHub
  <2> QED
    BY <1>2, <2>1, <2>2 DEF TurnHub
<1>3. CASE TurnInTurn(r)
  BY <1>3, EndWaitType DEF TurnInTurn
<1>4. CASE TurnHold(r)
  <2>1. held' \in Seq(Requests)
    BY <1>4 DEF TurnHold
  <2>2. lastExpected' \in [Requests -> Nat \cup {-1}] /\ timedOut' \in [Requests -> BOOLEAN]
    BY <1>4 DEF TurnHold
  <2> QED
    BY <1>4, <2>1, <2>2, <1>c, GotoType DEF TurnHold
<1>5. CASE TurnExpired(r)
  BY <1>5, EndWaitType DEF TurnExpired
<1>6. CASE TurnSurplus(r)
  <2>1. CASE RejectSurplus(r, inflightLocked)
    BY <1>6, <2>1, <1>a, <1>b, AnswerType DEF TurnSurplus, RejectSurplus
  <2>2. CASE Goto(r, "arm") /\ UNCHANGED <<held, expected, lastExpected, timedOut, result, reported>>
    BY <1>6, <2>2, <1>a, <1>c, GotoType DEF TurnSurplus
  <2> QED
    BY <1>6, <2>1, <2>2 DEF TurnSurplus
<1>7. CASE TurnSleep(r)
  BY <1>7, <1>c, GotoType DEF TurnSleep
<1>8. CASE DeadlinePasses(r)
  BY <1>8 DEF DeadlinePasses, trackerVars
<1>9. CASE TurnWake(r)
  <2>1. CASE evicted[r]
    BY <1>9, <2>1, <1>a, <1>b, AnswerType DEF TurnWake, RejectSurplus
  <2>2. CASE ~evicted[r]
    BY <1>9, <2>2, <1>a, <1>c, GotoType DEF TurnWake
  <2> QED
    BY <2>1, <2>2
<1>10. CASE lockUser(r)
  BY <1>10, <1>c, GotoType DEF lockUser, trackerVars
<1>11. CASE ExpectCached(r)
  <2>1. CASE /\ Goto(r, "send") \/ Goto(r, "expectHub")
             /\ UNCHANGED <<userLock, expected, lastExpected, timedOut, result>>
    BY <1>11, <2>1, <1>a, <1>c, GotoType DEF ExpectCached
  <2>2. CASE Answer(r, "BAD_NONCE") /\ userLock' = NoRequest
    BY <1>11, <2>2, <1>a, <1>b, AnswerType DEF ExpectCached
  <2> QED
    BY <1>11, <2>1, <2>2 DEF ExpectCached, Validate
<1>12. CASE ExpectHub(r)
  <2>1. CASE /\ Goto(r, "send")
             /\ UNCHANGED <<userLock, expected, lastExpected, timedOut, result>>
    BY <1>12, <2>1, <1>c, GotoType DEF ExpectHub, trackerVars
  <2>2. CASE /\ Answer(r, "BAD_NONCE") \/ Answer(r, "RELAY_ERROR")
             /\ userLock' = NoRequest
    BY <1>12, <2>2, <1>b, AnswerType DEF ExpectHub, trackerVars
  <2> QED
    BY <1>12, <2>1, <2>2 DEF ExpectHub, Validate
<1>13. CASE Send(r)
  <2>1. sent' \in Seq(Requests)
    BY <1>13 DEF Send
  <2> QED
    BY <1>13, <2>1, <1>c, GotoType DEF Send, trackerVars
<1>14. CASE SendFails(r)
  <2>1. sent' \in Seq(Requests)
    <3>1. sent' = sent \/ sent' = Append(sent, r)
      BY <1>14 DEF SendFails
    <3>2. Append(sent, r) \in Seq(Requests)
      OBVIOUS
    <3> QED
      BY <3>1, <3>2
  <2>2. /\ Goto(r, "failed")
        /\ UNCHANGED <<trackerVars, expected, lastExpected, timedOut, result,
                       reported, userLock, hubNonce, chainSent>>
    BY <1>14 DEF SendFails
  <2> QED
    BY <2>1, <2>2, <1>c, GotoType DEF trackerVars
<1>15. CASE ForgetAfterFailure(r)
  BY <1>15, <1>b, ChainLockedType, AnswerType, NotifyType DEF ForgetAfterFailure, forgetChain
<1>16. CASE noteSent(r)
  <2>1. senders' \in Chain /\ lastChain' \in Nat
    BY <1>16, ReserveType DEF noteSent
  <2>2. senders'.id \in Nat
    BY <2>1 DEF Chain
  <2> QED
    BY <1>16, <2>1, <2>2, <1>c, GotoType, NotifyType DEF noteSent
<1> QED
  BY <1>1, <1>2, <1>3, <1>4, <1>5, <1>6, <1>7, <1>8, <1>9, <1>10, <1>11, <1>12,
     <1>13, <1>14, <1>15, <1>16 DEF RequestStep

\* One case per action of the rest of the service.  The only component that
\* two of them write, senders, is typed by the lemmas above.
LEMMA TypeStep == TypeOK /\ [Next]_vars => TypeOK'
<1> SUFFICES ASSUME TypeOK, [Next]_vars PROVE TypeOK'
  OBVIOUS
<1>r. ReorderTypeOK /\ TrackerTypeOK
  BY DEF TypeOK, ReorderTypeOK
<1>1. ASSUME NEW r \in Requests, NEW n \in Nonces, Arrive(r, n), UNCHANGED settleVars
      PROVE  TypeOK'
  BY <1>1, <1>r, ArriveType, SettleUnchangedType DEF Arrive
<1>2. ASSUME NEW r \in Requests, RequestStep(r), UNCHANGED settleVars
      PROVE  TypeOK'
  <2>1. ReorderTypeOK'
    BY <1>2, <1>r, RequestStepType
  <2>2. mined \in 0..Len(sent)'
    <3>1. CASE UNCHANGED sent
      BY <3>1 DEF TypeOK
    <3>2. CASE sent' = Append(sent, r)
      BY <3>2, <1>r DEF TypeOK, ReorderTypeOK
    <3> QED
      BY <1>2, <3>1, <3>2 DEF RequestStep, TurnCached, TurnHub, TurnInTurn, TurnHold,
         TurnExpired, TurnSurplus, TurnSleep, DeadlinePasses, TurnWake, lockUser,
         ExpectCached, ExpectHub, Send, SendFails, ForgetAfterFailure, noteSent
  <2> QED
    BY <1>2, <2>1, <2>2 DEF TypeOK, settleVars
<1>3. ASSUME NEW r \in Requests, rememberMetaTx(r)
      PROVE  TypeOK'
  <2>1. "SENT" \in Results
    BY DEF Results
  <2>2. ReorderTypeOK'
    BY <1>3, <1>r, <2>1, AnswerType DEF rememberMetaTx, ReorderTypeOK, TrackerTypeOK, trackerVars
  <2>3. chainSent[r] \in Nat
    BY <1>r DEF ReorderTypeOK
  <2> QED
    BY <1>3, <2>2, <2>3 DEF TypeOK, rememberMetaTx
<1>4. ASSUME NEW r \in Requests, ClientGone(r), UNCHANGED settleVars
      PROVE  TypeOK'
  <2>1. "RELAY_ERROR" \in Results
    BY DEF Results
  <2>2. ReorderTypeOK'
    BY <1>4, <1>r, <2>1, AnswerType, UnheldType DEF ClientGone, ReorderTypeOK, TrackerTypeOK
  <2> QED
    BY <1>4, <2>2, SettleUnchangedType DEF ClientGone
<1>5. ASSUME NEW r \in Requests, MemoryForgets(r)
      PROVE  TypeOK'
  BY <1>5 DEF TypeOK, MemoryForgets, reorderVars, trackerVars, requestVars,
     ReorderTypeOK, TrackerTypeOK
<1>f. ASSUME forgetChain,
             UNCHANGED <<lastChain, held, nonce, evicted, evictedInflight, requestVars,
                         userLock, sent, hubNonce, chainSent>>
      PROVE  ReorderTypeOK'
  BY <1>f, <1>r, ChainLockedType, NotifyType
     DEF forgetChain, ReorderTypeOK, TrackerTypeOK, requestVars
<1>6. ASSUME NEW r \in Requests, ConsultReceipt(r)
      PROVE  TypeOK'
  BY <1>6, <1>f, SettleUnchangedType DEF ConsultReceipt
<1>7. ASSUME NEW p \in Readers, NEW t \in Requests, readHubEvents(p, t),
             todo' \subseteq Requests, answered' \subseteq Requests
      PROVE  TypeOK'
  <2>1. ReorderTypeOK'
    <3>1. CASE outcome[t] \in Bad
      BY <1>7, <3>1, <1>f DEF readHubEvents
    <3>2. CASE outcome[t] \notin Bad
      BY <1>7, <3>2, <1>r DEF readHubEvents, ReorderTypeOK, TrackerTypeOK, requestVars
    <3> QED
      BY <3>1, <3>2
  <2>2. [step |-> "claim", tx |-> t, hubRejected |-> outcome[t] \in Bad, chain |-> 0]
            \in ReaderState
    BY DEF ReaderState, BusyReader
  <2>3. reader' \in [Readers -> ReaderState]
    BY <1>7, <2>2 DEF readHubEvents, TypeOK
  <2> QED
    BY <1>7, <2>1, <2>3 DEF readHubEvents, TypeOK
<1>8. ASSUME NEW p \in Readers, NEW t \in Requests, SyncReads(p, t)
      PROVE  TypeOK'
  BY <1>7, <1>8 DEF SyncReads, TypeOK
<1>9. ASSUME NEW t \in Requests, WatcherReads(t)
      PROVE  TypeOK'
  BY <1>7, <1>9, SettlementAssumption DEF WatcherReads, TypeOK
<1>10. ASSUME NEW t \in Requests, WatcherExpires(t)
       PROVE  TypeOK'
  <2>1. [step |-> "claim", tx |-> t, hubRejected |-> FALSE, chain |-> 0] \in ReaderState
    BY DEF ReaderState, BusyReader
  <2>2. reader' \in [Readers -> ReaderState]
    BY <1>10, <2>1 DEF WatcherExpires, TypeOK
  <2> QED
    BY <1>10, <2>2 DEF WatcherExpires, TypeOK, reorderVars, trackerVars, requestVars,
       ReorderTypeOK, TrackerTypeOK
<1>18. ASSUME NEW t \in Requests, WatcherPanics(t)
       PROVE  TypeOK'
  <2>1. [step |-> "panic", tx |-> t, hubRejected |-> FALSE, chain |-> 0] \in ReaderState
    BY DEF ReaderState, BusyReader
  <2>2. reader' \in [Readers -> ReaderState]
    BY <1>18, <2>1 DEF WatcherPanics, TypeOK
  <2> QED
    BY <1>18, <2>2 DEF WatcherPanics, TypeOK, reorderVars, trackerVars, requestVars,
       ReorderTypeOK, TrackerTypeOK
<1>19. ASSUME NEW t \in Requests, SyncPanics(t)
       PROVE  TypeOK'
  BY <1>19 DEF SyncPanics, TypeOK, reorderVars, trackerVars, requestVars,
     ReorderTypeOK, TrackerTypeOK
<1>11. CASE NewBlock
  BY <1>11 DEF NewBlock, TypeOK, reorderVars, trackerVars, requestVars,
     ReorderTypeOK, TrackerTypeOK
<1>i. IdleReader \in ReaderState
  BY DEF ReaderState
<1>j. \A p \in Readers : reader[p].step # "idle" => reader[p] \in BusyReader
  BY DEF TypeOK, ReaderState, IdleReader
<1>12. ASSUME NEW p \in Readers, claimSettled(p)
       PROVE  TypeOK'
  <2> DEFINE t == reader[p].tx
  <2>a. reader[p] \in BusyReader
    BY <1>12, <1>j DEF claimSettled
  <2>b. [reader[p] EXCEPT !.step = "take"] \in ReaderState
    BY <2>a DEF ReaderState, BusyReader
  <2>1. reader' \in [Readers -> ReaderState]
    <3>1. \/ reader' = [reader EXCEPT ![p] = IdleReader]
          \/ reader' = [reader EXCEPT ![p] = [@ EXCEPT !.step = "take"]]
      BY <1>12 DEF claimSettled
    <3> QED
      BY <3>1, <1>i, <2>b DEF TypeOK
  <2>2. settled' \in [Requests -> BOOLEAN]
    <3>1. settled' = settled \/ settled' = [settled EXCEPT ![t] = TRUE]
      BY <1>12 DEF claimSettled
    <3> QED
      BY <3>1 DEF TypeOK
  <2>3. closures' \in [Requests -> Nat]
    <3>1. closures' = closures \/ closures' = [closures EXCEPT ![t] = @ + 1]
      BY <1>12 DEF claimSettled
    <3> QED
      BY <3>1 DEF TypeOK
  <2> QED
    BY <1>12, <2>1, <2>2, <2>3 DEF claimSettled, TypeOK, reorderVars, trackerVars,
       requestVars, ReorderTypeOK, TrackerTypeOK
<1>13. ASSUME NEW p \in Readers, releaseSent(p)
       PROVE  TypeOK'
  <2> DEFINE t == reader[p].tx
             go == [reader[p] EXCEPT !.step = "release", !.chain = entryChain[t]]
  <2>1. reader' \in [Readers -> ReaderState]
    <3>1. CASE entryChain[t] = 0 \/ reader[p].hubRejected
      BY <1>13, <3>1, <1>i DEF releaseSent, TypeOK
    <3>2. CASE ~(entryChain[t] = 0 \/ reader[p].hubRejected)
      <4>1. reader[p] \in BusyReader
        BY <1>13, <1>j DEF releaseSent
      <4>2. entryChain[t] \in Nat
        BY <4>1 DEF BusyReader, TypeOK
      <4>3. go \in ReaderState
        BY <4>1, <4>2 DEF ReaderState, BusyReader
      <4>4. reader' = [reader EXCEPT ![p] = go]
        BY <1>13, <3>2 DEF releaseSent, TypeOK
      <4> QED
        BY <4>3, <4>4 DEF TypeOK
    <3> QED
      BY <3>1, <3>2
  <2>2. entryChain' \in [Requests -> Nat]
    BY <1>13 DEF releaseSent, TypeOK
  <2> QED
    BY <1>13, <2>1, <2>2 DEF releaseSent, TypeOK, reorderVars, trackerVars,
       requestVars, ReorderTypeOK, TrackerTypeOK
<1>14. ASSUME NEW p \in Readers, ReleaseReserved(p)
       PROVE  TypeOK'
  <2>1. reader' \in [Readers -> ReaderState]
    BY <1>14, <1>i DEF ReleaseReserved, TypeOK
  <2>2. senders' \in Chain
    BY <1>14, <1>r, ReleaseChainType DEF ReleaseReserved, TrackerTypeOK
  <2>3. wake' \in [Requests -> {"nil", "open", "closed"}]
    BY <1>14, <1>r, NotifyType DEF ReleaseReserved, releaseChain, TrackerTypeOK
  <2> QED
    BY <1>14, <2>1, <2>2, <2>3 DEF ReleaseReserved, TypeOK, requestVars,
       ReorderTypeOK, TrackerTypeOK
<1>15. CASE Mine
  <2>1. mined' \in 0..Len(sent) /\ hubNonce' \in Nat
    <3>1. mined' = mined + 1 /\ mined < Len(sent)
      BY <1>15 DEF Mine
    <3>2. hubNonce' = hubNonce \/ hubNonce' = hubNonce + 1
      BY <1>15 DEF Mine
    <3> QED
      BY <3>1, <3>2, <1>r DEF TypeOK, ReorderTypeOK
  <2>2. outcome' \in [Requests -> Outcomes]
    BY <1>15 DEF Mine, TypeOK, Outcomes, Bad
  <2> QED
    BY <1>15, <2>1, <2>2 DEF Mine, TypeOK, trackerVars, requestVars,
       ReorderTypeOK, TrackerTypeOK
<1>16. CASE TimePasses
  <2>1. senders' \in Chain
    BY <1>16, <1>r, ChainLockedType DEF TimePasses, TTLPasses, GraceEnds, TrackerTypeOK, Chain
  <2> QED
    BY <1>16, <2>1 DEF TimePasses, TTLPasses, GraceEnds, TypeOK, requestVars, settleVars,
       ReorderTypeOK, TrackerTypeOK
<1>17. CASE UNCHANGED vars
  BY <1>17 DEF vars, reorderVars, settleVars, trackerVars, requestVars, TypeOK,
     ReorderTypeOK, TrackerTypeOK
<1> QED
  BY <1>1, <1>2, <1>3, <1>4, <1>5, <1>6, <1>8, <1>9, <1>10, <1>11, <1>12, <1>13,
     <1>14, <1>15, <1>16, <1>17, <1>18, <1>19 DEF Next, Running, RequestRuns, ReaderRuns, WatcherRuns,
     Quiet

\* Every value the service keeps stays in its domain: a pending count never
\* goes below zero (releaseChain), no chain is left half written, and no
\* receipt is read past the end of the account's queue.
THEOREM TypeCorrect == Spec => []TypeOK
<1>1. Init => TypeOK
  BY InitType
<1>2. TypeOK /\ [Next]_vars => TypeOK'
  BY TypeStep
<1> QED
  BY <1>1, <1>2, PTL DEF Spec

-----------------------------------------------------------------------------
(* The reason of a rejection for too many in flight. *)

\* What an eviction noted, and what a rejection reports, is a full quota.
QuotaInv ==
    \A r \in Requests :
        /\ evicted[r] => evictedInflight[r] >= MaxInflight
        /\ result[r] = "TOO_MANY_INFLIGHT" => reported[r] >= MaxInflight

\* Steps that evict nobody and answer with nothing, or with another code.
QuotaAside ==
    /\ UNCHANGED <<evicted, evictedInflight, reported>>
    /\ \A q \in Requests :
        result'[q] = "TOO_MANY_INFLIGHT" => result[q] = "TOO_MANY_INFLIGHT"

LEMMA QuotaAsideKeeps ==
    ASSUME QuotaInv, QuotaAside
    PROVE  QuotaInv'
BY DEF QuotaInv, QuotaAside

LEMMA AnswerAsideQuota ==
    ASSUME ReorderTypeOK, NEW r \in Requests, NEW code, code # "TOO_MANY_INFLIGHT", Answer(r, code)
    PROVE  \A q \in Requests :
                result'[q] = "TOO_MANY_INFLIGHT" => result[q] = "TOO_MANY_INFLIGHT"
BY DEF ReorderTypeOK, Answer

\* A rejection that reports a full quota.
LEMMA RejectKeepsQuota ==
    ASSUME ReorderTypeOK, QuotaInv, NEW r \in Requests, NEW i \in Nat, i >= MaxInflight,
           RejectSurplus(r, i), UNCHANGED <<evicted, evictedInflight>>
    PROVE  QuotaInv'
<1>1. /\ reported' = [reported EXCEPT ![r] = i] /\ reported \in [Requests -> Nat]
      /\ result' = [result EXCEPT ![r] = "TOO_MANY_INFLIGHT"] /\ result \in [Requests -> Results]
  BY DEF ReorderTypeOK, RejectSurplus, Answer
<1>2. reported'[r] >= MaxInflight
  BY <1>1
<1>3. \A q \in Requests : q # r => reported'[q] = reported[q] /\ result'[q] = result[q]
  BY <1>1
<1> QED
  BY <1>2, <1>3 DEF QuotaInv

LEMMA ArriveQuota ==
    ASSUME ReorderTypeOK, QuotaInv, NEW r \in Requests, NEW n \in Nonces, Arrive(r, n)
    PROVE  QuotaInv'
<1>1. inflightLocked \in Nat
  BY InflightType DEF ReorderTypeOK
<1>2. CASE UNCHANGED <<evicted, evictedInflight, result, reported>>
  BY <1>2 DEF QuotaInv
<1>3. CASE /\ inflightLocked >= MaxInflight /\ RejectSurplus(r, inflightLocked)
           /\ UNCHANGED <<evicted, evictedInflight>>
  BY <1>1, <1>3, RejectKeepsQuota
<1>4. CASE /\ inflightLocked >= MaxInflight /\ evictHeldLocked(highestHeldLocked)
           /\ UNCHANGED <<result, reported>>
  <2>1. /\ evicted \in [Requests -> BOOLEAN] /\ evictedInflight \in [Requests -> Nat]
        /\ evicted' = [evicted EXCEPT ![highestHeldLocked] = TRUE]
        /\ evictedInflight' = [evictedInflight EXCEPT ![highestHeldLocked] = inflightLocked]
    BY <1>4 DEF evictHeldLocked, ReorderTypeOK, TrackerTypeOK
  <2>2. \A q \in Requests : IF q = highestHeldLocked
                            THEN evictedInflight'[q] = inflightLocked
                            ELSE evictedInflight'[q] = evictedInflight[q] /\ evicted'[q] = evicted[q]
    BY <2>1
  <2> QED
    BY <1>1, <1>4, <2>2 DEF QuotaInv
<1> QED
  BY <1>2, <1>3, <1>4 DEF Arrive

\* Only the door, the trimming of the held and the waking of an evicted one
\* answer with this code (reorder.go, reorder_turn.go).
LEMMA RequestQuota ==
    ASSUME ReorderTypeOK, QuotaInv, NEW r \in Requests, RequestStep(r) \/ ClientGone(r)
    PROVE  QuotaInv'
<1> USE DEF QuotaAside
<1>1. inflightLocked \in Nat /\ MaxInflight \in Nat
  BY InflightType, TrackerAssumption DEF ReorderTypeOK
<1>2. CASE TurnCached(r) \/ TurnInTurn(r) \/ TurnHold(r) \/ TurnExpired(r)
  BY <1>2, QuotaAsideKeeps DEF TurnCached, TurnInTurn, TurnHold, TurnExpired
<1>3. CASE TurnHub(r)
  BY <1>3, QuotaAsideKeeps, AnswerAsideQuota DEF TurnHub
<1>4. CASE TurnSurplus(r)
  <2>1. CASE inflightLocked > MaxInflight /\ RejectSurplus(r, inflightLocked)
    BY <1>1, <1>4, <2>1, RejectKeepsQuota DEF TurnSurplus
  <2>2. CASE UNCHANGED <<result, reported>>
    BY <1>4, <2>2, QuotaAsideKeeps DEF TurnSurplus
  <2> QED
    BY <1>4, <2>1, <2>2 DEF TurnSurplus
<1>5. CASE TurnSleep(r) \/ DeadlinePasses(r) \/ lockUser(r)
  BY <1>5, QuotaAsideKeeps DEF TurnSleep, DeadlinePasses, lockUser, trackerVars
<1>6. CASE TurnWake(r)
  <2>1. CASE evicted[r] /\ RejectSurplus(r, evictedInflight[r])
    <3>1. evictedInflight[r] \in Nat /\ evictedInflight[r] >= MaxInflight
      BY <2>1 DEF QuotaInv, ReorderTypeOK, TrackerTypeOK
    <3> QED
      BY <1>6, <2>1, <3>1, RejectKeepsQuota DEF TurnWake
  <2>2. CASE UNCHANGED <<result, reported>>
    BY <1>6, <2>2, QuotaAsideKeeps DEF TurnWake
  <2> QED
    BY <1>6, <2>1, <2>2 DEF TurnWake
<1>7. CASE ClientGone(r)
  BY <1>7, QuotaAsideKeeps, AnswerAsideQuota DEF ClientGone
<1>8. CASE ExpectCached(r)
  BY <1>8, QuotaAsideKeeps, AnswerAsideQuota DEF ExpectCached, Validate
<1>9. CASE ExpectHub(r)
  BY <1>9, QuotaAsideKeeps, AnswerAsideQuota DEF ExpectHub, Validate, trackerVars
<1>10. CASE Send(r) \/ SendFails(r) \/ noteSent(r)
  BY <1>10, QuotaAsideKeeps DEF Send, SendFails, noteSent, trackerVars
<1>11. CASE ForgetAfterFailure(r)
  BY <1>11, QuotaAsideKeeps, AnswerAsideQuota DEF ForgetAfterFailure
<1> QED
  BY <1>2, <1>3, <1>4, <1>5, <1>6, <1>7, <1>8, <1>9, <1>10, <1>11 DEF RequestStep

LEMMA QuotaStep == TypeOK /\ QuotaInv /\ [Next]_vars => QuotaInv'
<1> SUFFICES ASSUME TypeOK, QuotaInv, [Next]_vars PROVE QuotaInv'
  OBVIOUS
<1>t. ReorderTypeOK
  BY DEF TypeOK
<1> DEFINE Kept == UNCHANGED <<evicted, evictedInflight, reported, result>>
<1>k. Kept => QuotaInv'
  BY QuotaAsideKeeps DEF QuotaAside
<1>1. ASSUME NEW r \in Requests, rememberMetaTx(r) PROVE QuotaInv'
  BY <1>t, <1>1, QuotaAsideKeeps, AnswerAsideQuota DEF rememberMetaTx, QuotaAside, trackerVars
<1>2. ASSUME NEW r \in Requests, MemoryForgets(r) \/ ConsultReceipt(r) \/ SyncPanics(r)
      PROVE  Kept
  BY <1>2 DEF MemoryForgets, ConsultReceipt, SyncPanics, reorderVars, trackerVars, requestVars
<1>3. ASSUME NEW p \in Readers, NEW t \in Requests, SyncReads(p, t) PROVE Kept
  BY <1>3 DEF SyncReads, readHubEvents, requestVars
<1>4. ASSUME NEW p \in Readers, ReaderRuns(p) PROVE Kept
  BY <1>4 DEF ReaderRuns, claimSettled, releaseSent, ReleaseReserved, reorderVars, trackerVars,
     requestVars
<1>5. CASE WatcherRuns
  <2>1. Kept
    BY <1>5 DEF WatcherRuns, NewBlock, WatcherReads, WatcherPanics, WatcherExpires, readHubEvents,
       reorderVars, trackerVars, requestVars
  <2> QED
    BY <1>k, <2>1
<1>6. CASE Mine \/ TimePasses \/ UNCHANGED vars
  <2>1. Kept
    BY <1>6 DEF Mine, TimePasses, TTLPasses, GraceEnds, vars, reorderVars, trackerVars, requestVars
  <2> QED
    BY <1>k, <2>1
<1>7. ASSUME NEW r \in Requests, RequestRuns(r) \/ ClientGone(r) PROVE QuotaInv'
  BY <1>t, <1>1, <1>7, RequestQuota DEF RequestRuns
<1> QED
  BY <1>t, <1>k, <1>2, <1>3, <1>4, <1>5, <1>6, <1>7, ArriveQuota DEF Next, Running, Quiet

\* A rejection for too many in flight always had a full quota behind it, also
\* the one that is delivered long after the eviction, for any number of
\* requests (tracker.go, heldMetaTx.evictedInflight).
THEOREM TooManyMeansFullCorrect == Spec => []TooManyMeansFull
<1>1. Init => QuotaInv
  BY DEF Init, ReorderInit, TrackerInit, QuotaInv
<1>2. TypeOK /\ QuotaInv /\ [Next]_vars => QuotaInv'
  BY QuotaStep
<1>3. QuotaInv => TooManyMeansFull
  BY DEF QuotaInv, TooManyMeansFull
<1> QED
  BY <1>1, <1>2, <1>3, TypeCorrect, PTL DEF Spec

-----------------------------------------------------------------------------
(***************************************************************************)
(* A reservation always matches the live chain, and a chain is sent in     *)
(* strictly increasing nonce order.                                        *)
(*                                                                         *)
(* ReservationMatches and ChainOrder are not inductive.  What is missing   *)
(* is why nobody else moves the chain while the lock is held (an unknown   *)
(* chain stays unknown until the holder notes its send), and why a dropped *)
(* chain does not come back (identities are fresh).                        *)
(***************************************************************************)

\* While the holder of the lock asks the hub, no chain can appear.
HubMeansNoChain ==
    \A r \in Requests : pc[r] = "expectHub" => senders.id = 0

\* Identities of chains are fresh.
ChainIds ==
    /\ senders.id <= lastChain
    /\ \A r \in Requests : chainSent[r] <= lastChain

\* The live chain is ahead of everything reserved on it.
ChainAhead ==
    \A r \in Requests : chainSent[r] # 0 /\ chainSent[r] = senders.id
                            => nonce[r] < senders.next

\* A request is reserved once, after it was sent.
ReservedLate ==
    \A r \in Requests :
        /\ chainSent[r] # 0 <=> (pc[r] = "remember" \/ result[r] = "SENT")
        /\ result[r] = "SENT" => pc[r] = "done"

\* A request whose transaction is in the queue is past its send.
SentLate ==
    \A i \in DOMAIN sent : pc[sent[i]] \in {"failed", "note", "remember", "done"}

\* The one about to note its send is the last of the queue, and only there.
NoteIsLast ==
    \A r \in Requests : pc[r] = "note" =>
        \E k \in DOMAIN sent : /\ k = Len(sent)
                               /\ \A i \in DOMAIN sent : sent[i] = r <=> i = k

ReservationInv ==
    /\ TypeOK
    /\ ReservationMatches
    /\ HubMeansNoChain
    /\ ChainIds
    /\ ChainAhead
    /\ ReservedLate
    /\ SentLate
    /\ NoteIsLast
    /\ ChainOrder

\* A step that is not one of the holder of the user's lock: it may drop the
\* chain, never moves it, and takes a request from a place outside the lock
\* to another one.
PlaceAside ==
    \A q \in Requests :
        \/ pc'[q] = pc[q] /\ result'[q] = result[q]
        \/ /\ pc[q] \notin Locked /\ pc[q] # "done"
           /\ pc'[q] \notin Locked
           /\ result'[q] # "SENT"

Aside ==
    /\ UNCHANGED <<lastChain, nonce, userLock, sent, chainSent>>
    /\ \/ senders' = NoChain
       \/ senders'.id = senders.id /\ senders'.next = senders.next
    /\ PlaceAside

LEMMA ReservationInit == Init => ReservationInv
<1> SUFFICES ASSUME Init PROVE ReservationInv
  OBVIOUS
<1>1. TypeOK
  BY InitType
<1>2. ReservationMatches
  BY ReorderAssumption DEF Init, ReorderInit, TrackerInit, NoChain, ReservationMatches, Locked
<1>3. HubMeansNoChain /\ ChainIds /\ ChainAhead /\ ReservedLate /\ NoteIsLast
  BY DEF Init, ReorderInit, TrackerInit, NoChain, HubMeansNoChain, ChainIds, ChainAhead,
     ReservedLate, NoteIsLast
<1>4. SentLate /\ ChainOrder
  BY DEF Init, ReorderInit, SentLate, ChainOrder
<1> QED
  BY <1>1, <1>2, <1>3, <1>4 DEF ReservationInv

\* The types that the proofs below use again and again.
LEMMA TypeFacts ==
    ASSUME TypeOK
    PROVE  /\ pc \in [Requests -> PCs] /\ result \in [Requests -> Results]
           /\ nonce \in [Requests -> Nat] /\ lastChain \in Nat
           /\ chainSent \in [Requests -> Nat] /\ senders \in Chain
           /\ sent \in Seq(Requests)
           /\ \A i \in DOMAIN sent : sent[i] \in Requests
<1>1. sent \in Seq(Requests)
  BY DEF TypeOK, ReorderTypeOK
<1> QED
  BY <1>1 DEF TypeOK, ReorderTypeOK, TrackerTypeOK

LEMMA NoChainId == NoChain.id = 0 /\ NoChain.pending = 0
BY DEF NoChain

\* Steps outside the lock keep the invariant.
LEMMA AsideKeeps ==
    ASSUME ReservationInv, TypeOK', Aside
    PROVE  ReservationInv'
<1> USE DEF ReservationInv
<1>l. /\ {"expectHub", "send", "failed", "note", "remember"} \subseteq Locked
      /\ "done" \notin Locked
  BY DEF Locked
<1>1. ReservationMatches'
  BY <1>l, NoChainId DEF Aside, PlaceAside, ReservationMatches
<1>2. HubMeansNoChain'
  BY <1>l, NoChainId DEF Aside, PlaceAside, HubMeansNoChain
<1>3. ChainIds'
  BY NoChainId DEF Aside, ChainIds, TypeOK, ReorderTypeOK, TrackerTypeOK
<1>4. ChainAhead'
  BY NoChainId DEF Aside, ChainAhead
<1>5. ReservedLate'
  BY <1>l DEF Aside, PlaceAside, ReservedLate
<1>6. SentLate'
  <2>1. \A i \in DOMAIN sent : sent[i] \in Requests
    BY DEF TypeOK, ReorderTypeOK
  <2> QED
    BY <1>l, <2>1 DEF Aside, PlaceAside, SentLate
<1>7. NoteIsLast'
  BY <1>l DEF Aside, PlaceAside, NoteIsLast
<1>8. ChainOrder'
  BY DEF Aside, ChainOrder
<1> QED
  BY <1>1, <1>2, <1>3, <1>4, <1>5, <1>6, <1>7, <1>8

\* A look-up keeps the chain or drops it (tracker.go, chainLocked), and so does
\* a result (releaseChain).
LEMMA LookUpAside ==
    \/ chainLocked = NoChain
    \/ chainLocked.id = senders.id /\ chainLocked.next = senders.next
BY DEF chainLocked


\* Moving on within the wait, or leaving it with an answer, is aside.
LEMMA GotoAside ==
    ASSUME TypeOK, NEW r \in Requests, pc[r] \in Waiting \cup {"idle"},
           NEW l, l \notin Locked, Goto(r, l), UNCHANGED result,
           result[r] # "SENT"
    PROVE  PlaceAside
<1>1. pc \in [Requests -> PCs]
  BY DEF TypeOK, ReorderTypeOK
<1>2. pc[r] \notin Locked /\ pc[r] # "done"
  BY DEF Waiting, Locked
<1> QED
  BY <1>1, <1>2 DEF Goto, PlaceAside

LEMMA AnswerAside ==
    ASSUME TypeOK, NEW r \in Requests, pc[r] \in Waiting \cup {"idle"},
           NEW code, code # "SENT", Answer(r, code)
    PROVE  PlaceAside
<1>1. pc \in [Requests -> PCs] /\ result \in [Requests -> Results]
  BY DEF TypeOK, ReorderTypeOK
<1>2. pc[r] \notin Locked /\ pc[r] # "done" /\ "done" \notin Locked
  BY DEF Waiting, Locked
<1> QED
  BY <1>1, <1>2 DEF Answer, Goto, PlaceAside

\* The waiting part of a request's goroutine is aside.
LEMMA WaitAside ==
    ASSUME TypeOK, ReservedLate, NEW r \in Requests,
           \/ TurnCached(r) \/ TurnHub(r) \/ TurnInTurn(r) \/ TurnHold(r) \/ TurnExpired(r)
           \/ TurnSurplus(r) \/ TurnSleep(r) \/ DeadlinePasses(r) \/ TurnWake(r)
           \/ ClientGone(r)
    PROVE  Aside
<1>w. /\ {"turn", "turnHub", "decide", "surplus", "arm", "asleep"} \subseteq Waiting
      /\ {"turn", "turnHub", "decide", "surplus", "arm", "asleep", "lock"} \cap Locked = {}
  BY DEF Waiting, Locked
<1>s. pc[r] # "done" => result[r] # "SENT"
  BY DEF ReservedLate
<1>1. CASE TurnCached(r)
  BY <1>1, <1>w, <1>s, GotoAside, LookUpAside DEF TurnCached, Aside
<1>2. CASE TurnHub(r)
  BY <1>2, <1>w, <1>s, GotoAside, AnswerAside DEF TurnHub, Aside
<1>3. CASE TurnInTurn(r) \/ TurnExpired(r)
  BY <1>3, <1>w, <1>s, GotoAside DEF TurnInTurn, TurnExpired, EndWait, Aside
<1>4. CASE TurnHold(r)
  BY <1>4, <1>w, <1>s, GotoAside DEF TurnHold, Aside
<1>5. CASE TurnSurplus(r)
  <2>1. CASE RejectSurplus(r, inflightLocked)
    BY <1>5, <2>1, <1>w, AnswerAside, LookUpAside DEF TurnSurplus, RejectSurplus, Aside
  <2>2. CASE Goto(r, "arm") /\ UNCHANGED result
    BY <1>5, <2>2, <1>w, <1>s, GotoAside, LookUpAside DEF TurnSurplus, Aside
  <2> QED
    BY <1>5, <2>1, <2>2 DEF TurnSurplus
<1>6. CASE TurnSleep(r)
  BY <1>6, <1>w, <1>s, GotoAside DEF TurnSleep, Aside
<1>7. CASE DeadlinePasses(r)
  BY <1>7 DEF DeadlinePasses, trackerVars, Aside, PlaceAside
<1>8. CASE TurnWake(r)
  <2>1. CASE RejectSurplus(r, evictedInflight[r])
    BY <1>8, <2>1, <1>w, AnswerAside, LookUpAside DEF TurnWake, RejectSurplus, Aside
  <2>2. CASE Goto(r, "turn") /\ UNCHANGED result
    BY <1>8, <2>2, <1>w, <1>s, GotoAside, LookUpAside DEF TurnWake, Aside
  <2> QED
    BY <1>8, <2>1, <2>2 DEF TurnWake
<1>9. CASE ClientGone(r)
  BY <1>9, <1>w, AnswerAside DEF ClientGone, Aside
<1> QED
  BY <1>1, <1>2, <1>3, <1>4, <1>5, <1>6, <1>7, <1>8, <1>9

\* Results, receipts, the hub and the passing of time are aside.
LEMMA ServiceAside ==
    ASSUME TypeOK,
           \/ \E r \in Requests : MemoryForgets(r) \/ ConsultReceipt(r) \/ SyncPanics(r)
           \/ \E p \in Readers, t \in Requests : SyncReads(p, t)
           \/ \E p \in Readers : ReaderRuns(p)
           \/ WatcherRuns \/ Mine \/ TimePasses \/ UNCHANGED vars
    PROVE  Aside
<1> USE DEF TypeOK, ReorderTypeOK, TrackerTypeOK
<1>1. CASE \E r \in Requests : MemoryForgets(r) \/ SyncPanics(r)
  BY <1>1 DEF MemoryForgets, SyncPanics, reorderVars, trackerVars, requestVars, Aside, PlaceAside
<1>2. CASE \E r \in Requests : ConsultReceipt(r)
  BY <1>2 DEF ConsultReceipt, forgetChain, requestVars, Aside, PlaceAside
<1>3. ASSUME NEW p \in Readers, NEW t \in Requests, readHubEvents(p, t)
      PROVE  Aside
  BY <1>3 DEF readHubEvents, forgetChain, requestVars, Aside, PlaceAside
<1>4. CASE \E p \in Readers, t \in Requests : SyncReads(p, t)
  BY <1>3, <1>4 DEF SyncReads
<1>5. CASE \E p \in Readers : claimSettled(p) \/ releaseSent(p)
  BY <1>5 DEF claimSettled, releaseSent, reorderVars, trackerVars, requestVars, Aside, PlaceAside
<1>6. CASE \E p \in Readers : ReleaseReserved(p)
  <2>1. PICK p \in Readers : ReleaseReserved(p)
    BY <1>6
  <2>2. /\ releaseChain(reader[p].chain)
        /\ UNCHANGED <<lastChain, nonce, userLock, sent, chainSent, pc, result>>
    BY <2>1 DEF ReleaseReserved, requestVars
  <2>3. \/ senders' = NoChain
        \/ senders'.id = senders.id /\ senders'.next = senders.next
    BY <2>2 DEF releaseChain, Chain
  <2> QED
    BY <2>2, <2>3 DEF Aside, PlaceAside
<1>7. CASE WatcherRuns
  BY <1>3, <1>7, SettlementAssumption DEF WatcherRuns, NewBlock, WatcherReads,
     WatcherPanics, WatcherExpires, reorderVars, trackerVars, requestVars, Aside, PlaceAside
<1>8. CASE Mine
  BY <1>8 DEF Mine, trackerVars, requestVars, Aside, PlaceAside
<1>9. CASE TimePasses
  BY <1>9 DEF TimePasses, TTLPasses, GraceEnds, requestVars, Aside, PlaceAside, Chain
<1>10. CASE UNCHANGED vars
  BY <1>10 DEF vars, reorderVars, trackerVars, requestVars, Aside, PlaceAside
<1> QED
  BY <1>1, <1>2, <1>4, <1>5, <1>6, <1>7, <1>8, <1>9, <1>10 DEF ReaderRuns

-----------------------------------------------------------------------------
(* The door and the holder of the lock. *)

LEMMA ArriveKeeps ==
    ASSUME ReservationInv, TypeOK', NEW r \in Requests, NEW n \in Nonces, Arrive(r, n)
    PROVE  ReservationInv'
<1> USE DEF ReservationInv
<1>t. /\ pc \in [Requests -> PCs] /\ result \in [Requests -> Results]
      /\ nonce \in [Requests -> Nat] /\ lastChain \in Nat
      /\ \A i \in DOMAIN sent : sent[i] \in Requests
  BY TypeFacts
<1>1. PlaceAside
  <2>1. "turn" \notin Locked /\ pc[r] = "idle" /\ result[r] # "SENT"
    BY DEF Arrive, ReservedLate, Locked
  <2>2. CASE Goto(r, "turn") /\ UNCHANGED result
    BY <2>1, <2>2, GotoAside
  <2>3. CASE RejectSurplus(r, inflightLocked)
    BY <2>1, <2>3, AnswerAside DEF RejectSurplus
  <2> QED
    BY <2>2, <2>3 DEF Arrive
<1>2. /\ UNCHANGED <<lastChain, userLock, sent, chainSent>>
      /\ \/ senders' = NoChain
         \/ senders'.id = senders.id /\ senders'.next = senders.next
  BY LookUpAside DEF Arrive
<1>3. \A q \in Requests : pc[q] # "idle" => nonce'[q] = nonce[q]
  BY <1>t DEF Arrive
<1>l. /\ {"expectHub", "send", "failed", "note", "remember"} \subseteq Locked
      /\ "done" \notin Locked /\ "idle" \notin Locked
  BY DEF Locked
<1>c. \A q \in Requests : chainSent[q] # 0 => pc[q] # "idle"
  BY DEF ReservedLate
<1>4. ReservationMatches'
  BY <1>1, <1>2, <1>3, <1>l, NoChainId DEF PlaceAside, ReservationMatches
<1>5. HubMeansNoChain'
  BY <1>1, <1>2, <1>l, NoChainId DEF PlaceAside, HubMeansNoChain
<1>6. ChainIds'
  BY <1>t, <1>2, NoChainId DEF ChainIds
<1>7. ChainAhead'
  BY <1>2, <1>3, <1>c, NoChainId DEF ChainAhead
<1>8. ReservedLate'
  BY <1>1, <1>2, <1>l DEF PlaceAside, ReservedLate
<1>9. SentLate'
  BY <1>t, <1>1, <1>2, <1>l DEF PlaceAside, SentLate
<1>10. NoteIsLast'
  BY <1>1, <1>2, <1>l DEF PlaceAside, NoteIsLast
<1>11. ChainOrder'
  BY <1>t, <1>2, <1>3, <1>c DEF ChainOrder
<1> QED
  BY <1>4, <1>5, <1>6, <1>7, <1>8, <1>9, <1>10, <1>11

\* The holder moves on, or leaves with an answer, without sending or reserving:
\* the chain is kept or dropped.
LEMMA HolderKeeps ==
    ASSUME ReservationInv, TypeOK', NEW r \in Requests,
           \/ lockUser(r) \/ ExpectCached(r) \/ ExpectHub(r)
           \/ ForgetAfterFailure(r) \/ rememberMetaTx(r)
    PROVE  ReservationInv'
<1> USE DEF ReservationInv
<1>t. /\ pc \in [Requests -> PCs] /\ result \in [Requests -> Results]
      /\ nonce \in [Requests -> Nat] /\ lastChain \in Nat
      /\ chainSent \in [Requests -> Nat]
      /\ \A i \in DOMAIN sent : sent[i] \in Requests
  BY TypeFacts
<1>1. /\ UNCHANGED <<lastChain, nonce, sent, chainSent>>
      /\ \/ senders' = NoChain
         \/ senders'.id = senders.id /\ senders'.next = senders.next
  BY LookUpAside DEF lockUser, ExpectCached, ExpectHub, ForgetAfterFailure, rememberMetaTx,
     trackerVars, forgetChain
<1>2. \A q \in Requests \ {r} : pc'[q] = pc[q] /\ result'[q] = result[q]
  BY <1>t DEF lockUser, ExpectCached, ExpectHub, Validate, ForgetAfterFailure,
     rememberMetaTx, Answer, Goto
<1>3. \/ /\ pc[r] = "lock" /\ pc'[r] = "expect" /\ result'[r] = result[r]
         /\ userLock = NoRequest /\ userLock' = r
      \/ /\ pc[r] = "expect" /\ pc'[r] = "expectHub" /\ result'[r] = result[r]
         /\ userLock' = userLock /\ senders'.id = 0
      \/ /\ pc[r] \in {"expect", "expectHub"} /\ pc'[r] = "send" /\ result'[r] = result[r]
         /\ userLock' = userLock /\ (senders'.id # 0 => senders'.next = nonce[r])
      \/ /\ pc[r] \in {"expect", "expectHub", "failed"} /\ pc'[r] = "done"
         /\ result'[r] # "SENT" /\ userLock' = NoRequest
      \/ /\ pc[r] = "remember" /\ pc'[r] = "done"
         /\ result'[r] = "SENT" /\ userLock' = NoRequest
  <2>1. CASE lockUser(r)
    BY <1>t, <2>1 DEF lockUser, Goto
  <2>2. CASE ExpectCached(r)
    BY <1>t, <2>2 DEF ExpectCached, Validate, Answer, Goto
  <2>3. CASE ExpectHub(r)
    BY <1>t, <2>3 DEF ExpectHub, Validate, Answer, Goto, HubMeansNoChain, trackerVars
  <2>4. CASE ForgetAfterFailure(r)
    BY <1>t, <2>4 DEF ForgetAfterFailure, Answer, Goto
  <2>5. CASE rememberMetaTx(r)
    BY <1>t, <2>5 DEF rememberMetaTx, Answer, Goto
  <2> QED
    BY <2>1, <2>2, <2>3, <2>4, <2>5
<1>l. /\ Locked = {"expect", "expectHub", "send", "failed", "note", "remember"}
      /\ NoRequest \notin Requests
  BY ReorderAssumption DEF Locked
<1>4. ReservationMatches'
  <2>1. \A q \in Requests : pc'[q] \in Locked <=> userLock' = q
    BY <1>2, <1>3, <1>l DEF ReservationMatches
  <2>2. ASSUME NEW q \in Requests, pc'[q] \in {"send", "note"}, senders'.id # 0
        PROVE  senders'.next = nonce'[q]
    BY <1>1, <1>2, <1>3, <2>2, NoChainId DEF ReservationMatches
  <2> QED
    BY <2>1, <2>2 DEF ReservationMatches
<1>5. HubMeansNoChain'
  BY <1>1, <1>2, <1>3, NoChainId DEF HubMeansNoChain
<1>6. ChainIds'
  BY <1>t, <1>1, NoChainId DEF ChainIds
<1>7. ChainAhead'
  BY <1>1, NoChainId DEF ChainAhead
<1>8. ReservedLate'
  BY <1>1, <1>2, <1>3 DEF ReservedLate
<1>9. SentLate'
  BY <1>t, <1>1, <1>2, <1>3 DEF SentLate
<1>10. NoteIsLast'
  BY <1>1, <1>2, <1>3 DEF NoteIsLast
<1>11. ChainOrder'
  BY <1>1 DEF ChainOrder
<1> QED
  BY <1>4, <1>5, <1>6, <1>7, <1>8, <1>9, <1>10, <1>11

\* The holder sends: its transaction is the new end of the queue.
LEMMA SendKeeps ==
    ASSUME ReservationInv, TypeOK', NEW r \in Requests, Send(r) \/ SendFails(r)
    PROVE  ReservationInv'
<1> USE DEF ReservationInv
<1>t. /\ pc \in [Requests -> PCs] /\ sent \in Seq(Requests)
      /\ \A i \in DOMAIN sent : sent[i] \in Requests
      /\ chainSent \in [Requests -> Nat]
  BY TypeFacts
<1>1. /\ UNCHANGED <<senders, lastChain, nonce, chainSent, userLock, result>>
      /\ \A q \in Requests \ {r} : pc'[q] = pc[q]
      /\ pc[r] = "send"
  BY <1>t DEF Send, SendFails, trackerVars, Goto
<1>2. \/ pc'[r] = "note" /\ sent' = Append(sent, r)
      \/ pc'[r] = "failed" /\ (sent' = Append(sent, r) \/ sent' = sent)
  BY <1>t DEF Send, SendFails, Goto
<1>l. Locked = {"expect", "expectHub", "send", "failed", "note", "remember"}
  BY DEF Locked
<1>u. userLock = r /\ \A q \in Requests \ {r} : pc[q] \notin Locked
  BY <1>1, <1>l DEF ReservationMatches
<1>s. Len(sent) \in Nat /\ DOMAIN sent = 1..Len(sent)
  BY <1>t
<1>a. sent' = Append(sent, r) =>
        /\ DOMAIN sent' = 1..(Len(sent) + 1) /\ Len(sent') = Len(sent) + 1
        /\ sent'[Len(sent) + 1] = r
        /\ \A i \in DOMAIN sent : sent'[i] = sent[i]
  BY <1>t
<1>b. \A i \in DOMAIN sent : sent[i] # r
  BY <1>1 DEF SentLate
<1>3. ReservationMatches'
  <2>1. \A q \in Requests : pc'[q] \in Locked <=> userLock' = q
    BY <1>1, <1>2, <1>l DEF ReservationMatches
  <2> QED
    BY <1>1, <1>2, <2>1 DEF ReservationMatches
<1>4. HubMeansNoChain' /\ ChainIds' /\ ChainAhead' /\ ReservedLate'
  BY <1>1, <1>2 DEF HubMeansNoChain, ChainIds, ChainAhead, ReservedLate
<1>5. SentLate'
  <2>1. CASE sent' = sent
    BY <2>1, <1>t, <1>b, <1>1, <1>2 DEF SentLate
  <2>2. CASE sent' = Append(sent, r)
    <3> SUFFICES ASSUME NEW i \in DOMAIN sent'
                 PROVE  pc'[sent'[i]] \in {"failed", "note", "remember", "done"}
      BY DEF SentLate
    <3>1. CASE i = Len(sent) + 1
      BY <2>2, <3>1, <1>a, <1>2
    <3>2. CASE i \in DOMAIN sent
      BY <2>2, <3>2, <1>a, <1>b, <1>t, <1>1 DEF SentLate
    <3> QED
      BY <2>2, <3>1, <3>2, <1>a, <1>s
  <2> QED
    BY <2>1, <2>2, <1>2
<1>6. NoteIsLast'
  <2> SUFFICES ASSUME NEW q \in Requests, pc'[q] = "note"
               PROVE  \E k \in DOMAIN sent' : /\ k = Len(sent')
                                              /\ \A i \in DOMAIN sent' : sent'[i] = q <=> i = k
    BY DEF NoteIsLast
  <2>1. q = r /\ sent' = Append(sent, r)
    BY <1>1, <1>2, <1>u, <1>l
  <2>2. Len(sent') \in DOMAIN sent'
    BY <2>1, <1>a, <1>s
  <2>3. ASSUME NEW i \in DOMAIN sent'
        PROVE  sent'[i] = q <=> i = Len(sent')
    <3>1. i = Len(sent) + 1 \/ i \in DOMAIN sent
      BY <2>1, <1>a, <1>s
    <3>2. i \in DOMAIN sent => i # Len(sent')
      BY <2>1, <1>a, <1>s
    <3> QED
      BY <2>1, <3>1, <3>2, <1>a, <1>b
  <2> QED
    BY <2>2, <2>3
<1>7. ChainOrder'
  <2>0. chainSent[r] = 0
    BY <1>1 DEF ReservedLate
  <2>1. CASE sent' = sent
    BY <2>1, <1>1 DEF ChainOrder
  <2>2. CASE sent' = Append(sent, r)
    <3> SUFFICES ASSUME NEW i \in DOMAIN sent', NEW j \in DOMAIN sent', i < j,
                        chainSent[sent'[i]] # 0,
                        chainSent[sent'[i]] = chainSent[sent'[j]]
                 PROVE  nonce[sent'[i]] < nonce[sent'[j]]
      BY <1>1 DEF ChainOrder
    <3>1. i # Len(sent) + 1 /\ j # Len(sent) + 1
      BY <2>0, <2>2, <1>a
    <3>2. i \in DOMAIN sent /\ j \in DOMAIN sent
      BY <3>1, <2>2, <1>a, <1>s
    <3> QED
      BY <3>2, <2>2, <1>a DEF ChainOrder
  <2> QED
    BY <2>1, <2>2, <1>2
<1> QED
  BY <1>3, <1>4, <1>5, <1>6, <1>7

\* The holder notes its send: on the live chain, which expects exactly its
\* nonce, or on a new one with a fresh identity (tracker.go, reserveLocked).
LEMMA NoteKeeps ==
    ASSUME ReservationInv, TypeOK', NEW r \in Requests, noteSent(r)
    PROVE  ReservationInv'
<1> USE DEF ReservationInv
<1>t. /\ pc \in [Requests -> PCs] /\ nonce \in [Requests -> Nat] /\ lastChain \in Nat
      /\ chainSent \in [Requests -> Nat] /\ senders \in Chain
      /\ \A i \in DOMAIN sent : sent[i] \in Requests
  BY TypeFacts
<1>1. /\ UNCHANGED <<nonce, userLock, sent, result>>
      /\ \A q \in Requests \ {r} : pc'[q] = pc[q] /\ chainSent'[q] = chainSent[q]
      /\ pc[r] = "note" /\ pc'[r] = "remember" /\ chainSent'[r] = senders'.id
  BY <1>t DEF noteSent, Goto
<1>l. Locked = {"expect", "expectHub", "send", "failed", "note", "remember"}
  BY DEF Locked
<1>u. \A q \in Requests \ {r} : pc[q] \notin Locked
  BY <1>1, <1>l DEF ReservationMatches
<1>2. \/ /\ senders'.id = lastChain + 1 /\ lastChain' = lastChain + 1
         /\ senders'.next = nonce[r] + 1
      \/ /\ senders'.id = senders.id /\ lastChain' = lastChain /\ senders.id # 0
         /\ senders'.next = nonce[r] + 1 /\ senders.next = nonce[r]
  <2>1. reserveLocked(nonce[r])
    BY DEF noteSent
  <2>2. CASE chainLocked.id = 0
    BY <2>1, <2>2 DEF reserveLocked
  <2>3. CASE chainLocked.id # 0
    <3>1. chainLocked = senders
      BY <2>3, NoChainId DEF chainLocked
    <3>2. senders.next = nonce[r]
      BY <1>1, <2>3, <3>1 DEF ReservationMatches
    <3>3. nonce[r] \in Nat
      BY <1>t
    <3>4. /\ senders' = [senders EXCEPT !.next = IF @ > nonce[r] + 1 THEN @ ELSE nonce[r] + 1,
                                       !.pending = @ + 1, !.expiry = FALSE]
          /\ lastChain' = lastChain
      BY <2>1, <2>3, <3>1 DEF reserveLocked
    <3>5. (IF senders.next > nonce[r] + 1 THEN senders.next ELSE nonce[r] + 1) = nonce[r] + 1
      BY <3>2, <3>3
    <3> QED
      BY <1>t, <2>3, <3>1, <3>2, <3>4, <3>5 DEF Chain
  <2> QED
    BY <2>2, <2>3
<1>3. ReservationMatches'
  <2>1. \A q \in Requests : pc'[q] \in Locked <=> userLock' = q
    BY <1>1, <1>l DEF ReservationMatches
  <2>2. \A q \in Requests : pc'[q] \notin {"send", "note"}
    BY <1>1, <1>u, <1>l
  <2> QED
    BY <2>1, <2>2 DEF ReservationMatches
<1>4. HubMeansNoChain'
  BY <1>1, <1>u, <1>l DEF HubMeansNoChain
<1>5. ChainIds'
  <2>1. \A q \in Requests : chainSent[q] \in Nat /\ chainSent[q] <= lastChain
    BY <1>t DEF ChainIds
  <2>2. senders.id <= lastChain
    BY DEF ChainIds
  <2> QED
    BY <1>1, <1>2, <1>t, <2>1, <2>2 DEF ChainIds
<1>6. \A q \in Requests \ {r} : chainSent[q] # 0 /\ chainSent[q] = senders'.id
                                   => nonce[q] < nonce[r]
  <2> SUFFICES ASSUME NEW q \in Requests \ {r}, chainSent[q] # 0, chainSent[q] = senders'.id
               PROVE  nonce[q] < nonce[r]
    OBVIOUS
  <2>1. chainSent[q] <= lastChain /\ chainSent[q] \in Nat
    BY <1>t DEF ChainIds
  <2>2. senders'.id = senders.id /\ senders.next = nonce[r]
    BY <1>2, <1>t, <2>1
  <2> QED
    BY <2>2 DEF ChainAhead
<1>7. ChainAhead'
  <2>1. senders'.next = nonce[r] + 1 /\ \A q \in Requests : nonce[q] \in Nat
    BY <1>2, <1>t
  <2> QED
    BY <1>1, <1>6, <2>1 DEF ChainAhead
<1>8. ReservedLate'
  <2>1. senders'.id # 0
    BY <1>2, <1>t
  <2> QED
    BY <1>1, <2>1 DEF ReservedLate
<1>9. SentLate'
  BY <1>t, <1>1 DEF SentLate
<1>10. NoteIsLast'
  BY <1>1, <1>u, <1>l DEF NoteIsLast
<1>11. ChainOrder'
  <2>1. PICK k \in DOMAIN sent : /\ k = Len(sent)
                                 /\ \A i \in DOMAIN sent : sent[i] = r <=> i = k
    BY <1>1 DEF NoteIsLast
  <2>2. \A i \in DOMAIN sent : i <= k
    BY <2>1, <1>t, TypeFacts
  <2> SUFFICES ASSUME NEW i \in DOMAIN sent, NEW j \in DOMAIN sent, i < j,
                      chainSent'[sent[i]] # 0,
                      chainSent'[sent[i]] = chainSent'[sent[j]]
               PROVE  nonce[sent[i]] < nonce[sent[j]]
    BY <1>1 DEF ChainOrder
  <2>3. i # k /\ sent[i] # r
    <3>1. i \in 1..Len(sent) /\ j \in 1..Len(sent) /\ Len(sent) \in Nat
      BY TypeFacts, SMTT(30)
    <3>2. i # k
      BY <2>1, <3>1
    <3> QED
      BY <2>1, <3>2
  <2>4. CASE j = k
    BY <2>1, <2>3, <2>4, <1>1, <1>6, <1>t
  <2>5. CASE j # k
    BY <2>1, <2>3, <2>5, <1>1, <1>t DEF ChainOrder
  <2> QED
    BY <2>4, <2>5
<1> QED
  BY <1>3, <1>4, <1>5, <1>7, <1>8, <1>9, <1>10, <1>11

LEMMA ReservationStep == ReservationInv /\ [Next]_vars => ReservationInv'
<1> SUFFICES ASSUME ReservationInv, [Next]_vars PROVE ReservationInv'
  OBVIOUS
<1>t. TypeOK /\ ReservedLate /\ TypeOK'
  BY TypeStep DEF ReservationInv
<1>1. ASSUME NEW r \in Requests, NEW n \in Nonces, Arrive(r, n)
      PROVE  ReservationInv'
  BY <1>t, <1>1, ArriveKeeps
<1>2. ASSUME NEW r \in Requests, RequestStep(r) \/ rememberMetaTx(r) \/ ClientGone(r)
      PROVE  ReservationInv'
  <2>1. CASE Send(r) \/ SendFails(r)
    BY <1>t, <2>1, SendKeeps
  <2>2. CASE noteSent(r)
    BY <1>t, <2>2, NoteKeeps
  <2>3. CASE \/ lockUser(r) \/ ExpectCached(r) \/ ExpectHub(r)
             \/ ForgetAfterFailure(r) \/ rememberMetaTx(r)
    BY <1>t, <2>3, HolderKeeps
  <2>4. CASE \/ TurnCached(r) \/ TurnHub(r) \/ TurnInTurn(r) \/ TurnHold(r)
             \/ TurnExpired(r) \/ TurnSurplus(r) \/ TurnSleep(r)
             \/ DeadlinePasses(r) \/ TurnWake(r) \/ ClientGone(r)
    BY <1>t, <2>4, WaitAside, AsideKeeps
  <2> QED
    BY <1>2, <2>1, <2>2, <2>3, <2>4 DEF RequestStep
<1>3. CASE \/ \E r \in Requests : MemoryForgets(r) \/ ConsultReceipt(r) \/ SyncPanics(r)
           \/ \E p \in Readers, t \in Requests : SyncReads(p, t)
           \/ \E p \in Readers : ReaderRuns(p)
           \/ WatcherRuns \/ Mine \/ TimePasses \/ UNCHANGED vars
  BY <1>t, <1>3, ServiceAside, AsideKeeps
<1> QED
  BY <1>1, <1>2, <1>3 DEF Next, Running, RequestRuns, Quiet

LEMMA ReservationAlways == Spec => []ReservationInv
<1>1. Init => ReservationInv
  BY ReservationInit
<1>2. ReservationInv /\ [Next]_vars => ReservationInv'
  BY ReservationStep
<1> QED
  BY <1>1, <1>2, PTL DEF Spec

\* Whatever the node, the hub and the clients do, only the holder of the
\* user's lock is about to send, and the live chain expects exactly its nonce
\* until it has noted the send (reorder.go, sendReordered and noteSent).
THEOREM ReservationCorrect == Spec => []ReservationMatches
<1>1. ReservationInv => ReservationMatches
  BY DEF ReservationInv
<1> QED
  BY <1>1, ReservationAlways, PTL

\* Whatever is lost, late or dropped, the metatx reserved on one chain are
\* queued in strictly increasing nonce order: no nonce is sent twice on a
\* chain (reorder.go, sendReordered).
THEOREM ChainOrderCorrect == Spec => []ChainOrder
<1>1. ReservationInv => ChainOrder
  BY DEF ReservationInv
<1> QED
  BY <1>1, ReservationAlways, PTL

-----------------------------------------------------------------------------
(***************************************************************************)
(* The registry of held requests is exact.                                 *)
(*                                                                         *)
(* What evictLocked and unholdLocked take out of the registry is found by  *)
(* a scan.  That the scan finds what it looks for is induction over the    *)
(* registry, done with the least element of a set of positions.            *)
(***************************************************************************)

\* Every non-empty set of naturals has a least element: the induction that the
\* proofs below need.
LEMMA LeastNatural ==
    ASSUME NEW T \in SUBSET Nat, T # {}
    PROVE  \E x \in T : \A y \in T : x <= y
<1> DEFINE R == OpToRel(<, Nat)
<1>1. IsWellFoundedOn(R, Nat)
  BY NatLessThanWellFounded
<1>2. \A x, y \in Nat : <<y, x>> \in R <=> y < x
  BY DEF OpToRel
<1> HIDE DEF R
<1>3. PICK x \in T : \A y \in T : ~(<<y, x>> \in R)
  BY <1>1, WFMin
<1>4. ASSUME NEW y \in T PROVE x <= y
  <2>1. x \in Nat /\ y \in Nat /\ ~(<<y, x>> \in R)
    BY <1>3
  <2>2. ~(y < x)
    BY <1>2, <2>1
  <2> QED
    BY <2>1, <2>2
<1> QED
  BY <1>4

\* i is the place of the highest nonce among the first k of the registry, of
\* equals the last.
HighestOf(k, i) ==
    \A j \in 1..k : \/ nonce[held[j]] < nonce[held[i]]
                    \/ nonce[held[j]] = nonce[held[i]] /\ j <= i

\* With something held, highestHeldLocked is one of the held (tracker.go).
LEMMA HighestIsHeld ==
    ASSUME TrackerTypeOK, held # <<>>
    PROVE  highestHeldLocked \in HeldSet /\ highestHeldLocked \in Requests
<1> DEFINE L == Len(held)
           Bad0 == {k \in 1..L : ~\E i \in 1..k : HighestOf(k, i)}
<1>t. /\ held \in Seq(Requests) /\ L \in Nat /\ DOMAIN held = 1..L /\ L # 0
      /\ \A i \in 1..L : held[i] \in Requests /\ nonce[held[i]] \in Nat
  BY DEF TrackerTypeOK
<1>1. Bad0 = {}
  <2> SUFFICES ASSUME Bad0 # {} PROVE FALSE
    OBVIOUS
  <2>1. Bad0 \in SUBSET Nat
    BY <1>t
  <2>2. PICK k \in Bad0 : \A m \in Bad0 : k <= m
    BY <2>1, LeastNatural
  <2>3. k \in 1..L /\ ~\E i \in 1..k : HighestOf(k, i)
    OBVIOUS
  <2> HIDE DEF Bad0
  <2>4. k # 1
    <3> SUFFICES ASSUME k = 1 PROVE FALSE
      OBVIOUS
    <3>1. HighestOf(k, 1)
      BY <1>t DEF HighestOf
    <3> QED
      BY <2>3, <3>1
  <2>5. k - 1 \in 1..L /\ k - 1 \notin Bad0
    BY <1>t, <2>2, <2>3, <2>4
  <2>6. PICK i \in 1..(k - 1) : HighestOf(k - 1, i)
    BY <2>5 DEF Bad0
  <2>7. i \in 1..L /\ i \in 1..k /\ i < k /\ nonce[held[i]] \in Nat /\ nonce[held[k]] \in Nat
    BY <1>t, <2>3, <2>6
  <2>8. CASE nonce[held[k]] < nonce[held[i]]
    <3>a. \A j \in 1..k : j = k \/ j \in 1..(k - 1)
      BY <2>3
    <3>1. HighestOf(k, i)
      BY <3>a, <2>6, <2>8 DEF HighestOf
    <3> QED
      BY <2>3, <2>7, <3>1
  <2>9. CASE nonce[held[i]] <= nonce[held[k]]
    <3>1. ASSUME NEW j \in 1..k
          PROVE  \/ nonce[held[j]] < nonce[held[k]]
                 \/ nonce[held[j]] = nonce[held[k]] /\ j <= k
      <4>1. CASE j = k
        BY <2>7, <4>1
      <4>2. CASE j # k
        <5>1. j \in 1..(k - 1) /\ j \in 1..L
          BY <1>t, <2>3, <4>2
        <5>2. nonce[held[j]] <= nonce[held[i]] /\ nonce[held[j]] \in Nat
          BY <1>t, <2>6, <2>7, <5>1 DEF HighestOf
        <5> QED
          BY <2>3, <2>7, <2>9, <5>1, <5>2
      <4> QED
        BY <4>1, <4>2
    <3>2. HighestOf(k, k) /\ k \in 1..k
      BY <2>3, <3>1 DEF HighestOf
    <3> QED
      BY <2>3, <3>2
  <2> QED
    BY <2>7, <2>8, <2>9
<1>2. L \in 1..L
  BY <1>t
<1>3. \E i \in 1..L : HighestOf(L, i)
  BY <1>1, <1>2
<1>4. PICK i \in DOMAIN held : highestHeldLocked = held[i]
  BY <1>3, <1>t DEF highestHeldLocked, HighestOf
<1> QED
  BY <1>4, <1>t DEF HeldSet

\* The registry names nobody twice.
HeldOnce == \A i, j \in DOMAIN held : held[i] = held[j] => i = j

\* unhold takes out its metatx and nothing else (tracker.go, unholdLocked).
LEMMA UnheldExact ==
    ASSUME held \in Seq(Requests), HeldOnce, NEW r, NEW h, h = Unheld(r)
    PROVE  /\ \A i, j \in DOMAIN h : h[i] = h[j] => i = j
           /\ \A q : q \in {h[i] : i \in DOMAIN h} <=> q \in HeldSet /\ q # r
<1>1. CASE r \notin HeldSet
  BY <1>1 DEF Unheld, HeldOnce, HeldSet
<1>2. CASE r \in HeldSet
  <2> DEFINE c == CHOOSE j \in DOMAIN held : held[j] = r
             L == Len(held)
             front == SubSeq(held, 1, c - 1)
             back == SubSeq(held, c + 1, L)
  <2>1. c \in 1..L /\ L \in Nat /\ DOMAIN held = 1..L /\ held[c] = r
    BY <1>2 DEF HeldSet
  <2>2. h = front \o back
    BY <1>2 DEF Unheld
  <2>a. \A k \in 1..L : held[k] \in Requests
    OBVIOUS
  <2> HIDE DEF c, L
  <2>3. /\ front \in Seq(Requests) /\ Len(front) = c - 1
        /\ \A k \in 1..(c - 1) : front[k] = held[k]
    <3>1. \A k \in 1..(c - 1) : held[k] \in Requests
      BY <2>1, <2>a
    <3> QED
      BY <2>1, <3>1, SubSeqProperties
  <2>4. /\ back \in Seq(Requests) /\ Len(back) = L - c
        /\ \A k \in 1..(L - c) : back[k] = held[c + k]
    <3>1. \A k \in (c + 1)..L : held[k] \in Requests
      BY <2>1, <2>a
    <3>2. /\ back \in Seq(Requests)
          /\ Len(back) = IF c + 1 <= L THEN L - (c + 1) + 1 ELSE 0
          /\ \A k \in 1..(L - (c + 1) + 1) : back[k] = held[(c + 1) + k - 1]
      BY <2>1, <3>1, SubSeqProperties
    <3>3. L - (c + 1) + 1 = L - c /\ \A k \in Nat : (c + 1) + k - 1 = c + k
      BY <2>1
    <3> HIDE DEF back
    <3>6. c + 1 <= L \/ L - c = 0
      BY <2>1
    <3>4. Len(back) = L - c
      BY <2>1, <3>2, <3>3, <3>6
    <3>5. \A k \in 1..(L - c) : back[k] = held[c + k]
      BY <3>2, <3>3
    <3> QED
      BY <3>2, <3>4, <3>5
  <2> HIDE DEF front, back
  <2>5. /\ Len(h) = L - 1 /\ DOMAIN h = 1..(L - 1)
        /\ \A k \in 1..(L - 1) : h[k] = IF k < c THEN held[k] ELSE held[k + 1]
    <3>b. /\ front \o back \in Seq(Requests)
          /\ Len(front \o back) = Len(front) + Len(back)
          /\ \A k \in 1..(Len(front) + Len(back)) :
                (front \o back)[k] = IF k <= Len(front) THEN front[k] ELSE back[k - Len(front)]
      BY <2>3, <2>4, ConcatProperties
    <3>a. /\ h \in Seq(Requests) /\ Len(h) = Len(front) + Len(back)
          /\ \A k \in 1..(Len(front) + Len(back)) :
                h[k] = IF k <= Len(front) THEN front[k] ELSE back[k - Len(front)]
      BY <2>2, <3>b, Zenon
    <3>1. /\ h \in Seq(Requests) /\ Len(h) = (c - 1) + (L - c)
          /\ \A k \in 1..Len(h) : h[k] = IF k <= c - 1 THEN front[k] ELSE back[k - (c - 1)]
      BY <2>3, <2>4, <3>a
    <3>2. Len(h) = L - 1 /\ DOMAIN h = 1..(L - 1)
      BY <2>1, <3>1
    <3>3. ASSUME NEW k \in 1..(L - 1)
          PROVE  h[k] = IF k < c THEN held[k] ELSE held[k + 1]
      <4>1. CASE k < c
        BY <2>1, <2>3, <3>1, <3>2, <4>1
      <4>2. CASE ~(k < c)
        <5>1. k - (c - 1) \in 1..(L - c) /\ c + (k - (c - 1)) = k + 1
          BY <2>1, <4>2
        <5>2. back[k - (c - 1)] = held[k + 1]
          BY <2>4, <5>1
        <5> QED
          BY <2>1, <3>1, <3>2, <4>2, <5>2
      <4> QED
        BY <4>1, <4>2
    <3> QED
      BY <3>2, <3>3
  <2> DEFINE P(k) == IF k < c THEN k ELSE k + 1
  <2>6. /\ \A k \in 1..(L - 1) : P(k) \in 1..L /\ P(k) # c /\ h[k] = held[P(k)]
        /\ \A i, j \in 1..(L - 1) : P(i) = P(j) => i = j
        /\ \A m \in 1..L : m # c => \E k \in 1..(L - 1) : P(k) = m
    <3>1. \A k \in 1..(L - 1) : P(k) \in 1..L /\ P(k) # c /\ h[k] = held[P(k)]
      BY <2>1, <2>5
    <3>2. \A i, j \in 1..(L - 1) : P(i) = P(j) => i = j
      BY <2>1
    <3>3. ASSUME NEW m \in 1..L, m # c PROVE \E k \in 1..(L - 1) : P(k) = m
      <4>1. CASE m < c
        BY <2>1, <4>1
      <4>2. CASE m > c
        <5>1. m - 1 \in 1..(L - 1) /\ P(m - 1) = m
          BY <2>1, <4>2
        <5> QED
          BY <5>1
      <4> QED
        BY <2>1, <3>3, <4>1, <4>2
    <3> QED
      BY <3>1, <3>2, <3>3
  <2> HIDE DEF P
  <2>7. ASSUME NEW i \in DOMAIN h, NEW j \in DOMAIN h, h[i] = h[j] PROVE i = j
    <3>1. i \in 1..(L - 1) /\ j \in 1..(L - 1)
      BY <2>5
    <3>2. held[P(i)] = held[P(j)] /\ P(i) \in DOMAIN held /\ P(j) \in DOMAIN held
      BY <2>1, <2>6, <2>7, <3>1
    <3>3. P(i) = P(j)
      BY <3>2 DEF HeldOnce
    <3> QED
      BY <2>6, <3>1, <3>3
  <2>8. ASSUME NEW q PROVE q \in {h[i] : i \in DOMAIN h} <=> q \in HeldSet /\ q # r
    <3>1. ASSUME NEW i \in DOMAIN h, q = h[i] PROVE q \in HeldSet /\ q # r
      <4>1. P(i) \in DOMAIN held /\ P(i) # c /\ q = held[P(i)] /\ c \in DOMAIN held
        BY <2>1, <2>5, <2>6, <3>1
      <4>2. q # r
        BY <2>1, <4>1 DEF HeldOnce
      <4> QED
        BY <4>1, <4>2 DEF HeldSet
    <3>2. ASSUME q \in HeldSet, q # r PROVE q \in {h[i] : i \in DOMAIN h}
      <4>1. PICK m \in 1..L : held[m] = q
        BY <2>1, <3>2 DEF HeldSet
      <4>2. PICK k \in 1..(L - 1) : P(k) = m
        BY <2>1, <2>6, <3>2, <4>1
      <4> QED
        BY <2>5, <2>6, <4>1, <4>2
    <3> QED
      BY <3>1, <3>2
  <2> QED
    BY <2>7, <2>8
<1> QED
  BY <1>1, <1>2

\* Who should be in the registry.
Listed(r) == pc[r] \in Waiting /\ lastExpected[r] # -1 /\ ~evicted[r]

\* HeldExact is not inductive: what lastExpected says of the place of a request
\* is missing, and that an evicted one was held before, so that it is not held
\* again (reorder_turn.go, awaitTurn).
HeldLocal(r) ==
    /\ pc[r] \notin Waiting => lastExpected[r] = -1
    /\ pc[r] \in {"surplus", "arm", "asleep"} => lastExpected[r] # -1
    /\ evicted[r] => pc[r] # "idle"
    /\ evicted[r] /\ pc[r] \in Waiting => lastExpected[r] # -1

HeldInv ==
    /\ HeldOnce
    /\ \A r \in Requests : (r \in HeldSet <=> Listed(r)) /\ HeldLocal(r)

\* A step of r leaves the others where they are.
OthersStay(r) ==
    \A q \in Requests \ {r} : /\ pc'[q] = pc[q]
                              /\ lastExpected'[q] = lastExpected[q]
                              /\ evicted'[q] = evicted[q]

\* A step that does not touch the registry.
LEMMA HeldMove ==
    ASSUME HeldInv, NEW r \in Requests, UNCHANGED held, OthersStay(r),
           HeldLocal(r)', Listed(r)' <=> Listed(r)
    PROVE  HeldInv'
<1>1. HeldOnce' /\ HeldSet' = HeldSet
  BY DEF HeldInv, HeldOnce, HeldSet
<1>2. \A q \in Requests \ {r} : (q \in HeldSet <=> Listed(q)')  /\ HeldLocal(q)'
  BY DEF HeldInv, OthersStay, Listed, HeldLocal
<1> QED
  BY <1>1, <1>2 DEF HeldInv

\* A step after which r is not in the registry and need not be.
LEMMA HeldLeave ==
    ASSUME ReorderTypeOK, HeldInv, NEW r \in Requests, held' = Unheld(r), OthersStay(r),
           HeldLocal(r)', ~Listed(r)'
    PROVE  HeldInv'
<1>1. /\ HeldOnce'
      /\ \A q : q \in HeldSet' <=> q \in HeldSet /\ q # r
  <2>1. held \in Seq(Requests) /\ HeldOnce
    BY DEF ReorderTypeOK, TrackerTypeOK, HeldInv
  <2>2. PICK h : h = Unheld(r)
    OBVIOUS
  <2>3. /\ \A i, j \in DOMAIN h : h[i] = h[j] => i = j
        /\ \A q : q \in {h[i] : i \in DOMAIN h} <=> q \in HeldSet /\ q # r
    BY <2>1, <2>2, UnheldExact
  <2> QED
    BY <2>2, <2>3 DEF HeldOnce, HeldSet
<1>2. \A q \in Requests \ {r} : (q \in HeldSet <=> Listed(q)')  /\ HeldLocal(q)'
  BY DEF HeldInv, OthersStay, Listed, HeldLocal
<1> QED
  BY <1>1, <1>2 DEF HeldInv

\* An answer, or the end of the wait, takes a request out of it for good.
LEMMA AnswerLeaves ==
    ASSUME ReorderTypeOK, HeldInv, NEW r \in Requests, UNCHANGED evicted,
           NEW l \in {"done", "lock"}, Goto(r, l),
           lastExpected' = [lastExpected EXCEPT ![r] = -1]
    PROVE  OthersStay(r) /\ HeldLocal(r)' /\ ~Listed(r)'
<1>1. pc' = [pc EXCEPT ![r] = l] /\ pc \in [Requests -> PCs]
      /\ lastExpected \in [Requests -> Nat \cup {-1}]
  BY DEF ReorderTypeOK, Goto
<1>2. pc'[r] \notin Waiting /\ pc'[r] # "idle" /\ lastExpected'[r] = -1
  BY <1>1 DEF Waiting
<1> QED
  BY <1>1, <1>2 DEF OthersStay, HeldLocal, Listed, Waiting

\* Moving on without touching what awaitTurn keeps.
LEMMA GotoStays ==
    ASSUME ReorderTypeOK, HeldInv, NEW r \in Requests, UNCHANGED <<held, evicted, lastExpected>>,
           NEW l \in PCs \ {"idle"}, Goto(r, l),
           \/ pc[r] \in Waiting /\ l \in {"turn", "turnHub", "decide"}
           \/ pc[r] \in {"surplus", "arm", "asleep"} /\ l \in Waiting
           \/ pc[r] \notin Waiting /\ l \notin Waiting
           \/ pc[r] = "idle" /\ l = "turn"
    PROVE  HeldInv'
<1>1. pc' = [pc EXCEPT ![r] = l] /\ pc \in [Requests -> PCs]
  BY DEF ReorderTypeOK, Goto
<1>2. pc'[r] = l /\ OthersStay(r) /\ HeldLocal(r)
  BY <1>1 DEF OthersStay, HeldInv
<1>3. HeldLocal(r)' /\ (Listed(r)' <=> Listed(r))
  BY <1>2 DEF HeldLocal, Listed, Waiting
<1> QED
  BY <1>2, <1>3, HeldMove

\* Answering a request that is not waiting: it was not held.
LEMMA AnswerStays ==
    ASSUME ReorderTypeOK, HeldInv, NEW r \in Requests, UNCHANGED <<held, evicted>>,
           NEW code, Answer(r, code), pc[r] \notin Waiting
    PROVE  HeldInv'
<1>1. OthersStay(r) /\ HeldLocal(r)' /\ ~Listed(r)'
  BY AnswerLeaves DEF Answer
<1>2. ~Listed(r)
  BY DEF Listed
<1> QED
  BY <1>1, <1>2, HeldMove

\* Leaving the wait with an answer takes it out of the registry.
LEMMA AnswerUnholds ==
    ASSUME ReorderTypeOK, HeldInv, NEW r \in Requests, UNCHANGED evicted,
           NEW code, Answer(r, code), held' = Unheld(r)
    PROVE  HeldInv'
<1>1. OthersStay(r) /\ HeldLocal(r)' /\ ~Listed(r)'
  BY AnswerLeaves DEF Answer
<1> QED
  BY <1>1, HeldLeave

\* hold registers a metatx the first time it waits (tracker.go, hold).
LEMMA HoldHeld ==
    ASSUME ReorderTypeOK, HeldInv, NEW r \in Requests, TurnHold(r)
    PROVE  HeldInv'
<1>t. /\ pc \in [Requests -> PCs] /\ lastExpected \in [Requests -> Nat \cup {-1}]
      /\ expected[r] \in Nat /\ lastExpected[r] \in Nat \cup {-1}
      /\ held \in Seq(Requests)
  BY DEF ReorderTypeOK, TrackerTypeOK
<1>1. /\ pc[r] = "decide" /\ pc'[r] = "surplus" /\ evicted' = evicted
      /\ lastExpected'[r] = IF Renews(r) THEN expected[r] ELSE lastExpected[r]
      /\ OthersStay(r)
  BY <1>t DEF TurnHold, Goto, OthersStay
<1>2. lastExpected'[r] # -1
  BY <1>1, <1>t DEF Renews
<1>3. HeldLocal(r) /\ (r \in HeldSet <=> Listed(r))
  BY DEF HeldInv
<1>4. CASE lastExpected[r] # -1
  <2>1. held' = held
    BY <1>4 DEF TurnHold
  <2>2. HeldLocal(r)' /\ (Listed(r)' <=> Listed(r))
    BY <1>1, <1>2, <1>3, <1>4 DEF HeldLocal, Listed, Waiting
  <2> QED
    BY <1>1, <2>1, <2>2, HeldMove
<1>5. CASE lastExpected[r] = -1
  <2>1. held' = Append(held, r)
    BY <1>5 DEF TurnHold
  <2>2. ~evicted[r] /\ r \notin HeldSet
    BY <1>1, <1>3, <1>5 DEF HeldLocal, Listed, Waiting
  <2>3. HeldLocal(r)' /\ Listed(r)'
    BY <1>1, <1>2, <2>2 DEF HeldLocal, Listed, Waiting
  <2>4. /\ Len(held) \in Nat /\ DOMAIN held = 1..Len(held)
        /\ DOMAIN held' = 1..(Len(held) + 1)
        /\ \A i \in 1..Len(held) : held'[i] = held[i]
        /\ held'[Len(held) + 1] = r
    BY <1>t, <2>1
  <2>5. HeldOnce'
    <3> SUFFICES ASSUME NEW i \in DOMAIN held', NEW j \in DOMAIN held', held'[i] = held'[j]
                 PROVE  i = j
      BY DEF HeldOnce
    <3>1. \A k \in DOMAIN held' : k \in DOMAIN held \/ k = Len(held) + 1
      BY <2>4
    <3>2. \A k \in DOMAIN held : held[k] # r
      BY <2>2 DEF HeldSet
    <3> QED
      BY <2>4, <3>1, <3>2 DEF HeldInv, HeldOnce
  <2>6. \A q : q \in HeldSet' <=> q \in HeldSet \/ q = r
    <3>1. \A k \in DOMAIN held' : k \in DOMAIN held \/ k = Len(held) + 1
      BY <2>4
    <3>2. Len(held) + 1 \in DOMAIN held' /\ DOMAIN held \subseteq DOMAIN held'
      BY <2>4
    <3> QED
      BY <2>4, <3>1, <3>2 DEF HeldSet
  <2>7. \A q \in Requests \ {r} : (q \in HeldSet <=> Listed(q)')  /\ HeldLocal(q)'
    BY <1>1 DEF HeldInv, OthersStay, Listed, HeldLocal
  <2> QED
    BY <2>3, <2>5, <2>6, <2>7 DEF HeldInv
<1> QED
  BY <1>4, <1>5

\* The door: the arriving one waits, is rejected, or takes the place of the
\* held one of highest nonce (reorder.go, makeRoomFor).
LEMMA ArriveHeld ==
    ASSUME ReorderTypeOK, HeldInv, NEW r \in Requests, NEW n \in Nonces, Arrive(r, n)
    PROVE  HeldInv'
<1>t. /\ pc \in [Requests -> PCs] /\ pc[r] = "idle" /\ TrackerTypeOK
      /\ evicted \in [Requests -> BOOLEAN]
  BY DEF ReorderTypeOK, TrackerTypeOK, Arrive
<1>w. "idle" \notin Waiting /\ "turn" \in PCs \ {"idle"}
  BY DEF Waiting, PCs
<1>1. CASE Goto(r, "turn") /\ UNCHANGED <<held, evicted, lastExpected>>
  BY <1>1, <1>t, <1>w, GotoStays
<1>2. CASE RejectSurplus(r, inflightLocked) /\ UNCHANGED <<held, evicted>>
  BY <1>2, <1>t, <1>w, AnswerStays DEF RejectSurplus
<1>3. CASE /\ held # <<>> /\ evictHeldLocked(highestHeldLocked)
           /\ Goto(r, "turn") /\ UNCHANGED lastExpected
  <2>1. PICK h \in Requests : h = highestHeldLocked /\ h \in HeldSet
    BY <1>3, <1>t, HighestIsHeld
  <2>2. Listed(h) /\ h # r
    BY <1>t, <1>w, <2>1 DEF HeldInv, Listed
  <2>3. /\ held' = Unheld(h) /\ evicted' = [evicted EXCEPT ![h] = TRUE]
        /\ pc' = [pc EXCEPT ![r] = "turn"] /\ lastExpected' = lastExpected
    BY <1>3, <2>1 DEF evictHeldLocked, Goto
  <2>4. evicted'[h] /\ pc'[r] = "turn" /\ pc'[h] = pc[h]
    BY <1>t, <2>2, <2>3
  <2>5. \A q \in Requests : /\ q # h => evicted'[q] = evicted[q]
                            /\ q # r => pc'[q] = pc[q]
    BY <1>t, <2>3
  <2>6. /\ HeldOnce' /\ \A q : q \in HeldSet' <=> q \in HeldSet /\ q # h
    <3>1. held \in Seq(Requests) /\ HeldOnce
      BY <1>t DEF TrackerTypeOK, HeldInv
    <3>2. PICK s : s = Unheld(h)
      OBVIOUS
    <3>3. /\ \A i, j \in DOMAIN s : s[i] = s[j] => i = j
          /\ \A q : q \in {s[i] : i \in DOMAIN s} <=> q \in HeldSet /\ q # h
      BY <3>1, <3>2, UnheldExact
    <3> QED
      BY <2>3, <3>2, <3>3 DEF HeldOnce, HeldSet
  <2>7. ~Listed(h)' /\ HeldLocal(h)'
    BY <2>2, <2>3, <2>4 DEF Listed, HeldLocal, Waiting
  <2>8. HeldLocal(r)' /\ ~Listed(r)' /\ r \notin HeldSet
    <3>1. HeldLocal(r) /\ lastExpected[r] = -1 /\ ~evicted[r] /\ r \notin HeldSet
      BY <1>t, <1>w DEF HeldInv, HeldLocal, Listed
    <3>2. ~evicted'[r] /\ lastExpected'[r] = -1
      BY <2>2, <2>3, <2>5, <3>1
    <3> QED
      BY <2>4, <3>1, <3>2 DEF HeldLocal, Listed
  <2>9. \A q \in Requests \ {r, h} : (q \in HeldSet <=> Listed(q)')  /\ HeldLocal(q)'
    BY <2>3, <2>5 DEF HeldInv, Listed, HeldLocal
  <2> QED
    BY <2>6, <2>7, <2>8, <2>9 DEF HeldInv
<1> QED
  BY <1>1, <1>2, <1>3 DEF Arrive

\* The goroutine of a request: only awaitTurn holds and takes out, and every
\* way out of the wait takes out (reorder_turn.go).
LEMMA RequestHeld ==
    ASSUME ReorderTypeOK, HeldInv, NEW r \in Requests, RequestStep(r) \/ ClientGone(r)
    PROVE  HeldInv'
<1>w. /\ {"turn", "turnHub", "decide", "surplus", "arm", "asleep"} \subseteq Waiting
      /\ {"lock", "expect", "expectHub", "send", "failed", "note", "remember", "done"}
            \cap Waiting = {}
      /\ {"turn", "turnHub", "decide", "surplus", "arm", "asleep", "lock", "expect",
          "expectHub", "send", "failed", "note", "remember", "done"} \subseteq PCs \ {"idle"}
  BY DEF Waiting, Locked, PCs
<1>1. CASE TurnCached(r)
  BY <1>1, <1>w, GotoStays DEF TurnCached
<1>2. CASE TurnHub(r)
  <2>1. CASE Goto(r, "decide") /\ UNCHANGED <<held, lastExpected>>
    BY <1>2, <2>1, <1>w, GotoStays DEF TurnHub
  <2>2. CASE held' = Unheld(r) /\ Answer(r, "RELAY_ERROR")
    BY <1>2, <2>2, AnswerUnholds DEF TurnHub
  <2> QED
    BY <1>2, <2>1, <2>2 DEF TurnHub
<1>3. CASE TurnInTurn(r) \/ TurnExpired(r)
  <2>1. EndWait(r) /\ UNCHANGED evicted
    BY <1>3 DEF TurnInTurn, TurnExpired
  <2>2. OthersStay(r) /\ HeldLocal(r)' /\ ~Listed(r)'
    BY <2>1, AnswerLeaves DEF EndWait
  <2> QED
    BY <2>1, <2>2, HeldLeave DEF EndWait
<1>4. CASE TurnHold(r)
  BY <1>4, HoldHeld
<1>5. CASE TurnSurplus(r)
  <2>1. CASE held' = Unheld(r) /\ RejectSurplus(r, inflightLocked)
    BY <1>5, <2>1, AnswerUnholds DEF TurnSurplus, RejectSurplus
  <2>2. CASE Goto(r, "arm") /\ UNCHANGED <<held, lastExpected>>
    BY <1>5, <2>2, <1>w, GotoStays DEF TurnSurplus
  <2> QED
    BY <1>5, <2>1, <2>2 DEF TurnSurplus
<1>6. CASE TurnSleep(r)
  BY <1>6, <1>w, GotoStays DEF TurnSleep
<1>7. CASE DeadlinePasses(r)
  BY <1>7 DEF DeadlinePasses, trackerVars, HeldInv, HeldOnce, HeldSet, Listed, HeldLocal
<1>8. CASE TurnWake(r)
  <2>1. CASE held' = Unheld(r) /\ RejectSurplus(r, evictedInflight[r])
    BY <1>8, <2>1, AnswerUnholds DEF TurnWake, RejectSurplus
  <2>2. CASE Goto(r, "turn") /\ UNCHANGED <<held, lastExpected>>
    BY <1>8, <2>2, <1>w, GotoStays DEF TurnWake
  <2> QED
    BY <1>8, <2>1, <2>2 DEF TurnWake
<1>9. CASE ClientGone(r)
  BY <1>9, AnswerUnholds DEF ClientGone
<1>10. CASE lockUser(r)
  BY <1>10, <1>w, GotoStays DEF lockUser, trackerVars
<1>11. CASE ExpectCached(r)
  <2>1. CASE (Goto(r, "send") \/ Goto(r, "expectHub")) /\ UNCHANGED lastExpected
    BY <1>11, <2>1, <1>w, GotoStays DEF ExpectCached
  <2>2. CASE Answer(r, "BAD_NONCE")
    BY <1>11, <2>2, <1>w, AnswerStays DEF ExpectCached
  <2> QED
    BY <1>11, <2>1, <2>2 DEF ExpectCached, Validate
<1>12. CASE ExpectHub(r)
  <2>1. CASE Goto(r, "send") /\ UNCHANGED lastExpected
    BY <1>12, <2>1, <1>w, GotoStays DEF ExpectHub, trackerVars
  <2>2. CASE Answer(r, "BAD_NONCE") \/ Answer(r, "RELAY_ERROR")
    BY <1>12, <2>2, <1>w, AnswerStays DEF ExpectHub, trackerVars
  <2> QED
    BY <1>12, <2>1, <2>2 DEF ExpectHub, Validate
<1>13. CASE Send(r) \/ SendFails(r)
  BY <1>13, <1>w, GotoStays DEF Send, SendFails, trackerVars
<1>14. CASE ForgetAfterFailure(r)
  BY <1>14, <1>w, AnswerStays DEF ForgetAfterFailure
<1>15. CASE noteSent(r)
  BY <1>15, <1>w, GotoStays DEF noteSent
<1> QED
  BY <1>1, <1>2, <1>3, <1>4, <1>5, <1>6, <1>7, <1>8, <1>9, <1>10, <1>11, <1>12,
     <1>13, <1>14, <1>15 DEF RequestStep

LEMMA HeldStep == TypeOK /\ HeldInv /\ [Next]_vars => HeldInv'
<1> SUFFICES ASSUME TypeOK, HeldInv, [Next]_vars PROVE HeldInv'
  OBVIOUS
<1>t. ReorderTypeOK
  BY DEF TypeOK
<1> DEFINE Kept == UNCHANGED <<held, pc, lastExpected, evicted>>
<1>k. Kept => HeldInv'
  BY DEF HeldInv, HeldOnce, HeldSet, Listed, HeldLocal
<1>1. ASSUME NEW r \in Requests, rememberMetaTx(r) PROVE HeldInv'
  <2>1. pc[r] \notin Waiting
    BY <1>1 DEF rememberMetaTx, Waiting
  <2> QED
    BY <1>t, <1>1, <2>1, AnswerStays DEF rememberMetaTx, trackerVars
<1>2. ASSUME NEW r \in Requests, MemoryForgets(r) \/ ConsultReceipt(r) \/ SyncPanics(r)
      PROVE  Kept
  BY <1>2 DEF MemoryForgets, ConsultReceipt, SyncPanics, reorderVars, trackerVars, requestVars
<1>3. ASSUME NEW p \in Readers, NEW t \in Requests, SyncReads(p, t) PROVE Kept
  BY <1>3 DEF SyncReads, readHubEvents, requestVars
<1>4. ASSUME NEW p \in Readers, ReaderRuns(p) PROVE Kept
  BY <1>4 DEF ReaderRuns, claimSettled, releaseSent, ReleaseReserved, reorderVars, trackerVars,
     requestVars
<1>5. CASE WatcherRuns
  <2>1. Kept
    BY <1>5 DEF WatcherRuns, NewBlock, WatcherReads, WatcherPanics, WatcherExpires, readHubEvents,
       reorderVars, trackerVars, requestVars
  <2> QED
    BY <1>k, <2>1
<1>6. CASE Mine \/ TimePasses \/ UNCHANGED vars
  <2>1. Kept
    BY <1>6 DEF Mine, TimePasses, TTLPasses, GraceEnds, vars, reorderVars, trackerVars, requestVars
  <2> QED
    BY <1>k, <2>1
<1>7. ASSUME NEW r \in Requests, RequestRuns(r) \/ ClientGone(r) PROVE HeldInv'
  BY <1>t, <1>1, <1>7, RequestHeld DEF RequestRuns
<1> QED
  BY <1>t, <1>k, <1>2, <1>3, <1>4, <1>5, <1>6, <1>7, ArriveHeld DEF Next, Running, Quiet

\* The registry of held metatx is exact: each waiting one once, none that left,
\* none that was evicted, for any number of requests, any quota and every
\* fault (tracker.go, hold/unhold/evictHeldLocked).
THEOREM HeldExactCorrect == Spec => []HeldExact
<1>1. Init => HeldInv
  BY DEF Init, ReorderInit, TrackerInit, HeldInv, HeldOnce, HeldSet, Listed, HeldLocal, Waiting
<1>2. TypeOK /\ HeldInv /\ [Next]_vars => HeldInv'
  BY HeldStep
<1>3. HeldInv => HeldExact
  BY DEF HeldInv, HeldOnce, Listed, HeldExact
<1> QED
  BY <1>1, <1>2, <1>3, TypeCorrect, PTL DEF Spec

-----------------------------------------------------------------------------
(***************************************************************************)
(* The pending count of the live chain is never short of the metatx in     *)
(* flight on it, and is exact while no sent hash is forgotten.             *)
(*                                                                         *)
(* The argument is one of tokens.  A reserved metatx owns one token, which *)
(* is with the request until it is remembered, then with the memory's      *)
(* entry, then with the one reader that took it out of the entry; the      *)
(* chain gives back a place when that reader spends it.                    *)
(***************************************************************************)

\* An entry holds the chain its metatx was reserved on.
EntryToken ==
    \A r \in Requests : entryChain[r] # 0 => /\ entryChain[r] = chainSent[r]
                                            /\ result[r] = "SENT"

\* Only metatx that were answered are remembered, listed or read.
ReadsSent ==
    /\ \A t \in metaTx \cup todo : result[t] = "SENT"
    /\ \A p \in Readers : reader[p].step # "idle" => result[reader[p].tx] = "SENT"

\* A reader about to release holds the only token of its metatx.
ReaderToken ==
    /\ \A p \in Readers : reader[p].step = "release" =>
            /\ reader[p].chain = chainSent[reader[p].tx]
            /\ entryChain[reader[p].tx] = 0
    /\ \A p, q \in Readers :
            /\ reader[p].step = "release" /\ reader[q].step = "release"
            /\ reader[p].tx = reader[q].tx
            => p = q

\* Who read a rejection dropped the chain, and chains do not come back: what
\* it will not release is not owed to the live one.
RejectedElsewhere ==
    \A p \in Readers : reader[p].step \in {"claim", "take"} /\ reader[p].hubRejected
                          => senders.id = 0 \/ chainSent[reader[p].tx] # senders.id

TokenInv == EntryToken /\ ReadsSent /\ ReaderToken /\ RejectedElsewhere

PendingInv ==
    /\ ReservationInv
    /\ TokenInv
    /\ PendingNotShort
    /\ MemoryMayForget = FALSE => PendingExact

-----------------------------------------------------------------------------
(* Counting. *)

LEMMA InFlightFinite ==
    ASSUME NEW c
    PROVE  /\ IsFiniteSet(InFlightOn(c))
           /\ Cardinality(InFlightOn(c)) \in Nat
<1>1. InFlightOn(c) \in SUBSET Requests
  BY DEF InFlightOn
<1>2. IsFiniteSet(InFlightOn(c))
  BY <1>1, FS_Subset, TrackerAssumption
<1> QED
  BY <1>2, FS_CardinalityType

\* The chain is kept, with its count, or dropped.
CountKept ==
    \/ senders' = NoChain
    \/ senders'.id = senders.id /\ senders'.pending = senders.pending

\* Nothing owed to the live chain changes, and neither does its count.
LEMMA SameCount ==
    ASSUME PendingInv, CountKept,
           senders'.id # 0 => InFlightOn(senders.id)' = InFlightOn(senders.id)
    PROVE  (PendingNotShort /\ (MemoryMayForget = FALSE => PendingExact))'
BY NoChainId DEF PendingInv, CountKept, PendingNotShort, PendingExact

LEMMA PendingInit == Init => PendingInv
<1> SUFFICES ASSUME Init PROVE PendingInv
  OBVIOUS
<1>1. senders.id = 0
  BY NoChainId DEF Init, ReorderInit, TrackerInit
<1>2. reader = [p \in Readers |-> IdleReader] /\ IdleReader.step = "idle"
  BY DEF Init, IdleReader
<1>3. TokenInv
  BY <1>1, <1>2 DEF Init, ReorderInit, TokenInv, EntryToken, ReadsSent, ReaderToken,
     RejectedElsewhere
<1> QED
  BY <1>1, <1>3, ReservationInit DEF PendingInv, PendingNotShort, PendingExact

-----------------------------------------------------------------------------
(* Steps that move no token. *)

Calm ==
    /\ CountKept
    /\ UNCHANGED <<chainSent, entryChain, reader, metaTx, todo>>
    /\ \A q \in Requests : /\ pc'[q] = "remember" <=> pc[q] = "remember"
                           /\ result'[q] = "SENT" <=> result[q] = "SENT"

LEMMA CalmKeeps ==
    ASSUME PendingInv, ReservationInv', TypeOK, Calm
    PROVE  PendingInv'
<1>1. \A r \in Requests : Owed(r)' <=> Owed(r)
  BY DEF Calm, Owed
<1>2. senders'.id # 0 => InFlightOn(senders.id)' = InFlightOn(senders.id)
  BY <1>1, NoChainId DEF Calm, CountKept, InFlightOn
<1>3. TokenInv'
  <2>1. metaTx \cup todo \subseteq Requests
    BY DEF TypeOK
  <2>2. \A p \in Readers : reader[p].step # "idle" => reader[p].tx \in Requests
    BY DEF TypeOK, ReaderState, BusyReader, IdleReader
  <2>3. EntryToken' /\ ReaderToken'
    BY DEF Calm, PendingInv, TokenInv, EntryToken, ReaderToken
  <2>4. ReadsSent'
    BY <2>1, <2>2 DEF Calm, PendingInv, TokenInv, ReadsSent
  <2>5. RejectedElsewhere'
    BY NoChainId DEF Calm, CountKept, PendingInv, TokenInv, RejectedElsewhere
  <2> QED
    BY <2>3, <2>4, <2>5 DEF TokenInv
<1> QED
  BY <1>2, <1>3, SameCount DEF Calm, PendingInv

\* A look-up keeps the count or drops the chain.
LEMMA LookUpCount ==
    ASSUME senders' = chainLocked
    PROVE  CountKept
BY DEF chainLocked, CountKept

\* Moving a request neither to nor from "remember", and answering it with
\* anything but SENT, moves no token.
LEMMA GotoCalm ==
    ASSUME TypeOK, NEW r \in Requests, NEW l, l # "remember", pc[r] # "remember",
           Goto(r, l), UNCHANGED result
    PROVE  \A q \in Requests : /\ pc'[q] = "remember" <=> pc[q] = "remember"
                               /\ result'[q] = "SENT" <=> result[q] = "SENT"
BY TypeFacts DEF Goto

LEMMA AnswerCalm ==
    ASSUME TypeOK, NEW r \in Requests, NEW code, code # "SENT", pc[r] # "remember",
           Answer(r, code), result[r] # "SENT"
    PROVE  \A q \in Requests : /\ pc'[q] = "remember" <=> pc[q] = "remember"
                               /\ result'[q] = "SENT" <=> result[q] = "SENT"
BY TypeFacts DEF Answer, Goto

\* Every step of a request but noteSent and rememberMetaTx is calm.
LEMMA RequestCalm ==
    ASSUME TypeOK, ReservedLate, UNCHANGED settleVars, NEW r \in Requests,
           \/ \E n \in Nonces : Arrive(r, n)
           \/ ClientGone(r)
           \/ RequestStep(r) /\ ~noteSent(r)
    PROVE  Calm
<1> USE DEF Calm
<1>s. UNCHANGED <<entryChain, reader, metaTx, todo>>
  BY DEF settleVars
<1>d. pc[r] # "done" => result[r] # "SENT"
  BY DEF ReservedLate
<1>k. UNCHANGED senders => CountKept
  BY DEF CountKept
<1>1. CASE \E n \in Nonces : Arrive(r, n)
  <2>1. PICK n \in Nonces : Arrive(r, n)
    BY <1>1
  <2>2. CountKept /\ UNCHANGED chainSent
    BY <2>1, LookUpCount DEF Arrive
  <2>3. CASE Goto(r, "turn") /\ UNCHANGED result
    BY <2>1, <2>2, <2>3, <1>s, GotoCalm DEF Arrive
  <2>4. CASE RejectSurplus(r, inflightLocked)
    BY <2>1, <2>2, <2>4, <1>s, <1>d, AnswerCalm DEF Arrive, RejectSurplus
  <2> QED
    BY <2>1, <2>3, <2>4 DEF Arrive
<1>2. CASE ClientGone(r)
  BY <1>2, <1>s, <1>d, <1>k, AnswerCalm DEF ClientGone
<1>3. CASE TurnCached(r)
  BY <1>3, <1>s, GotoCalm, LookUpCount DEF TurnCached
<1>4. CASE TurnHub(r)
  BY <1>4, <1>s, <1>d, <1>k, GotoCalm, AnswerCalm DEF TurnHub
<1>5. CASE TurnInTurn(r) \/ TurnExpired(r)
  BY <1>5, <1>s, <1>k, GotoCalm DEF TurnInTurn, TurnExpired, EndWait
<1>6. CASE TurnHold(r)
  BY <1>6, <1>s, <1>k, GotoCalm DEF TurnHold
<1>7. CASE TurnSurplus(r)
  <2>1. CASE RejectSurplus(r, inflightLocked)
    BY <1>7, <2>1, <1>s, <1>d, AnswerCalm, LookUpCount DEF TurnSurplus, RejectSurplus
  <2>2. CASE Goto(r, "arm") /\ UNCHANGED result
    BY <1>7, <2>2, <1>s, GotoCalm, LookUpCount DEF TurnSurplus
  <2> QED
    BY <1>7, <2>1, <2>2 DEF TurnSurplus
<1>8. CASE TurnSleep(r)
  BY <1>8, <1>s, <1>k, GotoCalm DEF TurnSleep
<1>9. CASE DeadlinePasses(r)
  BY <1>9, <1>s, <1>k DEF DeadlinePasses, trackerVars
<1>10. CASE TurnWake(r)
  <2>1. CASE RejectSurplus(r, evictedInflight[r])
    BY <1>10, <2>1, <1>s, <1>d, AnswerCalm, LookUpCount DEF TurnWake, RejectSurplus
  <2>2. CASE Goto(r, "turn") /\ UNCHANGED result
    BY <1>10, <2>2, <1>s, GotoCalm, LookUpCount DEF TurnWake
  <2> QED
    BY <1>10, <2>1, <2>2 DEF TurnWake
<1>11. CASE lockUser(r)
  BY <1>11, <1>s, <1>k, GotoCalm DEF lockUser, trackerVars
<1>12. CASE ExpectCached(r)
  <2>1. CASE (Goto(r, "send") \/ Goto(r, "expectHub")) /\ UNCHANGED result
    BY <1>12, <2>1, <1>s, GotoCalm, LookUpCount DEF ExpectCached
  <2>2. CASE Answer(r, "BAD_NONCE")
    BY <1>12, <2>2, <1>s, <1>d, AnswerCalm, LookUpCount DEF ExpectCached
  <2> QED
    BY <1>12, <2>1, <2>2 DEF ExpectCached, Validate
<1>13. CASE ExpectHub(r)
  <2>1. CASE Goto(r, "send") /\ UNCHANGED result
    BY <1>13, <2>1, <1>s, <1>k, GotoCalm DEF ExpectHub, trackerVars
  <2>2. CASE Answer(r, "BAD_NONCE") \/ Answer(r, "RELAY_ERROR")
    BY <1>13, <2>2, <1>s, <1>d, <1>k, AnswerCalm DEF ExpectHub, trackerVars
  <2> QED
    BY <1>13, <2>1, <2>2 DEF ExpectHub, Validate
<1>14. CASE Send(r) \/ SendFails(r)
  BY <1>14, <1>s, <1>k, GotoCalm DEF Send, SendFails, trackerVars
<1>15. CASE ForgetAfterFailure(r)
  BY <1>15, <1>s, <1>d, AnswerCalm DEF ForgetAfterFailure, forgetChain, CountKept
<1> QED
  BY <1>1, <1>2, <1>3, <1>4, <1>5, <1>6, <1>7, <1>8, <1>9, <1>10, <1>11, <1>12,
     <1>13, <1>14, <1>15 DEF RequestStep

\* The hub executing, time passing, a client consulting a receipt and a relay
\* that dies on its own are calm.
LEMMA ServiceCalm ==
    ASSUME TypeOK, \/ Mine \/ TimePasses \/ UNCHANGED vars
                   \/ \E r \in Requests : ConsultReceipt(r) \/ SyncPanics(r)
    PROVE  Calm
<1> USE DEF Calm, CountKept
<1>1. CASE Mine
  BY <1>1 DEF Mine, trackerVars, requestVars
<1>2. CASE TimePasses
  <2>1. senders \in Chain
    BY TypeFacts
  <2> QED
    BY <1>2, <2>1 DEF TimePasses, TTLPasses, GraceEnds, requestVars, settleVars, Chain
<1>3. CASE UNCHANGED vars
  BY <1>3 DEF vars, reorderVars, settleVars, trackerVars, requestVars
<1>4. CASE \E r \in Requests : ConsultReceipt(r) \/ SyncPanics(r)
  BY <1>4 DEF ConsultReceipt, SyncPanics, forgetChain, reorderVars, trackerVars, requestVars,
     settleVars
<1> QED
  BY <1>1, <1>2, <1>3, <1>4

-----------------------------------------------------------------------------
(* Steps that move a token. *)

\* noteSent makes the token: one more is owed to the chain, and counted.
LEMMA NotePending ==
    ASSUME PendingInv, ReservationInv', UNCHANGED settleVars, NEW r \in Requests, noteSent(r)
    PROVE  PendingInv'
<1>t. /\ pc \in [Requests -> PCs] /\ chainSent \in [Requests -> Nat]
      /\ senders \in Chain /\ lastChain \in Nat /\ TypeOK
  BY TypeFacts DEF PendingInv, ReservationInv
<1>1. /\ UNCHANGED <<result, entryChain, reader, metaTx, todo>>
      /\ \A q \in Requests \ {r} : pc'[q] = pc[q] /\ chainSent'[q] = chainSent[q]
      /\ pc[r] = "note" /\ pc'[r] = "remember" /\ chainSent'[r] = senders'.id
      /\ reserveLocked(nonce[r])
  BY <1>t DEF noteSent, Goto, settleVars
<1>2. result[r] # "SENT" /\ chainSent[r] = 0
  BY <1>1 DEF PendingInv, ReservationInv, ReservedLate
<1>3. /\ \A q \in Requests : entryChain[q] # 0 => q # r
      /\ \A p \in Readers : reader[p].step # "idle" => reader[p].tx \in Requests \ {r}
  <2>1. \A p \in Readers : reader[p].step # "idle" => reader[p].tx \in Requests
    BY <1>t DEF TypeOK, ReaderState, BusyReader, IdleReader
  <2> QED
    BY <1>2, <2>1 DEF PendingInv, TokenInv, EntryToken, ReadsSent
<1>4. \A q \in Requests : chainSent[q] \in Nat /\ chainSent[q] <= lastChain
  BY <1>t DEF PendingInv, ReservationInv, ChainIds
<1>5. Owed(r)' /\ \A q \in Requests \ {r} : Owed(q)' <=> Owed(q)
  BY <1>1 DEF Owed
<1>6. \/ /\ senders'.id = lastChain + 1 /\ senders'.pending = 1
      \/ /\ senders'.id = senders.id /\ senders.id # 0
         /\ senders'.pending = senders.pending + 1
  <2>1. CASE chainLocked.id = 0
    BY <1>1, <2>1 DEF reserveLocked
  <2>2. CASE chainLocked.id # 0
    <3>1. chainLocked = senders
      BY <2>2, NoChainId DEF chainLocked
    <3> DEFINE ahead == IF senders.next > nonce[r] + 1 THEN senders.next ELSE nonce[r] + 1
    <3>2. senders' = [senders EXCEPT !.next = ahead, !.pending = @ + 1, !.expiry = FALSE]
      BY <1>1, <2>2, <3>1 DEF reserveLocked
    <3> HIDE DEF ahead
    <3> QED
      BY <1>t, <2>2, <3>1, <3>2 DEF Chain
  <2> QED
    BY <2>1, <2>2
<1>7. (PendingNotShort /\ (MemoryMayForget = FALSE => PendingExact))'
  <2>1. CASE senders'.id = lastChain + 1 /\ senders'.pending = 1
    <3>1. \A q \in Requests \ {r} : chainSent'[q] # senders'.id
      BY <1>1, <1>4, <1>t, <2>1
    <3>2. InFlightOn(senders.id)' = {r}
      BY <1>1, <1>5, <3>1 DEF InFlightOn
    <3>3. Cardinality({r}) = 1
      BY FS_Singleton
    <3> QED
      BY <2>1, <3>2, <3>3 DEF PendingNotShort, PendingExact
  <2>2. CASE /\ senders'.id = senders.id /\ senders.id # 0
             /\ senders'.pending = senders.pending + 1
    <3> DEFINE S == InFlightOn(senders.id)
    <3>1. r \notin S
      BY <1>2, <2>2 DEF InFlightOn
    <3>2. InFlightOn(senders.id)' = S \cup {r}
      BY <1>1, <1>5, <2>2 DEF InFlightOn
    <3>3. IsFiniteSet(S) /\ Cardinality(S) \in Nat
      BY InFlightFinite
    <3>4. Cardinality(S \cup {r}) = Cardinality(S) + 1
      BY <3>1, <3>3, FS_AddElement
    <3>5. /\ senders.pending >= Cardinality(S)
          /\ MemoryMayForget = FALSE => senders.pending = Cardinality(S)
      BY <2>2 DEF PendingInv, PendingNotShort, PendingExact
    <3>6. senders.pending \in Nat
      BY <1>t DEF Chain
    <3> HIDE DEF S
    <3>7. /\ senders'.pending >= Cardinality(S \cup {r})
          /\ MemoryMayForget = FALSE => senders'.pending = Cardinality(S \cup {r})
      BY <2>2, <3>3, <3>4, <3>5, <3>6
    <3> QED
      BY <3>2, <3>7 DEF PendingNotShort, PendingExact
  <2> QED
    BY <1>6, <2>1, <2>2
<1>8. TokenInv'
  <2>1. EntryToken' /\ ReadsSent' /\ ReaderToken'
    BY <1>1, <1>3 DEF PendingInv, TokenInv, EntryToken, ReadsSent, ReaderToken
  <2>2. RejectedElsewhere'
    <3> SUFFICES ASSUME NEW p \in Readers, reader[p].step \in {"claim", "take"},
                        reader[p].hubRejected
                 PROVE  senders'.id = 0 \/ chainSent'[reader[p].tx] # senders'.id
      BY <1>1 DEF RejectedElsewhere
    <3>1. reader[p].tx \in Requests \ {r}
      BY <1>3
    <3>2. chainSent'[reader[p].tx] = chainSent[reader[p].tx]
      BY <1>1, <3>1
    <3>3. senders.id = 0 \/ chainSent[reader[p].tx] # senders.id
      BY DEF PendingInv, TokenInv, RejectedElsewhere
    <3> QED
      BY <1>4, <1>6, <1>t, <3>1, <3>2, <3>3
  <2> QED
    BY <2>1, <2>2 DEF TokenInv
<1> QED
  BY <1>7, <1>8 DEF PendingInv

\* rememberMetaTx hands the token to the memory's entry.
LEMMA RememberPending ==
    ASSUME PendingInv, ReservationInv', NEW r \in Requests, rememberMetaTx(r)
    PROVE  PendingInv'
<1>t. /\ pc \in [Requests -> PCs] /\ chainSent \in [Requests -> Nat]
      /\ result \in [Requests -> Results] /\ TypeOK
  BY TypeFacts DEF PendingInv, ReservationInv
<1>e. entryChain \in [Requests -> Nat] /\ metaTx \cup todo \subseteq Requests
  BY <1>t DEF TypeOK
<1>1. /\ UNCHANGED <<senders, chainSent, reader, todo>>
      /\ metaTx' = metaTx \cup {r}
      /\ pc[r] = "remember" /\ pc'[r] = "done" /\ result'[r] = "SENT"
      /\ entryChain'[r] = chainSent[r]
      /\ \A q \in Requests \ {r} : /\ pc'[q] = pc[q] /\ result'[q] = result[q]
                                   /\ entryChain'[q] = entryChain[q]
  BY <1>t, <1>e DEF rememberMetaTx, Answer, Goto, trackerVars
<1>2. result[r] # "SENT" /\ chainSent[r] # 0
  BY <1>1 DEF PendingInv, ReservationInv, ReservedLate
<1>3. \A p \in Readers : reader[p].step # "idle" => reader[p].tx \in Requests \ {r}
  <2>1. \A p \in Readers : reader[p].step # "idle" => reader[p].tx \in Requests
    BY <1>t DEF TypeOK, ReaderState, BusyReader, IdleReader
  <2> QED
    BY <1>2, <2>1 DEF PendingInv, TokenInv, ReadsSent
<1>4. \A q \in Requests : Owed(q)' <=> Owed(q)
  BY <1>1, <1>2 DEF Owed
<1>5. InFlightOn(senders.id)' = InFlightOn(senders.id) /\ CountKept
  BY <1>1, <1>4 DEF InFlightOn, CountKept
<1>6. EntryToken' /\ ReaderToken' /\ RejectedElsewhere'
  BY <1>1, <1>3 DEF PendingInv, TokenInv, EntryToken, ReaderToken, RejectedElsewhere
<1>7. ReadsSent'
  BY <1>1, <1>3, <1>e DEF PendingInv, TokenInv, ReadsSent
<1> QED
  BY <1>5, <1>6, <1>7, SameCount DEF PendingInv, TokenInv

\* MemoryForgets loses a token: the count is no longer exact, but not short.
LEMMA ForgetPending ==
    ASSUME PendingInv, ReservationInv', NEW r \in Requests, MemoryForgets(r)
    PROVE  PendingInv'
<1>t. TypeOK /\ entryChain \in [Requests -> Nat]
  BY DEF PendingInv, ReservationInv, TypeOK
<1>1. /\ MemoryMayForget # FALSE
      /\ UNCHANGED <<senders, chainSent, pc, result, reader, todo>>
      /\ metaTx' \subseteq metaTx
      /\ entryChain' = [entryChain EXCEPT ![r] = 0]
  BY SettlementAssumption DEF MemoryForgets, reorderVars, trackerVars, requestVars
<1>2. TokenInv'
  BY <1>1, <1>t DEF PendingInv, TokenInv, EntryToken, ReadsSent, ReaderToken, RejectedElsewhere
<1> DEFINE S == InFlightOn(senders.id)
           T == InFlightOn(senders.id)'
<1>3. T \in SUBSET S
  BY <1>1, <1>t DEF InFlightOn, Owed
<1>4. IsFiniteSet(S) /\ Cardinality(S) \in Nat
  BY InFlightFinite
<1>5. Cardinality(T) <= Cardinality(S) /\ Cardinality(T) \in Nat
  <2> HIDE DEF S, T
  <2> QED
    BY <1>3, <1>4, FS_Subset, FS_CardinalityType
<1>6. senders.id # 0 => senders.pending >= Cardinality(S)
  BY DEF PendingInv, PendingNotShort
<1>7. senders.pending \in Nat
  BY <1>t, TypeFacts DEF Chain
<1>8. senders.id # 0 => senders.pending >= Cardinality(T)
  <2> HIDE DEF S, T
  <2> QED
    BY <1>4, <1>5, <1>6, <1>7
<1>9. PendingNotShort'
  BY <1>1, <1>8 DEF PendingNotShort
<1> QED
  BY <1>1, <1>2, <1>9 DEF PendingInv

\* A reader that picks a metatx, or claims its end, moves no token; one that
\* read a rejection has dropped the chain before.
LEMMA ReadPending ==
    ASSUME PendingInv, ReservationInv', NEW p \in Readers, NEW s,
           UNCHANGED <<chainSent, entryChain, pc, result>>,
           metaTx' = metaTx, todo' \subseteq metaTx \cup todo, CountKept,
           reader' = [reader EXCEPT ![p] = s],
           reader[p].step # "release", s.step # "release",
           s.step # "idle" => result[s.tx] = "SENT",
           s.step \in {"claim", "take"} /\ s.hubRejected =>
               senders'.id = 0 \/ chainSent[s.tx] # senders'.id
    PROVE  PendingInv'
<1>t. reader \in [Readers -> ReaderState]
  BY DEF PendingInv, ReservationInv, TypeOK
<1>1. reader'[p] = s /\ \A q \in Readers \ {p} : reader'[q] = reader[q]
  BY <1>t
<1>2. \A r \in Requests : Owed(r)' <=> Owed(r)
  BY <1>1 DEF Owed
<1>3. senders'.id # 0 => InFlightOn(senders.id)' = InFlightOn(senders.id)
  BY <1>2, NoChainId DEF CountKept, InFlightOn
<1>4. EntryToken' /\ ReadsSent'
  BY <1>1 DEF PendingInv, TokenInv, EntryToken, ReadsSent
<1>5. ReaderToken'
  BY <1>1 DEF PendingInv, TokenInv, ReaderToken
<1>6. RejectedElsewhere'
  BY <1>1, NoChainId DEF PendingInv, TokenInv, RejectedElsewhere, CountKept
<1> QED
  BY <1>3, <1>4, <1>5, <1>6, SameCount DEF PendingInv, TokenInv

\* readHubEvents drops the chain when it reads a rejection.
LEMMA ReadEventsPending ==
    ASSUME PendingInv, ReservationInv', NEW p \in Readers, NEW t \in Requests,
           reader[p].step = "idle", result[t] = "SENT", todo' \subseteq todo,
           readHubEvents(p, t)
    PROVE  PendingInv'
<1> DEFINE s == [step |-> "claim", tx |-> t, hubRejected |-> outcome[t] \in Bad, chain |-> 0]
<1>1. /\ UNCHANGED <<chainSent, entryChain, pc, result>> /\ metaTx' = metaTx
      /\ reader' = [reader EXCEPT ![p] = s]
  BY DEF readHubEvents, requestVars
<1>2. CountKept /\ (outcome[t] \in Bad => senders'.id = 0)
  BY NoChainId DEF readHubEvents, forgetChain, CountKept
<1>3. s.step = "claim" /\ s.tx = t /\ s.hubRejected = (outcome[t] \in Bad)
  OBVIOUS
<1> HIDE DEF s
<1> QED
  BY <1>1, <1>2, <1>3, ReadPending

\* The watcher gives up on one of its snapshot, or leaves it for later.
LEMMA ExpirePending ==
    ASSUME PendingInv, ReservationInv', NEW t \in Requests, WatcherExpires(t)
    PROVE  PendingInv'
<1> DEFINE s == [step |-> "claim", tx |-> t, hubRejected |-> FALSE, chain |-> 0]
<1>1. /\ UNCHANGED <<chainSent, entryChain, pc, result>> /\ metaTx' = metaTx
      /\ senders' = senders /\ todo' \subseteq todo /\ t \in todo
      /\ reader[Watcher].step = "idle" /\ Watcher \in Readers
  BY SettlementAssumption DEF WatcherExpires, reorderVars, trackerVars, requestVars
<1>2. CountKept /\ result[t] = "SENT"
  BY <1>1 DEF CountKept, PendingInv, TokenInv, ReadsSent
<1>3. CASE reader' = [reader EXCEPT ![Watcher] = s]
  <2>1. s.step = "claim" /\ s.tx = t /\ s.hubRejected = FALSE
    OBVIOUS
  <2> HIDE DEF s
  <2> QED
    BY <1>1, <1>2, <1>3, <2>1, ReadPending
<1>4. CASE UNCHANGED reader
  <2> DEFINE u == reader[Watcher]
  <2>1. reader' = [reader EXCEPT ![Watcher] = u]
    BY <1>4 DEF PendingInv, ReservationInv, TypeOK
  <2>2. u.step = "idle"
    BY <1>1
  <2> HIDE DEF u
  <2> QED
    BY <1>1, <1>2, <2>1, <2>2, ReadPending
<1> QED
  BY <1>3, <1>4 DEF WatcherExpires

\* The watcher's panic settles nothing: every place stays owed.
LEMMA PanicPending ==
    ASSUME PendingInv, ReservationInv', NEW t \in Requests, WatcherPanics(t)
    PROVE  PendingInv'
<1> DEFINE s == [step |-> "panic", tx |-> t, hubRejected |-> FALSE, chain |-> 0]
<1>1. /\ UNCHANGED <<chainSent, entryChain, pc, result>> /\ metaTx' = metaTx
      /\ senders' = senders /\ todo' \subseteq todo /\ t \in todo
      /\ reader[Watcher].step = "idle" /\ Watcher \in Readers
      /\ reader' = [reader EXCEPT ![Watcher] = s]
  BY SettlementAssumption DEF WatcherPanics, reorderVars, trackerVars, requestVars
<1>2. CountKept /\ result[t] = "SENT"
  BY <1>1 DEF CountKept, PendingInv, TokenInv, ReadsSent
<1>3. s.step = "panic" /\ s.tx = t
  OBVIOUS
<1> HIDE DEF s
<1> QED
  BY <1>1, <1>2, <1>3, ReadPending

\* The watcher takes the snapshot of what is in flight.
LEMMA NewBlockPending ==
    ASSUME PendingInv, ReservationInv', NewBlock
    PROVE  PendingInv'
<1>1. /\ UNCHANGED <<chainSent, entryChain, pc, result, metaTx, senders, reader>>
      /\ todo' \subseteq metaTx
  BY DEF NewBlock, reorderVars, trackerVars, requestVars
<1>2. TokenInv'
  BY <1>1 DEF PendingInv, TokenInv, EntryToken, ReadsSent, ReaderToken, RejectedElsewhere
<1>3. InFlightOn(senders.id)' = InFlightOn(senders.id) /\ CountKept
  BY <1>1 DEF InFlightOn, Owed, CountKept
<1> QED
  BY <1>2, <1>3, SameCount DEF PendingInv

LEMMA ClaimPending ==
    ASSUME PendingInv, ReservationInv', NEW p \in Readers, claimSettled(p)
    PROVE  PendingInv'
<1>1. /\ UNCHANGED <<chainSent, entryChain, pc, result, senders>> /\ metaTx' = metaTx
      /\ todo' \subseteq todo /\ reader[p].step = "claim"
  BY DEF claimSettled, reorderVars, trackerVars, requestVars
<1>2. CountKept
  BY <1>1 DEF CountKept
<1>b. reader[p] \in BusyReader
  BY <1>1 DEF PendingInv, ReservationInv, TypeOK, ReaderState, IdleReader
<1>3. CASE reader' = [reader EXCEPT ![p] = IdleReader]
  <2>1. IdleReader.step = "idle"
    BY DEF IdleReader
  <2> QED
    BY <1>1, <1>2, <1>3, <2>1, ReadPending
<1>4. CASE reader' = [reader EXCEPT ![p].step = "take"]
  <2> DEFINE u == [reader[p] EXCEPT !.step = "take"]
  <2>1. reader' = [reader EXCEPT ![p] = u]
    BY <1>4
  <2>2. u.step = "take" /\ u.tx = reader[p].tx /\ u.hubRejected = reader[p].hubRejected
    BY <1>b DEF BusyReader
  <2>3. /\ result[u.tx] = "SENT"
        /\ u.hubRejected => senders.id = 0 \/ chainSent[u.tx] # senders.id
    BY <1>1, <2>2 DEF PendingInv, TokenInv, ReadsSent, RejectedElsewhere
  <2> HIDE DEF u
  <2> QED
    BY <1>1, <1>2, <2>1, <2>2, <2>3, ReadPending
<1> QED
  BY <1>3, <1>4 DEF claimSettled

\* releaseSent hands the token from the entry to the reader, or voids the one
\* of a rejected metatx, which is not owed to the live chain.
LEMMA TakePending ==
    ASSUME PendingInv, ReservationInv', NEW p \in Readers, releaseSent(p)
    PROVE  PendingInv'
<1> DEFINE s == reader'[p]
<1>t. reader \in [Readers -> ReaderState] /\ entryChain \in [Requests -> Nat]
  BY DEF PendingInv, ReservationInv, TypeOK
<1>p. reader[p].tx \in Requests /\ reader[p] \in BusyReader
  BY <1>t DEF releaseSent, ReaderState, IdleReader, BusyReader
<1>x. PICK t \in Requests : t = reader[p].tx
  BY <1>p
<1>1. /\ UNCHANGED <<chainSent, pc, result, senders, metaTx, todo>>
      /\ reader[p].step = "take"
      /\ entryChain' = [entryChain EXCEPT ![t] = 0]
      /\ \A q \in Readers \ {p} : reader'[q] = reader[q]
  BY <1>t, <1>x DEF releaseSent, reorderVars, trackerVars, requestVars
<1>b. reader[p] \in BusyReader /\ t \in Requests
  BY <1>p
<1>2. /\ entryChain'[t] = 0
      /\ \A q \in Requests \ {t} : entryChain'[q] = entryChain[q]
  BY <1>1, <1>b, <1>t
<1>3. \/ /\ s.step = "idle"
         /\ entryChain[t] = 0 \/ reader[p].hubRejected
      \/ /\ s.step = "release" /\ s.tx = t /\ s.chain = entryChain[t]
         /\ entryChain[t] # 0
  <2>1. CASE entryChain[t] = 0 \/ reader[p].hubRejected
    BY <2>1, <1>t, <1>x DEF releaseSent, IdleReader
  <2>2. CASE ~(entryChain[t] = 0 \/ reader[p].hubRejected)
    <3> DEFINE u == [reader[p] EXCEPT !.step = "release", !.chain = entryChain[t]]
    <3>1. reader' = [reader EXCEPT ![p] = u]
      BY <2>2, <1>t, <1>x DEF releaseSent
    <3>2. u.step = "release" /\ u.tx = t /\ u.chain = entryChain[t]
      BY <1>b, <1>x DEF BusyReader
    <3> QED
      BY <2>2, <3>1, <3>2, <1>t
  <2> QED
    BY <2>1, <2>2
<1>4. entryChain[t] # 0 => /\ entryChain[t] = chainSent[t]
                           /\ \A q \in Readers : ~(reader[q].step = "release" /\ reader[q].tx = t)
  BY <1>b, <1>x DEF PendingInv, TokenInv, EntryToken, ReaderToken
<1>5. reader[p].hubRejected => senders.id = 0 \/ chainSent[t] # senders.id
  BY <1>1, <1>x DEF PendingInv, TokenInv, RejectedElsewhere
<1>m. result[t] = "SENT"
  BY <1>1, <1>x DEF PendingInv, TokenInv, ReadsSent
<1> HIDE DEF s
<1>6. \A q \in Requests : /\ Owed(q)' => Owed(q)
                          /\ Owed(q) /\ q # t => Owed(q)'
                          /\ Owed(t) /\ ~reader[p].hubRejected => Owed(t)'
  <2>1. \A q \in Requests \ {t} : Owed(q)' <=> Owed(q)
    <3>1. ASSUME NEW q \in Requests \ {t}
          PROVE  (\E x \in Readers : reader'[x].step = "release" /\ reader'[x].tx = q)
                 <=> (\E x \in Readers : reader[x].step = "release" /\ reader[x].tx = q)
      BY <1>1, <1>3 DEF s
    <3> QED
      BY <1>1, <1>2, <3>1 DEF Owed
  <2>2. Owed(t)' => Owed(t)
    BY <1>1, <1>2, <1>3 DEF Owed, s
  <2>3. Owed(t) /\ ~reader[p].hubRejected => Owed(t)'
    BY <1>1, <1>2, <1>3 DEF Owed, s
  <2> QED
    BY <2>1, <2>2, <2>3
<1>7. senders'.id # 0 => InFlightOn(senders.id)' = InFlightOn(senders.id)
  BY <1>1, <1>5, <1>6 DEF InFlightOn
<1>8. EntryToken' /\ ReadsSent'
  BY <1>1, <1>2, <1>3, <1>b, <1>m DEF PendingInv, TokenInv, EntryToken, ReadsSent, s
<1>9. ReaderToken'
  <2>1. ASSUME NEW q \in Readers, reader'[q].step = "release"
        PROVE  /\ reader'[q].chain = chainSent'[reader'[q].tx]
               /\ entryChain'[reader'[q].tx] = 0
    <3>1. CASE q = p
      BY <1>1, <1>2, <1>3, <1>4, <2>1, <3>1 DEF s
    <3>2. CASE q # p
      <4>1. /\ reader[q].chain = chainSent[reader[q].tx]
            /\ entryChain[reader[q].tx] = 0
        BY <1>1, <2>1, <3>2 DEF PendingInv, TokenInv, ReaderToken
      <4>2. reader[q].tx \in Requests
        BY <1>1, <1>t, <2>1, <3>2 DEF ReaderState, IdleReader, BusyReader
      <4> QED
        BY <1>1, <1>2, <3>2, <4>1, <4>2
    <3> QED
      BY <3>1, <3>2
  <2>2. ASSUME NEW q \in Readers, NEW x \in Readers,
               reader'[q].step = "release", reader'[x].step = "release",
               reader'[q].tx = reader'[x].tx
        PROVE  q = x
    BY <1>1, <1>3, <1>4, <2>2 DEF PendingInv, TokenInv, ReaderToken, s
  <2> QED
    BY <2>1, <2>2 DEF ReaderToken
<1>10. RejectedElsewhere'
  BY <1>1, <1>3 DEF PendingInv, TokenInv, RejectedElsewhere, s
<1>11. CountKept
  BY <1>1 DEF CountKept
<1> QED
  BY <1>7, <1>8, <1>9, <1>10, <1>11, SameCount DEF PendingInv, TokenInv

\* ReleaseReserved spends the token: the live chain gets one place back, a
\* dropped one gets nothing (tracker.go, releaseChain).
LEMMA ReleasePending ==
    ASSUME PendingInv, ReservationInv', NEW p \in Readers, ReleaseReserved(p)
    PROVE  PendingInv'
<1> DEFINE c == reader[p].chain
<1>t. reader \in [Readers -> ReaderState] /\ senders \in Chain /\ TypeOK
  BY TypeFacts DEF PendingInv, ReservationInv, TypeOK
<1>1. /\ UNCHANGED <<chainSent, entryChain, pc, result, metaTx, todo>>
      /\ reader[p].step = "release"
      /\ releaseChain(c)
      /\ reader'[p].step = "idle"
      /\ \A q \in Readers \ {p} : reader'[q] = reader[q]
  BY <1>t DEF ReleaseReserved, requestVars, IdleReader
<1>p. reader[p].tx \in Requests
  BY <1>1, <1>t DEF ReaderState, IdleReader, BusyReader
<1>x. PICK t \in Requests : t = reader[p].tx
  BY <1>p
<1>b. t \in Requests /\ result[t] = "SENT"
  BY <1>1, <1>x DEF PendingInv, TokenInv, ReadsSent
<1>2. /\ c = chainSent[t] /\ entryChain[t] = 0
      /\ \A q \in Readers \ {p} : ~(reader[q].step = "release" /\ reader[q].tx = t)
  BY <1>1, <1>x DEF PendingInv, TokenInv, ReaderToken
<1>3. pc[t] # "remember"
  BY <1>b DEF PendingInv, ReservationInv, ReservedLate
<1> HIDE DEF c
<1>4. /\ Owed(t) /\ ~Owed(t)'
      /\ \A q \in Requests \ {t} : Owed(q)' <=> Owed(q)
  <2>1. Owed(t) /\ ~Owed(t)'
    BY <1>1, <1>2, <1>3, <1>x DEF Owed
  <2>2. ASSUME NEW q \in Requests \ {t}
        PROVE  Owed(q)' <=> Owed(q)
    BY <1>1, <1>x DEF Owed
  <2> QED
    BY <2>1, <2>2
<1>5. EntryToken' /\ ReadsSent' /\ ReaderToken'
  BY <1>1 DEF PendingInv, TokenInv, EntryToken, ReadsSent, ReaderToken
<1>6. \/ senders' = NoChain
      \/ senders' = senders /\ c # senders.id
      \/ /\ c = senders.id /\ c # 0 /\ senders'.id = senders.id
         /\ senders'.pending = IF senders.pending > 0 THEN senders.pending - 1 ELSE 0
  <2>1. CASE c = 0 \/ senders.id # c
    <3>1. chainSent[t] # 0
      BY <1>b DEF PendingInv, ReservationInv, ReservedLate
    <3> QED
      BY <1>1, <1>2, <2>1, <3>1 DEF releaseChain
  <2>2. CASE ~(c = 0 \/ senders.id # c)
    <3> DEFINE left == IF senders.pending > 0 THEN senders.pending - 1 ELSE 0
    <3>1. \/ senders' = NoChain
          \/ senders' = [senders EXCEPT !.pending = left, !.expiry = @ \/ left = 0]
      BY <1>1, <2>2 DEF releaseChain
    <3> QED
      BY <1>t, <2>2, <3>1 DEF Chain
  <2> QED
    BY <2>1, <2>2
<1>7. RejectedElsewhere'
  BY <1>1, <1>6, NoChainId DEF PendingInv, TokenInv, RejectedElsewhere
<1>8. (PendingNotShort /\ (MemoryMayForget = FALSE => PendingExact))'
  <2>1. CASE senders' = NoChain
    BY <2>1, NoChainId DEF PendingNotShort, PendingExact
  <2>2. CASE senders' = senders /\ c # senders.id
    <3>1. InFlightOn(senders.id)' = InFlightOn(senders.id)
      BY <1>1, <1>2, <1>4, <2>2 DEF InFlightOn
    <3> QED
      BY <2>2, <3>1, SameCount DEF CountKept
  <2>3. CASE /\ c = senders.id /\ c # 0 /\ senders'.id = senders.id
             /\ senders'.pending = IF senders.pending > 0 THEN senders.pending - 1 ELSE 0
    <3> DEFINE S == InFlightOn(senders.id)
    <3>1. t \in S
      BY <1>2, <1>4, <1>b, <2>3 DEF InFlightOn
    <3>2. InFlightOn(senders.id)' = S \ {t}
      BY <1>1, <1>4, <2>3 DEF InFlightOn
    <3>3. IsFiniteSet(S) /\ Cardinality(S) \in Nat
      BY InFlightFinite
    <3>4. /\ senders.pending >= Cardinality(S)
          /\ MemoryMayForget = FALSE => senders.pending = Cardinality(S)
      BY <2>3 DEF PendingInv, PendingNotShort, PendingExact
    <3>5. senders.pending \in Nat
      BY <1>t DEF Chain
    <3> HIDE DEF S
    <3>6. Cardinality(S \ {t}) = Cardinality(S) - 1
      BY <3>1, <3>3, FS_RemoveElement
    <3>7. Cardinality(S) # 0
      BY <3>1, <3>3, FS_EmptySet
    <3>8. /\ senders'.pending >= Cardinality(S \ {t})
          /\ MemoryMayForget = FALSE => senders'.pending = Cardinality(S \ {t})
      BY <2>3, <3>3, <3>4, <3>5, <3>6, <3>7
    <3> QED
      BY <3>2, <3>8 DEF PendingNotShort, PendingExact
  <2> QED
    BY <1>6, <2>1, <2>2, <2>3
<1> QED
  BY <1>5, <1>7, <1>8 DEF PendingInv, TokenInv

-----------------------------------------------------------------------------
LEMMA PendingStep == PendingInv /\ [Next]_vars => PendingInv'
<1> SUFFICES ASSUME PendingInv, [Next]_vars PROVE PendingInv'
  OBVIOUS
<1>t. TypeOK /\ ReservedLate /\ ReservationInv'
  BY ReservationStep DEF PendingInv, ReservationInv
<1>1. ASSUME NEW r \in Requests, NEW n \in Nonces, Arrive(r, n), UNCHANGED settleVars
      PROVE  PendingInv'
  BY <1>t, <1>1, RequestCalm, CalmKeeps
<1>2. ASSUME NEW r \in Requests, RequestRuns(r)
      PROVE  PendingInv'
  <2>1. CASE noteSent(r) /\ UNCHANGED settleVars
    BY <1>t, <2>1, NotePending
  <2>2. CASE RequestStep(r) /\ ~noteSent(r) /\ UNCHANGED settleVars
    BY <1>t, <2>2, RequestCalm, CalmKeeps
  <2>3. CASE rememberMetaTx(r)
    BY <1>t, <2>3, RememberPending
  <2> QED
    BY <1>2, <2>1, <2>2, <2>3 DEF RequestRuns
<1>3. ASSUME NEW r \in Requests, ClientGone(r), UNCHANGED settleVars
      PROVE  PendingInv'
  BY <1>t, <1>3, RequestCalm, CalmKeeps
<1>4. ASSUME NEW r \in Requests, MemoryForgets(r)
      PROVE  PendingInv'
  BY <1>t, <1>4, ForgetPending
<1>5. ASSUME NEW p \in Readers, NEW t \in Requests, SyncReads(p, t)
      PROVE  PendingInv'
  <2>1. /\ reader[p].step = "idle" /\ result[t] = "SENT" /\ todo' \subseteq todo
        /\ readHubEvents(p, t)
    BY <1>5 DEF SyncReads
  <2> QED
    BY <1>t, <2>1, ReadEventsPending
<1>6. ASSUME NEW t \in Requests, WatcherReads(t)
      PROVE  PendingInv'
  <2>1. /\ reader[Watcher].step = "idle" /\ t \in todo /\ todo' \subseteq todo
        /\ readHubEvents(Watcher, t) /\ Watcher \in Readers
    BY <1>6, SettlementAssumption DEF WatcherReads
  <2>2. result[t] = "SENT"
    BY <2>1 DEF PendingInv, TokenInv, ReadsSent
  <2> QED
    BY <1>t, <2>1, <2>2, ReadEventsPending
<1>7. ASSUME NEW p \in Readers, ReaderRuns(p)
      PROVE  PendingInv'
  BY <1>t, <1>7, ClaimPending, TakePending, ReleasePending DEF ReaderRuns
<1>8. CASE WatcherRuns
  BY <1>t, <1>6, <1>8, NewBlockPending, ExpirePending, PanicPending DEF WatcherRuns
<1>9. CASE \/ Mine \/ TimePasses \/ UNCHANGED vars
           \/ \E r \in Requests : ConsultReceipt(r) \/ SyncPanics(r)
  BY <1>t, <1>9, ServiceCalm, CalmKeeps
<1> QED
  BY <1>1, <1>2, <1>3, <1>4, <1>5, <1>7, <1>8, <1>9 DEF Next, Running, Quiet

LEMMA PendingAlways == Spec => []PendingInv
<1>1. Init => PendingInv
  BY PendingInit
<1>2. PendingInv /\ [Next]_vars => PendingInv'
  BY PendingStep
<1> QED
  BY <1>1, <1>2, PTL DEF Spec

\* No late, repeated or concurrent result ever gives back a place that another
\* metatx occupies, even if the memory forgets hashes (tracker.go,
\* releaseChain; settle.go, releaseSent; correlation.go, evictLocked).
THEOREM PendingNotShortCorrect == Spec => []PendingNotShort
<1>1. PendingInv => PendingNotShort
  BY DEF PendingInv
<1> QED
  BY <1>1, PendingAlways, PTL

\* While no sent hash is forgotten, the quota in use is exactly the number of
\* metatx in flight on the live chain, under every other fault and any
\* number of concurrent resolvers (tracker.go, reserveLocked, releaseChain).
THEOREM PendingExactCorrect ==
    ASSUME MemoryMayForget = FALSE
    PROVE  Spec => []PendingExact
<1>1. PendingInv => PendingExact
  BY DEF PendingInv
<1> QED
  BY <1>1, PendingAlways, PTL

-----------------------------------------------------------------------------
(* The end of a metatx is logged once. *)

\* While nothing is forgotten, what was answered SENT is remembered, and what
\* was closed is remembered as settled.
ClosureInv ==
    \A r \in Requests :
        /\ result[r] = "SENT" => r \in metaTx
        /\ closures[r] <= 1
        /\ closures[r] # 0 => r \in metaTx /\ settled[r]

\* A step that answers nobody with SENT and closes nothing.
Uneventful ==
    /\ UNCHANGED <<metaTx, settled, closures>>
    /\ \A q \in Requests : result'[q] = "SENT" <=> result[q] = "SENT"

LEMMA UneventfulKeeps ==
    ASSUME ClosureInv, Uneventful
    PROVE  ClosureInv'
BY DEF ClosureInv, Uneventful

\* Remembering a metatx clears its mark, but it was never closed before.
LEMMA RememberCloses ==
    ASSUME TypeOK, ReservedLate, ReadsSent, ClosureInv, NEW r \in Requests, rememberMetaTx(r)
    PROVE  ClosureInv'
<1>1. pc[r] = "remember" /\ r \notin metaTx
  BY DEF rememberMetaTx, ReservedLate, ReadsSent
<1>2. closures[r] = 0
  BY <1>1 DEF ClosureInv
<1>3. /\ metaTx' = metaTx \cup {r} /\ closures' = closures
      /\ settled' = [settled EXCEPT ![r] = FALSE] /\ settled \in [Requests -> BOOLEAN]
      /\ \A q \in Requests : q # r => result'[q] = result[q]
  BY TypeFacts DEF rememberMetaTx, Answer, TypeOK
<1>4. \A q \in Requests : q # r => settled'[q] = settled[q]
  BY <1>3
<1> QED
  BY <1>2, <1>3, <1>4 DEF ClosureInv

\* The claim finds its metatx remembered, and so counts it at most once.
LEMMA ClaimCloses ==
    ASSUME TypeOK, ReadsSent, ClosureInv, NEW p \in Readers, claimSettled(p)
    PROVE  ClosureInv'
<1> DEFINE t == reader[p].tx
<1>1. t \in Requests /\ result[t] = "SENT"
  BY DEF claimSettled, ReadsSent, TypeOK, ReaderState, BusyReader, IdleReader
<1>2. t \in metaTx
  BY <1>1 DEF ClosureInv
<1>3. UNCHANGED <<metaTx, result>>
  BY DEF claimSettled, reorderVars, requestVars
<1>4. closures \in [Requests -> Nat] /\ settled \in [Requests -> BOOLEAN]
  BY DEF TypeOK
<1>5. CASE settled[t]
  BY <1>2, <1>3, <1>5 DEF claimSettled, ClosureInv
<1>6. CASE ~settled[t]
  <2>1. /\ settled' = [settled EXCEPT ![t] = TRUE]
        /\ closures' = [closures EXCEPT ![t] = @ + 1]
    BY <1>2, <1>6 DEF claimSettled
  <2>2. closures[t] = 0
    BY <1>1, <1>6 DEF ClosureInv
  <2>3. closures'[t] = 1 /\ settled'[t]
    BY <1>1, <1>4, <2>1, <2>2
  <2>4. \A q \in Requests : q # t => closures'[q] = closures[q] /\ settled'[q] = settled[q]
    BY <1>4, <2>1
  <2> QED
    BY <1>2, <1>3, <2>3, <2>4 DEF ClosureInv
<1> QED
  BY <1>5, <1>6

\* The steps of a request but rememberMetaTx are uneventful.
LEMMA RequestUneventful ==
    ASSUME TypeOK, ReservedLate, UNCHANGED settleVars, NEW r \in Requests,
           \/ \E n \in Nonces : Arrive(r, n)
           \/ ClientGone(r)
           \/ RequestStep(r)
    PROVE  Uneventful
<1>1. UNCHANGED <<metaTx, settled, closures>>
  BY DEF settleVars
<1>2. CASE noteSent(r)
  BY <1>1, <1>2 DEF Uneventful, noteSent
<1>3. CASE ~noteSent(r)
  BY <1>1, <1>3, RequestCalm DEF Uneventful, Calm
<1> QED
  BY <1>2, <1>3

LEMMA ClosureStep ==
    ASSUME MemoryMayForget = FALSE
    PROVE  PendingInv /\ ClosureInv /\ [Next]_vars => ClosureInv'
<1> SUFFICES ASSUME PendingInv, ClosureInv, [Next]_vars PROVE ClosureInv'
  OBVIOUS
<1>t. TypeOK /\ ReservedLate /\ ReadsSent
  BY DEF PendingInv, TokenInv, ReservationInv
<1>1. ASSUME NEW r \in Requests, UNCHANGED settleVars,
             \/ \E n \in Nonces : Arrive(r, n)
             \/ ClientGone(r)
             \/ RequestStep(r)
      PROVE  ClosureInv'
  BY <1>t, <1>1, RequestUneventful, UneventfulKeeps
<1>2. ASSUME NEW r \in Requests, rememberMetaTx(r) PROVE ClosureInv'
  BY <1>t, <1>2, RememberCloses
<1>3. ASSUME NEW r \in Requests, MemoryForgets(r) PROVE ClosureInv'
  BY <1>3 DEF MemoryForgets
<1>4. ASSUME NEW p \in Readers, claimSettled(p) PROVE ClosureInv'
  BY <1>t, <1>4, ClaimCloses
<1>5. ASSUME NEW p \in Readers, releaseSent(p) \/ ReleaseReserved(p) PROVE ClosureInv'
  BY <1>5, UneventfulKeeps DEF releaseSent, ReleaseReserved, Uneventful, reorderVars, requestVars
<1>6. ASSUME NEW p \in Readers, NEW u \in Requests, readHubEvents(p, u) PROVE ClosureInv'
  BY <1>6, UneventfulKeeps DEF readHubEvents, Uneventful, requestVars
<1>7. ASSUME NEW u \in Requests, WatcherReads(u) \/ WatcherPanics(u) \/ WatcherExpires(u)
      PROVE  ClosureInv'
  <2>1. CASE WatcherReads(u)
    BY <2>1, <1>6, SettlementAssumption DEF WatcherReads
  <2>2. CASE WatcherPanics(u) \/ WatcherExpires(u)
    BY <2>2, UneventfulKeeps DEF WatcherPanics, WatcherExpires, Uneventful, reorderVars, requestVars
  <2> QED
    BY <1>7, <2>1, <2>2
<1>8. CASE WatcherRuns
  BY <1>7, <1>8, UneventfulKeeps
     DEF WatcherRuns, NewBlock, Uneventful, reorderVars, requestVars
<1>9. CASE \/ Mine \/ TimePasses \/ UNCHANGED vars
           \/ \E r \in Requests : ConsultReceipt(r) \/ SyncPanics(r)
  <2>1. UNCHANGED <<metaTx, settled, closures, result>>
    BY <1>9 DEF Mine, TimePasses, ConsultReceipt, SyncPanics, vars, reorderVars, settleVars,
       requestVars
  <2> QED
    BY <2>1, UneventfulKeeps DEF Uneventful
<1>10. ASSUME NEW p \in Readers, NEW u \in Requests, SyncReads(p, u) PROVE ClosureInv'
  BY <1>6, <1>10 DEF SyncReads
<1>11. ASSUME NEW r \in Requests, RequestRuns(r) PROVE ClosureInv'
  BY <1>1, <1>2, <1>11 DEF RequestRuns
<1>12. ASSUME NEW p \in Readers, ReaderRuns(p) PROVE ClosureInv'
  BY <1>4, <1>5, <1>12 DEF ReaderRuns
<1> QED
  BY <1>1, <1>3, <1>8, <1>9, <1>10, <1>11, <1>12 DEF Next, Running, Quiet

\* Whoever resolves a metatx first - the watcher, a synchronous relay or the
\* expiry - its end is logged once, for any number of concurrent readers, while
\* no sent hash is forgotten (settle.go, claimSettled).
THEOREM ClosedOnceCorrect ==
    ASSUME MemoryMayForget = FALSE
    PROVE  Spec => []ClosedOnce
<1>1. Init => ClosureInv
  BY DEF Init, ReorderInit, ClosureInv
<1>2. PendingInv /\ ClosureInv /\ [Next]_vars => ClosureInv'
  BY ClosureStep
<1>3. ClosureInv => ClosedOnce
  BY DEF ClosureInv, ClosedOnce
<1> QED
  BY <1>1, <1>2, <1>3, PendingAlways, PTL DEF Spec

-----------------------------------------------------------------------------
(* With a node that answers, a hub that rejects for the nonce only and no  *)
(* timeout, the hub takes every metatx the service sends.                  *)

\* The world of HubTakesEverySend: only the memory of sent hashes may fail.
Undisturbed ==
    /\ NodeMayFail = FALSE
    /\ HubMayReject = FALSE
    /\ TTLMayPass = FALSE
    /\ ReceiptMayLapse = FALSE
    /\ LengthMayWrap = FALSE

\* What the account's queue still has for the hub.
Unmined == {i \in DOMAIN sent : i > mined}

\* The nonce the hub will expect once the queue is executed.
HubAhead == hubNonce + (Len(sent) - mined)

\* A request is in the queue once, and executed up to `mined`.
QueueExact ==
    /\ \A i, j \in DOMAIN sent : sent[i] = sent[j] => i = j
    /\ \A i \in DOMAIN sent : outcome[sent[i]] = "none" <=> i > mined
    /\ \A r \in Requests : /\ outcome[r] \in {"none", "ok"}
                           /\ outcome[r] # "none" => \E i \in DOMAIN sent : sent[i] = r

\* What waits in the queue has the nonces the hub will expect, in order.
Consecutive == \A i \in Unmined : nonce[sent[i]] = hubNonce + (i - mined) - 1

\* What waits in the queue is reserved on the live chain or about to be.
UnminedReserved ==
    \A i \in Unmined : \/ pc[sent[i]] = "note"
                       \/ senders.id # 0 /\ chainSent[sent[i]] = senders.id

\* Whoever sends, sends what the hub will expect, and so does the chain.
NextExact ==
    /\ \A r \in Requests : /\ pc[r] = "send" => nonce[r] = HubAhead
                           /\ pc[r] = "note" => nonce[r] + 1 = HubAhead
                           /\ pc[r] # "failed"
    /\ ~senders.old
    /\ (\A r \in Requests : pc[r] # "note") /\ senders.id # 0 => senders.next = HubAhead

\* Nobody resolves a metatx before its receipt.
ResolvedMined ==
    \A p \in Readers : reader[p].step # "idle" => outcome[reader[p].tx] = "ok"

HubShape == QueueExact /\ Consecutive /\ UnminedReserved /\ NextExact /\ ResolvedMined

\* The metatx of a chain that are not executed, or whose place is still owed:
\* a forgotten hash keeps its place until its chain is dropped.
UnresolvedOn(c) == {r \in Requests : chainSent[r] = c /\ (outcome[r] = "none" \/ Owed(r))}

\* A chain is not dropped for being idle while one of its metatx is unmined.
PendingCovers ==
    senders.id # 0 => senders.pending >= Cardinality(UnresolvedOn(senders.id))

HubInv == PendingInv /\ HubShape /\ PendingCovers

-----------------------------------------------------------------------------
(* Steps that leave the queue alone. *)

QueueAside ==
    /\ UNCHANGED <<sent, mined, hubNonce, outcome, chainSent>>
    /\ \A q \in Requests : /\ pc[q] # "idle" => nonce'[q] = nonce[q]
                           /\ pc'[q] = "send" <=> pc[q] = "send"
                           /\ pc'[q] = "note" <=> pc[q] = "note"
                           /\ pc'[q] # "failed"
    /\ \/ /\ senders'.id = senders.id /\ senders'.next = senders.next
          /\ senders'.old = senders.old
       \/ senders' = NoChain /\ \A i \in Unmined : pc[sent[i]] = "note"
    /\ ResolvedMined'

LEMMA NoChainOld == NoChain.old = FALSE /\ NoChain.id = 0
BY DEF NoChain

LEMMA AsideShape ==
    ASSUME TypeOK, SentLate, HubShape, QueueAside
    PROVE  HubShape'
<1> USE DEF QueueAside
<1>t. \A i \in DOMAIN sent : sent[i] \in Requests
  BY TypeFacts
<1>n. \A i \in DOMAIN sent : nonce'[sent[i]] = nonce[sent[i]]
  BY <1>t DEF SentLate
<1>u. Unmined' = Unmined /\ HubAhead' = HubAhead
  BY DEF Unmined, HubAhead
<1>1. QueueExact'
  BY DEF HubShape, QueueExact
<1>2. Consecutive'
  BY <1>n, <1>u DEF HubShape, Consecutive, Unmined
<1>3. UnminedReserved'
  BY <1>t, <1>u, NoChainOld DEF HubShape, UnminedReserved, Unmined
<1>4. NextExact'
  BY <1>u, NoChainOld DEF HubShape, NextExact
<1> QED
  BY <1>1, <1>2, <1>3, <1>4 DEF HubShape

LEMMA UnresolvedFinite ==
    ASSUME NEW c
    PROVE  /\ IsFiniteSet(UnresolvedOn(c))
           /\ Cardinality(UnresolvedOn(c)) \in Nat
<1>1. UnresolvedOn(c) \in SUBSET Requests
  BY DEF UnresolvedOn
<1>2. IsFiniteSet(UnresolvedOn(c))
  BY <1>1, FS_Subset, TrackerAssumption
<1> QED
  BY <1>2, FS_CardinalityType

\* The count still covers when what it has to cover only shrinks.
LEMMA CoversKept ==
    ASSUME TypeOK, PendingCovers, CountKept,
           senders'.id # 0 => UnresolvedOn(senders.id)' \in SUBSET UnresolvedOn(senders.id)
    PROVE  PendingCovers'
<1>1. CASE senders'.id = 0
  BY <1>1 DEF PendingCovers
<1>2. CASE senders'.id # 0
  <2> DEFINE S == UnresolvedOn(senders.id)
             T == UnresolvedOn(senders.id)'
  <2>1. senders'.id = senders.id /\ senders'.pending = senders.pending
    BY <1>2, NoChainId DEF CountKept
  <2>2. IsFiniteSet(S) /\ Cardinality(S) \in Nat /\ senders.pending >= Cardinality(S)
    BY <1>2, <2>1, UnresolvedFinite DEF PendingCovers
  <2>3. senders.pending \in Nat
    BY TypeFacts DEF Chain
  <2>4. T \in SUBSET S
    BY <1>2
  <2>h. PendingCovers' <=> senders'.pending >= Cardinality(T)
    BY <1>2 DEF PendingCovers
  <2> HIDE DEF S, T
  <2>5. Cardinality(T) <= Cardinality(S) /\ Cardinality(T) \in Nat
    BY <2>2, <2>4, FS_Subset, FS_CardinalityType
  <2> QED
    BY <2>1, <2>2, <2>3, <2>5, <2>h
<1> QED
  BY <1>1, <1>2

\* A step that is aside of the queue and owes nothing new.
LEMMA OwesLess ==
    ASSUME TypeOK, PendingCovers, CountKept, UNCHANGED <<chainSent, outcome>>,
           \A q \in Requests : Owed(q)' => Owed(q)
    PROVE  PendingCovers'
<1>1. senders'.id # 0 => UnresolvedOn(senders.id)' \in SUBSET UnresolvedOn(senders.id)
  BY NoChainId DEF UnresolvedOn, CountKept
<1> QED
  BY <1>1, CoversKept

LEMMA CalmCovers ==
    ASSUME TypeOK, PendingCovers, Calm, UNCHANGED outcome
    PROVE  PendingCovers'
<1>1. \A q \in Requests : Owed(q)' => Owed(q)
  BY DEF Calm, Owed
<1> QED
  BY <1>1, OwesLess DEF Calm

-----------------------------------------------------------------------------
(* The steps of a request outside the send. *)

\* Moving or answering a request that neither was nor goes to send.
LEMMA GotoQueueAside ==
    ASSUME TypeOK, NextExact, NEW r \in Requests, pc[r] \notin {"send", "note"},
           NEW l, l \notin {"send", "note", "failed"}, Goto(r, l)
    PROVE  \A q \in Requests : /\ pc'[q] = "send" <=> pc[q] = "send"
                               /\ pc'[q] = "note" <=> pc[q] = "note"
                               /\ pc'[q] # "failed"
BY TypeFacts DEF Goto, NextExact

\* A look-up does not drop a chain that is fresh (tracker.go, chainLocked).
LEMMA FreshLookUp ==
    ASSUME NextExact
    PROVE  chainLocked = senders
BY DEF NextExact, chainLocked

LEMMA RequestQueueAside ==
    ASSUME Undisturbed, TypeOK, NextExact, ResolvedMined, UNCHANGED settleVars,
           NEW r \in Requests,
           \/ \E n \in Nonces : Arrive(r, n)
           \/ ClientGone(r)
           \/ RequestStep(r) /\ pc[r] \notin {"send", "note"} /\ pc'[r] # "send"
    PROVE  QueueAside
<1> USE DEF QueueAside
<1>c. chainLocked = senders
  BY FreshLookUp
<1>t. pc \in [Requests -> PCs] /\ nonce \in [Requests -> Nat]
  BY TypeFacts
<1>s. ResolvedMined' /\ UNCHANGED <<mined, outcome>>
  BY DEF ResolvedMined, settleVars
<1>1. CASE \E n \in Nonces : Arrive(r, n)
  <2>1. PICK n \in Nonces : Arrive(r, n)
    BY <1>1
  <2>2. pc[r] = "idle" /\ nonce' = [nonce EXCEPT ![r] = n] /\ senders' = senders
        /\ UNCHANGED <<sent, hubNonce, chainSent>>
    BY <1>c, <2>1 DEF Arrive
  <2>3. Goto(r, "turn") \/ Goto(r, "done")
    BY <2>1 DEF Arrive, RejectSurplus, Answer
  <2>4. \A q \in Requests : pc[q] # "idle" => nonce'[q] = nonce[q]
    BY <1>t, <2>2
  <2> QED
    BY <1>s, <2>2, <2>3, <2>4, GotoQueueAside
<1>2. CASE ClientGone(r)
  BY <1>2, <1>s, GotoQueueAside DEF ClientGone, Answer
<1>3. CASE TurnCached(r)
  BY <1>3, <1>s, <1>c, GotoQueueAside DEF TurnCached
<1>4. CASE TurnHub(r)
  BY <1>4, <1>s, GotoQueueAside DEF TurnHub, Answer
<1>5. CASE TurnInTurn(r) \/ TurnExpired(r)
  BY <1>5, <1>s, GotoQueueAside DEF TurnInTurn, TurnExpired, EndWait
<1>6. CASE TurnHold(r)
  BY <1>6, <1>s, GotoQueueAside DEF TurnHold
<1>7. CASE TurnSurplus(r)
  <2>1. Goto(r, "done") \/ Goto(r, "arm")
    BY <1>7 DEF TurnSurplus, RejectSurplus, Answer
  <2> QED
    BY <1>7, <2>1, <1>s, <1>c, GotoQueueAside DEF TurnSurplus
<1>8. CASE TurnSleep(r)
  BY <1>8, <1>s, GotoQueueAside DEF TurnSleep
<1>9. CASE DeadlinePasses(r)
  BY <1>9, <1>s DEF DeadlinePasses, trackerVars, NextExact
<1>10. CASE TurnWake(r)
  <2>1. Goto(r, "done") \/ Goto(r, "turn")
    BY <1>10 DEF TurnWake, RejectSurplus, Answer
  <2> QED
    BY <1>10, <2>1, <1>s, <1>c, GotoQueueAside DEF TurnWake
<1>11. CASE lockUser(r)
  BY <1>11, <1>s, GotoQueueAside DEF lockUser, trackerVars
<1>12. CASE ExpectCached(r) /\ pc'[r] # "send"
  <2>1. Goto(r, "done") \/ Goto(r, "expectHub")
    BY <1>12, <1>t DEF ExpectCached, Validate, Answer, Goto
  <2> QED
    BY <1>12, <2>1, <1>s, <1>c, GotoQueueAside DEF ExpectCached
<1>13. CASE ExpectHub(r) /\ pc'[r] # "send"
  <2>1. Goto(r, "done")
    BY <1>13, <1>t DEF ExpectHub, Validate, Answer, Goto
  <2> QED
    BY <1>13, <2>1, <1>s, GotoQueueAside DEF ExpectHub, trackerVars
<1>14. CASE (Send(r) \/ SendFails(r) \/ noteSent(r)) /\ pc[r] \notin {"send", "note"}
  BY <1>14 DEF Send, SendFails, noteSent
<1>15. CASE ForgetAfterFailure(r)
  BY <1>15 DEF ForgetAfterFailure, NextExact
<1> QED
  BY <1>1, <1>2, <1>3, <1>4, <1>5, <1>6, <1>7, <1>8, <1>9, <1>10, <1>11, <1>12,
     <1>13, <1>14, <1>15 DEF RequestStep

-----------------------------------------------------------------------------
(* The send. *)

\* Only the holder of the user's lock sends or notes.
LEMMA HolderAlone ==
    ASSUME ReservationMatches, NEW r \in Requests, pc[r] \in Locked
    PROVE  \A q \in Requests \ {r} : pc[q] \notin {"send", "note", "failed"}
BY DEF ReservationMatches, Locked

\* A nonce that was checked against the chain, or against the hub when there
\* is no chain, is the one the hub will expect (reorder.go, sendReordered).
LEMMA ValidateShape ==
    ASSUME Undisturbed, ReservationInv, HubShape, UNCHANGED settleVars, NEW r \in Requests,
           ExpectCached(r) \/ ExpectHub(r), pc'[r] = "send"
    PROVE  HubShape'
<1>t. /\ TypeOK /\ pc \in [Requests -> PCs] /\ nonce \in [Requests -> Nat]
      /\ sent \in Seq(Requests) /\ \A i \in DOMAIN sent : sent[i] \in Requests
  BY TypeFacts DEF ReservationInv
<1>c. chainLocked = senders
  BY FreshLookUp DEF HubShape
<1>a. \A q \in Requests \ {r} : pc[q] \notin {"send", "note", "failed"}
  BY HolderAlone DEF ReservationInv, ExpectCached, ExpectHub, Locked
<1>p. pc[r] \in {"expect", "expectHub"}
  BY DEF ExpectCached, ExpectHub
<1>m. mined \in Nat /\ mined <= Len(sent) /\ Len(sent) \in Nat /\ hubNonce \in Nat
  BY <1>t DEF TypeOK, ReorderTypeOK
<1>1. /\ pc' = [pc EXCEPT ![r] = "send"]
      /\ UNCHANGED <<senders, sent, hubNonce, chainSent, nonce, mined, outcome, reader>>
  BY <1>c, <1>t DEF ExpectCached, ExpectHub, Validate, Goto, Answer, settleVars, trackerVars
<1>2. nonce[r] = HubAhead
  <2>1. CASE ExpectCached(r)
    <3>1. senders.id # 0 /\ nonce[r] = senders.next
      BY <1>c, <1>t, <2>1 DEF ExpectCached, Validate, Goto, Answer
    <3> QED
      BY <1>a, <1>p, <3>1 DEF HubShape, NextExact
  <2>2. CASE ExpectHub(r)
    <3>1. nonce[r] = hubNonce /\ pc[r] = "expectHub"
      BY <1>t, <2>2 DEF ExpectHub, Validate, Goto, Answer
    <3>2. senders.id = 0
      BY <3>1 DEF ReservationInv, HubMeansNoChain
    <3>3. Unmined = {}
      BY <1>a, <1>p, <1>t, <3>2 DEF HubShape, UnminedReserved, Unmined
    <3>4. mined = Len(sent)
      <4> SUFFICES ASSUME mined # Len(sent) PROVE FALSE
        OBVIOUS
      <4>1. PICK n \in Nat : n = Len(sent)
        BY <1>m
      <4>2. mined < n /\ n \in 1..n
        BY <1>m, <4>1
      <4>3. n \in DOMAIN sent
        BY <1>t, <4>1, <4>2
      <4> QED
        BY <3>3, <4>2, <4>3 DEF Unmined
    <3> QED
      BY <1>m, <3>1, <3>4 DEF HubAhead
  <2> QED
    BY <2>1, <2>2
<1>3. \A q \in Requests : /\ pc'[q] = IF q = r THEN "send" ELSE pc[q]
  BY <1>1, <1>t
<1>4. HubAhead' = HubAhead /\ Unmined' = Unmined
  BY <1>1 DEF HubAhead, Unmined
<1>5. NextExact'
  BY <1>1, <1>2, <1>3, <1>4, <1>p DEF HubShape, NextExact
<1>6. UnminedReserved'
  <2>1. \A i \in DOMAIN sent : sent[i] # r
    BY <1>p DEF ReservationInv, SentLate
  <2> QED
    BY <1>1, <1>3, <1>4, <1>t, <2>1 DEF HubShape, UnminedReserved, Unmined
<1>7. QueueExact' /\ Consecutive' /\ ResolvedMined'
  BY <1>1, <1>4 DEF HubShape, QueueExact, Consecutive, ResolvedMined
<1> QED
  BY <1>5, <1>6, <1>7 DEF HubShape

\* The transaction that enters the queue carries the nonce after the last one.
LEMMA SendShape ==
    ASSUME ReservationInv, HubShape, UNCHANGED settleVars, NEW r \in Requests, Send(r)
    PROVE  HubShape'
<1>t. /\ TypeOK /\ pc \in [Requests -> PCs] /\ nonce \in [Requests -> Nat]
      /\ sent \in Seq(Requests) /\ \A i \in DOMAIN sent : sent[i] \in Requests
  BY TypeFacts DEF ReservationInv
<1> DEFINE L == Len(sent)
<1>m. mined \in Nat /\ mined <= L /\ L \in Nat /\ hubNonce \in Nat /\ DOMAIN sent = 1..L
  BY <1>t DEF TypeOK, ReorderTypeOK
<1>p. pc[r] = "send"
  BY DEF Send
<1>a. \A q \in Requests \ {r} : pc[q] \notin {"send", "note", "failed"}
  BY <1>p, HolderAlone DEF ReservationInv, Locked
<1>1. /\ pc' = [pc EXCEPT ![r] = "note"] /\ sent' = Append(sent, r)
      /\ UNCHANGED <<senders, hubNonce, chainSent, nonce, mined, outcome, reader>>
  BY DEF Send, Goto, settleVars, trackerVars
<1>2. /\ Len(sent') = L + 1 /\ DOMAIN sent' = 1..(L + 1)
      /\ sent'[L + 1] = r /\ \A i \in 1..L : sent'[i] = sent[i]
  BY <1>1, <1>t
<1>3. \A q \in Requests : pc'[q] = IF q = r THEN "note" ELSE pc[q]
  BY <1>1, <1>t
<1>4. nonce[r] = hubNonce + (L - mined)
  BY <1>p DEF HubShape, NextExact, HubAhead
<1>5. \A i \in 1..L : sent[i] # r
  BY <1>m, <1>p DEF ReservationInv, SentLate
<1>6. outcome[r] = "none"
  BY <1>5, <1>m DEF HubShape, QueueExact
<1>7. HubAhead' = hubNonce + ((L + 1) - mined)
  BY <1>1, <1>2 DEF HubAhead
<1> HIDE DEF L
<1>8. \A i \in 1..(L + 1) : i \in 1..L \/ i = L + 1
  BY <1>m
<1>9. QueueExact'
  <2>1. \A i, j \in DOMAIN sent' : sent'[i] = sent'[j] => i = j
    BY <1>2, <1>5, <1>8, <1>m DEF HubShape, QueueExact
  <2>2. \A i \in DOMAIN sent' : outcome[sent'[i]] = "none" <=> i > mined
    BY <1>2, <1>6, <1>8, <1>m DEF HubShape, QueueExact
  <2>3. \A q \in Requests : outcome[q] # "none" => \E i \in DOMAIN sent' : sent'[i] = q
    <3> SUFFICES ASSUME NEW q \in Requests, outcome[q] # "none"
                 PROVE  \E i \in DOMAIN sent' : sent'[i] = q
      OBVIOUS
    <3>1. PICK i \in DOMAIN sent : sent[i] = q
      BY DEF HubShape, QueueExact
    <3>2. i \in DOMAIN sent' /\ sent'[i] = q
      BY <1>2, <1>m, <3>1
    <3> QED
      BY <3>2
  <2> QED
    BY <1>1, <2>1, <2>2, <2>3 DEF HubShape, QueueExact
<1>10. Consecutive'
  <2> SUFFICES ASSUME NEW i \in 1..(L + 1), i > mined
               PROVE  nonce[sent'[i]] = hubNonce + (i - mined) - 1
    BY <1>1, <1>2 DEF Consecutive, Unmined
  <2>1. CASE i = L + 1
    BY <1>2, <1>4, <1>m, <2>1
  <2>2. CASE i \in 1..L
    BY <1>2, <1>m, <2>2 DEF HubShape, Consecutive, Unmined
  <2> QED
    BY <1>8, <2>1, <2>2
<1>11. UnminedReserved'
  <2> SUFFICES ASSUME NEW i \in 1..(L + 1), i > mined
               PROVE  \/ pc'[sent'[i]] = "note"
                      \/ senders.id # 0 /\ chainSent[sent'[i]] = senders.id
    BY <1>1, <1>2 DEF UnminedReserved, Unmined
  <2>1. CASE i = L + 1
    BY <1>2, <1>3, <2>1
  <2>2. CASE i \in 1..L
    BY <1>2, <1>3, <1>5, <1>m, <1>t, <2>2 DEF HubShape, UnminedReserved, Unmined
  <2> QED
    BY <1>8, <2>1, <2>2
<1>12. NextExact'
  <2>1. nonce[r] + 1 = HubAhead'
    BY <1>4, <1>7, <1>m
  <2> QED
    BY <1>1, <1>3, <1>a, <2>1 DEF HubShape, NextExact
<1>13. ResolvedMined'
  BY <1>1 DEF HubShape, ResolvedMined
<1> QED
  BY <1>9, <1>10, <1>11, <1>12, <1>13 DEF HubShape

\* What reserveLocked leaves for the nonce the live chain expects: a new chain,
\* or the same one with one more in flight (tracker.go).
LEMMA NoteReserves ==
    ASSUME ReservationInv, NextExact, NEW r \in Requests, noteSent(r)
    PROVE  /\ senders'.next = nonce[r] + 1 /\ ~senders'.old /\ senders'.id # 0
           /\ \/ senders'.id = lastChain + 1 /\ senders'.pending = 1 /\ senders.id = 0
              \/ /\ senders'.id = senders.id /\ senders.id # 0
                 /\ senders'.pending = senders.pending + 1
<1>t. senders \in Chain /\ lastChain \in Nat /\ nonce[r] \in Nat
  BY TypeFacts DEF ReservationInv
<1>c. chainLocked = senders /\ ~senders.old
  BY FreshLookUp DEF NextExact
<1>1. reserveLocked(nonce[r]) /\ pc[r] = "note"
  BY DEF noteSent
<1>2. CASE senders.id = 0
  <2>1. senders' = [id |-> lastChain + 1, next |-> nonce[r] + 1, pending |-> 1,
                    expiry |-> FALSE, old |-> FALSE]
    BY <1>1, <1>2, <1>c DEF reserveLocked
  <2>2. senders'.id = lastChain + 1 /\ senders'.pending = 1 /\ ~senders'.old
        /\ senders'.next = nonce[r] + 1
    BY <2>1
  <2> QED
    BY <1>2, <1>t, <2>2
<1>3. CASE senders.id # 0
  <2>1. senders.next = nonce[r]
    BY <1>1, <1>3 DEF ReservationInv, ReservationMatches
  <2> DEFINE ahead == IF senders.next > nonce[r] + 1 THEN senders.next ELSE nonce[r] + 1
  <2>2. ahead = nonce[r] + 1
    BY <1>t, <2>1
  <2>3. senders' = [senders EXCEPT !.next = ahead, !.pending = @ + 1, !.expiry = FALSE]
    BY <1>1, <1>3, <1>c DEF reserveLocked
  <2> HIDE DEF ahead
  <2>4. /\ senders'.id = senders.id /\ senders'.pending = senders.pending + 1
        /\ senders'.next = ahead /\ senders'.old = senders.old
    BY <1>t, <2>3 DEF Chain
  <2> QED
    BY <1>3, <1>c, <2>2, <2>4
<1> QED
  BY <1>2, <1>3

LEMMA NoteShape ==
    ASSUME ReservationInv, HubShape, UNCHANGED settleVars, NEW r \in Requests, noteSent(r)
    PROVE  HubShape'
<1>t. /\ TypeOK /\ pc \in [Requests -> PCs] /\ chainSent \in [Requests -> Nat]
      /\ \A i \in DOMAIN sent : sent[i] \in Requests
  BY TypeFacts DEF ReservationInv
<1>p. pc[r] = "note"
  BY DEF noteSent
<1>a. \A q \in Requests \ {r} : pc[q] \notin {"send", "note", "failed"}
  BY <1>p, HolderAlone DEF ReservationInv, Locked
<1>1. /\ pc' = [pc EXCEPT ![r] = "remember"]
      /\ chainSent' = [chainSent EXCEPT ![r] = senders'.id]
      /\ UNCHANGED <<sent, hubNonce, nonce, mined, outcome, reader>>
  BY DEF noteSent, Goto, settleVars
<1>2. \A q \in Requests : /\ pc'[q] = IF q = r THEN "remember" ELSE pc[q]
                          /\ chainSent'[q] = IF q = r THEN senders'.id ELSE chainSent[q]
  BY <1>1, <1>t
<1>3. /\ senders'.next = nonce[r] + 1 /\ ~senders'.old /\ senders'.id # 0
      /\ senders.id # 0 => senders'.id = senders.id
  BY NoteReserves DEF HubShape
<1>4. HubAhead' = HubAhead /\ Unmined' = Unmined /\ nonce[r] + 1 = HubAhead
  BY <1>1, <1>p DEF HubAhead, Unmined, HubShape, NextExact
<1>5. NextExact'
  BY <1>1, <1>2, <1>3, <1>4, <1>a DEF NextExact
<1>6. UnminedReserved'
  BY <1>1, <1>2, <1>3, <1>4, <1>a, <1>t DEF HubShape, UnminedReserved, Unmined
<1>7. QueueExact' /\ Consecutive' /\ ResolvedMined'
  BY <1>1, <1>4 DEF HubShape, QueueExact, Consecutive, ResolvedMined
<1> QED
  BY <1>5, <1>6, <1>7 DEF HubShape

LEMMA NoteCovers ==
    ASSUME ReservationInv, NextExact, PendingCovers, UNCHANGED settleVars,
           NEW r \in Requests, noteSent(r)
    PROVE  PendingCovers'
<1>t. /\ pc \in [Requests -> PCs] /\ chainSent \in [Requests -> Nat]
      /\ senders \in Chain /\ lastChain \in Nat /\ senders.pending \in Nat
  BY TypeFacts DEF ReservationInv, Chain
<1>1. /\ UNCHANGED <<entryChain, reader, outcome>>
      /\ \A q \in Requests \ {r} : pc'[q] = pc[q] /\ chainSent'[q] = chainSent[q]
      /\ pc[r] = "note" /\ pc'[r] = "remember" /\ chainSent'[r] = senders'.id
  BY <1>t DEF noteSent, Goto, settleVars
<1>2. chainSent[r] = 0 /\ \A q \in Requests : chainSent[q] <= lastChain
  BY <1>1 DEF ReservationInv, ReservedLate, ChainIds
<1>3. Owed(r)' /\ \A q \in Requests \ {r} : Owed(q)' <=> Owed(q)
  BY <1>1 DEF Owed
<1>4. CASE senders'.id = lastChain + 1 /\ senders'.pending = 1
  <2>1. \A q \in Requests \ {r} : chainSent'[q] # senders'.id
    BY <1>1, <1>2, <1>4, <1>t
  <2>2. UnresolvedOn(senders.id)' = {r}
    BY <1>1, <1>3, <2>1 DEF UnresolvedOn
  <2>3. Cardinality({r}) = 1
    BY FS_Singleton
  <2> QED
    BY <1>4, <2>2, <2>3 DEF PendingCovers
<1>5. CASE /\ senders'.id = senders.id /\ senders.id # 0
           /\ senders'.pending = senders.pending + 1
  <2> DEFINE S == UnresolvedOn(senders.id)
  <2>1. r \notin S
    BY <1>2, <1>5 DEF UnresolvedOn
  <2>2. UnresolvedOn(senders.id)' = S \cup {r}
    BY <1>1, <1>3, <1>5 DEF UnresolvedOn
  <2>3. IsFiniteSet(S) /\ Cardinality(S) \in Nat /\ senders.pending >= Cardinality(S)
    BY <1>5, UnresolvedFinite DEF PendingCovers
  <2> HIDE DEF S
  <2>4. Cardinality(S \cup {r}) = Cardinality(S) + 1
    BY <2>1, <2>3, FS_AddElement
  <2>5. senders'.pending >= Cardinality(S \cup {r})
    BY <1>5, <1>t, <2>3, <2>4
  <2> QED
    BY <2>2, <2>5 DEF PendingCovers
<1> QED
  BY <1>4, <1>5, NoteReserves

-----------------------------------------------------------------------------
(* The hub, the resolvers and the passing of time. *)

\* The head of the queue carries the nonce the hub expects: it is taken.
LEMMA MineShape ==
    ASSUME Undisturbed, TypeOK, HubShape, Mine
    PROVE  HubShape' /\ \A q \in Requests : outcome'[q] = "none" => outcome[q] = "none"
<1>t. /\ sent \in Seq(Requests) /\ outcome \in [Requests -> Outcomes]
      /\ \A i \in DOMAIN sent : sent[i] \in Requests
  BY TypeFacts DEF TypeOK
<1>m. mined \in Nat /\ mined < Len(sent) /\ Len(sent) \in Nat /\ hubNonce \in Nat
  BY <1>t DEF TypeOK, ReorderTypeOK, Mine
<1>d. mined + 1 \in DOMAIN sent /\ \A i \in DOMAIN sent : i \in Nat
  <2>1. PICK n \in Nat : n = Len(sent)
    BY <1>m
  <2>2. mined + 1 \in 1..n
    BY <1>m, <2>1
  <2> QED
    BY <1>t, <2>1, <2>2
<1>x. PICK r \in Requests : r = sent[mined + 1]
  BY <1>t, <1>d
<1>1. nonce[r] = hubNonce
  <2>1. mined + 1 \in Unmined
    BY <1>d, <1>m DEF Unmined
  <2>2. nonce[sent[mined + 1]] = hubNonce + ((mined + 1) - mined) - 1
    BY <2>1 DEF HubShape, Consecutive
  <2> QED
    BY <1>m, <1>x, <2>2
<1>2. /\ mined' = mined + 1 /\ hubNonce' = hubNonce + 1
      /\ outcome' = [outcome EXCEPT ![r] = "ok"]
      /\ UNCHANGED <<senders, nonce, pc, sent, chainSent, reader>>
  BY <1>1, <1>x DEF Mine, Undisturbed, trackerVars, requestVars
<1>3. \A q \in Requests : outcome'[q] = IF q = r THEN "ok" ELSE outcome[q]
  BY <1>2, <1>t
<1>4. HubAhead' = HubAhead
  <2>1. PICK n \in Nat : n = Len(sent) /\ n = Len(sent)'
    BY <1>m, <1>2
  <2>2. (hubNonce + 1) + (n - (mined + 1)) = hubNonce + (n - mined)
    BY <1>m, <2>1
  <2> QED
    BY <1>2, <2>1, <2>2 DEF HubAhead
<1>5. \A i \in DOMAIN sent : sent[i] = r <=> i = mined + 1
  BY <1>d, <1>x DEF HubShape, QueueExact
<1>6. QueueExact'
  <2>1. ASSUME NEW i \in DOMAIN sent
        PROVE  outcome'[sent[i]] = "none" <=> i > mined + 1
    <3>1. outcome[sent[i]] = "none" <=> i > mined
      BY DEF HubShape, QueueExact
    <3>2. i \in Nat /\ sent[i] \in Requests
      BY <1>d, <1>t
    <3>3. CASE i = mined + 1
      BY <1>3, <1>5, <1>m, <3>3
    <3>4. CASE i # mined + 1
      <4>1. outcome'[sent[i]] = outcome[sent[i]]
        BY <1>3, <1>5, <3>2, <3>4
      <4>2. i > mined <=> i > mined + 1
        BY <1>m, <3>2, <3>4
      <4> QED
        BY <3>1, <4>1, <4>2
    <3> QED
      BY <3>3, <3>4
  <2>2. ASSUME NEW q \in Requests
        PROVE  /\ outcome'[q] \in {"none", "ok"}
               /\ outcome'[q] # "none" => \E i \in DOMAIN sent : sent[i] = q
    BY <1>3, <1>5, <1>d DEF HubShape, QueueExact
  <2> QED
    BY <1>2, <2>1, <2>2 DEF HubShape, QueueExact
<1>7. Unmined' \in SUBSET Unmined
  BY <1>2, <1>d, <1>m DEF Unmined
<1>8. Consecutive'
  <2> SUFFICES ASSUME NEW i \in Unmined'
               PROVE  nonce[sent[i]] = (hubNonce + 1) + (i - (mined + 1)) - 1
    BY <1>2 DEF Consecutive
  <2>1. i \in Unmined /\ i \in Nat
    BY <1>7, <1>d DEF Unmined
  <2>2. nonce[sent[i]] = hubNonce + (i - mined) - 1
    BY <2>1 DEF HubShape, Consecutive
  <2> QED
    BY <1>m, <2>1, <2>2
<1>9. UnminedReserved'
  BY <1>2, <1>7 DEF HubShape, UnminedReserved
<1>10. NextExact'
  BY <1>2, <1>4 DEF HubShape, NextExact
<1>11. ResolvedMined'
  <2>1. \A p \in Readers : reader[p].step # "idle" => reader[p].tx \in Requests
    BY DEF TypeOK, ReaderState, BusyReader, IdleReader
  <2> QED
    BY <1>2, <1>3, <2>1 DEF HubShape, ResolvedMined
<1> QED
  BY <1>3, <1>6, <1>8, <1>9, <1>10, <1>11 DEF HubShape

\* A chain with nothing unresolved on it may go: what is still unmined is not
\* reserved yet.
LEMMA IdleChainMined ==
    ASSUME TypeOK, HubShape, NEW t,
           UnresolvedOn(senders.id) \in SUBSET {t},
           t \in Requests => outcome[t] # "none"
    PROVE  \A i \in Unmined : pc[sent[i]] = "note"
<1> SUFFICES ASSUME NEW i \in Unmined PROVE pc[sent[i]] = "note"
  OBVIOUS
<1>1. i \in DOMAIN sent /\ sent[i] \in Requests /\ outcome[sent[i]] = "none"
  BY TypeFacts DEF Unmined, HubShape, QueueExact
<1>2. sent[i] \notin UnresolvedOn(senders.id)
  BY <1>1
<1>3. chainSent[sent[i]] # senders.id
  BY <1>1, <1>2 DEF UnresolvedOn
<1> QED
  BY <1>3 DEF HubShape, UnminedReserved

\* The grace ends on a chain with nothing in flight (tracker.go, releaseChain).
LEMMA TimeHub ==
    ASSUME Undisturbed, TypeOK, ReservationInv, HubShape, PendingCovers, TimePasses
    PROVE  HubShape' /\ PendingCovers'
<1>1. /\ senders.pending = 0 /\ senders' = NoChain /\ nonce' = nonce
      /\ UNCHANGED <<pc, sent, hubNonce, chainSent, mined, outcome, reader>>
  BY DEF TimePasses, Undisturbed, GraceEnds, requestVars, settleVars
<1>2. PendingCovers'
  BY <1>1, NoChainId DEF PendingCovers
<1>3. CASE senders.id = 0
  <2>1. \A i \in Unmined : pc[sent[i]] = "note"
    BY <1>3 DEF HubShape, UnminedReserved
  <2>2. QueueAside
    BY <1>1, <2>1 DEF QueueAside, HubShape, NextExact, ResolvedMined
  <2> QED
    BY <1>2, <2>2, AsideShape DEF ReservationInv
<1>4. CASE senders.id # 0
  <2> DEFINE S == UnresolvedOn(senders.id)
  <2>1. IsFiniteSet(S) /\ Cardinality(S) \in Nat /\ senders.pending >= Cardinality(S)
    BY <1>4, UnresolvedFinite DEF PendingCovers
  <2>2. Cardinality(S) = 0
    BY <1>1, <2>1
  <2>3. S = {}
    BY <2>1, <2>2, FS_EmptySet
  <2>4. \A i \in Unmined : pc[sent[i]] = "note"
    <3>1. S \in SUBSET {NoRequest} /\ NoRequest \notin Requests
      BY <2>3, ReorderAssumption
    <3> QED
      BY <3>1, IdleChainMined
  <2>5. QueueAside
    BY <1>1, <2>4 DEF QueueAside, HubShape, NextExact, ResolvedMined
  <2> QED
    BY <1>2, <2>5, AsideShape DEF ReservationInv
<1> QED
  BY <1>3, <1>4

\* A place is given back for a metatx that is executed, so the chain that is
\* dropped with its last place has nothing unmined (tracker.go, releaseChain).
LEMMA ReleaseHub ==
    ASSUME HubInv, NEW p \in Readers, ReleaseReserved(p)
    PROVE  HubShape' /\ PendingCovers'
<1> DEFINE c == reader[p].chain
<1>t. /\ reader \in [Readers -> ReaderState] /\ senders \in Chain /\ TypeOK /\ ReservationInv
      /\ senders.pending \in Nat
  BY TypeFacts DEF HubInv, PendingInv, ReservationInv, TypeOK, Chain
<1>1. /\ UNCHANGED <<chainSent, entryChain, pc, result, sent, hubNonce, nonce, mined, outcome>>
      /\ reader[p].step = "release"
      /\ releaseChain(c)
      /\ reader'[p].step = "idle"
      /\ \A q \in Readers \ {p} : reader'[q] = reader[q]
  BY <1>t DEF ReleaseReserved, requestVars, IdleReader
<1>x. PICK t \in Requests : t = reader[p].tx
  BY <1>1, <1>t DEF ReaderState, IdleReader, BusyReader
<1>b. result[t] = "SENT" /\ outcome[t] = "ok"
  BY <1>1, <1>x DEF HubInv, HubShape, ResolvedMined, PendingInv, TokenInv, ReadsSent
<1>2. /\ c = chainSent[t] /\ entryChain[t] = 0
      /\ \A q \in Readers \ {p} : ~(reader[q].step = "release" /\ reader[q].tx = t)
  BY <1>1, <1>x DEF HubInv, PendingInv, TokenInv, ReaderToken
<1>3. pc[t] # "remember" /\ chainSent[t] # 0
  BY <1>b, <1>t DEF ReservationInv, ReservedLate
<1> HIDE DEF c
<1>4. /\ Owed(t) /\ ~Owed(t)'
      /\ \A q \in Requests \ {t} : Owed(q)' <=> Owed(q)
  <2>1. Owed(t) /\ ~Owed(t)'
    BY <1>1, <1>2, <1>3, <1>x DEF Owed
  <2>2. ASSUME NEW q \in Requests \ {t}
        PROVE  Owed(q)' <=> Owed(q)
    BY <1>1, <1>x DEF Owed
  <2> QED
    BY <2>1, <2>2
<1>5. ResolvedMined'
  BY <1>1 DEF HubInv, HubShape, ResolvedMined
<1>6. CASE senders.id # c
  <2>1. senders' = senders
    BY <1>1, <1>6 DEF releaseChain
  <2>2. QueueAside
    BY <1>1, <1>5, <2>1 DEF QueueAside, HubInv, HubShape, NextExact
  <2>3. PendingCovers'
    BY <1>1, <1>4, <1>t, <2>1, OwesLess DEF HubInv, CountKept
  <2> QED
    BY <1>t, <2>2, <2>3, AsideShape DEF HubInv, ReservationInv
<1>7. CASE senders.id = c
  <2> DEFINE S == UnresolvedOn(senders.id)
             left == IF senders.pending > 0 THEN senders.pending - 1 ELSE 0
  <2>1. /\ IsFiniteSet(S) /\ Cardinality(S) \in Nat /\ senders.pending >= Cardinality(S)
    BY <1>2, <1>3, <1>7, UnresolvedFinite DEF HubInv, PendingCovers
  <2>2. t \in S
    BY <1>2, <1>4, <1>7 DEF UnresolvedOn
  <2>3. UnresolvedOn(senders.id)' = S \ {t} \/ senders'.id # senders.id
    BY <1>1, <1>4, <1>b DEF UnresolvedOn
  <2>4. \/ /\ senders' = NoChain /\ left = 0
        \/ senders' = [senders EXCEPT !.pending = left, !.expiry = @ \/ left = 0]
    <3>1. left > 0 \/ left = 0
      BY <1>t
    <3>2. senders' = IF left > 0 \/ senders.expiry \/ HasGrace
                     THEN [senders EXCEPT !.pending = left, !.expiry = @ \/ left = 0]
                     ELSE NoChain
      BY <1>1, <1>2, <1>3, <1>7 DEF releaseChain
    <3> HIDE DEF left
    <3> QED
      BY <3>1, <3>2
  <2>i. S \in SUBSET {t} => \A i \in Unmined : pc[sent[i]] = "note"
    BY <1>b, <1>t, IdleChainMined DEF HubInv
  <2> HIDE DEF S
  <2>5. Cardinality(S \ {t}) = Cardinality(S) - 1 /\ Cardinality(S) # 0 /\ IsFiniteSet(S \ {t})
    BY <2>1, <2>2, FS_RemoveElement, FS_EmptySet
  <2>6. senders.pending > 0 /\ left = senders.pending - 1 /\ left >= Cardinality(S \ {t})
    BY <1>t, <2>1, <2>5
  <2> HIDE DEF left
  <2>7. CASE senders' = NoChain /\ left = 0
    <3>1. Cardinality(S \ {t}) = 0
      BY <2>1, <2>5, <2>6, <2>7
    <3>2. S \ {t} = {}
      BY <2>5, <3>1, FS_EmptySet
    <3>3. \A i \in Unmined : pc[sent[i]] = "note"
      BY <2>i, <3>2
    <3>4. QueueAside
      BY <1>1, <1>5, <2>7, <3>3 DEF QueueAside, HubInv, HubShape, NextExact
    <3>5. PendingCovers'
      BY <2>7, NoChainId DEF PendingCovers
    <3> QED
      BY <1>t, <3>4, <3>5, AsideShape DEF HubInv, ReservationInv
  <2>8. CASE senders' = [senders EXCEPT !.pending = left, !.expiry = @ \/ left = 0]
    <3>1. /\ senders'.id = senders.id /\ senders'.next = senders.next
          /\ senders'.old = senders.old /\ senders'.pending = left
      BY <1>t, <2>8 DEF Chain
    <3>2. QueueAside
      BY <1>1, <1>5, <3>1 DEF QueueAside, HubInv, HubShape, NextExact
    <3>3. PendingCovers'
      BY <2>3, <2>6, <3>1 DEF PendingCovers
    <3> QED
      BY <1>t, <3>2, <3>3, AsideShape DEF HubInv, ReservationInv
  <2> QED
    BY <2>4, <2>7, <2>8
<1> QED
  BY <1>6, <1>7

\* The resolvers before the release, the memory and the answer to the client.
LEMMA ResolveAside ==
    ASSUME TypeOK, HubShape, PendingCovers, SentLate,
           UNCHANGED <<sent, mined, hubNonce, outcome, chainSent, nonce, senders>>,
           \A q \in Requests : /\ pc'[q] = "send" <=> pc[q] = "send"
                               /\ pc'[q] = "note" <=> pc[q] = "note"
                               /\ pc'[q] # "failed"
                               /\ Owed(q)' => Owed(q),
           ResolvedMined'
    PROVE  HubShape' /\ PendingCovers'
<1>1. QueueAside
  BY DEF QueueAside
<1>2. CountKept
  BY DEF CountKept
<1> QED
  BY <1>1, <1>2, AsideShape, OwesLess

LEMMA ResolveHub ==
    ASSUME Undisturbed, HubInv, NEW p \in Readers, NEW t \in Requests,
           \/ SyncReads(p, t) \/ WatcherReads(t) \/ WatcherExpires(t) \/ NewBlock
           \/ claimSettled(p) \/ releaseSent(p) \/ MemoryForgets(t)
    PROVE  HubShape' /\ PendingCovers'
<1>t. /\ TypeOK /\ SentLate /\ HubShape /\ PendingCovers /\ reader \in [Readers -> ReaderState]
      /\ entryChain \in [Requests -> Nat]
  BY DEF HubInv, PendingInv, ReservationInv, TypeOK
<1>g. outcome[t] \in {"none", "ok"} /\ ResolvedMined
  BY <1>t DEF HubShape, QueueExact
<1>f. \A q \in Requests : pc[q] # "failed"
  BY <1>t DEF HubShape, NextExact
<1>1. ASSUME NEW w \in Readers, readHubEvents(w, t), outcome[t] # "none", reader[w].step = "idle"
      PROVE  HubShape' /\ PendingCovers'
  <2> DEFINE s == [step |-> "claim", tx |-> t, hubRejected |-> outcome[t] \in Bad, chain |-> 0]
  <2>1. outcome[t] \notin Bad /\ outcome[t] = "ok"
    BY <1>1, <1>g DEF Bad
  <2>2. /\ UNCHANGED <<sent, mined, hubNonce, outcome, chainSent, nonce, senders, pc, entryChain>>
        /\ reader' = [reader EXCEPT ![w] = s]
    BY <1>1, <2>1 DEF readHubEvents, requestVars
  <2>3. s.step = "claim" /\ s.tx = t
    OBVIOUS
  <2> HIDE DEF s
  <2>4. reader'[w] = s /\ \A q \in Readers \ {w} : reader'[q] = reader[q]
    BY <1>t, <2>2
  <2>5. ResolvedMined'
    BY <1>g, <2>1, <2>2, <2>3, <2>4 DEF ResolvedMined
  <2>6. \A q \in Requests : Owed(q)' => Owed(q)
    BY <2>2, <2>3, <2>4 DEF Owed
  <2> QED
    BY <1>f, <1>t, <2>2, <2>5, <2>6, ResolveAside
<1>2. CASE SyncReads(p, t)
  BY <1>1, <1>2 DEF SyncReads
<1>3. CASE WatcherReads(t)
  BY <1>1, <1>3, SettlementAssumption DEF WatcherReads
<1>4. CASE WatcherExpires(t) \/ NewBlock
  <2>1. UNCHANGED <<sent, mined, hubNonce, outcome, chainSent, nonce, senders, pc, entryChain, reader>>
    BY <1>4 DEF WatcherExpires, NewBlock, Undisturbed, reorderVars, trackerVars, requestVars
  <2>2. ResolvedMined' /\ \A q \in Requests : Owed(q)' => Owed(q)
    BY <1>g, <2>1 DEF ResolvedMined, Owed
  <2> QED
    BY <1>f, <1>t, <2>1, <2>2, ResolveAside
<1>5. CASE claimSettled(p)
  <2>1. /\ UNCHANGED <<sent, mined, hubNonce, outcome, chainSent, nonce, senders, pc, entryChain>>
        /\ reader[p].step = "claim"
    BY <1>5 DEF claimSettled, reorderVars, trackerVars, requestVars
  <2>b. reader[p] \in BusyReader
    BY <1>t, <2>1 DEF ReaderState, IdleReader
  <2>2. /\ reader'[p].step = "idle" \/ (reader'[p].step = "take" /\ reader'[p].tx = reader[p].tx)
        /\ \A q \in Readers \ {p} : reader'[q] = reader[q]
    <3>1. CASE reader' = [reader EXCEPT ![p] = IdleReader]
      BY <1>t, <3>1 DEF IdleReader
    <3>2. CASE reader' = [reader EXCEPT ![p].step = "take"]
      BY <1>t, <2>b, <3>2 DEF BusyReader
    <3> QED
      BY <1>5, <3>1, <3>2 DEF claimSettled
  <2>3. ResolvedMined'
    BY <1>g, <2>1, <2>2 DEF ResolvedMined
  <2>4. \A q \in Requests : Owed(q)' => Owed(q)
    BY <2>1, <2>2 DEF Owed
  <2> QED
    BY <1>f, <1>t, <2>1, <2>3, <2>4, ResolveAside
<1>6. CASE releaseSent(p)
  <2>1. /\ UNCHANGED <<sent, mined, hubNonce, outcome, chainSent, nonce, senders, pc>>
        /\ reader[p].step = "take" /\ entryChain' = [entryChain EXCEPT ![reader[p].tx] = 0]
    BY <1>6 DEF releaseSent, reorderVars, trackerVars, requestVars
  <2>b. reader[p] \in BusyReader
    BY <1>t, <2>1 DEF ReaderState, IdleReader
  <2>x. PICK u \in Requests : u = reader[p].tx
    BY <2>b DEF BusyReader
  <2>2. /\ \/ reader'[p].step = "idle"
           \/ reader'[p].step = "release" /\ reader'[p].tx = u /\ entryChain[u] # 0
        /\ \A q \in Readers \ {p} : reader'[q] = reader[q]
    <3>1. CASE reader' = [reader EXCEPT ![p] = IdleReader]
      BY <1>t, <3>1 DEF IdleReader
    <3>2. CASE /\ entryChain[u] # 0
               /\ reader' = [reader EXCEPT ![p] = [reader[p] EXCEPT !.step = "release",
                                                                    !.chain = entryChain[u]]]
      BY <1>t, <2>b, <2>x, <3>2 DEF BusyReader
    <3> QED
      BY <1>6, <2>x, <3>1, <3>2 DEF releaseSent
  <2>3. ResolvedMined'
    BY <1>g, <2>1, <2>2, <2>x DEF ResolvedMined
  <2>4. \A q \in Requests : entryChain'[q] # 0 => entryChain[q] # 0
    BY <1>t, <2>1, <2>x
  <2>5. \A q \in Requests : Owed(q)' => Owed(q)
    BY <2>1, <2>2, <2>4 DEF Owed
  <2> QED
    BY <1>f, <1>t, <2>1, <2>3, <2>5, ResolveAside
<1>7. CASE MemoryForgets(t)
  <2>1. /\ UNCHANGED <<sent, mined, hubNonce, outcome, chainSent, nonce, senders, pc, reader>>
        /\ entryChain' = [entryChain EXCEPT ![t] = 0]
    BY <1>7 DEF MemoryForgets, reorderVars, trackerVars, requestVars
  <2>2. \A q \in Requests : entryChain'[q] # 0 => entryChain[q] # 0
    BY <1>t, <2>1
  <2>3. ResolvedMined' /\ \A q \in Requests : Owed(q)' => Owed(q)
    BY <1>g, <2>1, <2>2 DEF ResolvedMined, Owed
  <2> QED
    BY <1>f, <1>t, <2>1, <2>3, ResolveAside
<1> QED
  BY <1>2, <1>3, <1>4, <1>5, <1>6, <1>7

\* The answer hands the place from the request to the memory's entry.
LEMMA RememberHub ==
    ASSUME HubInv, NEW r \in Requests, rememberMetaTx(r)
    PROVE  HubShape' /\ PendingCovers'
<1>t. /\ TypeOK /\ SentLate /\ HubShape /\ PendingCovers /\ pc \in [Requests -> PCs]
      /\ entryChain \in [Requests -> Nat]
  BY TypeFacts DEF HubInv, PendingInv, ReservationInv, TypeOK
<1>1. /\ UNCHANGED <<sent, mined, hubNonce, outcome, chainSent, nonce, senders, reader>>
      /\ pc[r] = "remember" /\ Goto(r, "done")
      /\ entryChain' = [entryChain EXCEPT ![r] = chainSent[r]]
  BY DEF rememberMetaTx, Answer, trackerVars
<1>2. \A q \in Requests : /\ pc'[q] = "send" <=> pc[q] = "send"
                          /\ pc'[q] = "note" <=> pc[q] = "note"
                          /\ pc'[q] # "failed"
  BY <1>1, <1>t, GotoQueueAside DEF HubShape
<1>3. \A q \in Requests \ {r} : pc'[q] = pc[q] /\ entryChain'[q] = entryChain[q]
  BY <1>1, <1>t DEF Goto
<1>4. \A q \in Requests : Owed(q)' => Owed(q)
  BY <1>1, <1>3 DEF Owed
<1>5. ResolvedMined'
  BY <1>1, <1>t DEF HubShape, ResolvedMined
<1> QED
  BY <1>1, <1>2, <1>4, <1>5, <1>t, ResolveAside

-----------------------------------------------------------------------------
LEMMA HubStep ==
    ASSUME Undisturbed
    PROVE  HubInv /\ [Next]_vars => HubInv'
<1> SUFFICES ASSUME HubInv, [Next]_vars PROVE HubInv'
  OBVIOUS
<1>p. PendingInv'
  BY PendingStep DEF HubInv
<1>t. /\ TypeOK /\ ReservationInv /\ SentLate /\ ReservedLate /\ HubShape /\ PendingCovers
      /\ NextExact /\ ResolvedMined /\ pc \in [Requests -> PCs]
  BY TypeFacts DEF HubInv, PendingInv, ReservationInv, HubShape
<1> SUFFICES HubShape' /\ PendingCovers'
  BY <1>p DEF HubInv
<1>1. ASSUME NEW r \in Requests, UNCHANGED settleVars,
             \/ \E n \in Nonces : Arrive(r, n)
             \/ ClientGone(r)
             \/ RequestStep(r) /\ pc[r] \notin {"send", "note"} /\ pc'[r] # "send"
      PROVE  HubShape' /\ PendingCovers'
  <2>1. QueueAside
    BY <1>1, <1>t, RequestQueueAside
  <2>2. RequestStep(r) /\ pc[r] # "note" => ~noteSent(r)
    BY DEF noteSent
  <2>3. Calm
    BY <1>1, <1>t, <2>2, RequestCalm
  <2> QED
    BY <1>t, <2>1, <2>3, AsideShape, CalmCovers DEF QueueAside
<1>2. ASSUME NEW r \in Requests, UNCHANGED settleVars, RequestStep(r), pc[r] = "note"
      PROVE  HubShape' /\ PendingCovers'
  <2>1. noteSent(r)
    BY <1>2 DEF RequestStep, TurnCached, TurnHub, TurnInTurn, TurnHold, TurnExpired, TurnSurplus,
       TurnSleep, DeadlinePasses, TurnWake, lockUser, ExpectCached, ExpectHub, Send, SendFails,
       ForgetAfterFailure
  <2> QED
    BY <1>2, <1>t, <2>1, NoteShape, NoteCovers
<1>3. ASSUME NEW r \in Requests, UNCHANGED settleVars, RequestStep(r), pc[r] = "send"
      PROVE  HubShape' /\ PendingCovers'
  <2>1. Send(r)
    BY <1>3 DEF RequestStep, TurnCached, TurnHub, TurnInTurn, TurnHold, TurnExpired, TurnSurplus,
       TurnSleep, DeadlinePasses, TurnWake, lockUser, ExpectCached, ExpectHub, noteSent, SendFails,
       ForgetAfterFailure, Undisturbed
  <2>2. Calm
    <3>1. ~noteSent(r)
      BY <1>3 DEF noteSent
    <3> QED
      BY <1>3, <1>t, <3>1, RequestCalm
  <2> QED
    BY <1>3, <1>t, <2>1, <2>2, SendShape, CalmCovers DEF settleVars
<1>4. ASSUME NEW r \in Requests, UNCHANGED settleVars, RequestStep(r),
             pc[r] \notin {"send", "note"}, pc'[r] = "send"
      PROVE  HubShape' /\ PendingCovers'
  <2>1. ExpectCached(r) \/ ExpectHub(r)
    BY <1>4, <1>t DEF RequestStep, TurnCached, TurnHub, TurnInTurn, TurnHold, TurnExpired,
       TurnSurplus, TurnSleep, DeadlinePasses, TurnWake, lockUser, Send, SendFails, noteSent,
       ForgetAfterFailure, Goto, Answer, RejectSurplus, EndWait
  <2>2. Calm
    <3>1. ~noteSent(r)
      BY <1>4 DEF noteSent
    <3> QED
      BY <1>4, <1>t, <3>1, RequestCalm
  <2> QED
    BY <1>4, <1>t, <2>1, <2>2, ValidateShape, CalmCovers DEF settleVars
<1>5. ASSUME NEW r \in Requests, RequestRuns(r) PROVE HubShape' /\ PendingCovers'
  BY <1>1, <1>2, <1>3, <1>4, <1>5, RememberHub DEF RequestRuns
<1>6. ASSUME NEW r \in Requests, ConsultReceipt(r) \/ SyncPanics(r) \/ WatcherPanics(r)
      PROVE  FALSE
  BY <1>6, <1>t DEF ConsultReceipt, SyncPanics, WatcherPanics, HubShape, QueueExact, Bad
<1>7. ASSUME NEW p \in Readers, ReaderRuns(p) PROVE HubShape' /\ PendingCovers'
  <2>1. CASE ReleaseReserved(p)
    BY <2>1, ReleaseHub
  <2>2. CASE claimSettled(p) \/ releaseSent(p)
    <3>1. reader[p].tx \in Requests
      BY <1>t, <2>2 DEF claimSettled, releaseSent, TypeOK, ReaderState, BusyReader, IdleReader
    <3> QED
      BY <2>2, <3>1, ResolveHub
  <2> QED
    BY <1>7, <2>1, <2>2 DEF ReaderRuns
<1>8. CASE WatcherRuns
  <2>1. CASE NewBlock
    <3>1. todo' \in SUBSET Requests /\ todo' # {}
      BY <1>t, <2>1 DEF NewBlock, TypeOK
    <3>2. PICK t \in Requests : t \in todo'
      BY <3>1
    <3> QED
      BY <2>1, <3>2, ResolveHub, SettlementAssumption
  <2>2. ASSUME NEW t \in Requests, WatcherReads(t) \/ WatcherExpires(t)
        PROVE  HubShape' /\ PendingCovers'
    BY <2>2, ResolveHub, SettlementAssumption
  <2> QED
    BY <1>6, <1>8, <2>1, <2>2 DEF WatcherRuns
<1>9. CASE Mine
  <2>1. HubShape' /\ \A q \in Requests : outcome'[q] = "none" => outcome[q] = "none"
    BY <1>9, <1>t, MineShape
  <2>2. Calm
    BY <1>9, <1>t, ServiceCalm
  <2>3. senders'.id # 0 => UnresolvedOn(senders.id)' \in SUBSET UnresolvedOn(senders.id)
    <3>1. \A q \in Requests : Owed(q)' => Owed(q)
      BY <2>2 DEF Calm, Owed
    <3> QED
      BY <2>1, <2>2, <3>1, NoChainId DEF Calm, CountKept, UnresolvedOn
  <2> QED
    BY <1>t, <2>1, <2>2, <2>3, CoversKept DEF Calm
<1>10. CASE TimePasses
  BY <1>10, <1>t, TimeHub
<1>11. CASE UNCHANGED vars
  <2>1. QueueAside
    BY <1>11, <1>t DEF vars, reorderVars, settleVars, trackerVars, requestVars, QueueAside,
       NextExact, ResolvedMined
  <2>2. Calm /\ UNCHANGED outcome
    BY <1>11, <1>t, ServiceCalm DEF vars, settleVars
  <2> QED
    BY <1>t, <2>1, <2>2, AsideShape, CalmCovers
<1>12. ASSUME NEW r \in Requests, MemoryForgets(r) PROVE HubShape' /\ PendingCovers'
  BY <1>12, ResolveHub, SettlementAssumption
<1>13. ASSUME NEW p \in Readers, NEW t \in Requests, SyncReads(p, t)
       PROVE  HubShape' /\ PendingCovers'
  BY <1>13, ResolveHub
<1> QED
  BY <1>1, <1>5, <1>6, <1>7, <1>8, <1>9, <1>10, <1>11, <1>12, <1>13 DEF Next, Running, Quiet

LEMMA HubInit == Init => HubInv
<1> SUFFICES ASSUME Init PROVE HubInv
  OBVIOUS
<1>1. PendingInv
  BY PendingInit
<1>2. /\ sent = <<>> /\ mined = 0 /\ hubNonce = 0 /\ senders = NoChain
      /\ pc = [r \in Requests |-> "idle"] /\ outcome = [r \in Requests |-> "none"]
      /\ reader = [p \in Readers |-> IdleReader]
  BY DEF Init, ReorderInit, TrackerInit
<1>3. DOMAIN sent = {} /\ Unmined = {}
  BY <1>2 DEF Unmined
<1>4. QueueExact /\ Consecutive /\ UnminedReserved
  BY <1>2, <1>3 DEF QueueExact, Consecutive, UnminedReserved
<1>5. NextExact
  BY <1>2, NoChainOld DEF NextExact
<1>6. ResolvedMined
  BY <1>2 DEF ResolvedMined, IdleReader
<1>7. PendingCovers
  BY <1>2, NoChainId DEF PendingCovers
<1> QED
  BY <1>1, <1>4, <1>5, <1>6, <1>7 DEF HubInv, HubShape

\* With a node that answers, a hub that rejects for the nonce only, results that
\* can be decoded and no timeout, the hub rejects nothing the service sent, for any number of
\* requests, nonces and resolvers, whatever the memory forgets (reorder.go,
\* sendReordered; tracker.go, reserveLocked and releaseChain).
THEOREM HubTakesEverySendCorrect ==
    ASSUME Undisturbed
    PROVE  Spec => []HubTakesEverySend
<1>1. Init => HubInv
  BY HubInit
<1>2. HubInv /\ [Next]_vars => HubInv'
  BY HubStep
<1>3. HubInv => HubTakesEverySend
  BY DEF HubInv, HubShape, QueueExact, HubTakesEverySend
<1> QED
  BY <1>1, <1>2, <1>3, PTL DEF Spec
=============================================================================
