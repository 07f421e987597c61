------------------------------- MODULE Tracker -------------------------------
(***************************************************************************)
(* The in-flight nonce tracker of ONE user (service/tracker.go): the chain *)
(* of nonces the service has reserved for the user, and the metatx that    *)
(* the reordering holds back until their turn.                             *)
(*                                                                         *)
(* Every map of tracker.go is indexed by the lower-cased sender and every  *)
(* function touches the entry of its own key only, so the users do not     *)
(* interact here and one key is modelled.  Every operator below is one     *)
(* critical section of sendersLock (or the part of one that the ...Locked  *)
(* helpers stand for).                                                     *)
(*                                                                         *)
(* A nonceEntry's identity is its pointer.  A chain that has been dropped  *)
(* is only ever compared with the current one, never read again, so only   *)
(* the current entry is kept, with an identity drawn from a counter.       *)
(***************************************************************************)
EXTENDS Integers, Sequences, FiniteSets

CONSTANTS
    Requests,       \* the metatx of the user, each the identity of its request
    MaxInflight,    \* reorder.maxInflightPerUser
    HasGrace        \* reorder.windowMs > 0: dropping an idle chain is delayed

ASSUME TrackerAssumption ==
    /\ IsFiniteSet(Requests)
    /\ MaxInflight \in Nat \ {0}
    /\ HasGrace \in BOOLEAN

VARIABLES
    senders,        \* the user's nonceEntry, NoChain when the map has none
    lastChain,      \* identities handed to nonceEntry values so far
    held,           \* held[key]: the held metatx in arrival order
    nonce,          \* the hub nonce each metatx is signed with
    wake,           \* heldMetaTx.wake: nil, an open channel, or a closed one
    evicted,        \* heldMetaTx.evicted
    evictedInflight \* heldMetaTx.evictedInflight

trackerVars == <<senders, lastChain, held, nonce, wake, evicted, evictedInflight>>

\* `expiry` is the armed grace timer, `old` says that updatedAt is further
\* back than nonceCacheTTL.
Chain == [id : Nat, next : Nat, pending : Nat, expiry : BOOLEAN, old : BOOLEAN]

NoChain == [id |-> 0, next |-> 0, pending |-> 0, expiry |-> FALSE, old |-> FALSE]

TrackerTypeOK ==
    /\ senders \in Chain
    /\ lastChain \in Nat
    /\ held \in Seq(Requests)
    /\ nonce \in [Requests -> Nat]
    /\ wake \in [Requests -> {"nil", "open", "closed"}]
    /\ evicted \in [Requests -> BOOLEAN]
    /\ evictedInflight \in [Requests -> Nat]

TrackerInit ==
    /\ senders = NoChain
    /\ lastChain = 0
    /\ held = <<>>
    /\ nonce = [r \in Requests |-> 0]
    /\ wake = [r \in Requests |-> "nil"]
    /\ evicted = [r \in Requests |-> FALSE]
    /\ evictedInflight = [r \in Requests |-> 0]

-----------------------------------------------------------------------------
(* The chain of nonces. *)

\* chainLocked: every look-up first drops an entry whose TTL has passed.
chainLocked == IF senders.old THEN NoChain ELSE senders

\* reserveLocked with inFlight: the nonce is used and one more metatx is in
\* flight.  It never adds blindly: an entry that is already ahead stays ahead.
reserveLocked(n) ==
    LET c == chainLocked
    IN  IF c.id = 0
        THEN /\ lastChain' = lastChain + 1
             /\ senders' = [id |-> lastChain + 1, next |-> n + 1, pending |-> 1,
                            expiry |-> FALSE, old |-> FALSE]
        ELSE /\ senders' = [c EXCEPT !.next = IF @ > n + 1 THEN @ ELSE n + 1,
                                     !.pending = @ + 1,
                                     !.expiry = FALSE]
             /\ UNCHANGED lastChain

\* wakeLocked on each of a set of held metatx: closing is what wakes.
wakeLocked(S) ==
    wake' = [r \in Requests |-> IF r \in S /\ wake[r] = "open" THEN "closed" ELSE wake[r]]

HeldSet == {held[i] : i \in DOMAIN held}

\* notifyTurnLocked: everyone held re-evaluates.
notifyTurnLocked == wakeLocked(HeldSet)

\* Faulty variants of releaseChain: the identity of the chain is not compared;
\* the chain is dropped by the first result.
releaseChainAnyChain(c) ==
    LET left == IF senders.pending > 0 THEN senders.pending - 1 ELSE 0
    IN  /\ notifyTurnLocked
        /\ senders' = [senders EXCEPT !.pending = left, !.expiry = left = 0]

releaseChainDrops(c) ==
    IF c = 0 \/ senders.id # c THEN UNCHANGED <<senders, wake>>
    ELSE senders' = NoChain /\ notifyTurnLocked

\* releaseChain: a result of a chain that is no longer the current one changes
\* nothing; at zero in flight the entry is dropped, after the grace if any.
releaseChain(c) ==
    IF c = 0 \/ senders.id # c
    THEN UNCHANGED <<senders, wake>>
    ELSE LET left == IF senders.pending > 0 THEN senders.pending - 1 ELSE 0
         IN  /\ notifyTurnLocked
             /\ senders' = IF left > 0 \/ senders.expiry \/ HasGrace
                           THEN [senders EXCEPT !.pending = left,
                                                !.expiry = @ \/ left = 0]
                           ELSE NoChain

\* forgetChain: whatever is known of the user is dropped, and the held metatx
\* re-evaluate against the block chain.
forgetChain ==
    /\ senders' = NoChain
    /\ notifyTurnLocked

\* The callback of the grace timer of the current chain.
GraceEnds ==
    /\ senders.expiry
    /\ senders.pending = 0
    /\ senders' = NoChain
    /\ UNCHANGED <<lastChain, held, nonce, wake, evicted, evictedInflight>>

\* Time passes and nonceCacheTTL runs out on the current chain.
TTLPasses ==
    /\ senders.id # 0
    /\ ~senders.old
    /\ senders' = [senders EXCEPT !.old = TRUE]
    /\ UNCHANGED <<lastChain, held, nonce, wake, evicted, evictedInflight>>

-----------------------------------------------------------------------------
(* The held metatx. *)

\* held without r; nothing changes when r was taken out before (unhold is
\* idempotent: an evicted metatx calls it again when it wakes up).
Unheld(r) ==
    IF r \notin HeldSet THEN held
    ELSE LET i == CHOOSE j \in DOMAIN held : held[j] = r
         IN  SubSeq(held, 1, i - 1) \o SubSeq(held, i + 1, Len(held))

\* highestHeldLocked: the held metatx of highest nonce, of equals the one
\* that arrived last.  Defined when something is held.
highestHeldLocked ==
    held[CHOOSE i \in DOMAIN held :
            \A j \in DOMAIN held :
                \/ nonce[held[j]] < nonce[held[i]]
                \/ nonce[held[j]] = nonce[held[i]] /\ j <= i]

\* inflightLocked: sent and unresolved, plus held.
inflightLocked == Len(held) + chainLocked.pending

\* evictHeldLocked: mark, take out of the registry and wake, in one section.
evictHeldLocked(r) ==
    /\ evicted' = [evicted EXCEPT ![r] = TRUE]
    /\ evictedInflight' = [evictedInflight EXCEPT ![r] = inflightLocked]
    /\ held' = Unheld(r)
    /\ wakeLocked({r})
=============================================================================
