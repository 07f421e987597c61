----------------------------- MODULE UserLocks -----------------------------
(***************************************************************************)
(* The locks of the users (service/reorder.go, userLock and lockUser): a   *)
(* map with one lock per user that has goroutines at work, counted so that *)
(* the entry can be deleted with the last one.  Registering, locking,      *)
(* unlocking and deregistering are four steps under two different mutexes. *)
(*                                                                         *)
(* A lock is an object of the heap: a new one is any that nobody refers to.*)
(***************************************************************************)
EXTENDS Integers, FiniteSets

CONSTANTS Keys, Goroutines, Locks, NoLock, NoOne

ASSUME UserLocksAssumption ==
    /\ IsFiniteSet(Goroutines)
    /\ NoLock \notin Locks
    /\ NoOne \notin Goroutines

VARIABLES
    userLocks,      \* userLocks[key], NoLock when the map has none
    users,          \* userLock.users
    mutex,          \* who holds userLock.mutex
    at,             \* where each goroutine is
    key,            \* the user it works for
    lock            \* the lock it refers to

vars == <<userLocks, users, mutex, at, key, lock>>

TypeOK ==
    /\ userLocks \in [Keys -> Locks \cup {NoLock}]
    /\ users \in [Locks -> Nat]
    /\ mutex \in [Locks -> Goroutines \cup {NoOne}]
    /\ at \in [Goroutines -> {"out", "waiting", "inside", "leaving"}]
    /\ key \in [Goroutines -> Keys]
    /\ lock \in [Goroutines -> Locks \cup {NoLock}]

Init ==
    /\ userLocks = [k \in Keys |-> NoLock]
    /\ users = [l \in Locks |-> 0]
    /\ mutex = [l \in Locks |-> NoOne]
    /\ at = [g \in Goroutines |-> "out"]
    /\ key \in [Goroutines -> Keys]
    /\ lock = [g \in Goroutines |-> NoLock]

Unreferenced(l) ==
    /\ \A k \in Keys : userLocks[k] # l
    /\ \A g \in Goroutines : lock[g] # l

\* lockUser under userLocksMutex: the lock of the user, a new one if the map
\* has none, has one more user.
Register(g, k) ==
    /\ at[g] = "out"
    /\ at' = [at EXCEPT ![g] = "waiting"]
    /\ key' = [key EXCEPT ![g] = k]
    /\ \E l \in Locks :
          /\ \/ /\ userLocks[k] = l
                /\ users' = [users EXCEPT ![l] = @ + 1]
                /\ UNCHANGED mutex
             \/ /\ userLocks[k] = NoLock
                /\ Unreferenced(l)
                /\ users' = [users EXCEPT ![l] = 1]
                /\ mutex' = [mutex EXCEPT ![l] = NoOne]
          /\ userLocks' = [userLocks EXCEPT ![k] = l]
          /\ lock' = [lock EXCEPT ![g] = l]

\* lock.mutex.Lock().
Acquire(g) ==
    /\ at[g] = "waiting"
    /\ mutex[lock[g]] = NoOne
    /\ mutex' = [mutex EXCEPT ![lock[g]] = g]
    /\ at' = [at EXCEPT ![g] = "inside"]
    /\ UNCHANGED <<userLocks, users, key, lock>>

\* Faulty variant: the goroutine leaves with the mutex taken.
ReleaseForgotten(g) ==
    /\ at[g] = "inside"
    /\ at' = [at EXCEPT ![g] = "leaving"]
    /\ UNCHANGED <<userLocks, users, mutex, key, lock>>

\* The returned function: lock.mutex.Unlock().
Release(g) ==
    /\ at[g] = "inside"
    /\ mutex' = [mutex EXCEPT ![lock[g]] = NoOne]
    /\ at' = [at EXCEPT ![g] = "leaving"]
    /\ UNCHANGED <<userLocks, users, key, lock>>

\* Faulty variants: the entry is deleted by whoever leaves first; never.
DeregisterAlways(g) ==
    /\ at[g] = "leaving"
    /\ at' = [at EXCEPT ![g] = "out"]
    /\ lock' = [lock EXCEPT ![g] = NoLock]
    /\ users' = [users EXCEPT ![lock[g]] = @ - 1]
    /\ userLocks' = [userLocks EXCEPT ![key[g]] = NoLock]
    /\ UNCHANGED <<mutex, key>>

DeregisterNever(g) ==
    /\ at[g] = "leaving"
    /\ at' = [at EXCEPT ![g] = "out"]
    /\ lock' = [lock EXCEPT ![g] = NoLock]
    /\ users' = [users EXCEPT ![lock[g]] = @ - 1]
    /\ UNCHANGED <<userLocks, mutex, key>>

\* The returned function under userLocksMutex: the last one deletes the entry.
Deregister(g) ==
    /\ at[g] = "leaving"
    /\ at' = [at EXCEPT ![g] = "out"]
    /\ lock' = [lock EXCEPT ![g] = NoLock]
    /\ users' = [users EXCEPT ![lock[g]] = @ - 1]
    /\ userLocks' = IF users[lock[g]] = 1
                    THEN [userLocks EXCEPT ![key[g]] = NoLock]
                    ELSE userLocks
    /\ UNCHANGED <<mutex, key>>

Next ==
    \E g \in Goroutines :
        \/ \E k \in Keys : Register(g, k)
        \/ Acquire(g) \/ Release(g) \/ Deregister(g)

Spec == Init /\ [][Next]_vars

\* A goroutine inside is never stopped (it waits for no receipt there), and a
\* Go mutex serves its waiters in order once they have waited long.
Fairness ==
    \A g \in Goroutines :
        SF_vars(Acquire(g)) /\ WF_vars(Release(g)) /\ WF_vars(Deregister(g))

FairSpec == Spec /\ Fairness

-----------------------------------------------------------------------------
(* Properties. *)

\* Two goroutines of the same user are never inside together, although the
\* user's lock is deleted and created again while others wait for it
\* (reorder.go, lockUser).
MutualExclusion ==
    \A g, h \in Goroutines :
        at[g] = "inside" /\ at[h] = "inside" /\ key[g] = key[h] => g = h

\* The map holds a lock for exactly the users that have a goroutine at work,
\* and they share it: entries are neither leaked nor deleted under someone.
EntryWhileUsed ==
    \A k \in Keys :
        IF \E g \in Goroutines : at[g] # "out" /\ key[g] = k
        THEN \A g \in Goroutines : at[g] # "out" /\ key[g] = k => lock[g] = userLocks[k]
        ELSE userLocks[k] = NoLock

Holder == [k \in Keys |->
            IF \E g \in Goroutines : at[g] = "inside" /\ key[g] = k
            THEN CHOOSE g \in Goroutines : at[g] = "inside" /\ key[g] = k
            ELSE NoOne]

Mutex == INSTANCE UserMutex WITH holder <- Holder

\* The counted locks implement one mutex per user, which is how the sending
\* path sees them (Reorder, lockUser).
ImplementsMutex == Mutex!MutexSpec

\* Whoever asks for the user's lock gets it.
EveryoneEnters ==
    \A g \in Goroutines : (at[g] = "waiting") ~> (at[g] = "inside")
=============================================================================
