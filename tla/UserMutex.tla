----------------------------- MODULE UserMutex -----------------------------
(***************************************************************************)
(* What lockUser promises (service/reorder.go): one lock per user, that    *)
(* one goroutine holds at a time.                                          *)
(***************************************************************************)
CONSTANTS Keys, Goroutines, NoOne

VARIABLE holder     \* who holds the lock of each user

MutexInit == holder = [k \in Keys |-> NoOne]

Lock(k, g) == holder[k] = NoOne /\ holder' = [holder EXCEPT ![k] = g]

Unlock(k) == holder[k] # NoOne /\ holder' = [holder EXCEPT ![k] = NoOne]

MutexNext == \E k \in Keys : Unlock(k) \/ \E g \in Goroutines : Lock(k, g)

MutexSpec == MutexInit /\ [][MutexNext]_holder
=============================================================================
