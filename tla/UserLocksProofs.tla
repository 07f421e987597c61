-------------------------- MODULE UserLocksProofs --------------------------
(***************************************************************************)
(* For any number of users and goroutines: the counted locks of lockUser   *)
(* exclude, the map holds exactly the locks in use, and together they      *)
(* implement one mutex per user.                                           *)
(***************************************************************************)
EXTENDS UserLocks, FiniteSetTheorems, TLAPS

UsersOf(l) == {g \in Goroutines : lock[g] = l}

\* A goroutine at work refers to the lock that the map has for its user.
Shared ==
    \A g \in Goroutines :
        IF at[g] = "out" THEN lock[g] = NoLock
        ELSE lock[g] \in Locks /\ userLocks[key[g]] = lock[g]

\* No entry of the map outlives the work on its user.
EntryUsed ==
    \A k \in Keys :
        userLocks[k] # NoLock => \E g \in Goroutines : at[g] # "out" /\ key[g] = k

\* The count of a lock is the number of goroutines that refer to it.
Counted == \A l \in Locks : users[l] = Cardinality(UsersOf(l))

\* A mutex is taken by exactly the goroutine inside.
Taken ==
    \A l \in Locks, g \in Goroutines :
        mutex[l] = g <=> at[g] = "inside" /\ lock[g] = l

\* Two users never share a lock.
Apart == \A j, k \in Keys : userLocks[j] = userLocks[k] /\ userLocks[j] # NoLock => j = k

LockInv == TypeOK /\ Shared /\ EntryUsed /\ Counted /\ Taken /\ Apart

\* The goroutines that refer to a lock are finitely many, so they are counted
\* by a number, and none means zero (userLock.users).
LEMMA UsersFinite ==
    ASSUME NEW l \in Locks
    PROVE  /\ IsFiniteSet(UsersOf(l))
           /\ Cardinality(UsersOf(l)) \in Nat
           /\ Cardinality(UsersOf(l)) = 0 <=> UsersOf(l) = {}
  BY UserLocksAssumption, FS_Subset, FS_CardinalityType, FS_EmptySet DEF UsersOf

\* The empty map satisfies the invariant (nobody has called lockUser).
LEMMA LockInvInit == Init => LockInv
  <1> SUFFICES ASSUME Init PROVE LockInv
      OBVIOUS
  <1>1. TypeOK /\ Shared /\ EntryUsed /\ Taken /\ Apart
        BY UserLocksAssumption DEF Init, TypeOK, Shared, EntryUsed, Taken, Apart
  <1>2. \A l \in Locks : UsersOf(l) = {}
        BY UserLocksAssumption DEF Init, UsersOf
  <1>3. Counted
        BY <1>2, UsersFinite DEF Init, Counted
  <1> QED BY <1>1, <1>3 DEF LockInv

\* Registering keeps the invariant: the entry found is the one the others
\* use, a new one is referred to by nobody (lockUser, first section).
LEMMA RegisterKeeps ==
    ASSUME LockInv, NEW g \in Goroutines, NEW k \in Keys, Register(g, k)
    PROVE  LockInv'
  <1> USE DEF LockInv
  <1>1. PICK l \in Locks :
            /\ \/ /\ userLocks[k] = l
                  /\ users' = [users EXCEPT ![l] = @ + 1]
                  /\ UNCHANGED mutex
               \/ /\ userLocks[k] = NoLock
                  /\ Unreferenced(l)
                  /\ users' = [users EXCEPT ![l] = 1]
                  /\ mutex' = [mutex EXCEPT ![l] = NoOne]
            /\ userLocks' = [userLocks EXCEPT ![k] = l]
            /\ lock' = [lock EXCEPT ![g] = l]
        BY DEF Register
  <1>2. /\ at[g] = "out" /\ lock[g] = NoLock
        /\ at' = [at EXCEPT ![g] = "waiting"]
        /\ key' = [key EXCEPT ![g] = k]
        BY DEF Register, Shared
  <1>3. TypeOK'
        BY <1>1, <1>2 DEF TypeOK
  <1>4. \A h \in Goroutines : h # g /\ at[h] # "out" /\ key[h] = k => userLocks[k] = l
        BY <1>1, UserLocksAssumption DEF Shared
  <1>5. Shared'
        BY <1>1, <1>2, <1>4, UserLocksAssumption DEF Shared, TypeOK
  <1>6. EntryUsed'
        BY <1>1, <1>2 DEF EntryUsed, TypeOK
  <1>7. Counted'
    <2>1. UsersOf(l)' = UsersOf(l) \cup {g} /\ g \notin UsersOf(l)
          BY <1>1, <1>2, UserLocksAssumption DEF UsersOf, TypeOK
    <2>2. \A m \in Locks : m # l => UsersOf(m)' = UsersOf(m)
          BY <1>1, <1>2, UserLocksAssumption DEF UsersOf, TypeOK
    <2>3. Cardinality(UsersOf(l)') = Cardinality(UsersOf(l)) + 1
          BY <2>1, UsersFinite, FS_AddElement
    <2>4. userLocks[k] = NoLock => Cardinality(UsersOf(l)) = 0
      <3>1. userLocks[k] = NoLock => UsersOf(l) = {}
            BY <1>1, UserLocksAssumption DEF Unreferenced, UsersOf
      <3> QED BY <3>1, UsersFinite
    <2>5. users'[l] = Cardinality(UsersOf(l)) + 1
          BY <1>1, <2>4, UsersFinite, UserLocksAssumption DEF Counted, TypeOK
    <2>6. \A m \in Locks : m # l => users'[m] = users[m]
          BY <1>1 DEF TypeOK
    <2> QED BY <2>2, <2>3, <2>5, <2>6 DEF Counted
  <1>8. Taken'
    <2>1. CASE mutex' = mutex
          BY <1>1, <1>2, <2>1, UserLocksAssumption DEF Taken, TypeOK
    <2>2. CASE userLocks[k] = NoLock /\ Unreferenced(l) /\ mutex' = [mutex EXCEPT ![l] = NoOne]
          BY <1>1, <1>2, <2>2, UserLocksAssumption DEF Taken, TypeOK, Unreferenced
    <2> QED BY <1>1, <2>1, <2>2
  <1>9. Apart'
        BY <1>1, UserLocksAssumption DEF Apart, Unreferenced, TypeOK
  <1> QED BY <1>3, <1>5, <1>6, <1>7, <1>8, <1>9

\* Taking the mutex keeps the invariant (lockUser, lock.mutex.Lock).
LEMMA AcquireKeeps ==
    ASSUME LockInv, NEW g \in Goroutines, Acquire(g)
    PROVE  LockInv'
  <1> USE DEF LockInv
  <1>1. lock[g] \in Locks
        BY DEF Acquire, Shared
  <1>2. TypeOK' /\ Shared' /\ EntryUsed' /\ Apart'
        BY <1>1, UserLocksAssumption DEF Acquire, TypeOK, Shared, EntryUsed, Apart
  <1>3. Counted'
        BY DEF Acquire, Counted, UsersOf
  <1>4. Taken'
        BY <1>1, UserLocksAssumption DEF Acquire, Taken, TypeOK
  <1> QED BY <1>2, <1>3, <1>4

\* Giving the mutex back keeps the invariant (the function lockUser returns).
LEMMA ReleaseKeeps ==
    ASSUME LockInv, NEW g \in Goroutines, Release(g)
    PROVE  LockInv'
  <1> USE DEF LockInv
  <1>1. lock[g] \in Locks /\ mutex[lock[g]] = g
        BY DEF Release, Shared, Taken
  <1>2. TypeOK' /\ Shared' /\ EntryUsed' /\ Apart'
        BY <1>1, UserLocksAssumption DEF Release, TypeOK, Shared, EntryUsed, Apart
  <1>3. Counted'
        BY DEF Release, Counted, UsersOf
  <1>4. Taken'
        BY <1>1, UserLocksAssumption DEF Release, Taken, TypeOK
  <1> QED BY <1>2, <1>3, <1>4

\* Deregistering keeps the invariant: the entry is deleted by the last
\* goroutine that refers to the lock, and by no other.
LEMMA DeregisterKeeps ==
    ASSUME LockInv, NEW g \in Goroutines, Deregister(g)
    PROVE  LockInv'
  <1> USE DEF LockInv
  <1>1. PICK l \in Locks : /\ l = lock[g] /\ userLocks[key[g]] = l
                           /\ key[g] \in Keys /\ at[g] = "leaving"
        BY DEF Deregister, Shared, TypeOK
  <1>2. /\ UsersOf(l)' = UsersOf(l) \ {g} /\ g \in UsersOf(l)
        /\ \A m \in Locks : m # l => UsersOf(m)' = UsersOf(m)
        BY <1>1, UserLocksAssumption DEF Deregister, UsersOf, TypeOK
  <1>3. Cardinality(UsersOf(l)') = Cardinality(UsersOf(l)) - 1
        BY <1>1, <1>2, UsersFinite, FS_RemoveElement
  <1>4. users[l] = Cardinality(UsersOf(l)) /\ users[l] \in Nat /\ users[l] # 0
        BY <1>1, <1>2, UsersFinite DEF Counted
  <1>5. TypeOK'
        BY <1>1, <1>4 DEF Deregister, TypeOK
  <1>6. Counted'
        BY <1>1, <1>2, <1>3, <1>4 DEF Deregister, Counted, TypeOK
  <1>7. \A h \in Goroutines : h # g /\ lock[h] = l => users[l] # 1
    <2> SUFFICES ASSUME NEW h \in Goroutines, h # g, lock[h] = l, users[l] = 1
                 PROVE  FALSE
        OBVIOUS
    <2>1. h \in UsersOf(l) \ {g}
          BY DEF UsersOf
    <2>2. IsFiniteSet(UsersOf(l) \ {g}) /\ Cardinality(UsersOf(l) \ {g}) = 0
          BY <1>1, <1>2, <1>3, <1>4, UsersFinite, FS_RemoveElement
    <2> QED BY <2>1, <2>2, FS_EmptySet
  <1>8. Shared'
    <2> SUFFICES ASSUME NEW h \in Goroutines
                 PROVE  (IF at[h] = "out" THEN lock[h] = NoLock
                         ELSE lock[h] \in Locks /\ userLocks[key[h]] = lock[h])'
        BY DEF Shared
    <2>1. CASE h = g
          BY <1>1, <2>1 DEF Deregister, TypeOK
    <2>2. CASE h # g /\ at[h] = "out"
          BY <2>2 DEF Deregister, Shared, TypeOK
    <2>3. CASE h # g /\ at[h] # "out"
      <3>1. lock[h] \in Locks /\ userLocks[key[h]] = lock[h] /\ key[h] \in Keys
            BY <2>3 DEF Shared, TypeOK
      <3>2. at'[h] # "out" /\ lock'[h] = lock[h] /\ key'[h] = key[h]
            BY <2>3 DEF Deregister, TypeOK
      <3>3. users[l] = 1 => key[h] # key[g]
            BY <1>1, <1>7, <2>3, <3>1
      <3>4. userLocks'[key[h]] = userLocks[key[h]]
            BY <1>1, <3>1, <3>3 DEF Deregister, TypeOK
      <3> QED BY <3>1, <3>2, <3>4
    <2> QED BY <2>1, <2>2, <2>3
  <1>9. EntryUsed'
    <2> SUFFICES ASSUME NEW k \in Keys, userLocks'[k] # NoLock
                 PROVE  \E h \in Goroutines : at'[h] # "out" /\ key'[h] = k
        BY DEF EntryUsed
    <2>1. userLocks[k] # NoLock
          BY <1>1 DEF Deregister, TypeOK
    <2>2. CASE k # key[g]
          BY <2>1, <2>2 DEF Deregister, EntryUsed, TypeOK
    <2>3. CASE k = key[g]
      <3>1. users[l] # 1
            BY <1>1, <2>3 DEF Deregister, TypeOK
      <3>2. Cardinality(UsersOf(l) \ {g}) # 0
            BY <1>2, <1>3, <1>4, <3>1, UsersFinite
      <3>7. UsersOf(l) \ {g} # {}
            BY <3>2, FS_EmptySet
      <3>3. PICK h \in Goroutines : h # g /\ lock[h] = l
            BY <3>7 DEF UsersOf
      <3>4. at[h] # "out" /\ userLocks[key[h]] = l /\ key[h] \in Keys
            BY <1>1, <3>3, UserLocksAssumption DEF Shared, TypeOK
      <3>5. key[h] = k
            BY <1>1, <2>3, <3>4, UserLocksAssumption DEF Apart
      <3> QED BY <3>3, <3>4, <3>5 DEF Deregister, TypeOK
    <2> QED BY <2>2, <2>3
  <1>10. Taken'
         BY <1>1, UserLocksAssumption DEF Deregister, Taken, TypeOK
  <1>11. Apart'
         BY <1>1 DEF Deregister, Apart, TypeOK
  <1> QED BY <1>5, <1>6, <1>8, <1>9, <1>10, <1>11

\* The invariant of lockUser holds in every reachable state.
THEOREM LockInvariant == Spec => []LockInv
  <1>1. ASSUME LockInv, [Next]_vars PROVE LockInv'
    <2>1. CASE Next
          BY <1>1, <2>1, RegisterKeeps, AcquireKeeps, ReleaseKeeps, DeregisterKeeps DEF Next
    <2>2. CASE UNCHANGED vars
          BY <1>1, <2>2 DEF vars, LockInv, TypeOK, Shared, EntryUsed, Counted, Taken,
                            Apart, UsersOf
    <2> QED BY <1>1, <2>1, <2>2
  <1> QED BY <1>1, LockInvInit, PTL DEF Spec

\* The invariant implies that two goroutines of a user are never inside.
LEMMA InvExcludes == LockInv => MutualExclusion
  BY UserLocksAssumption DEF LockInv, Shared, Taken, MutualExclusion, TypeOK

\* For any number of goroutines, two of the same user are never inside
\* together (reorder.go, lockUser).
THEOREM MutualExclusionCorrect == Spec => []MutualExclusion
  BY LockInvariant, InvExcludes, PTL

\* The map holds exactly the locks that are in use (reorder.go, lockUser): it
\* does not grow with the users that once sent something.
THEOREM EntryWhileUsedCorrect == Spec => []EntryWhileUsed
  <1>1. LockInv => EntryWhileUsed
        BY DEF LockInv, Shared, EntryUsed, EntryWhileUsed
  <1> QED BY <1>1, LockInvariant, PTL

-----------------------------------------------------------------------------
(* The refinement. *)

\* Who holds the lock of a user is the goroutine inside, NoOne if there is none.
LEMMA HolderIs ==
    ASSUME MutualExclusion, NEW k \in Keys
    PROVE  /\ \A g \in Goroutines : at[g] = "inside" /\ key[g] = k => Holder[k] = g
           /\ (\A g \in Goroutines : ~(at[g] = "inside" /\ key[g] = k)) => Holder[k] = NoOne
  <1>1. ASSUME NEW g \in Goroutines, at[g] = "inside", key[g] = k
        PROVE  Holder[k] = g
    <2>1. Holder[k] = CHOOSE h \in Goroutines : at[h] = "inside" /\ key[h] = k
          BY <1>1 DEF Holder
    <2>2. Holder[k] \in Goroutines /\ at[Holder[k]] = "inside" /\ key[Holder[k]] = k
          BY <1>1, <2>1
    <2> QED BY <1>1, <2>2 DEF MutualExclusion
  <1>2. ASSUME \A g \in Goroutines : ~(at[g] = "inside" /\ key[g] = k)
        PROVE  Holder[k] = NoOne
        BY <1>2 DEF Holder
  <1> QED BY <1>1, <1>2

\* A step that moves nobody in or out of a user's section leaves its holder.
LEMMA HolderOf ==
    ASSUME NEW k \in Keys,
           \A g \in Goroutines :
              (at'[g] = "inside" /\ key'[g] = k) <=> (at[g] = "inside" /\ key[g] = k)
    PROVE  Holder'[k] = Holder[k]
  <1>1. (CHOOSE g \in Goroutines : at'[g] = "inside" /\ key'[g] = k)
          = (CHOOSE g \in Goroutines : at[g] = "inside" /\ key[g] = k)
        BY Zenon
  <1> QED BY <1>1 DEF Holder

\* Registering and deregistering change no holder.
LEMMA HolderStays ==
    ASSUME \A g \in Goroutines : at'[g] = "inside" <=> at[g] = "inside",
           \A g \in Goroutines : at[g] = "inside" => key'[g] = key[g]
    PROVE  Holder' = Holder
  <1>1. \A k \in Keys : Holder'[k] = Holder[k]
        BY HolderOf
  <1> QED BY <1>1 DEF Holder

\* The counted locks implement one mutex per user: deleting and recreating the
\* locks is invisible to the goroutines (reorder.go, lockUser).
THEOREM ImplementsMutexCorrect == Spec => ImplementsMutex
  <1>1. Init => Mutex!MutexInit
        BY DEF Init, Mutex!MutexInit, Holder
  <1>2. ASSUME LockInv, LockInv', [Next]_vars
        PROVE  [Mutex!MutexNext]_Holder
    <2>1. TypeOK /\ MutualExclusion /\ MutualExclusion'
          BY <1>2, UserLocksAssumption
             DEF LockInv, Shared, Taken, MutualExclusion, TypeOK
    <2>2. CASE UNCHANGED vars
          BY <2>2, HolderStays DEF vars
    <2>3. ASSUME NEW g \in Goroutines, NEW k \in Keys, Register(g, k)
          PROVE  Holder' = Holder
          BY <2>1, <2>3, HolderStays DEF Register, TypeOK
    <2>4. ASSUME NEW g \in Goroutines, Deregister(g)
          PROVE  Holder' = Holder
          BY <2>1, <2>4, HolderStays DEF Deregister, TypeOK
    <2>5. Holder = [j \in Keys |-> Holder[j]] /\ Holder' = [j \in Keys |-> Holder'[j]]
          BY DEF Holder
    <2>6. ASSUME NEW g \in Goroutines, Acquire(g)
          PROVE  Mutex!MutexNext
      <3>1. PICK k \in Keys : k = key[g]
            BY <2>1 DEF TypeOK
      <3>2. /\ at[g] = "waiting" /\ at'[g] = "inside" /\ key' = key
            /\ \A h \in Goroutines : h # g => at'[h] = at[h]
            BY <2>1, <2>6 DEF Acquire, TypeOK
      <3>3. \A h \in Goroutines : ~(at[h] = "inside" /\ key[h] = k)
        <4> SUFFICES ASSUME NEW h \in Goroutines, at[h] = "inside", key[h] = k
                     PROVE  FALSE
            OBVIOUS
        <4>1. at'[h] = "inside" /\ key'[h] = key'[g]
              BY <3>1, <3>2
        <4> QED BY <2>1, <3>2, <4>1 DEF MutualExclusion
      <3>4. Holder[k] = NoOne
            BY <2>1, <3>3, HolderIs
      <3>5. Holder'[k] = g
        <4>1. Holder'[k] = CHOOSE h \in Goroutines : at'[h] = "inside" /\ key'[h] = k
              BY <3>1, <3>2 DEF Holder
        <4>2. /\ Holder'[k] \in Goroutines
              /\ at'[Holder'[k]] = "inside" /\ key'[Holder'[k]] = k
              BY <3>1, <3>2, <4>1
        <4> QED BY <2>1, <3>1, <3>2, <4>2 DEF MutualExclusion
      <3>6. \A j \in Keys : j # k => Holder'[j] = Holder[j]
            BY <3>1, <3>2, HolderOf
      <3>7. Holder' = [Holder EXCEPT ![k] = g]
            BY <2>5, <3>5, <3>6
      <3> QED BY <3>4, <3>7 DEF Mutex!MutexNext, Mutex!Lock
    <2>7. ASSUME NEW g \in Goroutines, Release(g)
          PROVE  Mutex!MutexNext
      <3>1. PICK k \in Keys : k = key[g]
            BY <2>1 DEF TypeOK
      <3>2. /\ at[g] = "inside" /\ at'[g] = "leaving" /\ key' = key
            /\ \A h \in Goroutines : h # g => at'[h] = at[h]
            BY <2>1, <2>7 DEF Release, TypeOK
      <3>3. Holder[k] = g
            BY <2>1, <3>1, <3>2, HolderIs
      <3>4. \A h \in Goroutines : ~(at'[h] = "inside" /\ key'[h] = k)
            BY <2>1, <3>1, <3>2 DEF MutualExclusion
      <3>5. Holder'[k] = NoOne
            BY <3>4 DEF Holder
      <3>6. \A j \in Keys : j # k => Holder'[j] = Holder[j]
            BY <3>1, <3>2, HolderOf
      <3>7. Holder' = [Holder EXCEPT ![k] = NoOne]
            BY <2>5, <3>5, <3>6
      <3> QED BY <3>3, <3>7, UserLocksAssumption DEF Mutex!MutexNext, Mutex!Unlock
    <2> QED BY <1>2, <2>2, <2>3, <2>4, <2>6, <2>7 DEF Next
  <1> QED BY <1>1, <1>2, LockInvariant, PTL DEF Spec, ImplementsMutex, Mutex!MutexSpec

\* The count of a lock never goes below zero and the map holds locks only
\* (reorder.go, lockUser).
THEOREM TypeCorrect == Spec => []TypeOK
  BY LockInvariant, PTL DEF LockInv
=============================================================================
