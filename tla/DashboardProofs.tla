--------------------------- MODULE DashboardProofs ---------------------------
(***************************************************************************)
(* Proofs about Dashboard for every number of pages and connections and    *)
(* every size of the ring and of the buffers: no page shows an event twice *)
(* or out of order, and the bus with its ring, channels and drops offers a *)
(* subscriber what the abstract log offers a reader.                       *)
(*                                                                         *)
(* The invariant follows an event through a connection: the ring holds the *)
(* latest ones; what a connection still has of the history, in the channel *)
(* of its handler and in that of the bus rises from one to the next, has no *)
(* holes unless an event was dropped, and is ahead of what its page showed. *)
(***************************************************************************)
EXTENDS Dashboard, SequenceTheorems, WellFoundedInduction, TLAPS

\* Every non-empty set of naturals has a least element.
LEMMA LeastNatural ==
    ASSUME NEW T \in SUBSET Nat, T # {}
    PROVE  \E x \in T : \A y \in T : x <= y
<1> DEFINE R == OpToRel(<, Nat)
<1>1. IsWellFoundedOn(R, Nat)
  BY NatLessThanWellFounded
<1>2. \A x, y \in Nat : <<y, x>> \in R <=> y < x
  BY DEF OpToRel
<1> HIDE DEF R
<1>3. PICK x \in T : \A y \in T : ~(<<y, x>> \in R)
  BY <1>1, WFMin
<1>4. ASSUME NEW y \in T PROVE x <= y
  <2>1. x \in Nat /\ y \in Nat /\ ~(<<y, x>> \in R)
    BY <1>3
  <2>2. ~(y < x)
    BY <1>2, <2>1
  <2> QED
    BY <2>1, <2>2
<1> QED
  BY <1>4

\* The numbers after a up to b, as a sequence.
Span(a, b) == [i \in 1..(b - a) |-> a + i]

\* The slot of the ring that holds the i-th retained event.
Slot(i) == (start + i - 1) % Capacity

\* The ring holds exactly the most recent events, oldest first.
RingExact ==
    /\ ring \in [0..(Capacity - 1) -> Nat]
    /\ start \in 0..(Capacity - 1)
    /\ sequence \in Nat
    /\ size = IF sequence < Capacity THEN sequence ELSE Capacity
    /\ \A i \in 1..size : ring[Slot(i)] = sequence - size + i

\* Where a slot is, without division (events.go, replayLocked and retain).
LEMMA SlotIs ==
    ASSUME NEW C \in Nat \ {0}, NEW s \in 0..(C - 1), NEW x \in 0..C
    PROVE  /\ (s + x) % C = IF s + x < C THEN s + x ELSE s + x - C
           /\ (s + x) % C \in 0..(C - 1)
<1>1. CASE s + x < C
  <2>1. s + x \in 0..(C - 1)
    BY <1>1
  <2>2. \A a \in 0..(C - 1) : a % C = a
    OBVIOUS
  <2>3. (s + x) % C = s + x
    BY <2>1, <2>2
  <2> QED
    BY <1>1, <2>1, <2>3
<1>2. CASE ~(s + x < C)
  <2>1. s + x \in C..(2 * C - 1)
    BY <1>2
  <2>2. \A a \in C..(2 * C - 1) : a % C = a - C
    OBVIOUS
  <2>3. (s + x) % C = s + x - C
    BY <2>1, <2>2
  <2> QED
    BY <1>2, <2>1, <2>3
<1> QED
  BY <1>1, <1>2

\* The loop of replayLocked gathers the retained events after a number: the
\* last ones, without holes.
LEMMA ReplayIs ==
    ASSUME RingExact, NEW k \in Nat, k <= sequence
    PROVE  replayLocked(k) = Span(IF k < sequence - size THEN sequence - size ELSE k, sequence)
<1> DEFINE low == IF k < sequence - size THEN sequence - size ELSE k
           old == sequence - size
           gathered(n) == IF old + n <= low THEN <<>> ELSE Span(low, old + n)
           step(f, n) == IF n = 0 THEN <<>>
                         ELSE LET e == ring[(start + n - 1) % Capacity]
                              IN  IF e > k THEN Append(f[n - 1], e) ELSE f[n - 1]
           scan == CHOOSE f : f = [n \in 0..size |-> step(f, n)]
<1>t. /\ size \in Nat /\ sequence \in Nat /\ size <= sequence
      /\ low \in Nat /\ old \in Nat /\ old <= low /\ low <= sequence
      /\ old + size = sequence
  BY EventBusAssumption DEF RingExact
<1>s. \A n \in 1..size : ring[(start + n - 1) % Capacity] = old + n
  BY DEF RingExact, Slot
<1>0. replayLocked(k) = scan[size]
  BY DEF replayLocked
<1>l. \A n \in 1..size : old + n > k <=> old + n > low
  BY <1>t
<1> HIDE DEF old, low
\* One turn of the loop.
<1>1. ASSUME NEW n \in 1..size
      PROVE  gathered(n) = IF old + n > low THEN Append(gathered(n - 1), old + n)
                                            ELSE gathered(n - 1)
  <2>1. CASE old + n <= low
    BY <1>t, <2>1
  <2>2. CASE old + n > low
    <3>1. gathered(n) = Span(low, old + n)
      BY <1>t, <2>2
    <3>2. gathered(n - 1) = Span(low, old + n - 1)
      <4>1. CASE old + (n - 1) <= low
        <5>1. Span(low, old + n - 1) = <<>>
          BY <1>t, <2>2, <4>1 DEF Span
        <5> QED
          BY <1>t, <4>1, <5>1
      <4>2. CASE ~(old + (n - 1) <= low)
        BY <1>t, <4>2
      <4> QED
        BY <4>1, <4>2
    <3>3. Span(low, old + n) = Append(Span(low, old + n - 1), old + n)
      BY <1>t, <2>2 DEF Span
    <3> QED
      BY <2>2, <3>1, <3>2, <3>3
  <2> QED
    BY <1>t, <2>1, <2>2
<1> DEFINE G == [n \in 0..size |-> gathered(n)]
<1>2. gathered(0) = <<>>
  BY <1>t
<1> HIDE DEF gathered
<1>3. \A n \in 0..size : G[n] = step(G, n)
  <2> TAKE n \in 0..size
  <2>1. CASE n = 0
    BY <1>2, <1>t, <2>1
  <2>2. CASE n # 0
    <3>1. n \in 1..size /\ n - 1 \in 0..size
      BY <1>t, <2>2
    <3>2. G[n] = gathered(n) /\ G[n - 1] = gathered(n - 1)
      BY <3>1
    <3> HIDE DEF G
    <3> QED
      BY <3>1, <3>2, <2>2, <1>1, <1>s, <1>l
  <2> QED
    BY <2>1, <2>2
<1>4. G = [n \in 0..size |-> step(G, n)]
  BY <1>3, SMTT(30)
<1> HIDE DEF G
<1>5. scan = [n \in 0..size |-> step(scan, n)]
  BY <1>4, ZenonT(40)
<1> HIDE DEF scan
<1>6. \A n \in 0..size : scan[n] = gathered(n)
  <2> DEFINE Bad == {n \in 0..size : scan[n] # gathered(n)}
  <2> SUFFICES ASSUME Bad # {} PROVE FALSE
    OBVIOUS
  <2>0. Bad \in SUBSET Nat
    BY <1>t
  <2>1. PICK n \in Bad : \A m \in Bad : n <= m
    BY <2>0, LeastNatural
  <2>2. n \in 0..size /\ scan[n] # gathered(n) /\ scan[n] = step(scan, n)
    BY <1>5
  <2>3. n # 0
    BY <2>2, <1>2
  <2>4. n \in 1..size /\ n - 1 \in 0..size /\ ~(n <= n - 1)
    BY <1>t, <2>2, <2>3
  <2>5. n - 1 \notin Bad
    BY <2>1, <2>4
  <2>6. scan[n - 1] = gathered(n - 1)
    BY <2>4, <2>5
  <2> HIDE DEF Bad
  <2> QED
    BY <2>2, <2>3, <2>4, <2>6, <1>1, <1>s, <1>l
<1>7. scan[size] = gathered(size)
  BY <1>t, <1>6
<1>8. gathered(size) = Span(low, sequence)
  <2>1. CASE sequence <= low
    BY <1>t, <2>1 DEF gathered, Span
  <2>2. CASE ~(sequence <= low)
    BY <1>t, <2>2 DEF gathered
  <2> QED
    BY <2>1, <2>2
<1> QED
  BY <1>0, <1>7, <1>8 DEF low

-----------------------------------------------------------------------------
\* The types of the state around the ring.
TypeOK ==
    /\ subscribers \subseteq Connections
    /\ channel \in [Connections -> Seq(Nat)]
    /\ dropped \in [Connections -> BOOLEAN]
    /\ flow \in [Connections -> Flows]
    /\ after \in [Connections -> Nat]
    /\ retained \in [Connections -> Seq(Nat)]
    /\ stream \in [Connections -> Seq(Nat)]
    /\ written \in [Connections -> Nat]
    /\ current \in [Tabs -> Connections \cup {NoConnection}]
    /\ lastSeq \in [Tabs -> Nat]
    /\ page \in [Tabs -> Seq(Nat)]

\* Nothing is on its way to a connection before it is subscribed, it asked for
\* no more than there is, and the history is gone before the loop begins.
Staged(c) ==
    /\ flow[c] \in {"unused", "refused", "admitted"} =>
            /\ c \notin subscribers
            /\ retained[c] = <<>> /\ stream[c] = <<>> /\ channel[c] = <<>>
            /\ written[c] = 0
    /\ flow[c] \in {"live", "returned"} => retained[c] = <<>>
    /\ after[c] <= sequence

\* q is a + 1, a + 2...
Consecutive(q, a) == \A i \in 1..Len(q) : q[i] = a + i

\* What is on its way on a connection from which nothing was discarded: its
\* history, what its handler has and what its channel has follow one another
\* up to the last event.
Unbroken(c) ==
    LET h == Len(retained[c])
        s == Len(stream[c])
        l == Len(channel[c])
        base == sequence - (h + s + l)
        last == IF written[c] # 0 THEN written[c] ELSE after[c]
    IN  /\ Consecutive(retained[c], base)
        /\ Consecutive(stream[c], base + h)
        /\ Consecutive(channel[c], base + h + s)
        /\ \/ base = last
           \/ /\ written[c] = 0 /\ h + s + l # 0
              /\ last < base /\ base <= sequence - size

NothingLost(c) == c \in subscribers /\ ~dropped[c] => Unbroken(c)

Rising(q) == \A i, j \in 1..Len(q) : i < j => q[i] < q[j]
Below(p, q) == \A i \in 1..Len(p), j \in 1..Len(q) : p[i] < q[j]
Within(q, n) == \A i \in 1..Len(q) : q[i] \in 1..n
Above(q, n) == \A i \in 1..Len(q) : n < q[i]

\* Discarded or not, what is on its way is in order.
InOrder(c) ==
    /\ Rising(retained[c]) /\ Rising(stream[c]) /\ Rising(channel[c])
    /\ Below(retained[c], stream[c]) /\ Below(retained[c], channel[c])
    /\ Below(stream[c], channel[c])
    /\ Within(retained[c], sequence) /\ Within(stream[c], sequence)
    /\ Within(channel[c], sequence)

ConnectionInv(c) == Staged(c) /\ NothingLost(c) /\ InOrder(c)

\* lastSeq is the end of what a page shows, and what comes is later.
ShownUpTo(t) ==
    /\ lastSeq[t] <= sequence
    /\ \A i \in 1..Len(page[t]) : page[t][i] <= lastSeq[t]

Ahead(t, c) ==
    /\ flow[c] \notin {"unused", "refused", "returned"}
    /\ flow[c] = "admitted" => after[c] = lastSeq[t]
    /\ Above(retained[c], lastSeq[t]) /\ Above(stream[c], lastSeq[t])
    /\ Above(channel[c], lastSeq[t])

PageInv(t) == ShownUpTo(t) /\ (current[t] # NoConnection => Ahead(t, current[t]))

\* A page has a connection of its own.
OwnConnection ==
    \A t, u \in Tabs : current[t] = current[u] /\ current[t] # NoConnection => t = u

StreamInv ==
    /\ TypeOK
    /\ RingExact
    /\ \A c \in Connections : ConnectionInv(c)
    /\ \A t \in Tabs : PageInv(t)
    /\ OwnConnection

-----------------------------------------------------------------------------
(* Sequences: what Tail and Append do to each element.                     *)

LEMMA TailParts ==
    ASSUME NEW q \in Seq(Nat), q # <<>>
    PROVE  /\ Tail(q) \in Seq(Nat) /\ Len(q) \in Nat \ {0}
           /\ Len(Tail(q)) = Len(q) - 1
           /\ Head(q) = q[1] /\ Head(q) \in Nat
           /\ \A i \in 1..Len(Tail(q)) : Tail(q)[i] = q[i + 1]
           /\ \A i \in 1..Len(q) : q[i] \in Nat
  OBVIOUS

LEMMA AppendParts ==
    ASSUME NEW q \in Seq(Nat), NEW e \in Nat
    PROVE  /\ Append(q, e) \in Seq(Nat) /\ Len(q) \in Nat
           /\ Len(Append(q, e)) = Len(q) + 1
           /\ Append(q, e)[Len(q) + 1] = e
           /\ \A i \in 1..Len(q) : Append(q, e)[i] = q[i] /\ q[i] \in Nat
  OBVIOUS

\* What is appended to a sequence in order, when it is later than all of it.
LEMMA AppendOrder ==
    ASSUME NEW q \in Seq(Nat), NEW m \in Nat, NEW e \in Nat, m < e, Within(q, m)
    PROVE  /\ Within(Append(q, e), e)
           /\ Rising(q) => Rising(Append(q, e))
<1> DEFINE a == Append(q, e)
           n == Len(q)
<1>1. /\ n \in Nat /\ Len(a) = n + 1 /\ a[n + 1] = e
      /\ \A i \in 1..n : a[i] = q[i]
  BY AppendParts
<1>2. \A i \in 1..n : q[i] \in 1..m
  BY DEF Within
<1>3. Rising(q) => \A i, j \in 1..n : i < j => q[i] < q[j]
  BY DEF Rising
<1> HIDE DEF a, n
<1>4. \A i \in 1..(n + 1) : a[i] \in 1..e
  BY <1>1, <1>2
<1>5. ASSUME Rising(q), NEW i \in 1..(n + 1), NEW j \in 1..(n + 1), i < j
      PROVE  a[i] < a[j]
  <2>1. i \in 1..n /\ a[i] = q[i] /\ q[i] \in 1..m
    BY <1>1, <1>2, <1>5
  <2>2. CASE j = n + 1
    BY <1>1, <2>1, <2>2
  <2>3. CASE j # n + 1
    <3>1. j \in 1..n /\ a[j] = q[j]
      BY <1>1, <2>3
    <3> QED
      BY <1>3, <1>5, <2>1, <3>1
  <2> QED
    BY <2>2, <2>3
<1> QED
  BY <1>1, <1>4, <1>5 DEF Within, Rising, a

\* What comes before a sequence comes before what is appended to it.
LEMMA AppendBelow ==
    ASSUME NEW p \in Seq(Nat), NEW q \in Seq(Nat), NEW e \in Nat, Below(p, q),
           \A i \in 1..Len(p) : p[i] < e
    PROVE  Below(p, Append(q, e))
<1> DEFINE a == Append(q, e)
           n == Len(q)
<1>1. /\ n \in Nat /\ Len(a) = n + 1 /\ a[n + 1] = e
      /\ \A i \in 1..n : a[i] = q[i]
  BY AppendParts
<1>2. ASSUME NEW i \in 1..Len(p), NEW j \in 1..(n + 1) PROVE p[i] < a[j]
  <2>1. CASE j = n + 1
    BY <1>1, <2>1
  <2>2. CASE j # n + 1
    <3>1. j \in 1..n
      BY <1>1, <2>2
    <3> QED
      BY <1>1, <3>1 DEF Below
  <2> QED
    BY <2>1, <2>2
<1> HIDE DEF a, n
<1> QED
  BY <1>1, <1>2 DEF Below, a

LEMMA AppendAbove ==
    ASSUME NEW q \in Seq(Nat), NEW e \in Nat, NEW m \in Nat, m < e, Above(q, m)
    PROVE  Above(Append(q, e), m)
<1> DEFINE a == Append(q, e)
           n == Len(q)
<1>1. /\ n \in Nat /\ Len(a) = n + 1 /\ a[n + 1] = e
      /\ \A i \in 1..n : a[i] = q[i]
  BY AppendParts
<1>2. \A i \in 1..n : m < q[i]
  BY DEF Above
<1> HIDE DEF a, n
<1>3. ASSUME NEW i \in 1..(n + 1) PROVE m < a[i]
  <2>1. CASE i = n + 1
    BY <1>1, <2>1
  <2>2. CASE i # n + 1
    <3>1. i \in 1..n
      BY <1>1, <2>2
    <3> QED
      BY <1>1, <1>2, <3>1
  <2> QED
    BY <2>1, <2>2
<1> QED
  BY <1>1, <1>3 DEF Above, a

LEMMA AppendConsecutive ==
    ASSUME NEW q \in Seq(Nat), NEW a \in Int, NEW e \in Nat, Consecutive(q, a),
           e = a + Len(q) + 1
    PROVE  Consecutive(Append(q, e), a)
<1> DEFINE b == Append(q, e)
           n == Len(q)
<1>1. /\ n \in Nat /\ Len(b) = n + 1 /\ b[n + 1] = e /\ e = a + n + 1
      /\ \A i \in 1..n : b[i] = q[i]
  BY AppendParts
<1>2. \A i \in 1..n : q[i] = a + i
  BY DEF Consecutive
<1> HIDE DEF b, n
<1>3. ASSUME NEW i \in 1..(n + 1) PROVE b[i] = a + i
  <2>1. CASE i = n + 1
    BY <1>1, <2>1
  <2>2. CASE i # n + 1
    <3>1. i \in 1..n
      BY <1>1, <2>2
    <3> QED
      BY <1>1, <1>2, <3>1
  <2> QED
    BY <2>1, <2>2
<1> QED
  BY <1>1, <1>3 DEF Consecutive, b

\* What is left of a sequence in order when its head is taken.
LEMMA TailOrder ==
    ASSUME NEW q \in Seq(Nat), q # <<>>
    PROVE  /\ \A m : Within(q, m) => Head(q) \in 1..m /\ Within(Tail(q), m)
           /\ \A m : Above(q, m) => m < Head(q) /\ Above(Tail(q), m)
           /\ Rising(q) => Rising(Tail(q)) /\ Above(Tail(q), Head(q))
           /\ \A p \in Seq(Nat) : Below(q, p) => Below(Tail(q), p) /\ Above(p, Head(q))
           /\ \A p \in Seq(Nat) : Below(p, q) =>
                    Below(p, Tail(q)) /\ \A i \in 1..Len(p) : p[i] < Head(q)
           /\ \A a \in Int : Consecutive(q, a) =>
                    Head(q) = a + 1 /\ Consecutive(Tail(q), a + 1)
<1> DEFINE r == Tail(q)
           n == Len(q)
<1>1. /\ n \in Nat \ {0} /\ Len(r) = n - 1 /\ Head(q) = q[1]
      /\ \A i \in 1..(n - 1) : r[i] = q[i + 1]
  BY TailParts
<1>2. 1 \in 1..n /\ \A i \in 1..(n - 1) : i + 1 \in 1..n /\ 1 < i + 1
  BY <1>1
<1> HIDE DEF r, n
<1>3. ASSUME NEW m, Within(q, m) PROVE Head(q) \in 1..m /\ Within(r, m)
  BY <1>1, <1>2, <1>3 DEF Within, n
<1>4. ASSUME NEW m, Above(q, m) PROVE m < Head(q) /\ Above(r, m)
  BY <1>1, <1>2, <1>4 DEF Above, n
<1>5. ASSUME Rising(q) PROVE Rising(r) /\ Above(r, Head(q))
  <2>1. \A i, j \in 1..n : i < j => q[i] < q[j]
    BY <1>5 DEF Rising, n
  <2>2. \A i, j \in 1..(n - 1) : i < j => i + 1 < j + 1
    BY <1>1
  <2> QED
    BY <1>1, <1>2, <2>1, <2>2 DEF Rising, Above
<1>6. ASSUME NEW p \in Seq(Nat), Below(q, p) PROVE Below(r, p) /\ Above(p, Head(q))
  BY <1>1, <1>2, <1>6 DEF Below, Above, n
<1>7. ASSUME NEW p \in Seq(Nat), Below(p, q)
      PROVE  Below(p, r) /\ \A i \in 1..Len(p) : p[i] < Head(q)
  BY <1>1, <1>2, <1>7 DEF Below, n
<1>8. ASSUME NEW a \in Int, Consecutive(q, a)
      PROVE  Head(q) = a + 1 /\ Consecutive(r, a + 1)
  <2>1. \A i \in 1..n : q[i] = a + i
    BY <1>8 DEF Consecutive, n
  <2>2. \A i \in 1..(n - 1) : r[i] = a + (i + 1) /\ a + (i + 1) = a + 1 + i
    BY <1>1, <1>2, <2>1
  <2> QED
    BY <1>1, <1>2, <2>1, <2>2 DEF Consecutive
<1> QED
  BY <1>3, <1>4, <1>5, <1>6, <1>7, <1>8 DEF r

\* The span of numbers that replayLocked returns is in order.
LEMMA SpanOrder ==
    ASSUME NEW a \in Nat, NEW b \in Nat, a <= b
    PROVE  /\ Span(a, b) \in Seq(Nat) /\ Len(Span(a, b)) = b - a
           /\ Consecutive(Span(a, b), a)
           /\ Rising(Span(a, b)) /\ Within(Span(a, b), b) /\ Above(Span(a, b), a)
<1>1. b - a \in Nat /\ \A i \in 1..(b - a) : a + i \in Nat
  OBVIOUS
<1>2. Span(a, b) \in Seq(Nat) /\ Len(Span(a, b)) = b - a
  BY <1>1 DEF Span
<1>3. \A i \in 1..(b - a) : Span(a, b)[i] = a + i
  BY DEF Span
<1>4. \A i \in 1..(b - a) : Span(a, b)[i] \in 1..b /\ a < Span(a, b)[i]
  BY <1>3
<1>5. \A i, j \in 1..(b - a) : i < j => Span(a, b)[i] < Span(a, b)[j]
  BY <1>3
<1> QED
  BY <1>2, <1>3, <1>4, <1>5 DEF Consecutive, Rising, Within, Above

-----------------------------------------------------------------------------
(* The invariant, action by action.                                        *)

LEMMA InitStreamInv == Init => StreamInv
<1> SUFFICES ASSUME Init PROVE StreamInv
  OBVIOUS
<1>1. RingExact
  BY EventBusAssumption DEF Init, BusInit, RingExact
<1>2. TypeOK
  BY DEF Init, BusInit, TypeOK, Flows
<1>3. ASSUME NEW c \in Connections PROVE ConnectionInv(c)
  BY DEF Init, BusInit, ConnectionInv, Staged, NothingLost, InOrder, Rising, Below, Within
<1>4. ASSUME NEW t \in Tabs PROVE PageInv(t)
  BY DEF Init, BusInit, PageInv, ShownUpTo
<1> QED
  BY <1>1, <1>2, <1>3, <1>4 DEF StreamInv, OwnConnection, Init

\* retain: the ring goes on holding the most recent events (events.go, retain).
LEMMA RingStep ==
    ASSUME RingExact, Publish
    PROVE  RingExact'
<1> DEFINE C == Capacity
           w == (start + size) % C
<1>c. C \in Nat \ {0}
  BY EventBusAssumption
<1>t. /\ start \in 0..(C - 1) /\ sequence \in Nat /\ size \in 0..C
      /\ size = (IF sequence < C THEN sequence ELSE C)
      /\ ring \in [0..(C - 1) -> Nat]
  BY <1>c DEF RingExact
<1>w. w = (IF start + size < C THEN start + size ELSE start + size - C) /\ w \in 0..(C - 1)
  BY <1>c, <1>t, SlotIs
<1>s. \A i \in 1..C : /\ Slot(i) = (IF start + (i - 1) < C THEN start + (i - 1) ELSE start + (i - 1) - C)
                      /\ Slot(i) \in 0..(C - 1)
  <2> TAKE i \in 1..C
  <2>1. i - 1 \in 0..C /\ start + i - 1 = start + (i - 1)
    BY <1>c, <1>t
  <2> QED
    BY <1>c, <1>t, <2>1, SlotIs DEF Slot
<1>e. \A i \in 1..size : ring[Slot(i)] = sequence - size + i
  BY DEF RingExact
<1>r. /\ ring' = [ring EXCEPT ![w] = sequence + 1]
      /\ sequence' = sequence + 1
      /\ size < C => size' = size + 1 /\ start' = start
      /\ ~(size < C) => size' = size /\ start' = (start + 1) % C
  BY DEF Publish, retain
<1> HIDE DEF w, C
<1>1. ring' \in [0..(C - 1) -> Nat] /\ sequence' \in Nat
  BY <1>r, <1>t, <1>w
<1>n. /\ ring'[w] = sequence + 1
      /\ \A j \in 0..(C - 1) : j # w => ring'[j] = ring[j]
  BY <1>r, <1>t, <1>w
<1>2. CASE size < C
  <2>1. size' = size + 1 /\ start' = start /\ sequence = size
    BY <1>r, <1>2, <1>t
  <2>2. ASSUME NEW i \in 1..(size + 1) PROVE ring'[Slot(i)] = i
    <3>1. CASE i = size + 1
      <4>1. Slot(i) = w
        BY <1>w, <1>s, <1>t, <1>c, <1>2, <3>1
      <4> QED
        BY <4>1, <1>n, <2>1, <3>1
    <3>2. CASE i # size + 1
      <4>1. i \in 1..size /\ i \in 1..C
        BY <3>2, <1>t, <1>c
      <4>2. Slot(i) # w /\ Slot(i) \in 0..(C - 1)
        BY <1>w, <1>s, <1>t, <1>c, <1>2, <4>1
      <4>3. ring[Slot(i)] = i
        BY <1>e, <4>1, <2>1, <1>t
      <4> QED
        BY <4>2, <4>3, <1>n
    <3> QED
      BY <3>1, <3>2
  <2>3. \A i \in 1..size' : ring'[Slot(i)'] = sequence' - size' + i
    BY <2>1, <2>2, <1>r, <1>t DEF Slot
  <2> QED
    BY <1>1, <1>r, <1>t, <1>c, <1>2, <2>1, <2>3 DEF RingExact, C
<1>3. CASE ~(size < C)
  <2>1. size' = size /\ start' = (start + 1) % C /\ size = C /\ C <= sequence
    BY <1>r, <1>3, <1>t, <1>c
  <2>a. 1 \in 0..C
    BY <1>c
  <2>2. start' = (IF start + 1 < C THEN start + 1 ELSE start + 1 - C) /\ start' \in 0..(C - 1)
    BY <2>1, <2>a, <1>c, <1>t, SlotIs
  <2>3. ASSUME NEW i \in 1..C
        PROVE  /\ (start' + i - 1) % C = (IF start' + (i - 1) < C THEN start' + (i - 1) ELSE start' + (i - 1) - C)
               /\ (start' + i - 1) % C \in 0..(C - 1)
    <3>1. i - 1 \in 0..C /\ start' + i - 1 = start' + (i - 1)
      BY <1>c, <2>2
    <3> QED
      BY <1>c, <2>2, <3>1, SlotIs
  <2>4. ASSUME NEW i \in 1..C PROVE ring'[(start' + i - 1) % C] = sequence' - C + i
    <3> DEFINE z == (start' + i - 1) % C
    <3>z. z = (IF start' + (i - 1) < C THEN start' + (i - 1) ELSE start' + (i - 1) - C) /\ z \in 0..(C - 1)
      BY <2>3
    <3> HIDE DEF z
    <3>1. CASE i = C
      <4>1. z = w
        BY <3>z, <1>w, <2>1, <2>2, <1>t, <1>c, <3>1
      <4> QED
        BY <4>1, <1>n, <1>r, <1>t, <1>c, <3>1 DEF z
    <3>2. CASE i # C
      <4>1. i + 1 \in 1..C /\ i + 1 \in 1..size
        BY <3>2, <1>c, <2>1
      <4>2. z = Slot(i + 1)
        BY <3>z, <1>s, <2>2, <1>t, <1>c, <3>2, <4>1
      <4>3. z # w
        BY <3>z, <1>w, <2>1, <2>2, <1>t, <1>c, <3>2
      <4>4. ring[Slot(i + 1)] = sequence - size + (i + 1)
        BY <1>e, <4>1
      <4>5. ring'[z] = sequence - size + (i + 1)
        BY <4>2, <4>3, <4>4, <3>z, <1>n
      <4> QED
        BY <4>5, <1>r, <1>t, <1>c, <2>1 DEF z
    <3> QED
      BY <3>1, <3>2
  <2>5. \A i \in 1..size' : ring'[Slot(i)'] = sequence' - size' + i
    BY <2>1, <2>4, <1>r DEF Slot, C
  <2>6. size' = IF sequence' < C THEN sequence' ELSE C
    BY <2>1, <1>r, <1>t, <1>c
  <2> QED
    BY <1>1, <2>2, <2>5, <2>6 DEF RingExact, C
<1> QED
  BY <1>2, <1>3

\* A step that publishes nothing leaves the ring as it is.
LEMMA RingKept ==
    ASSUME RingExact, UNCHANGED <<ring, start, size, sequence>>
    PROVE  RingExact'
  BY DEF RingExact, Slot

\* What a step leaves of a connection it does not touch.
Untouched(c) ==
    /\ channel'[c] = channel[c] /\ dropped'[c] = dropped[c]
    /\ flow'[c] = flow[c] /\ after'[c] = after[c]
    /\ retained'[c] = retained[c] /\ stream'[c] = stream[c] /\ written'[c] = written[c]
    /\ (c \in subscribers)' <=> c \in subscribers

LEMMA ConnectionKept ==
    ASSUME NEW c \in Connections, ConnectionInv(c), Untouched(c), UNCHANGED <<size, sequence>>
    PROVE  ConnectionInv(c)'
<1>1. Staged(c)'
  BY DEF ConnectionInv, Staged, Untouched
<1>2. NothingLost(c)'
  <2>1. Unbroken(c)' <=> Unbroken(c)
    BY DEF Unbroken, Untouched
  <2> QED
    BY <2>1 DEF ConnectionInv, NothingLost, Untouched
<1>3. InOrder(c)'
  BY DEF ConnectionInv, InOrder, Untouched, Rising, Below, Within
<1> QED
  BY <1>1, <1>2, <1>3 DEF ConnectionInv

LEMMA PageKept ==
    ASSUME NEW t \in Tabs, TypeOK, PageInv(t), sequence' = sequence,
           current'[t] = current[t], lastSeq'[t] = lastSeq[t], page'[t] = page[t],
           \A x \in Connections : current[t] = x => Untouched(x)
    PROVE  PageInv(t)'
<1>1. ShownUpTo(t)'
  BY DEF PageInv, ShownUpTo
<1>2. CASE current[t] = NoConnection
  BY <1>1, <1>2 DEF PageInv
<1>3. CASE current[t] # NoConnection
  <2>1. PICK x \in Connections : current[t] = x
    BY <1>3 DEF TypeOK
  <2>2. Ahead(t, x) /\ Untouched(x)
    BY <1>3, <2>1 DEF PageInv
  <2>3. Ahead(t, x)'
    BY <2>2 DEF Ahead, Untouched, Above
  <2> QED
    BY <1>1, <2>1, <2>3 DEF PageInv
<1> QED
  BY <1>2, <1>3

\* An event reaches the channels and nothing else (events.go, Publish).
LEMMA LogLineStep ==
    ASSUME StreamInv, LogLine
    PROVE  StreamInv'
<1>t. TypeOK /\ RingExact /\ OwnConnection
  BY DEF StreamInv
<1>v. /\ \A c \in Connections : Staged(c) /\ NothingLost(c) /\ InOrder(c)
      /\ \A t \in Tabs : ShownUpTo(t) /\ (current[t] # NoConnection => Ahead(t, current[t]))
  BY DEF StreamInv, ConnectionInv, PageInv
<1>p. Publish
  BY DEF LogLine
<1>u. UNCHANGED <<flow, after, retained, stream, written, current, lastSeq, page, subscribers>>
  BY DEF LogLine, Publish, flowVars, tabVars
<1>r. RingExact'
  BY <1>t, <1>p, RingStep
<1>s. /\ sequence \in Nat /\ sequence' = sequence + 1
      /\ size \in Nat /\ size' \in Nat
      /\ sequence - size <= sequence' - size'
  <2>1. sequence \in Nat /\ sequence' = sequence + 1
    BY <1>t, <1>p DEF RingExact, Publish
  <2>2. size = (IF sequence < Capacity THEN sequence ELSE Capacity)
    BY <1>t DEF RingExact
  <2>3. size' = (IF sequence' < Capacity THEN sequence' ELSE Capacity)
    BY <1>r DEF RingExact
  <2> QED
    BY <2>1, <2>2, <2>3, EventBusAssumption
<1>d. ASSUME NEW c \in Connections
      PROVE  /\ \/ channel'[c] = channel[c]
                \/ channel'[c] = Append(channel[c], sequence + 1) /\ c \in subscribers
             /\ dropped'[c] \in BOOLEAN
             /\ c \in subscribers /\ ~dropped'[c] =>
                    ~dropped[c] /\ channel'[c] = Append(channel[c], sequence + 1)
  BY <1>p, <1>t DEF Publish, TypeOK
<1>1. TypeOK'
  <2>1. channel' \in [Connections -> Seq(Nat)] /\ dropped' \in [Connections -> BOOLEAN]
    <3>1. \A c \in Connections : Append(channel[c], sequence + 1) \in Seq(Nat)
      BY <1>t, <1>s, AppendParts DEF TypeOK
    <3>2. DOMAIN channel' = Connections /\ DOMAIN dropped' = Connections
      BY <1>p DEF Publish
    <3> QED
      BY <1>p, <1>t, <3>1 DEF Publish, TypeOK
  <2> QED
    BY <1>t, <1>u, <2>1 DEF TypeOK
<1>2. ASSUME NEW c \in Connections PROVE Staged(c)'
  BY <1>t, <1>v, <1>u, <1>d, <1>s DEF Staged, TypeOK
<1>3. ASSUME NEW c \in Connections PROVE NothingLost(c)'
  <2> SUFFICES ASSUME c \in subscribers', ~dropped'[c] PROVE Unbroken(c)'
    BY DEF NothingLost
  <2>1. c \in subscribers
    BY <1>u
  <2>2. ~dropped[c] /\ channel'[c] = Append(channel[c], sequence + 1)
    BY <2>1, <1>d
  <2>3. Unbroken(c)
    BY <2>1, <2>2, <1>v DEF NothingLost
  <2> DEFINE h == Len(retained[c])
             s == Len(stream[c])
             l == Len(channel[c])
             base == sequence - (h + s + l)
             last == IF written[c] # 0 THEN written[c] ELSE after[c]
  <2>4. h \in Nat /\ s \in Nat /\ l \in Nat /\ last \in Nat
    BY <1>t, <1>s, <2>1 DEF TypeOK
  <2>5. channel[c] \in Seq(Nat)
    BY <1>t, <2>1 DEF TypeOK
  <2>6. /\ Consecutive(retained[c], base)
        /\ Consecutive(stream[c], base + h)
        /\ Consecutive(channel[c], base + h + s)
        /\ \/ base = last
           \/ /\ written[c] = 0 /\ h + s + l # 0
              /\ last < base /\ base <= sequence - size
    BY <2>3 DEF Unbroken
  <2>n. \/ base = last
        \/ /\ written[c] = 0 /\ h + s + l # 0
           /\ last < base /\ base <= sequence - size
    BY <2>6
  <2>7. Len(channel'[c]) = l + 1
    BY <2>2, <2>5, <1>s, AppendParts
  <2>8. l = Len(channel[c]) /\ base = sequence - (h + s + l)
    OBVIOUS
  <2>9. /\ Len(retained'[c]) = h /\ Len(stream'[c]) = s
        /\ retained'[c] = retained[c] /\ stream'[c] = stream[c]
        /\ last = IF written'[c] # 0 THEN written'[c] ELSE after'[c]
        /\ written'[c] = written[c]
    BY <1>u
  <2> HIDE DEF h, s, l, base, last
  <2>10. base \in Int /\ base + h + s \in Int /\ sequence + 1 = base + h + s + l + 1
         /\ sequence + 1 \in Nat /\ base = sequence' - (h + s + (l + 1))
    BY <1>s, <2>4, <2>8
  <2>11. Consecutive(channel'[c], base + h + s)
    BY <2>2, <2>5, <2>6, <2>8, <2>10, AppendConsecutive
  <2>12. \/ base = last
         \/ /\ written[c] = 0 /\ h + s + (l + 1) # 0
            /\ last < base /\ base <= sequence' - size'
    <3>1. CASE base = last
      BY <3>1
    <3>2. CASE ~(base = last)
      <4>1. written[c] = 0 /\ last < base /\ base <= sequence - size
        BY <2>n, <3>2
      <4>2. h + s + (l + 1) # 0
        BY <2>4
      <4>3. base <= sequence' - size'
        <5>1. base \in Int /\ base <= sequence - size
          BY <4>1, <2>10
        <5>2. sequence - size \in Int /\ sequence' - size' \in Int
          BY <1>s
        <5>3. sequence - size <= sequence' - size'
          BY <1>s
        <5>4. \A x, y, z \in Int : x <= y /\ y <= z => x <= z
          OBVIOUS
        <5> QED
          BY <5>1, <5>2, <5>3, <5>4
      <4> QED
        BY <4>1, <4>2, <4>3
    <3> QED
      BY <3>1, <3>2
  <2> QED
    BY <2>6, <2>7, <2>9, <2>10, <2>11, <2>12 DEF Unbroken
<1>4. ASSUME NEW c \in Connections PROVE InOrder(c)'
  <2>1. channel[c] \in Seq(Nat) /\ stream[c] \in Seq(Nat) /\ retained[c] \in Seq(Nat)
    BY <1>t DEF TypeOK
  <2>u. retained'[c] = retained[c] /\ stream'[c] = stream[c]
    BY <1>u
  <2>2. /\ Rising(retained[c]) /\ Rising(stream[c]) /\ Rising(channel[c])
        /\ Below(retained[c], stream[c]) /\ Below(retained[c], channel[c])
        /\ Below(stream[c], channel[c])
        /\ Within(retained[c], sequence) /\ Within(stream[c], sequence)
        /\ Within(channel[c], sequence)
    BY <1>v DEF InOrder
  <2>3. /\ \A q : Within(q, sequence) => Within(q, sequence')
        /\ \A q : Within(q, sequence) => \A i \in 1..Len(q) : q[i] < sequence + 1
    <3>1. \A x : x \in 1..sequence => x \in 1..sequence' /\ x < sequence + 1
      BY <1>s
    <3> QED
      BY <3>1 DEF Within
  <2>4. CASE channel'[c] = channel[c]
    BY <2>u, <2>2, <2>3, <2>4 DEF InOrder
  <2>5. CASE channel'[c] = Append(channel[c], sequence + 1)
    <3>s. sequence \in Nat /\ sequence + 1 \in Nat /\ sequence < sequence + 1 /\ sequence' = sequence + 1
      BY <1>s
    <3>1. Within(channel'[c], sequence + 1) /\ Rising(channel'[c])
      BY <2>1, <2>2, <2>5, <3>s, AppendOrder
    <3>2. Below(retained[c], channel'[c]) /\ Below(stream[c], channel'[c])
      BY <2>1, <2>2, <2>3, <2>5, <3>s, AppendBelow
    <3> QED
      BY <2>u, <2>2, <2>3, <3>s, <3>1, <3>2 DEF InOrder
  <2> QED
    BY <2>4, <2>5, <1>d
<1>5. ASSUME NEW t \in Tabs PROVE PageInv(t)'
  <2>1. ASSUME current[t] # NoConnection
        PROVE  Above(channel'[current[t]], lastSeq[t])
    <3> DEFINE c == current[t]
    <3>1. c \in Connections /\ channel[c] \in Seq(Nat)
      BY <1>t, <2>1 DEF TypeOK
    <3>2. lastSeq[t] \in Nat /\ lastSeq[t] < sequence + 1 /\ sequence + 1 \in Nat
      BY <1>t, <1>v, <1>s DEF TypeOK, ShownUpTo
    <3>3. Above(channel[c], lastSeq[t])
      BY <1>v, <2>1 DEF Ahead
    <3>4. Above(Append(channel[c], sequence + 1), lastSeq[t])
      BY <3>1, <3>2, <3>3, AppendAbove
    <3> QED
      BY <3>1, <3>3, <3>4, <1>d
  <2>2. lastSeq[t] <= sequence'
    BY <1>t, <1>v, <1>s DEF TypeOK, ShownUpTo
  <2>3. ShownUpTo(t)'
    BY <1>v, <1>u, <2>2 DEF ShownUpTo
  <2> QED
    BY <1>v, <1>u, <2>1, <2>3 DEF PageInv, Ahead
<1>6. OwnConnection'
  BY <1>t, <1>u DEF OwnConnection
<1> QED
  BY <1>r, <1>1, <1>2, <1>3, <1>4, <1>5, <1>6 DEF StreamInv, ConnectionInv

\* A sequence that is empty has nothing out of order.
LEMMA EmptyOrder ==
    /\ <<>> \in Seq(Nat) /\ Len(<<>>) = 0
    /\ Rising(<<>>)
    /\ \A n : Within(<<>>, n) /\ Above(<<>>, n) /\ Consecutive(<<>>, n)
    /\ \A q \in Seq(Nat) : Below(<<>>, q) /\ Below(q, <<>>)
  BY DEF Rising, Within, Above, Below, Consecutive

\* The page asks to go on after what it saw (dashboard.go, Stream).
LEMMA ConnectStep ==
    ASSUME StreamInv, NEW t \in Tabs, NEW c \in Connections, Connect(t, c)
    PROVE  StreamInv'
<1>t. TypeOK /\ RingExact /\ OwnConnection
  BY DEF StreamInv
<1>v. /\ \A x \in Connections : ConnectionInv(x)
      /\ \A u \in Tabs : PageInv(u)
  BY DEF StreamInv
<1>u. UNCHANGED <<ring, start, size, sequence, subscribers, channel, dropped,
                  retained, stream, written, lastSeq, page>>
  BY DEF Connect, busVars
<1>c. /\ current[t] = NoConnection /\ flow[c] = "unused"
      /\ \/ /\ flow' = [flow EXCEPT ![c] = "refused"]
            /\ UNCHANGED <<after, current>>
         \/ /\ flow' = [flow EXCEPT ![c] = "admitted"]
            /\ after' = [after EXCEPT ![c] = lastSeq[t]]
            /\ current' = [current EXCEPT ![t] = c]
  BY DEF Connect
<1>r. RingExact'
  BY <1>t, <1>u, RingKept
<1>1. TypeOK'
  <2>1. flow' \in [Connections -> Flows]
    BY <1>t, <1>c DEF TypeOK, Flows
  <2>2. after' \in [Connections -> Nat]
    BY <1>t, <1>c DEF TypeOK
  <2>3. current' \in [Tabs -> Connections \cup {NoConnection}]
    BY <1>t, <1>c DEF TypeOK
  <2> QED
    BY <1>t, <1>u, <2>1, <2>2, <2>3 DEF TypeOK
<1>x. \A x \in Connections : x # c => Untouched(x)
  BY <1>t, <1>u, <1>c DEF TypeOK, Untouched
<1>l. \A u \in Tabs : current[u] # c
  BY <1>v, <1>c, DashboardAssumption DEF PageInv, Ahead
<1>e. /\ c \notin subscribers /\ written[c] = 0
      /\ retained[c] = <<>> /\ stream[c] = <<>> /\ channel[c] = <<>>
  BY <1>v, <1>c DEF ConnectionInv, Staged
<1>2. ASSUME NEW x \in Connections PROVE ConnectionInv(x)'
  <2>1. CASE x # c
    BY <1>v, <1>u, <1>x, <2>1, ConnectionKept
  <2>2. CASE x = c
    <3>1. flow'[c] \in {"refused", "admitted"} /\ (after'[c] = after[c] \/ after'[c] = lastSeq[t])
      BY <1>t, <1>c DEF TypeOK
    <3>2. after[c] <= sequence /\ lastSeq[t] <= sequence
      BY <1>v DEF ConnectionInv, Staged, PageInv, ShownUpTo
    <3>3. Staged(c)'
      BY <1>e, <1>u, <3>1, <3>2 DEF Staged
    <3>4. NothingLost(c)'
      BY <1>e, <1>u DEF NothingLost
    <3>5. InOrder(c)'
      BY <1>e, <1>u, EmptyOrder DEF InOrder
    <3> QED
      BY <2>2, <3>3, <3>4, <3>5 DEF ConnectionInv
  <2> QED
    BY <2>1, <2>2
<1>3. ASSUME NEW u \in Tabs PROVE PageInv(u)'
  <2>1. CASE current'[u] = current[u]
    <3>1. \A x \in Connections : current[u] = x => Untouched(x)
      BY <1>l, <1>x
    <3> QED
      BY <1>t, <1>v, <1>u, <2>1, <3>1, PageKept
  <2>2. CASE current'[u] # current[u]
    <3>1. u = t /\ current'[t] = c /\ flow'[c] = "admitted" /\ after'[c] = lastSeq[t]
      BY <1>c, <1>t, <2>2 DEF TypeOK
    <3>2. ShownUpTo(t)'
      BY <1>v, <1>u DEF PageInv, ShownUpTo
    <3>3. Ahead(t, c)'
      BY <3>1, <1>e, <1>u, EmptyOrder DEF Ahead
    <3> QED
      BY <3>1, <3>2, <3>3 DEF PageInv
  <2> QED
    BY <2>1, <2>2
<1>4. OwnConnection'
  <2>1. current' = current \/ current' = [current EXCEPT ![t] = c]
    BY <1>c
  <2> QED
    BY <1>t, <1>l, <2>1, ZenonT(60) DEF OwnConnection, TypeOK
<1> QED
  BY <1>r, <1>1, <1>2, <1>3, <1>4 DEF StreamInv

LEMMA DisconnectStep ==
    ASSUME StreamInv, NEW t \in Tabs, Disconnect(t)
    PROVE  StreamInv'
<1>t. TypeOK /\ RingExact /\ OwnConnection
  BY DEF StreamInv
<1>v. /\ \A x \in Connections : ConnectionInv(x)
      /\ \A u \in Tabs : PageInv(u)
  BY DEF StreamInv
<1>u. /\ UNCHANGED <<ring, start, size, sequence, subscribers, channel, dropped,
                     flow, after, retained, stream, written, lastSeq, page>>
      /\ current' = [current EXCEPT ![t] = NoConnection]
  BY DEF Disconnect, busVars, flowVars
<1>r. RingExact'
  BY <1>t, <1>u, RingKept
<1>1. TypeOK'
  BY <1>t, <1>u DEF TypeOK
<1>x. \A x \in Connections : Untouched(x)
  BY <1>u DEF Untouched
<1>2. ASSUME NEW x \in Connections PROVE ConnectionInv(x)'
  BY <1>v, <1>u, <1>x, ConnectionKept
<1>3. ASSUME NEW u \in Tabs PROVE PageInv(u)'
  <2>1. CASE u = t
    <3>1. current'[u] = NoConnection
      BY <1>t, <1>u, <2>1 DEF TypeOK
    <3> QED
      BY <1>v, <1>u, <3>1 DEF PageInv, ShownUpTo
  <2>2. CASE u # t
    <3>1. current'[u] = current[u]
      BY <1>t, <1>u, <2>2 DEF TypeOK
    <3> QED
      BY <1>t, <1>v, <1>u, <1>x, <3>1, PageKept
  <2> QED
    BY <2>1, <2>2
<1>4. OwnConnection'
  BY <1>t, <1>u DEF OwnConnection, TypeOK
<1> QED
  BY <1>r, <1>1, <1>2, <1>3, <1>4 DEF StreamInv

\* What was missed is handed over and nothing comes between it and what follows
\* (events.go, ReplayAndSubscribe).
LEMMA ResumeStep ==
    ASSUME StreamInv, NEW c \in Connections, Resume(c)
    PROVE  StreamInv'
<1>t. TypeOK /\ RingExact /\ OwnConnection
  BY DEF StreamInv
<1>v. /\ \A x \in Connections : ConnectionInv(x)
      /\ \A u \in Tabs : PageInv(u)
  BY DEF StreamInv
<1> DEFINE old == sequence - size
           low == IF after[c] < old THEN old ELSE after[c]
           q == Span(low, sequence)
<1>n. /\ sequence \in Nat /\ size \in Nat /\ size <= sequence /\ (sequence # 0 => size # 0)
      /\ after[c] \in Nat /\ after[c] <= sequence
  BY <1>t, <1>v, EventBusAssumption DEF RingExact, TypeOK, ConnectionInv, Staged
<1>q. replayLocked(after[c]) = q
  BY <1>t, <1>n, ReplayIs
<1>u. /\ UNCHANGED <<ring, start, size, sequence, channel, dropped,
                     after, stream, written, current, lastSeq, page>>
      /\ flow[c] = "admitted"
      /\ flow' = [flow EXCEPT ![c] = "history"]
      /\ retained' = [retained EXCEPT ![c] = q]
      /\ subscribers' = subscribers \cup {c}
  BY <1>q DEF Resume, ReplayAndSubscribe, tabVars
<1>w. low \in Nat /\ low <= sequence /\ after[c] <= low /\ (low = after[c] \/ (after[c] < low /\ low <= sequence - size /\ low < sequence))
  BY <1>n
<1> HIDE DEF low
<1>s. /\ q \in Seq(Nat) /\ Len(q) = sequence - low
      /\ Consecutive(q, low) /\ Rising(q) /\ Within(q, sequence) /\ Above(q, low)
  BY <1>n, <1>w, SpanOrder
<1> HIDE DEF q
<1>r. RingExact'
  BY <1>t, <1>u, RingKept
<1>1. TypeOK'
  BY <1>t, <1>u, <1>s DEF TypeOK, Flows
<1>x. \A x \in Connections : x # c => Untouched(x)
  BY <1>t, <1>u DEF TypeOK, Untouched
<1>e. /\ c \notin subscribers /\ written[c] = 0
      /\ stream[c] = <<>> /\ channel[c] = <<>>
  BY <1>v, <1>u DEF ConnectionInv, Staged
<1>f. flow'[c] = "history" /\ retained'[c] = q
  BY <1>t, <1>u DEF TypeOK
<1>2. ASSUME NEW x \in Connections PROVE ConnectionInv(x)'
  <2>1. CASE x # c
    BY <1>v, <1>u, <1>x, <2>1, ConnectionKept
  <2>2. CASE x = c
    <3>1. Staged(c)'
      BY <1>f, <1>u, <1>n DEF Staged
    <3>2. NothingLost(c)'
      <4>1. /\ Len(retained'[c]) = sequence - low /\ Len(stream'[c]) = 0 /\ Len(channel'[c]) = 0
            /\ written'[c] = 0 /\ after'[c] = after[c] /\ sequence' = sequence /\ size' = size
        BY <1>f, <1>u, <1>e, <1>s
      <4>2. sequence - ((sequence - low) + 0 + 0) = low /\ low \in Nat
        BY <1>n, <1>w
      <4>3. \/ low = after[c]
            \/ /\ (sequence - low) + 0 + 0 # 0
               /\ after[c] < low /\ low <= sequence - size
        BY <1>n, <1>w
      <4>4. /\ Consecutive(retained'[c], low)
            /\ \A z : Consecutive(stream'[c], z) /\ Consecutive(channel'[c], z)
        BY <1>f, <1>u, <1>e, <1>s, EmptyOrder
      <4>5. Unbroken(c)'
        BY <4>1, <4>2, <4>3, <4>4 DEF Unbroken
      <4> QED
        BY <4>5 DEF NothingLost
    <3>3. InOrder(c)'
      BY <1>f, <1>u, <1>e, <1>s, EmptyOrder DEF InOrder
    <3> QED
      BY <2>2, <3>1, <3>2, <3>3 DEF ConnectionInv
  <2> QED
    BY <2>1, <2>2
<1>3. ASSUME NEW u \in Tabs PROVE PageInv(u)'
  <2>1. CASE current[u] # c
    <3>1. \A x \in Connections : current[u] = x => Untouched(x)
      BY <2>1, <1>x
    <3> QED
      BY <1>t, <1>v, <1>u, <3>1, PageKept
  <2>2. CASE current[u] = c
    <3>1. ShownUpTo(u)'
      BY <1>v, <1>u DEF PageInv, ShownUpTo
    <3>2. after[c] = lastSeq[u]
      BY <1>v, <1>u, <2>2, DashboardAssumption DEF PageInv, Ahead
    <3>3. Above(q, lastSeq[u])
      <4>1. \A i \in 1..Len(q) : low < q[i] /\ q[i] \in 1..sequence
        BY <1>s DEF Above, Within
      <4>2. \A y : y \in 1..sequence /\ low < y => after[c] < y
        BY <1>n, <1>w
      <4> QED
        BY <3>2, <4>1, <4>2 DEF Above
    <3>4. Ahead(u, c)'
      BY <3>3, <1>f, <1>u, <1>e, EmptyOrder DEF Ahead
    <3> QED
      BY <2>2, <1>u, <3>1, <3>4 DEF PageInv
  <2> QED
    BY <2>1, <2>2
<1>4. OwnConnection'
  BY <1>t, <1>u DEF OwnConnection
<1> QED
  BY <1>r, <1>1, <1>2, <1>3, <1>4 DEF StreamInv

\* What a page that listens to a connection makes of an event written on it
\* (index.html, ingest), when the event is later than what it has.
LEMMA IngestPages ==
    ASSUME StreamInv, NEW c \in Connections, NEW e \in Nat, ingest(c, e),
           sequence' = sequence, e <= sequence,
           \A t \in Tabs : current[t] = c => lastSeq[t] < e,
           flow'[c] \notin {"unused", "refused", "returned", "admitted"},
           Above(retained'[c], e), Above(stream'[c], e), Above(channel'[c], e),
           \A x \in Connections : x # c => Untouched(x)
    PROVE  /\ \A t \in Tabs : PageInv(t)'
           /\ OwnConnection'
           /\ lastSeq' \in [Tabs -> Nat] /\ page' \in [Tabs -> Seq(Nat)]
           /\ current' = current /\ written' = [written EXCEPT ![c] = e]
<1>t. TypeOK /\ OwnConnection /\ \A t \in Tabs : PageInv(t)
  BY DEF StreamInv
<1>i. /\ page' = [t \in Tabs |-> IF current[t] = c THEN Append(page[t], e) ELSE page[t]]
      /\ lastSeq' = [t \in Tabs |-> IF current[t] = c /\ e > lastSeq[t] THEN e ELSE lastSeq[t]]
      /\ current' = current /\ written' = [written EXCEPT ![c] = e]
  BY DEF ingest
<1>1. ASSUME NEW t \in Tabs PROVE PageInv(t)'
  <2>1. CASE current[t] # c
    <3>1. page'[t] = page[t] /\ lastSeq'[t] = lastSeq[t] /\ current'[t] = current[t]
      BY <1>i, <2>1
    <3>2. \A x \in Connections : current[t] = x => Untouched(x)
      BY <2>1
    <3> QED
      BY <1>t, <3>1, <3>2, PageKept
  <2>2. CASE current[t] = c
    <3>1. lastSeq[t] \in Nat /\ lastSeq[t] < e /\ e > lastSeq[t]
      BY <1>t, <2>2 DEF TypeOK
    <3>2. lastSeq'[t] = e /\ page'[t] = Append(page[t], e) /\ current'[t] = c
      BY <1>i, <2>2, <3>1
    <3>3. page[t] \in Seq(Nat)
      BY <1>t DEF TypeOK
    <3>4. \A i \in 1..Len(page[t]) : page[t][i] <= lastSeq[t]
      BY <1>t DEF PageInv, ShownUpTo
    <3> DEFINE n == Len(page[t])
               p == page'[t]
    <3>5. /\ n \in Nat /\ Len(p) = n + 1 /\ p[n + 1] = e
          /\ \A i \in 1..n : p[i] = page[t][i] /\ page[t][i] \in Nat
      BY <3>2, <3>3, AppendParts
    <3>6. \A i \in 1..n : page[t][i] <= lastSeq[t]
      BY <3>4
    <3> HIDE DEF n, p
    <3>7. ASSUME NEW i \in 1..(n + 1) PROVE p[i] <= e
      <4>1. CASE i = n + 1
        BY <3>5, <4>1
      <4>2. CASE i # n + 1
        <5>1. i \in 1..n
          BY <3>5, <4>2
        <5>2. p[i] \in Nat /\ p[i] <= lastSeq[t]
          BY <3>5, <3>6, <5>1
        <5> QED
          BY <5>2, <3>1
      <4> QED
        BY <4>1, <4>2
    <3>8. ShownUpTo(t)'
      BY <3>2, <3>5, <3>7 DEF ShownUpTo, p
    <3>9. Ahead(t, c)'
      BY <3>2 DEF Ahead
    <3> QED
      BY <3>2, <3>8, <3>9 DEF PageInv
  <2> QED
    BY <2>1, <2>2
<1>2. OwnConnection'
  BY <1>t, <1>i DEF OwnConnection
<1>3. lastSeq' \in [Tabs -> Nat]
  BY <1>t, <1>i DEF TypeOK
<1>4. page' \in [Tabs -> Seq(Nat)]
  <2>1. \A t \in Tabs : page[t] \in Seq(Nat) /\ Append(page[t], e) \in Seq(Nat)
    BY <1>t, AppendParts DEF TypeOK
  <2> QED
    BY <1>i, <2>1
<1> QED
  BY <1>i, <1>1, <1>2, <1>3, <1>4

\* One event of the history, or its end (dashboard.go, Stream).
LEMMA SendRetainedStep ==
    ASSUME StreamInv, NEW c \in Connections, SendRetained(c)
    PROVE  StreamInv'
<1>t. TypeOK /\ RingExact /\ OwnConnection
  BY DEF StreamInv
<1>v. /\ \A x \in Connections : ConnectionInv(x)
      /\ \A u \in Tabs : PageInv(u)
  BY DEF StreamInv
<1>u. /\ UNCHANGED <<ring, start, size, sequence, subscribers, channel, dropped, after, stream>>
      /\ flow[c] = "history"
  BY DEF SendRetained, busVars
<1>r. RingExact'
  BY <1>t, <1>u, RingKept
<1>n. sequence \in Nat /\ size \in Nat
  BY <1>t, EventBusAssumption DEF RingExact
<1>1. CASE retained[c] = <<>>
  <2>1. /\ flow' = [flow EXCEPT ![c] = "live"]
        /\ UNCHANGED <<retained, written, current, lastSeq, page>>
    BY <1>1 DEF SendRetained, tabVars
  <2>2. TypeOK'
    BY <1>t, <1>u, <2>1 DEF TypeOK, Flows
  <2>x. \A x \in Connections : x # c => Untouched(x)
    BY <1>t, <1>u, <2>1 DEF TypeOK, Untouched
  <2>f. flow'[c] = "live"
    BY <1>t, <2>1 DEF TypeOK
  <2>3. ASSUME NEW x \in Connections PROVE ConnectionInv(x)'
    <3>1. CASE x # c
      BY <1>v, <1>u, <2>x, <3>1, ConnectionKept
    <3>2. CASE x = c
      <4>1. Staged(c)'
        BY <1>v, <1>u, <1>1, <2>1, <2>f DEF ConnectionInv, Staged
      <4>2. Unbroken(c)' <=> Unbroken(c)
        BY <1>u, <2>1 DEF Unbroken
      <4>3. NothingLost(c)'
        BY <1>v, <1>u, <4>2 DEF ConnectionInv, NothingLost
      <4>4. InOrder(c)'
        BY <1>v, <1>u, <2>1 DEF ConnectionInv, InOrder
      <4> QED
        BY <3>2, <4>1, <4>3, <4>4 DEF ConnectionInv
    <3> QED
      BY <3>1, <3>2
  <2>4. ASSUME NEW u \in Tabs PROVE PageInv(u)'
    <3>1. CASE current[u] # c
      <4>1. \A x \in Connections : current[u] = x => Untouched(x)
        BY <3>1, <2>x
      <4> QED
        BY <1>t, <1>v, <1>u, <2>1, <4>1, PageKept
    <3>2. CASE current[u] = c
      <4>1. ShownUpTo(u)'
        BY <1>v, <1>u, <2>1 DEF PageInv, ShownUpTo
      <4>2. Ahead(u, c)
        BY <1>v, <3>2, DashboardAssumption DEF PageInv
      <4>3. Ahead(u, c)'
        BY <4>2, <1>u, <2>1, <2>f DEF Ahead
      <4> QED
        BY <2>1, <3>2, <4>1, <4>3 DEF PageInv
    <3> QED
      BY <3>1, <3>2
  <2>5. OwnConnection'
    BY <1>t, <2>1 DEF OwnConnection
  <2> QED
    BY <1>r, <2>2, <2>3, <2>4, <2>5 DEF StreamInv
<1>2. CASE retained[c] # <<>>
  <2> DEFINE q == retained[c]
             e == Head(q)
  <2>1. /\ ingest(c, e)
        /\ retained' = [retained EXCEPT ![c] = Tail(q)]
        /\ flow' = flow
    BY <1>2, <1>t DEF SendRetained, TypeOK
  <2>w. /\ written' = [written EXCEPT ![c] = e] /\ current' = current
    BY <2>1 DEF ingest
  <2>q. q \in Seq(Nat) /\ q # <<>> /\ stream[c] \in Seq(Nat) /\ channel[c] \in Seq(Nat)
    BY <1>t, <1>2 DEF TypeOK
  <2>o. /\ Rising(q) /\ Below(q, stream[c]) /\ Below(q, channel[c]) /\ Within(q, sequence)
        /\ Below(stream[c], channel[c]) /\ Rising(stream[c]) /\ Rising(channel[c])
        /\ Within(stream[c], sequence) /\ Within(channel[c], sequence)
    BY <1>v DEF ConnectionInv, InOrder
  <2>e. /\ e \in 1..sequence /\ Within(Tail(q), sequence)
        /\ Rising(Tail(q)) /\ Above(Tail(q), e)
        /\ Below(Tail(q), stream[c]) /\ Above(stream[c], e)
        /\ Below(Tail(q), channel[c]) /\ Above(channel[c], e)
    BY <2>q, <2>o, TailOrder
  <2>p. Tail(q) \in Seq(Nat) /\ Len(Tail(q)) = Len(q) - 1 /\ Len(q) \in Nat \ {0}
    BY <2>q, TailParts
  <2>l. \A t \in Tabs : current[t] = c => lastSeq[t] < e
    <3> SUFFICES ASSUME NEW t \in Tabs, current[t] = c PROVE lastSeq[t] < e
      OBVIOUS
    <3>1. Above(q, lastSeq[t])
      BY <1>v, DashboardAssumption DEF PageInv, Ahead
    <3> QED
      BY <2>q, <3>1, TailOrder
  <2>k. \A a \in Int : Consecutive(q, a) => e = a + 1 /\ Consecutive(Tail(q), a + 1)
    BY <2>q, TailOrder
  <2>h. retained'[c] = Tail(q) /\ written'[c] = e
    BY <1>t, <2>1, <2>w DEF TypeOK
  <2>x. \A x \in Connections : x # c => Untouched(x)
    BY <1>t, <1>u, <2>1, <2>w DEF TypeOK, Untouched
  <2>b. Len(q) = Len(retained[c])
    OBVIOUS
  <2> HIDE DEF q, e
  <2>z. e \in Nat /\ e <= sequence /\ e # 0
    BY <2>e, <1>n
  <2>2. /\ \A t \in Tabs : PageInv(t)'
        /\ OwnConnection'
        /\ lastSeq' \in [Tabs -> Nat] /\ page' \in [Tabs -> Seq(Nat)]
    <3>1. /\ Above(retained'[c], e) /\ Above(stream'[c], e) /\ Above(channel'[c], e)
          /\ flow'[c] \notin {"unused", "refused", "returned", "admitted"}
      BY <2>h, <2>e, <1>u, <2>1
    <3> QED
      BY <3>1, <1>u, <2>1, <2>z, <2>l, <2>x, IngestPages
  <2>3. TypeOK'
    BY <1>t, <1>u, <2>1, <2>2, <2>w, <2>p, <2>z DEF TypeOK
  <2>4. ASSUME NEW x \in Connections PROVE ConnectionInv(x)'
    <3>1. CASE x # c
      BY <1>v, <1>u, <2>x, <3>1, ConnectionKept
    <3>2. CASE x = c
      <4>1. Staged(c)'
        BY <1>v, <1>u, <2>1 DEF ConnectionInv, Staged
      <4>2. InOrder(c)'
        BY <1>u, <2>h, <2>o, <2>e DEF InOrder
      <4>3. NothingLost(c)'
        <5> SUFFICES ASSUME c \in subscribers', ~dropped'[c] PROVE Unbroken(c)'
          BY DEF NothingLost
        <5> DEFINE h == Len(q)
                   s == Len(stream[c])
                   l == Len(channel[c])
                   base == sequence - (h + s + l)
        <5>1. Unbroken(c)
          BY <1>v, <1>u DEF ConnectionInv, NothingLost
        <5>2. /\ Consecutive(q, base)
              /\ Consecutive(stream[c], base + h)
              /\ Consecutive(channel[c], base + h + s)
          BY <5>1 DEF Unbroken, q
        <5>3. h \in Nat \ {0} /\ s \in Nat /\ l \in Nat
          BY <2>q, <2>p
        <5>4. base \in Int
          BY <5>3, <1>n
        <5>5. e = base + 1 /\ Consecutive(Tail(q), base + 1)
          BY <2>k, <5>2, <5>4
        <5>6. /\ Len(retained'[c]) = h - 1 /\ Len(stream'[c]) = s /\ Len(channel'[c]) = l
              /\ retained'[c] = Tail(q) /\ stream'[c] = stream[c] /\ channel'[c] = channel[c]
              /\ written'[c] = e /\ sequence' = sequence
          BY <1>u, <2>h, <2>p
        <5>7. base = sequence - (h + s + l)
          OBVIOUS
        <5> HIDE DEF h, s, l, base
        <5>8. /\ sequence - ((h - 1) + s + l) = base + 1
              /\ (base + 1) + (h - 1) = base + h
              /\ (base + 1) + (h - 1) + s = base + h + s
          BY <5>3, <5>4, <5>7, <1>n
        <5> QED
          BY <5>2, <5>5, <5>6, <5>8, <2>z DEF Unbroken
      <4> QED
        BY <3>2, <4>1, <4>2, <4>3 DEF ConnectionInv
    <3> QED
      BY <3>1, <3>2
  <2> QED
    BY <1>r, <2>2, <2>3, <2>4 DEF StreamInv
<1> QED
  BY <1>1, <1>2

\* One live event (dashboard.go, the loop of Stream).
LEMMA SendLiveStep ==
    ASSUME StreamInv, NEW c \in Connections, SendLive(c)
    PROVE  StreamInv'
<1>t. TypeOK /\ RingExact /\ OwnConnection
  BY DEF StreamInv
<1>v. /\ \A x \in Connections : ConnectionInv(x)
      /\ \A u \in Tabs : PageInv(u)
  BY DEF StreamInv
<1> DEFINE q == stream[c]
           e == Head(q)
<1>u. /\ UNCHANGED <<ring, start, size, sequence, subscribers, channel, dropped, flow, after, retained>>
      /\ flow[c] = "live"
      /\ ingest(c, e)
      /\ stream' = [stream EXCEPT ![c] = Tail(q)]
  BY <1>t DEF SendLive, busVars, TypeOK
<1>r. RingExact'
  BY <1>t, <1>u, RingKept
<1>n. sequence \in Nat /\ size \in Nat
  BY <1>t, EventBusAssumption DEF RingExact
<1>w. /\ written' = [written EXCEPT ![c] = e] /\ current' = current
  BY <1>u DEF ingest
<1>q. q \in Seq(Nat) /\ q # <<>> /\ channel[c] \in Seq(Nat)
  BY <1>t DEF TypeOK, SendLive
<1>g. retained[c] = <<>>
  BY <1>v, <1>u DEF ConnectionInv, Staged
<1>o. /\ Rising(q) /\ Below(q, channel[c]) /\ Within(q, sequence)
      /\ Rising(channel[c]) /\ Within(channel[c], sequence)
  BY <1>v DEF ConnectionInv, InOrder
<1>e. /\ e \in 1..sequence /\ Within(Tail(q), sequence)
      /\ Rising(Tail(q)) /\ Above(Tail(q), e)
      /\ Below(Tail(q), channel[c]) /\ Above(channel[c], e)
  BY <1>q, <1>o, TailOrder
<1>p. Tail(q) \in Seq(Nat) /\ Len(Tail(q)) = Len(q) - 1 /\ Len(q) \in Nat \ {0}
  BY <1>q, TailParts
<1>l. \A t \in Tabs : current[t] = c => lastSeq[t] < e
  <2> SUFFICES ASSUME NEW t \in Tabs, current[t] = c PROVE lastSeq[t] < e
    OBVIOUS
  <2>1. Above(q, lastSeq[t])
    BY <1>v, DashboardAssumption DEF PageInv, Ahead
  <2> QED
    BY <1>q, <2>1, TailOrder
<1>k. \A a \in Int : Consecutive(q, a) => e = a + 1 /\ Consecutive(Tail(q), a + 1)
  BY <1>q, TailOrder
<1>h. stream'[c] = Tail(q) /\ written'[c] = e
  BY <1>t, <1>u, <1>w DEF TypeOK
<1>x. \A x \in Connections : x # c => Untouched(x)
  BY <1>t, <1>u, <1>w DEF TypeOK, Untouched
<1> HIDE DEF q, e
<1>z. e \in Nat /\ e <= sequence /\ e # 0
  BY <1>e, <1>n
<1>2. /\ \A t \in Tabs : PageInv(t)'
      /\ OwnConnection'
      /\ lastSeq' \in [Tabs -> Nat] /\ page' \in [Tabs -> Seq(Nat)]
  <2>1. /\ Above(retained'[c], e) /\ Above(stream'[c], e) /\ Above(channel'[c], e)
        /\ flow'[c] \notin {"unused", "refused", "returned", "admitted"}
    BY <1>h, <1>e, <1>g, <1>u, EmptyOrder
  <2> QED
    BY <2>1, <1>u, <1>z, <1>l, <1>x, IngestPages
<1>3. TypeOK'
  BY <1>t, <1>u, <1>2, <1>w, <1>p, <1>z DEF TypeOK
<1>4. ASSUME NEW x \in Connections PROVE ConnectionInv(x)'
  <2>1. CASE x # c
    BY <1>v, <1>u, <1>x, <2>1, ConnectionKept
  <2>2. CASE x = c
    <3>1. Staged(c)'
      BY <1>v, <1>u DEF ConnectionInv, Staged
    <3>2. InOrder(c)'
      BY <1>u, <1>q, <1>p, <1>g, <1>h, <1>o, <1>e, EmptyOrder DEF InOrder
    <3>3. NothingLost(c)'
      <4> SUFFICES ASSUME c \in subscribers', ~dropped'[c] PROVE Unbroken(c)'
        BY DEF NothingLost
      <4> DEFINE s == Len(q)
                 l == Len(channel[c])
                 base == sequence - (0 + s + l)
      <4>1. Unbroken(c)
        BY <1>v, <1>u DEF ConnectionInv, NothingLost
      <4>2. /\ Consecutive(q, base + 0)
            /\ Consecutive(channel[c], base + 0 + s)
        <5>1. Len(retained[c]) = 0
          BY <1>g, EmptyOrder
        <5> QED
          BY <4>1, <5>1 DEF Unbroken, q
      <4>3. s \in Nat \ {0} /\ l \in Nat
        BY <1>q, <1>p
      <4>4. base \in Int /\ base + 0 = base
        BY <4>3, <1>n
      <4>5. e = base + 1 /\ Consecutive(Tail(q), base + 1)
        BY <1>k, <4>2, <4>4
      <4>6. /\ Len(retained'[c]) = 0 /\ Len(stream'[c]) = s - 1 /\ Len(channel'[c]) = l
            /\ retained'[c] = <<>> /\ stream'[c] = Tail(q) /\ channel'[c] = channel[c]
            /\ written'[c] = e /\ sequence' = sequence
        BY <1>u, <1>g, <1>h, <1>p, EmptyOrder
      <4>7. base = sequence - (0 + s + l)
        OBVIOUS
      <4> HIDE DEF s, l, base
      <4>8. /\ sequence - (0 + (s - 1) + l) = base + 1
            /\ (base + 1) + 0 = base + 1
            /\ (base + 1) + 0 + (s - 1) = base + 0 + s
        BY <4>3, <4>4, <4>7, <1>n
      <4>9. Consecutive(retained'[c], base + 1)
        BY <4>6, EmptyOrder
      <4> QED
        BY <4>2, <4>5, <4>6, <4>8, <4>9, <1>z DEF Unbroken
    <3> QED
      BY <2>2, <3>1, <3>2, <3>3 DEF ConnectionInv
  <2> QED
    BY <2>1, <2>2
<1> QED
  BY <1>r, <1>2, <1>3, <1>4 DEF StreamInv

\* An event goes from the channel to the handler, or is discarded there
\* (events.go, deliver).
LEMMA deliverStep ==
    ASSUME StreamInv, NEW c \in Connections, deliver(c)
    PROVE  StreamInv'
<1>t. TypeOK /\ RingExact /\ OwnConnection
  BY DEF StreamInv
<1>v. /\ \A x \in Connections : ConnectionInv(x)
      /\ \A u \in Tabs : PageInv(u)
  BY DEF StreamInv
<1> DEFINE q == channel[c]
           e == Head(q)
<1>u. /\ UNCHANGED <<ring, start, size, sequence, subscribers, flow, after, retained, written,
                     current, lastSeq, page>>
      /\ q # <<>>
      /\ channel' = [channel EXCEPT ![c] = Tail(q)]
      /\ \/ /\ stream' = [stream EXCEPT ![c] = Append(stream[c], e)]
            /\ dropped' = dropped
         \/ /\ dropped' = [dropped EXCEPT ![c] = TRUE]
            /\ stream' = stream
  BY <1>t DEF deliver, tabVars, TypeOK
<1>r. RingExact'
  BY <1>t, <1>u, RingKept
<1>n. sequence \in Nat /\ size \in Nat
  BY <1>t, EventBusAssumption DEF RingExact
<1>q. q \in Seq(Nat) /\ stream[c] \in Seq(Nat) /\ retained[c] \in Seq(Nat)
  BY <1>t DEF TypeOK
<1>o. InOrder(c) /\ Staged(c)
  BY <1>v DEF ConnectionInv
<1>p. Tail(q) \in Seq(Nat) /\ Len(Tail(q)) = Len(q) - 1 /\ Len(q) \in Nat \ {0} /\ e \in Nat
  BY <1>q, <1>u, TailParts
<1>e. /\ e \in 1..sequence /\ Within(Tail(q), sequence)
      /\ Rising(Tail(q)) /\ Above(Tail(q), e)
      /\ Below(stream[c], Tail(q)) /\ \A i \in 1..Len(stream[c]) : stream[c][i] < e
      /\ Below(retained[c], Tail(q)) /\ \A i \in 1..Len(retained[c]) : retained[c][i] < e
  BY <1>q, <1>u, <1>o, TailOrder DEF InOrder
<1>f. flow[c] \notin {"unused", "refused", "admitted"}
  BY <1>o, <1>u DEF Staged
<1>k. \A a \in Int : Consecutive(q, a) => e = a + 1 /\ Consecutive(Tail(q), a + 1)
  BY <1>q, <1>u, TailOrder
<1>h. /\ channel'[c] = Tail(q)
      /\ \/ stream'[c] = Append(stream[c], e) /\ dropped'[c] = dropped[c]
         \/ stream'[c] = stream[c] /\ dropped'[c] = TRUE
  BY <1>t, <1>u DEF TypeOK
<1>x. \A x \in Connections : x # c => Untouched(x)
  BY <1>t, <1>u DEF TypeOK, Untouched
<1>d. q = channel[c]
  OBVIOUS
<1>m. ASSUME NEW m, Above(q, m) PROVE m < e /\ Above(Tail(q), m)
  BY <1>q, <1>u, <1>m, TailOrder
<1>a. /\ Append(stream[c], e) \in Seq(Nat)
      /\ Len(Append(stream[c], e)) = Len(stream[c]) + 1
      /\ Len(stream[c]) \in Nat /\ Len(retained[c]) \in Nat
      /\ \A i \in 1..Len(stream[c]) : Append(stream[c], e)[i] = stream[c][i]
      /\ Append(stream[c], e)[Len(stream[c]) + 1] = e
  BY <1>q, <1>p, AppendParts
<1> HIDE DEF q, e
<1>1. TypeOK'
  <2>1. stream' \in [Connections -> Seq(Nat)]
    BY <1>t, <1>u, <1>a DEF TypeOK
  <2>2. dropped' \in [Connections -> BOOLEAN]
    BY <1>t, <1>u DEF TypeOK
  <2> QED
    BY <1>t, <1>u, <1>p, <2>1, <2>2 DEF TypeOK
\* The handler's channel with the event at its end.
<1>s. LET b == Append(stream[c], e) IN
      /\ Rising(b) /\ Within(b, sequence)
      /\ Below(b, Tail(q)) /\ Below(retained[c], b)
  <2> DEFINE b == Append(stream[c], e)
             n == Len(stream[c])
  <2>1. Below(retained[c], b)
    BY <1>o, <1>q, <1>p, <1>e, AppendBelow DEF InOrder
  <2>2. /\ n \in Nat /\ Len(b) = n + 1 /\ b[n + 1] = e
        /\ \A i \in 1..n : b[i] = stream[c][i]
    BY <1>a
  <2>3. /\ \A i, j \in 1..n : i < j => stream[c][i] < stream[c][j]
        /\ \A i \in 1..n : stream[c][i] < e /\ stream[c][i] \in 1..sequence
        /\ \A i \in 1..n, j \in 1..Len(Tail(q)) : stream[c][i] < Tail(q)[j]
        /\ \A j \in 1..Len(Tail(q)) : e < Tail(q)[j]
    BY <1>o, <1>e DEF InOrder, Rising, Within, Below, Above
  <2> HIDE DEF b, n
  <2>4. \A i \in 1..(n + 1) : i \in 1..n \/ i = n + 1
    BY <2>2
  <2>5. Within(b, sequence)
    BY <2>2, <2>3, <2>4, <1>e DEF Within
  <2>6. Below(b, Tail(q))
    BY <2>2, <2>3, <2>4 DEF Below
  <2>7. Rising(b)
    <3>1. ASSUME NEW i \in 1..(n + 1), NEW j \in 1..(n + 1), i < j PROVE b[i] < b[j]
      <4>1. i \in 1..n
        BY <2>2, <3>1
      <4>2. CASE j = n + 1
        BY <2>2, <2>3, <4>1, <4>2
      <4>3. CASE j \in 1..n
        BY <2>2, <2>3, <4>1, <4>3, <3>1
      <4> QED
        BY <2>4, <4>2, <4>3
    <3> QED
      BY <2>2, <3>1 DEF Rising
  <2> QED
    BY <2>1, <2>5, <2>6, <2>7 DEF b
<1>2. ASSUME NEW x \in Connections PROVE ConnectionInv(x)'
  <2>1. CASE x # c
    BY <1>v, <1>u, <1>x, <2>1, ConnectionKept
  <2>2. CASE x = c
    <3>1. Staged(c)'
      BY <1>o, <1>f, <1>u DEF Staged
    <3>2. InOrder(c)'
      BY <1>o, <1>u, <1>h, <1>e, <1>s DEF InOrder
    <3>3. NothingLost(c)'
      <4> SUFFICES ASSUME c \in subscribers', ~dropped'[c] PROVE Unbroken(c)'
        BY DEF NothingLost
      <4>0. stream'[c] = Append(stream[c], e) /\ ~dropped[c]
        BY <1>h
      <4> DEFINE h == Len(retained[c])
                 s == Len(stream[c])
                 l == Len(q)
                 base == sequence - (h + s + l)
                 last == IF written[c] # 0 THEN written[c] ELSE after[c]
      <4>1. Unbroken(c)
        BY <1>v, <1>u, <4>0 DEF ConnectionInv, NothingLost
      <4>2. /\ Consecutive(retained[c], base)
            /\ Consecutive(stream[c], base + h)
            /\ Consecutive(q, base + h + s)
        BY <4>1 DEF Unbroken, q
      <4>n. \/ base = last
            \/ /\ written[c] = 0 /\ h + s + l # 0
               /\ last < base /\ base <= sequence - size
        BY <4>1 DEF Unbroken, q
      <4>3. h \in Nat /\ s \in Nat /\ l \in Nat \ {0}
        BY <1>p, <1>a
      <4>4. base \in Int /\ base + h \in Int /\ base + h + s \in Int
        BY <4>3, <1>n
      <4>5. e = base + h + s + 1 /\ Consecutive(Tail(q), base + h + s + 1)
        BY <1>k, <4>2, <4>4
      <4>6. /\ Len(retained'[c]) = h /\ Len(stream'[c]) = s + 1 /\ Len(channel'[c]) = l - 1
            /\ retained'[c] = retained[c] /\ channel'[c] = Tail(q)
            /\ written'[c] = written[c] /\ after'[c] = after[c]
            /\ sequence' = sequence /\ size' = size
        BY <1>u, <1>h, <1>p, <1>a, <4>0
      <4>7. s = Len(stream[c]) /\ base = sequence - (h + s + l)
            /\ last = IF written'[c] # 0 THEN written'[c] ELSE after'[c]
        BY <1>u
      <4> HIDE DEF h, s, l, base, last
      <4>8. /\ sequence - (h + (s + 1) + (l - 1)) = base
            /\ base + h + (s + 1) = base + h + s + 1
            /\ h + (s + 1) + (l - 1) # 0
        <5>1. base = sequence - (h + s + l)
          BY <4>7
        <5> QED
          BY <4>3, <4>4, <5>1, <1>n
      <4>9. Consecutive(stream'[c], base + h)
        BY <4>0, <4>2, <4>4, <4>5, <4>7, <1>q, <1>p, AppendConsecutive
      <4> QED
        BY <4>2, <4>n, <4>5, <4>6, <4>7, <4>8, <4>9 DEF Unbroken
    <3> QED
      BY <2>2, <3>1, <3>2, <3>3 DEF ConnectionInv
  <2> QED
    BY <2>1, <2>2
<1>3. ASSUME NEW u \in Tabs PROVE PageInv(u)'
  <2>1. CASE current[u] # c
    <3>1. \A x \in Connections : current[u] = x => Untouched(x)
      BY <2>1, <1>x
    <3> QED
      BY <1>t, <1>v, <1>u, <3>1, PageKept
  <2>2. CASE current[u] = c
    <3>1. ShownUpTo(u)'
      BY <1>v, <1>u DEF PageInv, ShownUpTo
    <3>2. Ahead(u, c)
      BY <1>v, <2>2, DashboardAssumption DEF PageInv
    <3>3. lastSeq[u] < e /\ Above(Tail(q), lastSeq[u])
      BY <3>2, <1>m, <1>d DEF Ahead
    <3>4. Above(Append(stream[c], e), lastSeq[u])
      <4>1. lastSeq[u] \in Nat
        BY <1>t DEF TypeOK
      <4> QED
        BY <4>1, <3>2, <3>3, <1>q, <1>p, AppendAbove DEF Ahead
    <3>5. Ahead(u, c)'
      BY <3>2, <3>3, <3>4, <1>h, <1>u DEF Ahead
    <3> QED
      BY <2>2, <1>u, <3>1, <3>5 DEF PageInv
  <2> QED
    BY <2>1, <2>2
<1>4. OwnConnection'
  BY <1>t, <1>u DEF OwnConnection
<1> QED
  BY <1>r, <1>1, <1>2, <1>3, <1>4 DEF StreamInv

\* The handler returns and its subscription goes (dashboard.go, Stream).
LEMMA ReturnStep ==
    ASSUME StreamInv, NEW c \in Connections, Return(c)
    PROVE  StreamInv'
<1>t. TypeOK /\ RingExact /\ OwnConnection
  BY DEF StreamInv
<1>v. /\ \A x \in Connections : ConnectionInv(x)
      /\ \A u \in Tabs : PageInv(u)
  BY DEF StreamInv
<1>u. /\ UNCHANGED <<ring, start, size, sequence, channel, dropped, after, retained, stream,
                     written, current, lastSeq, page>>
      /\ flow[c] = "live" /\ \A t \in Tabs : current[t] # c
      /\ flow' = [flow EXCEPT ![c] = "returned"]
      /\ subscribers' = subscribers \ {c}
  BY DEF Return, cancel, tabVars
<1>r. RingExact'
  BY <1>t, <1>u, RingKept
<1>1. TypeOK'
  BY <1>t, <1>u DEF TypeOK, Flows
<1>x. \A x \in Connections : x # c => Untouched(x)
  BY <1>t, <1>u DEF TypeOK, Untouched
<1>f. flow'[c] = "returned"
  BY <1>t, <1>u DEF TypeOK
<1>2. ASSUME NEW x \in Connections PROVE ConnectionInv(x)'
  <2>1. CASE x # c
    BY <1>v, <1>u, <1>x, <2>1, ConnectionKept
  <2>2. CASE x = c
    <3>1. Staged(c)'
      BY <1>v, <1>u, <1>f DEF ConnectionInv, Staged
    <3>2. InOrder(c)'
      BY <1>v, <1>u DEF ConnectionInv, InOrder
    <3>3. NothingLost(c)'
      BY <1>u DEF NothingLost
    <3> QED
      BY <2>2, <3>1, <3>2, <3>3 DEF ConnectionInv
  <2> QED
    BY <2>1, <2>2
<1>3. ASSUME NEW u \in Tabs PROVE PageInv(u)'
  <2>1. \A x \in Connections : current[u] = x => Untouched(x)
    BY <1>u, <1>x
  <2> QED
    BY <1>t, <1>v, <1>u, <2>1, PageKept
<1>4. OwnConnection'
  BY <1>t, <1>u DEF OwnConnection
<1> QED
  BY <1>r, <1>1, <1>2, <1>3, <1>4 DEF StreamInv

LEMMA StreamStep == StreamInv /\ [Next]_vars => StreamInv'
<1> SUFFICES ASSUME StreamInv, [Next]_vars PROVE StreamInv'
  OBVIOUS
<1>1. CASE UNCHANGED vars
  <2>1. UNCHANGED <<ring, start, size, sequence, subscribers, channel, dropped, flow, after,
                    retained, stream, written, current, lastSeq, page>>
    BY <1>1 DEF vars, busVars, flowVars, tabVars
  <2>2. TypeOK' /\ OwnConnection'
    BY <2>1 DEF StreamInv, TypeOK, OwnConnection
  <2>3. RingExact'
    BY <2>1, RingKept DEF StreamInv
  <2>4. \A x \in Connections : Untouched(x)
    BY <2>1 DEF Untouched
  <2>5. \A x \in Connections : ConnectionInv(x)'
    BY <2>1, <2>4, ConnectionKept DEF StreamInv
  <2>6. \A t \in Tabs : PageInv(t)'
    BY <2>1, <2>4, PageKept DEF StreamInv
  <2> QED
    BY <2>2, <2>3, <2>5, <2>6 DEF StreamInv
<1>2. CASE LogLine
  BY <1>2, LogLineStep
<1>3. CASE \E t \in Tabs, c \in Connections : Connect(t, c)
  BY <1>3, ConnectStep
<1>4. CASE \E t \in Tabs : Disconnect(t)
  BY <1>4, DisconnectStep
<1>5. CASE \E c \in Connections : Resume(c)
  BY <1>5, ResumeStep
<1>6. CASE \E c \in Connections : SendRetained(c)
  BY <1>6, SendRetainedStep
<1>7. CASE \E c \in Connections : deliver(c)
  BY <1>7, deliverStep
<1>8. CASE \E c \in Connections : SendLive(c)
  BY <1>8, SendLiveStep
<1>9. CASE \E c \in Connections : Return(c)
  BY <1>9, ReturnStep
<1>10. CASE Quiet
  BY <1>1, <1>10 DEF Quiet
<1> QED
  BY <1>1, <1>2, <1>3, <1>4, <1>5, <1>6, <1>7, <1>8, <1>9, <1>10 DEF Next

\* The invariant of the stream: the ring, what is on its way and the pages.
THEOREM StreamAlways == Spec => []StreamInv
<1>1. Init => StreamInv
  BY InitStreamInv
<1>2. StreamInv /\ [Next]_vars => StreamInv'
  BY StreamStep
<1> QED
  BY <1>1, <1>2, PTL DEF Spec

-----------------------------------------------------------------------------
(* Exactly once.                                                           *)

LEMMA JoinConsecutive ==
    ASSUME NEW p \in Seq(Nat), NEW q \in Seq(Nat), NEW a \in Int,
           Consecutive(p, a), Consecutive(q, a + Len(p))
    PROVE  /\ p \o q \in Seq(Nat) /\ Len(p \o q) = Len(p) + Len(q)
           /\ Consecutive(p \o q, a)
<1> DEFINE r == p \o q
           m == Len(p)
           n == Len(q)
<1>1. r \in Seq(Nat) /\ Len(r) = m + n
  OBVIOUS
<1>2. m \in Nat /\ n \in Nat
  OBVIOUS
<1>3. \A i \in 1..(m + n) : r[i] = IF i <= m THEN p[i] ELSE q[i - m]
  OBVIOUS
<1>4. \A i \in 1..m : p[i] = a + i
  BY DEF Consecutive
<1>5. \A i \in 1..n : q[i] = a + m + i
  BY DEF Consecutive
<1> HIDE DEF r, m, n
<1>6. ASSUME NEW i \in 1..(m + n) PROVE r[i] = a + i
  <2>1. CASE i <= m
    BY <1>2, <1>3, <1>4, <2>1
  <2>2. CASE ~(i <= m)
    <3>1. i - m \in 1..n /\ a + m + (i - m) = a + i
      BY <1>2, <2>2
    <3> QED
      BY <1>3, <1>5, <2>2, <3>1
  <2> QED
    BY <2>1, <2>2
<1> QED
  BY <1>1, <1>6 DEF Consecutive, r, m, n

\* Between the history and the live events nothing is lost and nothing is
\* repeated, for every ring, every buffer and any number of pages that come and
\* go (events.go, ReplayAndSubscribe).
THEOREM ExactlyOnceCorrect == Spec => []ExactlyOnce
<1>1. StreamInv => ExactlyOnce
  <2> SUFFICES ASSUME StreamInv, NEW c \in subscribers, ~dropped[c]
               PROVE  LET q == Pipeline(c)
                          last == IF written[c] # 0 THEN written[c] ELSE after[c]
                      IN  IF q = <<>>
                          THEN last = sequence
                          ELSE /\ \A i \in 1..Len(q) - 1 : q[i + 1] = q[i] + 1
                               /\ q[Len(q)] = sequence
                               /\ \/ Head(q) = last + 1
                                  \/ /\ written[c] = 0
                                     /\ last < Head(q) /\ Head(q) <= sequence - size + 1
    BY DEF ExactlyOnce
  <2> DEFINE h == Len(retained[c])
             s == Len(stream[c])
             l == Len(channel[c])
             base == sequence - (h + s + l)
             last == IF written[c] # 0 THEN written[c] ELSE after[c]
             q == Pipeline(c)
             L == Len(q)
  <2>1. c \in Connections /\ TypeOK /\ RingExact
    BY DEF StreamInv, TypeOK
  <2>2. Unbroken(c)
    BY <2>1 DEF StreamInv, ConnectionInv, NothingLost
  <2>3. retained[c] \in Seq(Nat) /\ stream[c] \in Seq(Nat) /\ channel[c] \in Seq(Nat)
    BY <2>1 DEF TypeOK
  <2>4. /\ h \in Nat /\ s \in Nat /\ l \in Nat /\ sequence \in Nat /\ size \in Nat
        /\ last \in Nat
    BY <2>1, <2>3, EventBusAssumption DEF TypeOK, RingExact
  <2> HIDE DEF h, s, l, last
  <2>5. base \in Int /\ base + h \in Int
    BY <2>4
  <2> HIDE DEF base
  <2>6. /\ Consecutive(retained[c], base)
        /\ Consecutive(stream[c], base + h)
        /\ Consecutive(channel[c], base + h + s)
    BY <2>2 DEF Unbroken, h, s, l, base
  <2>7. \/ base = last
        \/ /\ written[c] = 0 /\ h + s + l # 0
           /\ last < base /\ base <= sequence - size
    BY <2>2 DEF Unbroken, h, s, l, base, last
  <2>8. q \in Seq(Nat) /\ L = h + s + l /\ Consecutive(q, base)
    <3> DEFINE p == retained[c] \o stream[c]
    <3>1. p \in Seq(Nat) /\ Len(p) = h + s /\ Consecutive(p, base)
      BY <2>3, <2>5, <2>6, JoinConsecutive DEF h, s
    <3> HIDE DEF p
    <3>2. base + Len(p) = base + h + s
      <4>1. Len(p) = h + s
        BY <3>1
      <4> QED
        BY <4>1, <2>4, <2>5
    <3>3. p \o channel[c] \in Seq(Nat) /\ Len(p \o channel[c]) = Len(p) + l
          /\ Consecutive(p \o channel[c], base)
      BY <3>1, <3>2, <2>3, <2>5, <2>6, JoinConsecutive DEF l
    <3> QED
      BY <3>1, <3>3 DEF Pipeline, p
  <2>9. \A i \in 1..L : q[i] = base + i
    BY <2>8 DEF Consecutive
  <2>a. q \in Seq(Nat)
    BY <2>8
  <2> HIDE DEF q
  <2>10. (q = <<>> <=> L = 0) /\ (q # <<>> => Head(q) = q[1])
    BY <2>a
  <2>b. L = h + s + l
    BY <2>8
  <2> HIDE DEF L
  <2>11. L \in Nat /\ base = sequence - L
    BY <2>4, <2>b DEF base
  <2>12. CASE q = <<>>
    <3>1. L = 0
      BY <2>10, <2>12
    <3>2. base = sequence
      BY <3>1, <2>11, <2>4
    <3>3. last = sequence
      <4>1. CASE base = last
        BY <4>1, <3>2
      <4>2. CASE base # last
        BY <2>7, <2>b, <3>1, <4>2
      <4> QED
        BY <4>1, <4>2
    <3> QED
      BY <2>12, <3>3 DEF q, last
  <2>13. CASE q # <<>>
    <3>1. L \in Nat \ {0} /\ 1 \in 1..L /\ L \in 1..L
      BY <2>10, <2>11, <2>13
    <3>2. ASSUME NEW i \in 1..(L - 1) PROVE q[i + 1] = q[i] + 1
      <4>1. i \in 1..L /\ i + 1 \in 1..L
        BY <3>1
      <4>2. q[i] = base + i /\ q[i + 1] = base + (i + 1)
        BY <4>1, <2>9
      <4> QED
        BY <4>2, <2>5
    <3>3. q[L] = base + L /\ base + L = sequence
      BY <3>1, <2>9, <2>11, <2>4
    <3>4. Head(q) = base + 1
      BY <2>10, <2>13, <2>9, <3>1
    <3>5. \/ base + 1 = last + 1
          \/ written[c] = 0 /\ last < base + 1 /\ base + 1 <= sequence - size + 1
      <4>1. CASE base = last
        BY <4>1
      <4>2. CASE base # last
        <5>1. written[c] = 0 /\ last < base /\ base <= sequence - size
          BY <4>2, <2>7
        <5>2. last < base + 1 /\ base + 1 <= sequence - size + 1
          BY <5>1, <2>4, <2>5
        <5> QED
          BY <5>1, <5>2
      <4> QED
        BY <4>1, <4>2
    <3> QED
      BY <2>13, <3>2, <3>3, <3>4, <3>5 DEF q, last, L
  <2> QED
    BY <2>12, <2>13
<1> QED
  BY <1>1, StreamAlways, PTL

-----------------------------------------------------------------------------
(* The refinement of the abstract log.                                     *)

\* Everything that is retained, by number.
LEMMA WindowIs == RingExact => Window = Span(sequence - size, sequence)
<1> SUFFICES ASSUME RingExact PROVE Window = Span(sequence - size, sequence)
  OBVIOUS
<1>1. sequence \in Nat /\ size \in Nat /\ size <= sequence
  BY EventBusAssumption DEF RingExact
<1>2. replayLocked(0) = Span(IF 0 < sequence - size THEN sequence - size ELSE 0, sequence)
  BY <1>1, ReplayIs
<1>3. (IF 0 < sequence - size THEN sequence - size ELSE 0) = sequence - size
  BY <1>1
<1> QED
  BY <1>2, <1>3 DEF Window

LEMMA WindowIsNext == (RingExact => Window = Span(sequence - size, sequence))'
  BY WindowIs, PTL

\* Spans grow at the end and shrink at the start.
LEMMA SpanGrows ==
    ASSUME NEW a \in Nat, NEW b \in Nat, a <= b
    PROVE  /\ Append(Span(a, b), b + 1) = Span(a, b + 1)
           /\ Tail(Span(a, b + 1)) = Span(a + 1, b + 1)
<1>1. /\ Span(a, b) \in Seq(Nat) /\ Len(Span(a, b)) = b - a
      /\ \A i \in 1..(b - a) : Span(a, b)[i] = a + i
  BY SpanOrder DEF Consecutive
<1>2. /\ Span(a, b + 1) \in Seq(Nat) /\ Len(Span(a, b + 1)) = b + 1 - a
      /\ \A i \in 1..(b + 1 - a) : Span(a, b + 1)[i] = a + i
  <2>1. b + 1 \in Nat /\ a <= b + 1
    OBVIOUS
  <2>2. Span(a, b + 1) \in Seq(Nat) /\ Len(Span(a, b + 1)) = b + 1 - a
    BY <2>1, SpanOrder
  <2> QED
    BY <2>2 DEF Span
<1>3. /\ Span(a + 1, b + 1) \in Seq(Nat) /\ Len(Span(a + 1, b + 1)) = b - a
      /\ \A i \in 1..(b - a) : Span(a + 1, b + 1)[i] = a + 1 + i
  <2>1. a + 1 \in Nat /\ b + 1 \in Nat /\ a + 1 <= b + 1 /\ (b + 1) - (a + 1) = b - a
    OBVIOUS
  <2>2. Span(a + 1, b + 1) \in Seq(Nat) /\ Len(Span(a + 1, b + 1)) = b - a
    BY <2>1, SpanOrder
  <2>3. \A i \in 1..((b + 1) - (a + 1)) : Span(a + 1, b + 1)[i] = a + 1 + i
    BY DEF Span
  <2> QED
    BY <2>1, <2>2, <2>3
<1>4. Append(Span(a, b), b + 1) = Span(a, b + 1)
  <2> DEFINE p == Append(Span(a, b), b + 1)
             q == Span(a, b + 1)
  <2>1. /\ p \in Seq(Nat) /\ Len(p) = b - a + 1 /\ p[b - a + 1] = b + 1
        /\ \A i \in 1..(b - a) : p[i] = a + i
    BY <1>1, AppendParts
  <2>2. q \in Seq(Nat) /\ Len(q) = b - a + 1 /\ \A i \in 1..(b - a + 1) : q[i] = a + i
    BY <1>2
  <2> HIDE DEF p, q
  <2>3. ASSUME NEW i \in 1..(b - a + 1) PROVE p[i] = q[i]
    <3>1. CASE i = b - a + 1
      BY <2>1, <2>2, <3>1
    <3>2. CASE i # b - a + 1
      <4>1. i \in 1..(b - a)
        BY <3>2
      <4> QED
        BY <2>1, <2>2, <4>1
    <3> QED
      BY <3>1, <3>2
  <2>4. Len(p) = Len(q) /\ \A i \in 1..Len(p) : p[i] = q[i]
    BY <2>1, <2>2, <2>3
  <2> QED
    BY <2>1, <2>2, <2>4, SeqEqual DEF p, q
<1>5. Tail(Span(a, b + 1)) = Span(a + 1, b + 1)
  <2> DEFINE p == Tail(Span(a, b + 1))
             q == Span(a + 1, b + 1)
  <2>0. Span(a, b + 1) # <<>>
    BY <1>2
  <2>1. /\ p \in Seq(Nat) /\ Len(p) = b - a
        /\ \A i \in 1..(b - a) : p[i] = Span(a, b + 1)[i + 1] /\ i + 1 \in 1..(b + 1 - a)
    BY <1>2, <2>0, TailParts
  <2>2. \A i \in 1..(b - a) : p[i] = a + (i + 1) /\ a + (i + 1) = a + 1 + i
    BY <2>1, <1>2
  <2>3. q \in Seq(Nat) /\ Len(q) = b - a /\ \A i \in 1..(b - a) : q[i] = a + 1 + i
    BY <1>3
  <2> HIDE DEF p, q
  <2>4. Len(p) = Len(q) /\ \A i \in 1..Len(p) : p[i] = q[i]
    BY <2>1, <2>2, <2>3
  <2> QED
    BY <2>1, <2>3, <2>4, SeqEqual DEF p, q
<1> QED
  BY <1>4, <1>5

\* A line of the log is recorded by the abstract log.
LEMMA LogLineRecords ==
    ASSUME StreamInv, StreamInv', LogLine
    PROVE  Log!Record
<1> DEFINE old == sequence - size
<1>1. /\ sequence' = sequence + 1 /\ page' = page
      /\ (size < Capacity => size' = size + 1)
      /\ (~(size < Capacity) => size' = size)
  BY DEF LogLine, Publish, retain, tabVars
<1>2. RingExact /\ RingExact'
  BY DEF StreamInv
<1>3. /\ sequence \in Nat /\ size \in Nat /\ size <= sequence /\ size <= Capacity
      /\ Capacity \in Nat /\ old \in Nat /\ old <= sequence /\ sequence - old = size
  BY <1>2, EventBusAssumption DEF RingExact
<1>4. Window = Span(old, sequence)
  BY <1>2, WindowIs
<1>5. Window' = Span(sequence' - size', sequence')
  BY <1>2, WindowIsNext DEF Span
<1>6. Append(Window, sequence + 1) = Span(old, sequence + 1)
  BY <1>3, <1>4, SpanGrows
<1>7. Len(Append(Window, sequence + 1)) = size + 1
  <2>1. sequence + 1 \in Nat /\ old <= sequence + 1 /\ (sequence + 1) - old = size + 1
    BY <1>3
  <2> QED
    BY <1>3, <1>6, <2>1, SpanOrder
<1> HIDE DEF old
<1>8. CASE size < Capacity
  <2>1. ~(size + 1 > Capacity) /\ sequence' - size' = old
    BY <1>8, <1>1, <1>3 DEF old
  <2>2. Window' = Append(Window, sequence + 1)
    BY <1>5, <1>6, <2>1, <1>1
  <2> QED
    BY <2>1, <2>2, <1>1, <1>7 DEF Log!Record
<1>9. CASE ~(size < Capacity)
  <2>1. size + 1 > Capacity /\ sequence' - size' = old + 1
    BY <1>9, <1>1, <1>3 DEF old
  <2>2. Window' = Tail(Append(Window, sequence + 1))
    BY <1>5, <1>6, <2>1, <1>1, <1>3, SpanGrows
  <2> QED
    BY <2>1, <2>2, <1>1, <1>7 DEF Log!Record
<1> QED
  BY <1>8, <1>9

\* A step that publishes nothing leaves the window as it is.
LEMMA WindowKept ==
    ASSUME RingExact, RingExact', UNCHANGED <<sequence, size>>
    PROVE  Window' = Window
<1>1. Window = Span(sequence - size, sequence)
  BY WindowIs
<1>2. Window' = Span(sequence' - size', sequence')
  BY WindowIsNext DEF Span
<1> QED
  BY <1>1, <1>2

\* What a page ingests, the abstract log shows; nobody may be listening.
LEMMA IngestShows ==
    ASSUME StreamInv, StreamInv', NEW c \in Connections, NEW e \in 1..sequence, ingest(c, e),
           UNCHANGED <<sequence, size>>,
           \A t \in Tabs : current[t] = c => lastSeq[t] < e
    PROVE  [Log!LogNext]_(Log!logVars)
<1>w. Window' = Window /\ sequence' = sequence
  BY WindowKept DEF StreamInv
<1>t. TypeOK /\ OwnConnection /\ \A t \in Tabs : PageInv(t)
  BY DEF StreamInv
<1>n. sequence \in Nat /\ e \in Nat
  BY DEF StreamInv, RingExact
<1>p. page' = [t \in Tabs |-> IF current[t] = c THEN Append(page[t], e) ELSE page[t]]
  BY DEF ingest
<1>1. CASE \E t \in Tabs : current[t] = c
  <2>1. PICK t \in Tabs : current[t] = c
    BY <1>1
  <2>2. \A u \in Tabs : current[u] = c => u = t
    BY <1>t, <2>1, DashboardAssumption DEF OwnConnection
  <2>3. page' = [page EXCEPT ![t] = Append(page[t], e)]
    BY <1>p, <1>t, <2>1, <2>2 DEF TypeOK
  <2>4. \A i \in DOMAIN page[t] : page[t][i] < e
    <3>1. DOMAIN page[t] = 1..Len(page[t]) /\ \A i \in 1..Len(page[t]) : page[t][i] \in Nat
      BY <1>t DEF TypeOK
    <3>2. \A i \in 1..Len(page[t]) : page[t][i] <= lastSeq[t]
      BY <1>t DEF PageInv, ShownUpTo
    <3>3. lastSeq[t] \in Nat /\ lastSeq[t] < e
      BY <1>t, <2>1 DEF TypeOK
    <3>4. \A y \in Nat : y <= lastSeq[t] => y < e
      BY <3>3, <1>n
    <3> QED
      BY <3>1, <3>2, <3>4
  <2>5. Log!Show(t, e)
    BY <1>w, <2>3, <2>4 DEF Log!Show
  <2> QED
    BY <2>5 DEF Log!LogNext
<1>2. CASE ~\E t \in Tabs : current[t] = c
  <2>1. page' = page
    BY <1>p, <1>t, <1>2 DEF TypeOK
  <2> QED
    BY <1>w, <2>1 DEF Log!logVars
<1> QED
  BY <1>1, <1>2

LEMMA RefinementStep ==
    StreamInv /\ StreamInv' /\ [Next]_vars => [Log!LogNext]_(Log!logVars)
<1> SUFFICES ASSUME StreamInv, StreamInv', [Next]_vars PROVE [Log!LogNext]_(Log!logVars)
  OBVIOUS
<1>s. ASSUME UNCHANGED <<sequence, size, page>> PROVE [Log!LogNext]_(Log!logVars)
  <2>1. Window' = Window
    BY <1>s, WindowKept DEF StreamInv
  <2> QED
    BY <1>s, <2>1 DEF Log!logVars
<1>1. CASE UNCHANGED vars
  BY <1>1, <1>s DEF vars, busVars, tabVars
<1>2. CASE LogLine
  BY <1>2, LogLineRecords DEF Log!LogNext
<1>3. CASE \E t \in Tabs, c \in Connections : Connect(t, c)
  BY <1>3, <1>s DEF Connect, busVars
<1>4. CASE \E t \in Tabs : Disconnect(t)
  BY <1>4, <1>s DEF Disconnect, busVars
<1>5. CASE \E c \in Connections : Resume(c)
  BY <1>5, <1>s DEF Resume, ReplayAndSubscribe, tabVars
<1>6. ASSUME NEW c \in Connections, SendRetained(c) PROVE [Log!LogNext]_(Log!logVars)
  <2>1. CASE retained[c] = <<>>
    BY <1>6, <2>1, <1>s DEF SendRetained, busVars, tabVars
  <2>2. CASE retained[c] # <<>>
    <3>1. ingest(c, Head(retained[c])) /\ UNCHANGED <<sequence, size>>
      BY <1>6, <2>2 DEF SendRetained, busVars
    <3>2. TypeOK /\ InOrder(c) /\ \A t \in Tabs : PageInv(t)
      BY DEF StreamInv, ConnectionInv
    <3>3. retained[c] \in Seq(Nat)
      BY <3>2 DEF TypeOK
    <3>4. Head(retained[c]) \in 1..sequence
      BY <2>2, <3>2, <3>3, TailOrder DEF InOrder
    <3>5. ASSUME NEW t \in Tabs, current[t] = c PROVE lastSeq[t] < Head(retained[c])
      <4>1. Above(retained[c], lastSeq[t])
        BY <3>2, <3>5, DashboardAssumption DEF PageInv, Ahead
      <4> QED
        BY <2>2, <3>3, <4>1, TailOrder
    <3> QED
      BY <3>1, <3>4, <3>5, IngestShows
  <2> QED
    BY <2>1, <2>2
<1>7. CASE \E c \in Connections : deliver(c)
  BY <1>7, <1>s DEF deliver, tabVars
<1>8. ASSUME NEW c \in Connections, SendLive(c) PROVE [Log!LogNext]_(Log!logVars)
  <2>1. ingest(c, Head(stream[c])) /\ UNCHANGED <<sequence, size>> /\ stream[c] # <<>>
    BY <1>8 DEF SendLive, busVars
  <2>2. TypeOK /\ InOrder(c) /\ \A t \in Tabs : PageInv(t)
    BY DEF StreamInv, ConnectionInv
  <2>3. stream[c] \in Seq(Nat)
    BY <2>2 DEF TypeOK
  <2>4. Head(stream[c]) \in 1..sequence
    BY <2>1, <2>2, <2>3, TailOrder DEF InOrder
  <2>5. ASSUME NEW t \in Tabs, current[t] = c PROVE lastSeq[t] < Head(stream[c])
    <3>1. Above(stream[c], lastSeq[t])
      BY <2>2, <2>5, DashboardAssumption DEF PageInv, Ahead
    <3> QED
      BY <2>1, <2>3, <3>1, TailOrder
  <2> QED
    BY <2>1, <2>4, <2>5, IngestShows
<1>9. CASE \E c \in Connections : Return(c)
  BY <1>9, <1>s DEF Return, cancel, tabVars
<1>10. CASE Quiet
  BY <1>1, <1>10 DEF Quiet
<1> QED
  BY <1>1, <1>2, <1>3, <1>4, <1>5, <1>6, <1>7, <1>8, <1>9, <1>10 DEF Next

\* The ring, the channels, the handlers and the reconnecting pages implement the
\* abstract log: exactly the most recent events are retained, and a page shows
\* published events in order and never one twice, across its connections
\* (events.go, retain and replayLocked; dashboard.go, Stream).
THEOREM ImplementsLogCorrect == Spec => ImplementsLog
<1>1. Init => Log!LogInit
  <2> SUFFICES ASSUME Init PROVE Log!LogInit
    OBVIOUS
  <2>1. RingExact
    BY InitStreamInv DEF StreamInv
  <2>2. sequence = 0 /\ size = 0 /\ page = [t \in Tabs |-> <<>>]
    BY DEF Init, BusInit
  <2>3. Span(0 - 0, 0) = <<>>
    BY DEF Span
  <2>4. Window = <<>>
    BY <2>1, <2>2, <2>3, WindowIs
  <2> QED
    BY <2>2, <2>4 DEF Log!LogInit
<1>2. StreamInv /\ StreamInv' /\ [Next]_vars => [Log!LogNext]_(Log!logVars)
  BY RefinementStep
<1> QED
  BY <1>1, <1>2, StreamAlways, PTL DEF Spec, ImplementsLog, Log!LogSpec
=============================================================================
