------------------------ MODULE DispatchWorkerProofs ------------------------
(***************************************************************************)
(* The dispatch worker, for any set of transactions and destinations, any  *)
(* depth of the queue, retry budget and intervals, and any number of       *)
(* starts, failed writes and rotations: QueueIsSound is invariant, and     *)
(* DispatchWorker implements Outbox.                                       *)
(***************************************************************************)
EXTENDS DispatchWorker, TLAPS

\* A leaf that names no prover is SMT's, and has half a minute.
USE SMTT(30)

-----------------------------------------------------------------------------
(* The inductive invariant.                                                *)

(* run_once() has a transaction in hand, *)
Hand == pc \in Attempting \cup {"taken"}

(* and a request for it may have gone out that its retry count leaves out. *)
Sent == pc \in {"delivered", "failed", "retry"}

(* The starts that may each have hidden an attempt. *)
Restarts == IF starts = 0 THEN 0 ELSE starts - 1

Held ==
    /\ Hand <=> current # NoTxn
    /\ pc = "delivered" => current \in arrived

(* Whatever is owned has a row, and there are finitely many of them. *)
Store == IsFiniteSet(Stored) /\ StoreAgrees

Line ==
    /\ IsInjective(queue) /\ IsInjective(parked)
    /\ Range(queue) \cap Range(parked) = {}
    /\ current \notin Range(queue) \cup Range(parked)

(* A transaction lies beyond the depth only while none is in hand. *)
Depth ==
    /\ ParkedOnlyWhenFull
    /\ DepthBound
    /\ MaxDepth # 0 /\ Hand => Len(queue) <= MaxDepth

(* A destination is waited for after a failure, and the circuit was open   *)
(* because of one.                                                         *)
Circuit ==
    /\ \A d \in Destinations :
          /\ destination[d].wait > 0 => destination[d].failures > 0
          /\ destRows[d].wait > 0 => destRows[d].failures > 0
    /\ open => pc \in Attempting /\ destination[DestOf[current]].failures > 0
    /\ pc \in {"opened", "park"} => open

(* The requests sent for a transaction are those its row counts, one for   *)
(* each restart, and one more unless it is in line or about to be sent.    *)
Budget ==
    /\ starts = 0 => pc = "down" /\ \A x \in Txns : attempts[x] = 0
    /\ \A x \in Txns : status[x] = "none" => attempts[x] = 0
    /\ \A x \in Txns : attempts[x] <= MaxRetries + Restarts
    /\ \A x \in Stored : rows[x].retries < MaxRetries /\ attempts[x] <= rows[x].retries + Restarts + 1
    /\ \A x \in Range(queue) \cup Range(parked) : attempts[x] <= rows[x].retries + Restarts
    /\ Hand /\ ~Sent => attempts[current] <= rows[current].retries + Restarts

(* A retired key is used by the one attempt that has copied it. *)
Signed == staleSends + (IF pc = "send" /\ callKey # key THEN 1 ELSE 0) <= key

IInv ==
    /\ TypeOK /\ Held /\ Store /\ Line /\ Depth /\ PendingCounts
    /\ Circuit /\ Budget /\ Signed

(* What the steps use of finite sets and of compute_backoff().  It is      *)
(* proved at the end of the module, from the library's theorems.           *)
Ground ==
    /\ IsFiniteSet({})
    /\ \A S : IsFiniteSet(S) => Cardinality(S) \in Nat
    /\ \A S, x : IsFiniteSet(S) => IsFiniteSet(S \cup {x}) /\ IsFiniteSet(S \ {x})
    /\ \A n \in Nat : ComputeBackoff(BaseInterval, MaxInterval, n) \in Nat

-----------------------------------------------------------------------------
(* Sequences without repetitions.                                          *)

(* push_back() of something new keeps the queue free of repetitions. *)
LEMMA AppendNew ==
    ASSUME NEW S, NEW s \in Seq(S), NEW x \in S
    PROVE  /\ Append(s, x) \in Seq(S)
           /\ Len(Append(s, x)) = Len(s) + 1
           /\ Append(s, x)[Len(s) + 1] = x
           /\ Range(Append(s, x)) = Range(s) \cup {x}
           /\ IsInjective(s) /\ x \notin Range(s) => IsInjective(Append(s, x))
<1>1. Append(s, x) \in Seq(S) /\ Len(Append(s, x)) = Len(s) + 1 /\ Append(s, x)[Len(s) + 1] = x
  OBVIOUS
<1>2. Len(s) \in Nat /\ DOMAIN s = 1 .. Len(s) /\ DOMAIN Append(s, x) = 1 .. Len(s) + 1
  OBVIOUS
<1>3. \A k \in 1 .. Len(s) : Append(s, x)[k] = s[k]
  OBVIOUS
<1>4. Range(Append(s, x)) = Range(s) \cup {x}
  <2> DEFINE t == Append(s, x)
  <2>1. t[Len(s) + 1] = x /\ DOMAIN t = 1 .. Len(s) + 1 /\ \A k \in 1 .. Len(s) : t[k] = s[k]
    BY <1>1, <1>2, <1>3
  <2> HIDE DEF t
  <2>2. Range(t) = Range(s) \cup {x}
    BY <2>1, <1>2 DEF Range
  <2> QED BY <2>2 DEF t
<1>5. ASSUME IsInjective(s), x \notin Range(s) PROVE IsInjective(Append(s, x))
  <2> DEFINE t == Append(s, x)
  <2>1. t[Len(s) + 1] = x /\ DOMAIN t = 1 .. Len(s) + 1 /\ \A k \in 1 .. Len(s) : t[k] = s[k]
    BY <1>1, <1>2, <1>3
  <2> HIDE DEF t
  <2>2. IsInjective(t)
    BY <2>1, <1>2, <1>5 DEF Range, IsInjective
  <2> QED BY <2>2 DEF t
<1> QED BY <1>1, <1>4, <1>5

(* The end of a queue, from any place of it on. *)
LEMMA TheRest ==
    ASSUME NEW S, NEW s \in Seq(S), NEW n \in 0 .. Len(s)
    PROVE  LET b == SubSeq(s, n + 1, Len(s))
           IN  /\ b \in Seq(S) /\ Len(b) = Len(s) - n
               /\ \A k \in 1 .. Len(s) - n : b[k] = s[n + k]
<1> DEFINE l == Len(s)
           m == n + 1
           b == SubSeq(s, m, l)
<1>1. l \in Nat /\ n \in Nat /\ m \in Nat /\ n <= l /\ m = n + 1 /\ m \in 1 .. l + 1
  OBVIOUS
<1>2. \A k \in m .. l : s[k] \in S
  BY <1>1
<1> HIDE DEF l, m
<1>3. b \in Seq(S)
  BY <1>1, <1>2 DEF l
<1>4. Len(b) = IF m <= l THEN l - m + 1 ELSE 0
  BY <1>1
<1>5. \A k \in 1 .. l - m + 1 : b[k] = s[m + k - 1]
  BY <1>1
<1> QED BY <1>1, <1>3, <1>4, <1>5 DEF l, m

(* A queue cut in two: the parts have no element in common. *)
LEMMA CutInTwo ==
    ASSUME NEW S, NEW s \in Seq(S), NEW n \in 0 .. Len(s), IsInjective(s)
    PROVE  LET a == SubSeq(s, 1, n)
               b == SubSeq(s, n + 1, Len(s))
           IN  /\ a \in Seq(S) /\ Len(a) = n /\ IsInjective(a)
               /\ b \in Seq(S) /\ Len(b) = Len(s) - n /\ IsInjective(b)
               /\ Range(a) \cap Range(b) = {}
               /\ Range(a) \cup Range(b) \subseteq Range(s)
               /\ \A y \in Range(a) : \E k \in 1 .. n : y = s[k]
               /\ \A y \in Range(b) : \E k \in n + 1 .. Len(s) : y = s[k]
               /\ \A k \in 1 .. n : s[k] \in Range(a)
               /\ \A k \in n + 1 .. Len(s) : s[k] \in Range(b)
<1> DEFINE a == SubSeq(s, 1, n)
           b == SubSeq(s, n + 1, Len(s))
<1>1. /\ Len(s) \in Nat /\ n \in Nat /\ n <= Len(s) /\ DOMAIN s = 1 .. Len(s)
      /\ \A k \in 1 .. Len(s) : s[k] \in S
  OBVIOUS
<1>2. /\ Len(a) = n /\ DOMAIN a = 1 .. n
      /\ \A k \in 1 .. n : a[k] = s[k]
  BY <1>1
<1>3. /\ Len(b) = Len(s) - n /\ DOMAIN b = 1 .. Len(s) - n
      /\ \A k \in 1 .. Len(s) - n : b[k] = s[n + k]
  <2>1. b \in Seq(S) /\ Len(b) = Len(s) - n /\ \A k \in 1 .. Len(s) - n : b[k] = s[n + k]
    BY TheRest, Zenon
  <2> HIDE DEF b
  <2> QED BY <2>1
<1>4. a \in Seq(S) /\ b \in Seq(S)
  <2>1. a \in Seq(S)
    BY <1>1
  <2> QED BY <2>1, TheRest, Zenon
<1> HIDE DEF a, b
<1>5. IsInjective(a)
  BY <1>1, <1>2 DEF IsInjective
<1>6. IsInjective(b)
  <2> SUFFICES ASSUME NEW i \in 1 .. Len(s) - n, NEW j \in 1 .. Len(s) - n, b[i] = b[j] PROVE i = j
    BY <1>3 DEF IsInjective
  <2>1. s[n + i] = s[n + j] /\ n + i \in DOMAIN s /\ n + j \in DOMAIN s
    BY <1>1, <1>3
  <2>2. n + i = n + j
    BY <2>1 DEF IsInjective
  <2> QED BY <2>2, <1>1
<1>7. Range(a) \cap Range(b) = {}
  <2> SUFFICES ASSUME NEW i \in 1 .. n, NEW j \in 1 .. Len(s) - n, a[i] = b[j] PROVE FALSE
    BY <1>2, <1>3 DEF Range
  <2>1. s[i] = s[n + j] /\ i \in DOMAIN s /\ n + j \in DOMAIN s
    BY <1>1, <1>2, <1>3
  <2>2. i = n + j
    BY <2>1 DEF IsInjective
  <2> QED BY <2>2, <1>1
<1>8. Range(a) \cup Range(b) \subseteq Range(s)
  <2>1. \A i \in 1 .. n : a[i] \in Range(s)
    BY <1>1, <1>2 DEF Range
  <2>2. \A j \in 1 .. Len(s) - n : b[j] \in Range(s)
    <3> TAKE j \in 1 .. Len(s) - n
    <3>1. n + j \in DOMAIN s /\ b[j] = s[n + j]
      BY <1>1, <1>3
    <3> QED BY <3>1 DEF Range
  <2> QED BY <2>1, <2>2, <1>2, <1>3 DEF Range
<1>9. /\ \A y \in Range(a) : \E k \in 1 .. n : y = s[k]
      /\ \A k \in 1 .. n : s[k] \in Range(a)
  BY <1>2 DEF Range
<1>10. \A y \in Range(b) : \E k \in n + 1 .. Len(s) : y = s[k]
  <2> TAKE y \in Range(b)
  <2>1. PICK j \in DOMAIN b : y = b[j]
    BY DEF Range
  <2>2. n + j \in n + 1 .. Len(s) /\ b[j] = s[n + j]
    BY <1>1, <1>3
  <2> QED BY <2>1, <2>2
<1>11. \A k \in n + 1 .. Len(s) : s[k] \in Range(b)
  <2> TAKE k \in n + 1 .. Len(s)
  <2>1. k - n \in 1 .. Len(s) - n /\ n + (k - n) = k
    BY <1>1
  <2>2. b[k - n] = s[k] /\ k - n \in DOMAIN b
    BY <2>1, <1>3
  <2> QED BY <2>2 DEF Range
<1> QED BY <1>2, <1>3, <1>4, <1>5, <1>6, <1>7, <1>8, <1>9, <1>10, <1>11 DEF a, b

(* Two queues with no element in common, one behind the other. *)
LEMMA OneBehindTheOther ==
    ASSUME NEW S, NEW s \in Seq(S), NEW t \in Seq(S)
    PROVE  /\ s \o t \in Seq(S) /\ Len(s \o t) = Len(s) + Len(t)
           /\ Range(s \o t) = Range(s) \cup Range(t)
           /\ IsInjective(s) /\ IsInjective(t) /\ Range(s) \cap Range(t) = {} => IsInjective(s \o t)
<1> DEFINE u == s \o t
<1>1. /\ Len(s) \in Nat /\ Len(t) \in Nat /\ DOMAIN s = 1 .. Len(s) /\ DOMAIN t = 1 .. Len(t)
      /\ u \in Seq(S) /\ Len(u) = Len(s) + Len(t) /\ DOMAIN u = 1 .. Len(s) + Len(t)
  OBVIOUS
<1>2. /\ \A k \in 1 .. Len(s) : u[k] = s[k]
      /\ \A k \in 1 .. Len(s) + Len(t) : k > Len(s) => u[k] = t[k - Len(s)]
  OBVIOUS
<1>3. \A k \in 1 .. Len(t) : u[Len(s) + k] = t[k]
  OBVIOUS
<1> HIDE DEF u
<1>4. Range(u) = Range(s) \cup Range(t)
  <2>1. \A k \in DOMAIN u : u[k] \in Range(s) \cup Range(t)
    <3> TAKE k \in DOMAIN u
    <3>1. CASE k <= Len(s)
      BY <3>1, <1>1, <1>2 DEF Range
    <3>2. CASE k > Len(s)
      <4>1. k - Len(s) \in DOMAIN t /\ u[k] = t[k - Len(s)]
        BY <3>2, <1>1, <1>2
      <4> QED BY <4>1 DEF Range
    <3> QED BY <3>1, <3>2, <1>1
  <2>2. \A k \in DOMAIN s : s[k] \in Range(u)
    <3> TAKE k \in DOMAIN s
    <3>1. k \in DOMAIN u /\ u[k] = s[k]
      BY <1>1, <1>2
    <3> QED BY <3>1 DEF Range
  <2>3. \A k \in DOMAIN t : t[k] \in Range(u)
    <3> TAKE k \in DOMAIN t
    <3>1. Len(s) + k \in DOMAIN u /\ u[Len(s) + k] = t[k]
      BY <1>1, <1>3
    <3> QED BY <3>1 DEF Range
  <2> QED BY <2>1, <2>2, <2>3 DEF Range
<1>5. ASSUME IsInjective(s), IsInjective(t), Range(s) \cap Range(t) = {} PROVE IsInjective(u)
  <2>1. \A i \in DOMAIN s, j \in DOMAIN t : s[i] # t[j]
    BY <1>5, Zenon DEF Range
  <2> SUFFICES ASSUME NEW i \in DOMAIN u, NEW j \in DOMAIN u, u[i] = u[j] PROVE i = j
    BY DEF IsInjective
  <2>2. CASE i <= Len(s) /\ j <= Len(s)
    <3>1. i \in DOMAIN s /\ j \in DOMAIN s /\ s[i] = s[j]
      BY <2>2, <1>1, <1>2
    <3> QED BY <3>1, <1>5 DEF IsInjective
  <2>3. CASE i > Len(s) /\ j > Len(s)
    <3>1. i - Len(s) \in DOMAIN t /\ j - Len(s) \in DOMAIN t /\ t[i - Len(s)] = t[j - Len(s)]
      BY <2>3, <1>1, <1>2
    <3>2. i - Len(s) = j - Len(s)
      BY <3>1, <1>5 DEF IsInjective
    <3> QED BY <3>2, <1>1
  <2>4. CASE i <= Len(s) /\ j > Len(s)
    <3>1. i \in DOMAIN s /\ j - Len(s) \in DOMAIN t /\ s[i] = t[j - Len(s)]
      BY <2>4, <1>1, <1>2
    <3> QED BY <3>1, <2>1
  <2>5. CASE i > Len(s) /\ j <= Len(s)
    <3>1. j \in DOMAIN s /\ i - Len(s) \in DOMAIN t /\ s[j] = t[i - Len(s)]
      BY <2>5, <1>1, <1>2
    <3> QED BY <3>1, <2>1
  <2> QED BY <2>2, <2>3, <2>4, <2>5, <1>1
<1> QED BY <1>1, <1>4, <1>5 DEF u

(* erase() of the transaction taken leaves the others. *)
LEMMA TakenOut ==
    ASSUME NEW S, NEW s \in Seq(S), NEW i \in DOMAIN s, IsInjective(s)
    PROVE  /\ Erase(s, i) \in Seq(S) /\ Len(Erase(s, i)) = Len(s) - 1
           /\ IsInjective(Erase(s, i))
           /\ Range(Erase(s, i)) \subseteq Range(s) \ {s[i]}
<1> DEFINE a == SubSeq(s, 1, i - 1)
           b == SubSeq(s, i + 1, Len(s))
<1>1. Len(s) \in Nat /\ DOMAIN s = 1 .. Len(s) /\ i \in 1 .. Len(s)
  OBVIOUS
<1>2. i - 1 \in 0 .. Len(s) /\ i \in 0 .. Len(s)
  BY <1>1
<1>3. /\ a \in Seq(S) /\ Len(a) = i - 1 /\ IsInjective(a) /\ Range(a) \subseteq Range(s)
      /\ \A y \in Range(a) : \E k \in 1 .. i - 1 : y = s[k]
  <2> DEFINE m == i - 1
  <2>1. m \in 0 .. Len(s)
    BY <1>2
  <2> HIDE DEF m
  <2>2. LET c == SubSeq(s, 1, m)
        IN  /\ c \in Seq(S) /\ Len(c) = m /\ IsInjective(c) /\ Range(c) \subseteq Range(s)
            /\ \A y \in Range(c) : \E k \in 1 .. m : y = s[k]
    BY <2>1, CutInTwo
  <2> QED BY <2>2 DEF m
<1>4. /\ b \in Seq(S) /\ Len(b) = Len(s) - i /\ IsInjective(b) /\ Range(b) \subseteq Range(s)
      /\ \A y \in Range(b) : \E k \in i + 1 .. Len(s) : y = s[k]
  BY <1>2, CutInTwo, Zenon
<1> HIDE DEF a, b
<1>5. Range(a) \cap Range(b) = {}
  <2> SUFFICES ASSUME NEW y \in Range(a), y \in Range(b) PROVE FALSE
    OBVIOUS
  <2>1. PICK k \in 1 .. i - 1 : y = s[k]
    BY <1>3
  <2>2. PICK l \in i + 1 .. Len(s) : y = s[l]
    BY <1>4
  <2>3. k \in DOMAIN s /\ l \in DOMAIN s /\ k # l
    BY <1>1
  <2> QED BY <2>1, <2>2, <2>3, Zenon DEF IsInjective
<1>6. s[i] \notin Range(a) \cup Range(b)
  <2>1. s[i] \notin Range(a)
    <3> SUFFICES ASSUME s[i] \in Range(a) PROVE FALSE
      OBVIOUS
    <3>1. PICK k \in 1 .. i - 1 : s[i] = s[k]
      BY <1>3
    <3>2. k \in DOMAIN s /\ k # i
      BY <1>1
    <3> QED BY <3>1, <3>2 DEF IsInjective
  <2>2. s[i] \notin Range(b)
    <3> SUFFICES ASSUME s[i] \in Range(b) PROVE FALSE
      OBVIOUS
    <3>1. PICK k \in i + 1 .. Len(s) : s[i] = s[k]
      BY <1>4
    <3>2. k \in DOMAIN s /\ k # i
      BY <1>1
    <3> QED BY <3>1, <3>2 DEF IsInjective
  <2> QED BY <2>1, <2>2
<1>7. /\ a \o b \in Seq(S) /\ Len(a \o b) = Len(a) + Len(b) /\ IsInjective(a \o b)
      /\ Range(a \o b) = Range(a) \cup Range(b)
  BY <1>3, <1>4, <1>5, OneBehindTheOther
<1>8. Erase(s, i) = a \o b
  BY DEF Erase, a, b
<1>9. Len(a) + Len(b) = Len(s) - 1
  BY <1>1, <1>3, <1>4
<1> QED BY <1>3, <1>4, <1>6, <1>7, <1>8, <1>9

(* Whatever order the store returns its rows in, each row comes once. *)
LEMMA EachRowOnce ==
    ASSUME Ground, NEW S, NEW T, IsFiniteSet(T), T \subseteq S,
           NEW order \in Injection(1 .. Cardinality(T), T)
    PROVE  order \in Seq(S) /\ IsInjective(order) /\ Range(order) \subseteq T
<1> DEFINE n == Cardinality(T)
<1>1. n \in Nat
  BY Zenon DEF Ground
<1>2. order \in [1 .. n -> T] /\ IsInjective(order)
  BY Zenon DEF Injection
<1> HIDE DEF n
<1>3. order \in Seq(S)
  BY <1>1, <1>2
<1>4. Range(order) \subseteq T
  BY <1>2, Zenon DEF Range
<1> QED BY <1>2, <1>3, <1>4, Zenon

-----------------------------------------------------------------------------
(* What the invariant says of the transactions in memory.                  *)

(* A retry state is never mistaken for a missing row. *)
LEMMA RetryIsARow == \A r \in Retry : r # NoRow /\ r.retries \in Nat /\ r.wait \in Nat
  BY DEF Retry, NoRow

(* Whatever is queued, parked or in flight is a transaction with a row, so *)
(* it is one the worker still owns.                                        *)
LEMMA MemoryIsStored ==
    ASSUME TypeOK, StoreAgrees
    PROVE  /\ InMemory \subseteq Stored
           /\ \A x \in InMemory : x \in Txns /\ status[x] = "owned" /\ rows[x] = memory[x]
<1>1. /\ queue \in Seq(Txns) /\ parked \in Seq(Txns) /\ current \in Txns \cup {NoTxn}
      /\ memory \in [Txns -> Retry]
  BY Zenon DEF TypeOK
<1>2. InMemory \subseteq Txns
  <2>1. \A s \in Seq(Txns) : Range(s) \subseteq Txns
    BY DEF Range
  <2> QED BY <1>1, <2>1, Zenon DEF InMemory
<1>3. \A x \in InMemory : rows[x] = memory[x]
  BY Zenon DEF StoreAgrees
<1>4. \A x \in InMemory : x \in Txns /\ rows[x] # NoRow
  BY <1>1, <1>2, <1>3, RetryIsARow, Zenon
<1>5. InMemory \subseteq Stored
  BY <1>4, Zenon DEF Stored
<1>6. \A x \in Stored : status[x] = "owned"
  BY Zenon DEF StoreAgrees
<1> QED BY <1>3, <1>4, <1>5, <1>6, Zenon

(* The transaction in hand is one of them. *)
LEMMA HandIsStored ==
    ASSUME TypeOK, Held, StoreAgrees, Hand
    PROVE  /\ current \in Txns /\ DestOf[current] \in Destinations
           /\ current \in Stored /\ status[current] = "owned"
           /\ rows[current] = memory[current] /\ memory[current] \in Retry
<1>1. current \in InMemory
  BY Zenon DEF Held, InMemory
<1>2. /\ current \in Stored /\ current \in Txns /\ status[current] = "owned"
      /\ rows[current] = memory[current]
  BY <1>1, MemoryIsStored, Zenon
<1>3. memory \in [Txns -> Retry]
  BY Zenon DEF TypeOK
<1>4. DestOf[current] \in Destinations
  BY <1>2, TxnsAssumption, Zenon
<1> QED BY <1>2, <1>3, <1>4, Zenon

(* What is queued or parked is a transaction. *)
LEMMA InLine ==
    ASSUME TypeOK
    PROVE  /\ Range(queue) \cup Range(parked) \subseteq Txns
           /\ Len(queue) \in Nat /\ Len(parked) \in Nat
           /\ queue # <<>> => Len(queue) \in DOMAIN queue /\ queue[Len(queue)] \in Range(queue)
<1>1. queue \in Seq(Txns) /\ parked \in Seq(Txns)
  BY Zenon DEF TypeOK
<1> QED BY <1>1 DEF Range

-----------------------------------------------------------------------------
(* What a step leaves alone.                                               *)

(* The store and memory agree as long as neither changes, *)
LEMMA StoreStays ==
    ASSUME Store, UNCHANGED <<rows, status, queue, parked, current, memory>>
    PROVE  Store'
  BY Zenon DEF Store, StoreAgrees, Stored, InMemory

(* nothing is queued twice as long as the queues do not change, *)
LEMMA LineStays ==
    ASSUME Line, UNCHANGED <<queue, parked, current>>
    PROVE  Line'
  BY Zenon DEF Line

(* the circuit breaker is what it was as long as no destination changes,   *)
(* and the attempt is where its circuit says,                              *)
LEMMA CircuitStays ==
    ASSUME Circuit, UNCHANGED <<destination, destRows, open, current>>,
           open => pc' \in Attempting,
           pc' \in {"opened", "park"} => open
    PROVE  Circuit'
  BY Zenon DEF Circuit

(* the depth is kept as long as nothing is taken in hand or queued,        *)
LEMMA DepthStays ==
    ASSUME Depth, UNCHANGED <<queue, parked, memory, destination>>, Hand' => Hand
    PROVE  Depth'
  BY Zenon DEF Depth, ParkedOnlyWhenFull, DepthBound

(* and so is summary_.pending, outside take_next(). *)
LEMMA PendingStays ==
    ASSUME PendingCounts, UNCHANGED <<queue, pending>>, pc' = "taken" <=> pc = "taken"
    PROVE  PendingCounts'
  BY Zenon DEF PendingCounts

(* A transaction stays within its budget as long as nothing is sent. *)
LEMMA BudgetStays ==
    ASSUME Budget, UNCHANGED <<rows, queue, parked, current, attempts, starts>>,
           starts = 0 => pc' = "down",
           \A x \in Txns : status'[x] = "none" => status[x] = "none",
           Hand' /\ ~Sent' => Hand /\ ~Sent
    PROVE  Budget'
<1>1. Stored' = Stored /\ Restarts' = Restarts
  BY Zenon DEF Stored, Restarts
<1>2. /\ starts' = 0 => pc' = "down" /\ \A x \in Txns : attempts'[x] = 0
      /\ \A x \in Txns : status'[x] = "none" => attempts'[x] = 0
  BY Zenon DEF Budget
<1>3. /\ \A x \in Txns : attempts'[x] <= MaxRetries + Restarts'
      /\ \A x \in Stored' : rows'[x].retries < MaxRetries /\ attempts'[x] <= rows'[x].retries + Restarts' + 1
      /\ \A x \in Range(queue') \cup Range(parked') : attempts'[x] <= rows'[x].retries + Restarts'
  BY <1>1, Zenon DEF Budget
<1>4. Hand' /\ ~Sent' => attempts'[current'] <= rows'[current'].retries + Restarts'
  BY <1>1, Zenon DEF Budget
<1> QED BY <1>2, <1>3, <1>4, Zenon DEF Budget

(* The worker moves on without touching the queue, the rows or a request. *)
LEMMA MovesOn ==
    ASSUME IInv,
           UNCHANGED <<queue, parked, current, memory, pending, destination, rows, status,
                       attempts, arrived, starts>>,
           pc # "down" \/ pc' = "down",
           Hand' <=> Hand,
           Sent => Sent',
           pc' = "taken" <=> pc = "taken",
           pc' = "delivered" => pc = "delivered"
    PROVE  Held' /\ Store' /\ Line' /\ Depth' /\ PendingCounts' /\ Budget'
<1>1. Held /\ Store /\ Line /\ Depth /\ PendingCounts /\ Budget
  BY Zenon DEF IInv
<1>2. Held'
  BY <1>1, Zenon DEF Held
<1>3. Store'
  BY <1>1, StoreStays, Zenon
<1>4. Line'
  BY <1>1, LineStays, Zenon
<1>5. Depth'
  BY <1>1, DepthStays, Zenon
<1>6. PendingCounts'
  BY <1>1, PendingStays, Zenon
<1>7. starts = 0 => pc' = "down"
  BY <1>1, Zenon DEF Budget
<1>8. Budget'
  BY <1>1, <1>7, BudgetStays, Zenon
<1> QED BY <1>2, <1>3, <1>4, <1>5, <1>6, <1>8, Zenon

(* No request is being signed before or after the step. *)
LEMMA SignedStays ==
    ASSUME TypeOK, Signed, UNCHANGED <<staleSends, key>>, pc' # "send" \/ UNCHANGED <<pc, callKey>>
    PROVE  Signed'
<1>1. staleSends \in Nat /\ key \in Nat
  BY Zenon DEF TypeOK
<1>2. CASE pc' # "send"
  <2>1. Signed' <=> staleSends <= key
    BY <1>1, <1>2 DEF Signed
  <2>2. staleSends <= key
    BY <1>1 DEF Signed
  <2> QED BY <2>1, <2>2, Zenon
<1>3. CASE UNCHANGED <<pc, callKey>>
  BY <1>3, Zenon DEF Signed
<1> QED BY <1>2, <1>3, Zenon

-----------------------------------------------------------------------------
(* Steps that leave the queue, the rows and the requests alone.            *)

(* request_shutdown() sets a flag. *)
LEMMA RequestShutdownStep ==
    ASSUME IInv, RequestShutdown
    PROVE  IInv'
<1>1. UNCHANGED <<pc, draining, current, age, open, callKey, queue, parked, memory, pending,
                  destination, key, rows, destRows, faults, status, attempts, arrived,
                  staleSends, starts>> /\ shutdown' = TRUE
  BY Zenon DEF RequestShutdown, worker, durable, history
<1>2. TypeOK'
  BY <1>1, Zenon DEF IInv, TypeOK
<1>3. (Hand' <=> Hand) /\ (Sent => Sent')
  BY <1>1, Zenon DEF Hand, Sent
<1>4. Held' /\ Store' /\ Line' /\ Depth' /\ PendingCounts' /\ Budget'
  BY <1>1, <1>3, MovesOn, Zenon DEF Hand, Sent
<1>5. Circuit' /\ Signed'
  BY <1>1, Zenon DEF IInv, Circuit, Signed
<1> QED BY <1>2, <1>4, <1>5, Zenon DEF IInv

(* A rotation makes the key an attempt has copied stale, if it was not. *)
LEMMA UpdateSigningIdentityStep ==
    ASSUME IInv, UpdateSigningIdentity
    PROVE  IInv'
<1>1. UNCHANGED <<pc, draining, current, age, open, callKey, shutdown, queue, parked, memory,
                  pending, destination, rows, destRows, faults, status, attempts, arrived,
                  staleSends, starts>> /\ key' = key + 1
  BY Zenon DEF UpdateSigningIdentity, worker, process, durable, history
<1>2. key \in Nat /\ staleSends \in Nat /\ key' \in Nat
  <2>1. key \in Nat /\ staleSends \in Nat
    BY Zenon DEF IInv, TypeOK
  <2> QED BY <1>1, <2>1
<1>3. TypeOK'
  BY <1>1, <1>2, Zenon DEF IInv, TypeOK
<1>4. Held' /\ Store' /\ Line' /\ Depth' /\ PendingCounts' /\ Budget'
  BY <1>1, MovesOn, Zenon DEF Hand, Sent
<1>5. Circuit'
  BY <1>1, Zenon DEF IInv, Circuit
<1>6. Signed'
  <2>1. Signed
    BY Zenon DEF IInv
  <2> QED BY <1>1, <1>2, <2>1 DEF Signed
<1> QED BY <1>3, <1>4, <1>5, <1>6, Zenon DEF IInv

(* enqueue() that refuses a transaction leaves no trace of it. *)
LEMMA EnqueueRefusesStep ==
    ASSUME IInv, NEW x \in Txns, EnqueueRefuses(x)
    PROVE  IInv'
<1>1. /\ UNCHANGED <<pc, draining, current, age, open, callKey, shutdown, queue, parked, memory,
                     pending, destination, key, rows, destRows, attempts, arrived, staleSends,
                     starts>>
      /\ pc # "down" /\ status[x] = "none" /\ status' = [status EXCEPT ![x] = "refused"]
  BY Zenon DEF EnqueueRefuses, worker, process
<1>2. /\ TypeOK /\ Held /\ Store /\ Line /\ Depth /\ PendingCounts /\ Circuit /\ Budget /\ Signed
      /\ status \in [Txns -> {"none", "refused", "owned", "delivered", "dropped"}]
  BY Zenon DEF IInv, TypeOK
<1>3. TypeOK'
  <2>1. status' \in [Txns -> {"none", "refused", "owned", "delivered", "dropped"}]
    BY <1>1, <1>2
  <2>2. faults' \in Nat
    <3>1. faults \in Nat
      BY Zenon DEF IInv, TypeOK
    <3> QED BY <3>1 DEF EnqueueRefuses, StoreFails
  <2> QED BY <1>1, <1>2, <2>1, <2>2, Zenon DEF TypeOK
<1>4. Store'
  <2>1. \A y \in Txns : status'[y] = "owned" <=> status[y] = "owned"
    BY <1>1, <1>2, Zenon
  <2>2. Stored' = Stored /\ InMemory' = InMemory
    BY <1>1, Zenon DEF Stored, InMemory
  <2>3. {y \in Txns : status'[y] = "owned"} = {y \in Txns : status[y] = "owned"}
    BY <2>1, Zenon
  <2> QED BY <1>1, <1>2, <2>2, <2>3, Zenon DEF Store, StoreAgrees
<1>5. Held' /\ Line' /\ Depth' /\ PendingCounts' /\ Circuit' /\ Signed'
  <2>1. Held' /\ Circuit' /\ Signed'
    BY <1>1, <1>2, Zenon DEF Held, Hand, Circuit, Signed
  <2>2. Line' /\ Depth' /\ PendingCounts'
    BY <1>1, <1>2, LineStays, DepthStays, PendingStays, Zenon DEF Hand
  <2> QED BY <2>1, <2>2, Zenon
<1>6. Budget'
  <2>1. \A y \in Txns : status'[y] = "none" => status[y] = "none"
    BY <1>1, <1>2, Zenon
  <2>2. starts = 0 => pc' = "down"
    BY <1>1, <1>2, Zenon DEF Budget
  <2> QED BY <1>1, <1>2, <2>1, <2>2, BudgetStays, Zenon DEF Hand, Sent
<1> QED BY <1>3, <1>4, <1>5, <1>6, Zenon DEF IInv

(* A step between two waiting points of loop(), and inside an attempt. *)
LEMMA WorkerStep ==
    ASSUME IInv, NEW from, NEW to \in PcValues,
           pc = from, pc' = to,
           UNCHANGED <<current, queue, parked, memory, pending, destination, rows, status,
                       attempts, arrived, starts, key, staleSends, shutdown, faults>>,
           draining' \in BOOLEAN,
           \/ /\ from \in {"check", "take", "wait"}
              /\ to \in {"check", "take", "wait", "exited"}
              /\ UNCHANGED <<age, open, callKey, destRows>>
           \/ /\ <<from, to>> \in {<<"resolve", "sign">>, <<"sign", "send">>, <<"send", "opened">>,
                                   <<"opened", "park">>, <<"failed", "retry">>}
              /\ UNCHANGED <<age, open>> /\ callKey' \in Nat
              /\ destRows' \in [Destinations -> Backoff],
           Circuit', Signed'
    PROVE  IInv'
<1>1. TypeOK'
  BY Zenon DEF IInv, TypeOK
<1>2. (Hand' <=> Hand) /\ (Sent => Sent')
  BY Zenon DEF Hand, Sent, Attempting
<1>3. pc # "down" /\ pc' # "taken" /\ pc # "taken" /\ pc' # "delivered"
  BY Zenon
<1>4. Held' /\ Store' /\ Line' /\ Depth' /\ PendingCounts' /\ Budget'
  BY <1>2, <1>3, MovesOn, Zenon
<1> QED BY <1>1, <1>4, Zenon DEF IInv

(* Outside an attempt the circuit is not open, and nothing is signed. *)
LEMMA LoopStep ==
    ASSUME IInv, pc \in {"check", "take", "wait"}, pc' \in {"check", "take", "wait", "exited"},
           UNCHANGED <<current, age, open, callKey, shutdown, queue, parked, memory, pending,
                       destination, key, rows, destRows, faults, status, attempts, arrived,
                       staleSends, starts>>,
           draining' \in BOOLEAN
    PROVE  IInv'
<1>1. TypeOK /\ Circuit /\ Signed
  BY Zenon DEF IInv
<1>2. Circuit'
  <2>1. ~open
    BY <1>1, Zenon DEF Circuit, Attempting
  <2> QED BY <1>1, <2>1, CircuitStays, Zenon
<1>3. Signed'
  BY <1>1, SignedStays, Zenon
<1>4. pc' \in PcValues
  BY Zenon DEF PcValues
<1> QED BY <1>2, <1>3, <1>4, WorkerStep, Zenon

(* loop() looks at the flag, finds nothing to take, waits and wakes up. *)
LEMMA LoopSteps ==
    ASSUME IInv, Check \/ TakeNothing \/ WaitReturns \/ WaitTimesOut
    PROVE  IInv'
<1>1. shutdown \in BOOLEAN /\ draining \in BOOLEAN
  BY Zenon DEF IInv, TypeOK
<1>2. draining' \in BOOLEAN
  BY <1>1 DEF Check, TakeNothing, WaitReturns, WaitTimesOut
<1>3. /\ pc \in {"check", "take", "wait"}
      /\ pc' \in {"check", "take", "wait", "exited"}
  BY Zenon DEF Check, TakeNothing, WaitReturns, WaitTimesOut
<1>4. UNCHANGED <<current, age, open, callKey, shutdown, queue, parked, memory, pending,
                  destination, key, rows, destRows, faults, status, attempts, arrived,
                  staleSends, starts>>
  BY Zenon DEF Check, TakeNothing, WaitReturns, WaitTimesOut, process, durable, history
<1> QED BY <1>2, <1>3, <1>4, LoopStep, Zenon

(* The key an attempt copies is the current one. *)
LEMMA CopySigningIdentityStep ==
    ASSUME IInv, CopySigningIdentity
    PROVE  IInv'
<1>1. /\ pc = "sign" /\ pc' = "send" /\ callKey' = key
      /\ UNCHANGED <<draining, current, age, open, shutdown, queue, parked, memory, pending,
                     destination, key, rows, destRows, faults, status, attempts, arrived,
                     staleSends, starts>>
  BY Zenon DEF CopySigningIdentity, process, durable, history
<1>2. TypeOK /\ Circuit /\ Signed /\ key \in Nat /\ staleSends \in Nat /\ draining \in BOOLEAN
  BY Zenon DEF IInv, TypeOK
<1>3. Circuit'
  BY <1>1, <1>2, CircuitStays, Zenon DEF Attempting
<1>4. Signed'
  <2>1. staleSends <= key
    BY <1>1, <1>2 DEF Signed
  <2> QED BY <1>1, <1>2, <2>1 DEF Signed
<1>5. destRows' \in [Destinations -> Backoff] /\ "send" \in PcValues
  BY <1>1, <1>2, Zenon DEF TypeOK, PcValues
<1> QED BY <1>1, <1>2, <1>3, <1>4, <1>5, WorkerStep, Zenon

(* With the circuit open nothing is sent. *)
LEMMA CircuitOpenStep ==
    ASSUME IInv, CircuitOpen
    PROVE  IInv'
<1>1. /\ pc = "send" /\ pc' = "opened" /\ open
      /\ UNCHANGED <<draining, current, age, open, callKey, shutdown, queue, parked, memory,
                     pending, destination, key, rows, destRows, faults, status, attempts,
                     arrived, staleSends, starts>>
  BY Zenon DEF CircuitOpen, process, durable, history
<1>2. TypeOK /\ Circuit /\ Signed /\ draining \in BOOLEAN /\ callKey \in Nat
  BY Zenon DEF IInv, TypeOK
<1>3. Circuit'
  BY <1>1, <1>2, CircuitStays, Zenon DEF Attempting
<1>4. Signed'
  BY <1>1, <1>2, SignedStays, Zenon
<1>5. destRows' \in [Destinations -> Backoff] /\ "opened" \in PcValues
  BY <1>1, <1>2, Zenon DEF TypeOK, PcValues
<1> QED BY <1>1, <1>2, <1>3, <1>4, <1>5, WorkerStep, Zenon

(* store_federation_destination() writes what is in memory, or nothing. *)
LEMMA DestinationStored ==
    ASSUME TypeOK, Circuit, NEW d \in Destinations, StoreDestination(d)
    PROVE  /\ destRows' \in [Destinations -> Backoff]
           /\ \A e \in Destinations : destRows'[e].wait > 0 => destRows'[e].failures > 0
<1>1. destRows \in [Destinations -> Backoff] /\ destination \in [Destinations -> Backoff]
  BY Zenon DEF TypeOK
<1>2. destRows' = destRows \/ destRows' = [destRows EXCEPT ![d] = destination[d]]
  BY Zenon DEF StoreDestination
<1>3. \A e \in Destinations : destRows'[e] = destRows[e] \/ destRows'[e] = destination[e]
  BY <1>1, <1>2, Zenon
<1>4. destRows' \in [Destinations -> Backoff]
  BY <1>1, <1>2
<1> QED BY <1>3, <1>4, Zenon DEF Circuit

(* A failure is recorded before the transaction is retried or parked. *)
LEMMA RecordFailureStep ==
    ASSUME IInv, RecordFailure
    PROVE  IInv'
<1>1. /\ pc \in {"failed", "opened"} /\ pc' = (IF pc = "failed" THEN "retry" ELSE "park")
      /\ StoreDestination(DestOf[current])
      /\ UNCHANGED <<draining, current, age, open, callKey, shutdown, queue, parked, memory,
                     pending, destination, key, rows, faults, status, attempts, arrived,
                     staleSends, starts>>
  BY Zenon DEF RecordFailure, process, history
<1>2. /\ TypeOK /\ Held /\ StoreAgrees /\ Circuit /\ Signed /\ draining \in BOOLEAN
      /\ callKey \in Nat
  BY Zenon DEF IInv, TypeOK, Store
<1>3. DestOf[current] \in Destinations
  BY <1>1, <1>2, HandIsStored, Zenon DEF Hand, Attempting
<1>4. /\ destRows' \in [Destinations -> Backoff]
      /\ \A e \in Destinations : destRows'[e].wait > 0 => destRows'[e].failures > 0
  BY <1>1, <1>2, <1>3, DestinationStored, Zenon
<1>5. Circuit'
  BY <1>1, <1>2, <1>4, Zenon DEF Circuit, Attempting
<1>6. Signed'
  BY <1>1, <1>2, SignedStays, Zenon
<1>7. (pc = "failed" /\ pc' = "retry") \/ (pc = "opened" /\ pc' = "park")
  BY <1>1, Zenon
<1>8. pc' \in PcValues
  BY <1>7, Zenon DEF PcValues
<1>9. <<pc, pc'>> \in {<<"opened", "park">>, <<"failed", "retry">>}
  BY <1>7, Zenon
<1> QED BY <1>1, <1>2, <1>4, <1>5, <1>6, <1>8, <1>9, WorkerStep, Zenon

(* The clock is read with the transaction in hand, already counted out. *)
LEMMA BeginAttemptStep ==
    ASSUME IInv, BeginAttempt
    PROVE  IInv'
<1>1. /\ pc = "taken" /\ pc' = "resolve" /\ age' = 0
      /\ pending' = (IF pending > 0 THEN pending - 1 ELSE 0)
      /\ open' = (destination[DestOf[current]].wait > 0)
      /\ UNCHANGED <<draining, current, callKey, shutdown, queue, parked, memory, destination,
                     key, rows, destRows, faults, status, attempts, arrived, staleSends, starts>>
  BY Zenon DEF BeginAttempt, durable, history
<1>2. TypeOK /\ Held /\ Store /\ Line /\ Depth /\ PendingCounts /\ Circuit /\ Budget /\ Signed
  BY Zenon DEF IInv
<1>3. pending \in Nat /\ Len(queue) \in Nat
  <2>1. pending \in Nat /\ queue \in Seq(Txns)
    BY <1>2, Zenon DEF TypeOK
  <2> QED BY <2>1
<1>4. pending' \in Nat /\ PendingCounts'
  <2>1. pending = Len(queue) + 1
    BY <1>1, <1>2 DEF PendingCounts
  <2>2. pending' = Len(queue)
    BY <1>1, <1>3, <2>1
  <2>3. PendingCounts' <=> pending' = Len(queue) + 0
    BY <1>1 DEF PendingCounts
  <2> QED BY <1>3, <2>2, <2>3
<1>5. TypeOK'
  <2>1. open' \in BOOLEAN /\ age' \in Nat /\ pc' \in PcValues
    BY <1>1 DEF PcValues
  <2> QED BY <1>1, <1>2, <1>4, <2>1, Zenon DEF TypeOK
<1>6. Hand /\ Hand' /\ ~Sent /\ ~Sent'
  BY <1>1, Zenon DEF Hand, Sent, Attempting
<1>7. Held'
  BY <1>1, <1>2, <1>6, Zenon DEF Held
<1>8. Store' /\ Line' /\ Depth'
  BY <1>1, <1>2, <1>6, StoreStays, LineStays, DepthStays, Zenon
<1>9. Circuit'
  <2>1. DestOf[current] \in Destinations
    BY <1>2, <1>6, HandIsStored, Zenon DEF Store
  <2>2. open' => destination[DestOf[current]].failures > 0
    BY <1>1, <1>2, <2>1, Zenon DEF Circuit
  <2> QED BY <1>1, <1>2, <2>2, Zenon DEF Circuit, Attempting
<1>10. Budget'
  <2>1. starts = 0 => pc' = "down"
    BY <1>1, <1>2, Zenon DEF Budget
  <2> QED BY <1>1, <1>2, <1>6, <2>1, BudgetStays, Zenon
<1>11. Signed'
  BY <1>1, <1>2, SignedStays, Zenon
<1> QED BY <1>4, <1>5, <1>7, <1>8, <1>9, <1>10, <1>11, Zenon DEF IInv

(* apply_outbound_result() of a failure: one more failure, and a wait. *)
LEMMA FailureApplied ==
    ASSUME Ground, TypeOK, NEW d \in Destinations, ApplyFailure(d)
    PROVE  /\ destination' \in [Destinations -> Backoff]
           /\ destination'[d].failures > 0
           /\ \A e \in Destinations : e # d => destination'[e] = destination[e]
<1>1. destination \in [Destinations -> Backoff] /\ age \in Nat
  BY Zenon DEF TypeOK
<1> DEFINE n == destination[d].failures + 1
           b == [failures |-> n, wait |-> BackoffAhead(n)]
<1>2. destination' = [destination EXCEPT ![d] = b]
  BY DEF ApplyFailure
<1>3. n \in Nat /\ n > 0
  BY <1>1 DEF Backoff
<1>4. BackoffAhead(n) \in Nat
  <2>1. ComputeBackoff(BaseInterval, MaxInterval, n) \in Nat
    BY <1>3, Zenon DEF Ground
  <2> HIDE DEF n
  <2> QED BY <1>1, <2>1 DEF BackoffAhead
<1>5. b \in Backoff /\ b.failures = n
  BY <1>3, <1>4 DEF Backoff
<1> HIDE DEF b, n
<1>6. destination' \in [Destinations -> Backoff] /\ destination'[d] = b
  BY <1>1, <1>2, <1>5
<1>7. \A e \in Destinations : e # d => destination'[e] = destination[e]
  BY <1>1, <1>2
<1> QED BY <1>3, <1>5, <1>6, <1>7, Zenon

(* and of a success: the destination is as good as new. *)
LEMMA SuccessApplied ==
    ASSUME TypeOK, NEW d \in Destinations, ApplySuccess(d)
    PROVE  /\ destination' \in [Destinations -> Backoff]
           /\ destination'[d].wait = 0
           /\ \A e \in Destinations : e # d => destination'[e] = destination[e]
<1>1. destination \in [Destinations -> Backoff]
  BY Zenon DEF TypeOK
<1>2. Fresh \in Backoff /\ Fresh.wait = 0
  BY DEF Fresh, Backoff
<1>3. destination' = [destination EXCEPT ![d] = Fresh]
  BY Zenon DEF ApplySuccess
<1> QED BY <1>1, <1>2, <1>3

(* With a transaction in hand the queue is within its depth, so the depth  *)
(* does not hang on the state of a destination.                            *)
LEMMA DepthInHand ==
    ASSUME Depth, Hand, UNCHANGED <<queue, parked>>, TypeOK
    PROVE  Depth'
<1>1. MaxDepth \in Nat /\ Len(queue) \in Nat
  BY BoundsAssumption, InLine, Zenon
<1>2. MaxDepth # 0 => Len(queue) <= MaxDepth
  BY Zenon DEF Depth
<1>3. MaxDepth # 0 => Len(queue') <= MaxDepth + 1 /\ ~(Len(queue') > MaxDepth)
  BY <1>1, <1>2
<1>4. DepthBound'
  BY <1>3, Zenon DEF DepthBound
<1> QED BY <1>2, <1>4, Zenon DEF Depth, ParkedOnlyWhenFull

(* A name that does not resolve counts as a failure. *)
LEMMA ResolveStep ==
    ASSUME Ground, IInv, Resolve
    PROVE  IInv'
<1>1. /\ pc = "resolve"
      /\ \/ pc' = "sign" /\ UNCHANGED destination
         \/ pc' = "failed" /\ ApplyFailure(DestOf[current])
      /\ UNCHANGED <<draining, current, age, open, callKey, shutdown, queue, parked, memory,
                     pending, key, rows, destRows, faults, status, attempts, arrived,
                     staleSends, starts>>
  BY Zenon DEF Resolve, process, durable, history
<1>2. TypeOK /\ Held /\ Store /\ Line /\ Depth /\ PendingCounts /\ Circuit /\ Budget /\ Signed
  BY Zenon DEF IInv
<1>3. Hand /\ Hand' /\ ~Sent
  BY <1>1, Zenon DEF Hand, Sent, Attempting
<1>4. DestOf[current] \in Destinations
  BY <1>2, <1>3, HandIsStored, Zenon DEF Store
<1>5. /\ destination' \in [Destinations -> Backoff]
      /\ open => destination'[DestOf[current]].failures > 0
      /\ \A d \in Destinations : destination'[d].wait > 0 => destination'[d].failures > 0
  <2>1. CASE UNCHANGED destination
    BY <1>2, <2>1, Zenon DEF Circuit, TypeOK
  <2>2. CASE ApplyFailure(DestOf[current])
    <3>1. /\ destination' \in [Destinations -> Backoff]
          /\ destination'[DestOf[current]].failures > 0
          /\ \A e \in Destinations : e # DestOf[current] => destination'[e] = destination[e]
      BY <1>2, <1>4, <2>2, FailureApplied, Zenon
    <3> QED BY <1>2, <3>1, Zenon DEF Circuit
  <2> QED BY <1>1, <2>1, <2>2, Zenon
<1>6. TypeOK'
  <2>1. pc' \in PcValues
    BY <1>1, Zenon DEF PcValues
  <2> QED BY <1>1, <1>2, <1>5, <2>1, Zenon DEF TypeOK
<1>7. Held'
  BY <1>1, <1>2, <1>3, Zenon DEF Held
<1>8. Store' /\ Line' /\ Depth' /\ PendingCounts'
  BY <1>1, <1>2, <1>3, StoreStays, LineStays, DepthInHand, PendingStays, Zenon
<1>9. Circuit'
  BY <1>1, <1>2, <1>5, Zenon DEF Circuit, Attempting
<1>10. Budget'
  <2>1. starts = 0 => pc' = "down"
    BY <1>1, <1>2, Zenon DEF Budget
  <2> QED BY <1>1, <1>2, <1>3, <2>1, BudgetStays, Zenon
<1>11. Signed'
  BY <1>1, <1>2, SignedStays, Zenon
<1> QED BY <1>6, <1>7, <1>8, <1>9, <1>10, <1>11, Zenon DEF IInv

(* One request more for the transaction in hand, whatever its answer. *)
LEMMA SendStep ==
    ASSUME Ground, IInv, Send
    PROVE  IInv'
<1>1. /\ pc = "send" /\ ~open
      /\ attempts' = [attempts EXCEPT ![current] = @ + 1]
      /\ staleSends' = (IF callKey = key THEN staleSends ELSE staleSends + 1)
      /\ \/ arrived' = arrived \cup {current} /\ ApplySuccess(DestOf[current]) /\ pc' = "delivered"
         \/ /\ arrived' \in {arrived, arrived \cup {current}}
            /\ ApplyFailure(DestOf[current]) /\ pc' = "failed"
      /\ UNCHANGED <<draining, current, age, open, callKey, shutdown, queue, parked, memory,
                     pending, key, rows, destRows, faults, status, starts>>
  BY Zenon DEF Send, process, durable
<1>2. TypeOK /\ Held /\ Store /\ Line /\ Depth /\ PendingCounts /\ Circuit /\ Budget /\ Signed
  BY Zenon DEF IInv
<1>3. Hand /\ Hand' /\ ~Sent /\ Sent'
  BY <1>1, Zenon DEF Hand, Sent, Attempting
<1>4. /\ current \in Txns /\ DestOf[current] \in Destinations /\ current \in Stored
      /\ status[current] = "owned"
  BY <1>2, <1>3, HandIsStored, Zenon DEF Store
<1>5. /\ destination' \in [Destinations -> Backoff]
      /\ \A d \in Destinations : destination'[d].wait > 0 => destination'[d].failures > 0
  <2>1. CASE ApplySuccess(DestOf[current])
    <3>1. /\ destination' \in [Destinations -> Backoff]
          /\ destination'[DestOf[current]].wait = 0
          /\ \A e \in Destinations : e # DestOf[current] => destination'[e] = destination[e]
      BY <1>2, <1>4, <2>1, SuccessApplied, Zenon
    <3>2. ~(destination'[DestOf[current]].wait > 0)
      BY <3>1
    <3> QED BY <1>2, <3>1, <3>2, Zenon DEF Circuit
  <2>2. CASE ApplyFailure(DestOf[current])
    <3>1. /\ destination' \in [Destinations -> Backoff]
          /\ destination'[DestOf[current]].failures > 0
          /\ \A e \in Destinations : e # DestOf[current] => destination'[e] = destination[e]
      BY <1>2, <1>4, <2>2, FailureApplied, Zenon
    <3> QED BY <1>2, <3>1, Zenon DEF Circuit
  <2> QED BY <1>1, <2>1, <2>2, Zenon
<1>6. /\ attempts \in [Txns -> Nat] /\ rows \in [Txns -> Retry \cup {NoRow}] /\ starts \in Nat
      /\ arrived \in SUBSET Txns /\ staleSends \in Nat /\ key \in Nat
  BY <1>2, Zenon DEF TypeOK
<1>7. /\ attempts' \in [Txns -> Nat] /\ attempts'[current] = attempts[current] + 1
      /\ \A x \in Txns : x # current => attempts'[x] = attempts[x]
  BY <1>1, <1>4, <1>6
<1>8. TypeOK'
  <2>1. pc' \in PcValues
    BY <1>1, Zenon DEF PcValues
  <2>2. arrived' \in SUBSET Txns
    BY <1>1, <1>4, <1>6, Zenon
  <2>3. staleSends' \in Nat
    BY <1>1, <1>6
  <2> QED BY <1>1, <1>2, <1>5, <1>7, <2>1, <2>2, <2>3, Zenon DEF TypeOK
<1>9. Held'
  BY <1>1, <1>2, <1>3, Zenon DEF Held
<1>10. Store' /\ Line' /\ Depth' /\ PendingCounts'
  BY <1>1, <1>2, <1>3, StoreStays, LineStays, DepthInHand, PendingStays, Zenon
<1>11. Circuit'
  BY <1>1, <1>2, <1>5, Zenon DEF Circuit
<1>12. Budget'
  <2>1. Stored' = Stored /\ Restarts' = Restarts
    BY <1>1, Zenon DEF Stored, Restarts
  <2>2. /\ rows[current].retries < MaxRetries
        /\ attempts[current] <= rows[current].retries + Restarts
    BY <1>2, <1>3, <1>4, Zenon DEF Budget
  <2>3. rows[current].retries \in Nat /\ attempts[current] \in Nat /\ Restarts \in Nat /\ MaxRetries \in Nat
    BY <1>4, <1>6, BoundsAssumption DEF Retry, NoRow, Restarts
  <2>4. /\ attempts'[current] <= rows[current].retries + Restarts + 1
        /\ attempts'[current] <= MaxRetries + Restarts
    BY <1>7, <2>2, <2>3
  <2>5. current \notin Range(queue) \cup Range(parked) /\ Range(queue) \cup Range(parked) \subseteq Txns
    BY <1>2, InLine, Zenon DEF Line
  <2>6. starts' # 0 /\ \A x \in Txns : status'[x] = "none" => attempts'[x] = 0
    BY <1>1, <1>2, <1>4, <1>7, Zenon DEF Budget
  <2>7. \A x \in Txns : attempts'[x] <= MaxRetries + Restarts
    BY <1>2, <1>7, <2>4, Zenon DEF Budget
  <2>8. \A x \in Stored : /\ rows[x].retries < MaxRetries
                          /\ attempts'[x] <= rows[x].retries + Restarts + 1
    BY <1>2, <1>7, <2>4, Zenon DEF Budget, Stored
  <2>9. \A x \in Range(queue) \cup Range(parked) : attempts'[x] <= rows[x].retries + Restarts
    BY <1>2, <1>7, <2>5, Zenon DEF Budget
  <2> QED BY <1>1, <1>3, <2>1, <2>6, <2>7, <2>8, <2>9, Zenon DEF Budget
<1>13. Signed'
  <2>1. staleSends + (IF callKey # key THEN 1 ELSE 0) <= key
    BY <1>1, <1>2, Zenon DEF Signed
  <2>2. staleSends' <= key
    BY <1>1, <1>6, <2>1
  <2>3. Signed' <=> staleSends' + 0 <= key
    BY <1>1, Zenon DEF Signed
  <2> QED BY <1>1, <1>6, <2>2, <2>3
<1> QED BY <1>8, <1>9, <1>10, <1>11, <1>12, <1>13, Zenon DEF IInv

-----------------------------------------------------------------------------
(* The end of an attempt.                                                  *)

(* run_once() returns: nothing is in hand, no circuit is looked at, and no *)
(* key is in use.                                                          *)
LEMMA Returned ==
    ASSUME IInv, Return, UNCHANGED <<destination, key, staleSends>>,
           \A e \in Destinations : destRows'[e].wait > 0 => destRows'[e].failures > 0
    PROVE  Held' /\ Circuit' /\ Signed' /\ ~Hand'
<1>1. pc' = "check" /\ current' = NoTxn /\ open' = FALSE
  BY Zenon DEF Return
<1>2. TypeOK /\ Circuit /\ Signed
  BY Zenon DEF IInv
<1>3. ~Hand' /\ Held'
  BY <1>1, Zenon DEF Hand, Held, Attempting
<1>4. Circuit'
  BY <1>1, <1>2, Zenon DEF Circuit
<1>5. Signed'
  BY <1>1, <1>2, SignedStays, Zenon
<1> QED BY <1>3, <1>4, <1>5, Zenon

(* What is queued or parked is not what was in hand. *)
LEMMA NotInLine ==
    ASSUME IInv, Hand
    PROVE  /\ Range(queue) \cup Range(parked) \subseteq InMemory
           /\ Range(queue) \cup Range(parked) \subseteq Txns \ {current}
           /\ current \in InMemory /\ NoTxn \notin Range(queue) \cup Range(parked)
<1>1. TypeOK /\ Held /\ Line
  BY Zenon DEF IInv
<1>2. Range(queue) \cup Range(parked) \subseteq Txns \ {current}
  BY <1>1, InLine, Zenon DEF Line
<1>3. Range(queue) \cup Range(parked) \subseteq InMemory /\ current \in InMemory
  BY <1>1, Zenon DEF InMemory, Held
<1> QED BY <1>2, <1>3, TxnsAssumption, Zenon

(* The transaction is settled: its row goes with it. *)
LEMMA RowDropped ==
    ASSUME Ground, IInv, Hand, pc # "taken", Return, NEW s \in {"delivered", "dropped"},
           DeleteTransaction(current),
           status' = [status EXCEPT ![current] = s],
           UNCHANGED <<shutdown, queue, parked, memory, pending, destination, key, attempts,
                       arrived, staleSends, starts>>,
           destRows' \in [Destinations -> Backoff],
           \A e \in Destinations : destRows'[e].wait > 0 => destRows'[e].failures > 0
    PROVE  IInv'
<1>1. TypeOK /\ Held /\ Store /\ Line /\ Depth /\ PendingCounts /\ Budget
  BY Zenon DEF IInv
<1>2. /\ pc' = "check" /\ current' = NoTxn /\ age' = 0 /\ open' = FALSE /\ callKey' = 0
      /\ draining' = draining /\ rows' = [rows EXCEPT ![current] = NoRow] /\ faults' = faults
  BY Zenon DEF Return, DeleteTransaction
<1>3. /\ rows \in [Txns -> Retry \cup {NoRow}]
      /\ status \in [Txns -> {"none", "refused", "owned", "delivered", "dropped"}]
  BY <1>1, Zenon DEF TypeOK
<1>4. current \in Txns /\ current \in Stored
  BY <1>1, HandIsStored, Zenon DEF Store
<1>5. /\ rows' \in [Txns -> Retry \cup {NoRow}] /\ rows'[current] = NoRow
      /\ \A x \in Txns : x # current => rows'[x] = rows[x]
  BY <1>2, <1>3, <1>4
<1>6. /\ status' \in [Txns -> {"none", "refused", "owned", "delivered", "dropped"}]
      /\ status'[current] \in {"delivered", "dropped"}
      /\ \A x \in Txns : x # current => status'[x] = status[x]
  BY <1>3, <1>4
<1>7. Held' /\ Circuit' /\ Signed' /\ ~Hand'
  BY Returned, Zenon
<1>8. TypeOK'
  <2>1. pc' \in PcValues /\ current' \in Txns \cup {NoTxn} /\ age' \in Nat /\ callKey' \in Nat
    BY <1>2 DEF PcValues
  <2> QED BY <1>1, <1>2, <1>5, <1>6, <2>1, Zenon DEF TypeOK
<1>9. Stored' = Stored \ {current}
  BY <1>5, Zenon DEF Stored
<1>10. Store'
  <2>1. Stored' = {x \in Txns : status'[x] = "owned"}
    <3>1. Stored = {x \in Txns : status[x] = "owned"}
      BY <1>1, Zenon DEF Store, StoreAgrees
    <3>2. status'[current] # "owned"
      BY <1>6, Zenon
    <3> QED BY <1>4, <1>6, <1>9, <3>1, <3>2, Zenon
  <2>2. InMemory' = Range(queue) \cup Range(parked)
    BY <1>2, Zenon DEF InMemory
  <2>3. \A x \in InMemory' : rows'[x] = memory'[x]
    BY <1>1, <1>5, <2>2, NotInLine, Zenon DEF Store, StoreAgrees
  <2>4. IsFiniteSet(Stored')
    BY <1>1, <1>9, Zenon DEF Store, Ground
  <2> QED BY <2>1, <2>3, <2>4, Zenon DEF Store, StoreAgrees
<1>11. Line'
  BY <1>1, <1>2, NotInLine, Zenon DEF Line
<1>12. Depth' /\ PendingCounts'
  BY <1>1, <1>2, <1>7, DepthStays, PendingStays, Zenon
<1>13. Budget'
  <2>1. Restarts' = Restarts
    BY Zenon DEF Restarts
  <2>2. starts' # 0
    BY <1>1, Zenon DEF Budget, Hand, Attempting
  <2>3. \A x \in Txns : status'[x] = "none" => attempts'[x] = 0
    BY <1>1, <1>6, Zenon DEF Budget
  <2>4. \A x \in Txns : attempts'[x] <= MaxRetries + Restarts'
    BY <1>1, <2>1, Zenon DEF Budget
  <2>5. \A x \in Stored' : /\ rows'[x].retries < MaxRetries
                           /\ attempts'[x] <= rows'[x].retries + Restarts' + 1
    BY <1>1, <1>5, <1>9, <2>1, Zenon DEF Budget, Stored
  <2>6. \A x \in Range(queue') \cup Range(parked') : attempts'[x] <= rows'[x].retries + Restarts'
    BY <1>1, <1>5, <2>1, NotInLine, Zenon DEF Budget
  <2> QED BY <1>7, <2>2, <2>3, <2>4, <2>5, <2>6, Zenon DEF Budget
<1> QED BY <1>7, <1>8, <1>10, <1>11, <1>12, <1>13, Zenon DEF IInv

(* The write fails: the transaction leaves memory, and its row stays. *)
LEMMA RowKept ==
    ASSUME IInv, Hand, pc # "taken", Return, StoreFails,
           UNCHANGED <<shutdown, queue, parked, memory, pending, destination, key, rows, destRows,
                       status, attempts, arrived, staleSends, starts>>
    PROVE  IInv'
<1>1. TypeOK /\ Held /\ Store /\ Line /\ Depth /\ PendingCounts /\ Circuit /\ Budget
  BY Zenon DEF IInv
<1>2. /\ pc' = "check" /\ current' = NoTxn /\ age' = 0 /\ open' = FALSE /\ callKey' = 0
      /\ draining' = draining
  BY Zenon DEF Return
<1>3. Held' /\ Circuit' /\ Signed' /\ ~Hand'
  BY <1>1, Returned, Zenon DEF Circuit
<1>4. TypeOK'
  <2>1. faults \in Nat
    BY <1>1, Zenon DEF TypeOK
  <2>2. /\ pc' \in PcValues /\ current' \in Txns \cup {NoTxn} /\ age' \in Nat /\ callKey' \in Nat
        /\ faults' \in Nat
    BY <1>2, <2>1 DEF PcValues, StoreFails
  <2> QED BY <1>1, <1>2, <2>2, Zenon DEF TypeOK
<1>5. Store'
  <2>1. InMemory' = Range(queue) \cup Range(parked) /\ Stored' = Stored
    BY <1>2, Zenon DEF InMemory, Stored
  <2> QED BY <1>1, <2>1, NotInLine, Zenon DEF Store, StoreAgrees
<1>6. Line'
  BY <1>1, <1>2, NotInLine, Zenon DEF Line
<1>7. Depth' /\ PendingCounts'
  BY <1>1, <1>2, <1>3, DepthStays, PendingStays, Zenon
<1>8. Budget'
  <2>1. Restarts' = Restarts /\ Stored' = Stored
    BY Zenon DEF Restarts, Stored
  <2>2. starts' # 0
    BY <1>1, Zenon DEF Budget, Hand, Attempting
  <2> QED BY <1>1, <1>3, <2>1, <2>2, Zenon DEF Budget
<1> QED BY <1>3, <1>4, <1>5, <1>6, <1>7, <1>8, Zenon DEF IInv

(* The transaction goes back on the queue, behind a row that says so.  It  *)
(* is the one that may lie beyond the depth.                               *)
LEMMA Requeued ==
    ASSUME IInv, Hand, pc # "taken", Return, NEW retry \in Retry,
           retry.retries < MaxRetries,
           attempts[current] <= retry.retries + Restarts,
           retry.retries > 0 \/ destination[DestOf[current]].failures > 0,
           StoreTransaction(current, retry),
           memory' = [memory EXCEPT ![current] = retry],
           queue' = Append(queue, current),
           pending' = pending + 1,
           UNCHANGED <<shutdown, parked, destination, key, destRows, status, attempts, arrived,
                       staleSends, starts>>
    PROVE  IInv'
<1>1. TypeOK /\ Held /\ Store /\ Line /\ Depth /\ PendingCounts /\ Circuit /\ Budget
  BY Zenon DEF IInv
<1>2. /\ pc' = "check" /\ current' = NoTxn /\ age' = 0 /\ open' = FALSE /\ callKey' = 0
      /\ draining' = draining /\ rows' = [rows EXCEPT ![current] = retry] /\ faults' = faults
  BY Zenon DEF Return, StoreTransaction
<1>3. /\ rows \in [Txns -> Retry \cup {NoRow}] /\ memory \in [Txns -> Retry]
      /\ queue \in Seq(Txns) /\ pending \in Nat
  BY <1>1, Zenon DEF TypeOK
<1>4. current \in Txns /\ current \in Stored
  BY <1>1, HandIsStored, Zenon DEF Store
<1>5. /\ rows' \in [Txns -> Retry \cup {NoRow}] /\ rows'[current] = retry
      /\ \A x \in Txns : x # current => rows'[x] = rows[x]
  BY <1>2, <1>3, <1>4
<1>6. /\ memory' \in [Txns -> Retry] /\ memory'[current] = retry
      /\ \A x \in Txns : x # current => memory'[x] = memory[x]
  BY <1>3, <1>4
<1>7. Held' /\ Circuit' /\ Signed' /\ ~Hand'
  BY <1>1, Returned, Zenon DEF Circuit
<1>8. /\ queue' \in Seq(Txns) /\ Len(queue') = Len(queue) + 1 /\ Range(queue') = Range(queue) \cup {current}
      /\ queue'[Len(queue')] = current
      /\ IsInjective(queue) /\ current \notin Range(queue) => IsInjective(queue')
  <2> DEFINE longer == Append(queue, current)
  <2>1. /\ longer \in Seq(Txns) /\ Len(longer) = Len(queue) + 1 /\ longer[Len(queue) + 1] = current
        /\ Range(longer) = Range(queue) \cup {current}
        /\ IsInjective(queue) /\ current \notin Range(queue) => IsInjective(longer)
    BY <1>3, <1>4, AppendNew
  <2> HIDE DEF longer
  <2>2. longer[Len(longer)] = current
    BY <2>1, Zenon
  <2>3. queue' = longer
    BY Zenon DEF longer
  <2> QED BY <2>1, <2>2, <2>3, Zenon
<1>9. TypeOK'
  <2>1. /\ pc' \in PcValues /\ current' \in Txns \cup {NoTxn} /\ age' \in Nat /\ callKey' \in Nat
        /\ pending' \in Nat
    BY <1>2, <1>3 DEF PcValues
  <2> QED BY <1>1, <1>2, <1>5, <1>6, <1>8, <2>1, Zenon DEF TypeOK
<1>10. Stored' = Stored
  BY <1>4, <1>5, RetryIsARow, Zenon DEF Stored
<1>11. Store'
  <2>1. InMemory' = Range(queue) \cup Range(parked) \cup {current}
    BY <1>2, <1>8, Zenon DEF InMemory
  <2>2. \A x \in InMemory' : rows'[x] = memory'[x]
    BY <1>1, <1>5, <1>6, <2>1, NotInLine, Zenon DEF Store, StoreAgrees
  <2> QED BY <1>1, <1>10, <2>2, Zenon DEF Store, StoreAgrees
<1>12. Line'
  <2>1. current \notin Range(queue) \cup Range(parked)
    BY NotInLine, Zenon
  <2>2. Range(queue') \cap Range(parked') = {} /\ NoTxn \notin Range(queue') \cup Range(parked')
    BY <1>1, <1>4, <1>8, <2>1, NotInLine, TxnsAssumption, Zenon DEF Line
  <2> QED BY <1>1, <1>2, <1>8, <2>1, <2>2, Zenon DEF Line
<1>13. Depth'
  <2>1. /\ MaxDepth \in Nat /\ Len(queue) \in Nat
        /\ MaxDepth # 0 => Len(queue) <= MaxDepth
        /\ parked # <<>> => Len(queue) >= MaxDepth
    BY <1>1, InLine, BoundsAssumption, Zenon DEF Depth, ParkedOnlyWhenFull
  <2>2. /\ MaxDepth # 0 => Len(queue') <= MaxDepth + 1
        /\ parked' # <<>> => Len(queue') >= MaxDepth
    BY <1>8, <2>1
  <2>3. memory'[current].retries > 0 \/ destination'[DestOf[current]].failures > 0
    BY <1>6, Zenon
  <2>4. DepthBound'
    BY <1>8, <2>2, <2>3, Zenon DEF DepthBound
  <2> QED BY <1>7, <2>2, <2>4, Zenon DEF Depth, ParkedOnlyWhenFull
<1>14. PendingCounts'
  <2>1. Len(queue) \in Nat /\ pending = Len(queue) + 0 /\ (PendingCounts' <=> pending' = Len(queue') + 0)
    BY <1>1, <1>2, InLine, Zenon DEF PendingCounts
  <2> QED BY <1>8, <2>1
<1>15. Budget'
  <2>1. Restarts' = Restarts
    BY Zenon DEF Restarts
  <2>2. starts' # 0
    BY <1>1, Zenon DEF Budget, Hand, Attempting
  <2>3. attempts[current] \in Nat /\ Restarts \in Nat /\ retry.retries \in Nat
    <3>1. attempts \in [Txns -> Nat] /\ starts \in Nat
      BY <1>1, Zenon DEF TypeOK
    <3> QED BY <1>4, <3>1 DEF Restarts, Retry
  <2>4. attempts[current] <= retry.retries + Restarts + 1
    BY <2>3
  <2>5. \A x \in Stored' : /\ rows'[x].retries < MaxRetries
                           /\ attempts'[x] <= rows'[x].retries + Restarts' + 1
    BY <1>1, <1>5, <1>10, <2>1, <2>4, Zenon DEF Budget, Stored
  <2>6. \A x \in Range(queue') \cup Range(parked') : attempts'[x] <= rows'[x].retries + Restarts'
    BY <1>1, <1>5, <1>8, <2>1, NotInLine, Zenon DEF Budget
  <2>7. /\ \A x \in Txns : status'[x] = "none" => attempts'[x] = 0
        /\ \A x \in Txns : attempts'[x] <= MaxRetries + Restarts'
    BY <1>1, <2>1, Zenon DEF Budget
  <2> QED BY <1>7, <2>2, <2>5, <2>6, <2>7, Zenon DEF Budget
<1> QED BY <1>7, <1>9, <1>11, <1>12, <1>13, <1>14, <1>15, Zenon DEF IInv

(* re_enqueue_with_backoff(): dropped, queued again, or left to its row. *)
LEMMA ReEnqueueWithBackoffStep ==
    ASSUME Ground, IInv, ReEnqueueWithBackoff
    PROVE  IInv'
<1> DEFINE n == memory[current].retries + 1
           retry == [retries |-> n, wait |-> BackoffAhead(n)]
<1>1. /\ pc = "retry" /\ Return
      /\ IF n >= MaxRetries THEN DropTransaction(current) ELSE Requeue(current, retry)
      /\ UNCHANGED <<shutdown, parked, destination, key, destRows, attempts, arrived, staleSends, starts>>
  BY Zenon DEF ReEnqueueWithBackoff
<1>2. Hand /\ pc # "taken"
  BY <1>1, Zenon DEF Hand, Attempting
<1>3. TypeOK /\ Held /\ Store /\ Circuit /\ Budget
  BY Zenon DEF IInv
<1>4. /\ current \in Txns /\ current \in Stored /\ rows[current] = memory[current]
      /\ memory[current] \in Retry
  BY <1>2, <1>3, HandIsStored, Zenon DEF Store
<1>5. CASE n >= MaxRetries
  <2>1. DropTransaction(current)
    BY <1>1, <1>5, Zenon
  <2>2. UNCHANGED <<memory, queue, pending>>
    BY <2>1, Zenon DEF DropTransaction
  <2>3. CASE DeleteTransaction(current) /\ status' = [status EXCEPT ![current] = "dropped"]
    <3>1. /\ destRows' \in [Destinations -> Backoff]
          /\ \A e \in Destinations : destRows'[e].wait > 0 => destRows'[e].failures > 0
      BY <1>1, <1>3, Zenon DEF TypeOK, Circuit
    <3> QED BY <1>1, <1>2, <2>2, <2>3, <3>1, RowDropped, Zenon
  <2>4. CASE StoreFails /\ UNCHANGED <<rows, status>>
    BY <1>1, <1>2, <2>2, <2>4, RowKept, Zenon
  <2> QED BY <2>1, <2>3, <2>4, Zenon DEF DropTransaction
<1>6. CASE ~(n >= MaxRetries)
  <2>1. Requeue(current, retry)
    BY <1>1, <1>6, Zenon
  <2>2. CASE StoreFails /\ UNCHANGED <<rows, memory, queue, pending, status>>
    BY <1>1, <1>2, <2>2, RowKept, Zenon
  <2>3. CASE /\ StoreTransaction(current, retry)
             /\ memory' = [memory EXCEPT ![current] = retry]
             /\ queue' = Append(queue, current)
             /\ pending' = pending + 1
             /\ UNCHANGED status
    <3>1. n \in Nat /\ n > 0 /\ n < MaxRetries
      BY <1>4, <1>6, BoundsAssumption DEF Retry
    <3>2. BackoffAhead(n) \in Nat
      <4>1. ComputeBackoff(BaseInterval, MaxInterval, n) \in Nat
        BY <3>1, Zenon DEF Ground
      <4>2. age \in Nat
        BY <1>3, Zenon DEF TypeOK
      <4> HIDE DEF n
      <4> QED BY <4>1, <4>2 DEF BackoffAhead
    <3>3. retry \in Retry /\ retry.retries = n
      <4> HIDE DEF n
      <4> QED BY <3>1, <3>2 DEF Retry
    <3>4. attempts[current] <= n + Restarts
      <4>1. attempts[current] <= rows[current].retries + Restarts + 1
        BY <1>3, <1>4, Zenon DEF Budget
      <4>2. attempts \in [Txns -> Nat] /\ starts \in Nat
        BY <1>3, Zenon DEF TypeOK
      <4>3. attempts[current] \in Nat /\ Restarts \in Nat /\ memory[current].retries \in Nat
        BY <1>4, <4>2 DEF Restarts, Retry
      <4> QED BY <1>4, <4>1, <4>3
    <3> HIDE DEF n, retry
    <3> QED BY <1>1, <1>2, <2>3, <3>1, <3>3, <3>4, Requeued, Zenon
  <2> QED BY <2>1, <2>2, <2>3, Zenon DEF Requeue
<1> QED BY <1>5, <1>6, Zenon

(* The circuit-open branch puts the transaction back as it was. *)
LEMMA ParkStep ==
    ASSUME IInv, Park
    PROVE  IInv'
<1> DEFINE d == DestOf[current]
           retry == [retries |-> memory[current].retries, wait |-> destination[d].wait]
<1>1. /\ pc = "park" /\ Return /\ Requeue(current, retry)
      /\ UNCHANGED <<shutdown, parked, destination, key, destRows, attempts, arrived, staleSends, starts>>
  BY Zenon DEF Park
<1>2. Hand /\ ~Sent /\ pc # "taken"
  BY <1>1, Zenon DEF Hand, Sent, Attempting
<1>3. TypeOK /\ Held /\ Store /\ Circuit /\ Budget
  BY Zenon DEF IInv
<1>4. /\ current \in Stored /\ rows[current] = memory[current] /\ memory[current] \in Retry
      /\ d \in Destinations
  BY <1>2, <1>3, HandIsStored, Zenon DEF Store
<1>5. destination[d].failures > 0
  BY <1>1, <1>3, Zenon DEF Circuit
<1>6. retry \in Retry /\ retry.retries = memory[current].retries
  <2>1. destination \in [Destinations -> Backoff]
    BY <1>3, Zenon DEF TypeOK
  <2>2. destination[d].wait \in Nat /\ memory[current].retries \in Nat
    BY <1>4, <2>1 DEF Backoff, Retry
  <2> QED BY <2>2 DEF Retry
<1>7. memory[current].retries < MaxRetries /\ attempts[current] <= memory[current].retries + Restarts
  BY <1>2, <1>3, <1>4, Zenon DEF Budget
<1> HIDE DEF retry
<1>8. CASE StoreFails /\ UNCHANGED <<rows, memory, queue, pending, status>>
  BY <1>1, <1>2, <1>8, RowKept, Zenon
<1>9. CASE /\ StoreTransaction(current, retry)
           /\ memory' = [memory EXCEPT ![current] = retry]
           /\ queue' = Append(queue, current)
           /\ pending' = pending + 1
           /\ UNCHANGED status
  BY <1>1, <1>2, <1>5, <1>6, <1>7, <1>9, Requeued, Zenon
<1> QED BY <1>1, <1>8, <1>9, Zenon DEF Requeue

(* A delivered transaction is settled, or retried when its row stays. *)
LEMMA SettleDeliveredStep ==
    ASSUME Ground, IInv, SettleDelivered
    PROVE  IInv'
<1>1. /\ pc = "delivered" /\ StoreDestination(DestOf[current])
      /\ UNCHANGED <<shutdown, queue, parked, memory, pending, destination, key, attempts,
                     arrived, staleSends, starts>>
  BY Zenon DEF SettleDelivered, process
<1>2. TypeOK /\ Held /\ Store /\ Line /\ Depth /\ PendingCounts /\ Circuit /\ Budget /\ Signed
  BY Zenon DEF IInv
<1>3. Hand /\ Sent /\ pc # "taken"
  BY <1>1, Zenon DEF Hand, Sent, Attempting
<1>4. /\ destRows' \in [Destinations -> Backoff]
      /\ \A e \in Destinations : destRows'[e].wait > 0 => destRows'[e].failures > 0
  <2>1. DestOf[current] \in Destinations
    BY <1>2, <1>3, HandIsStored, Zenon DEF Store
  <2> QED BY <1>1, <1>2, <2>1, DestinationStored, Zenon
<1>5. CASE /\ DeleteTransaction(current)
           /\ status' = [status EXCEPT ![current] = "delivered"]
           /\ Return
  BY <1>1, <1>3, <1>4, <1>5, RowDropped, Zenon
<1>6. CASE /\ StoreFails /\ pc' = "retry"
           /\ UNCHANGED <<rows, status, draining, current, age, open, callKey>>
  <2>1. TypeOK'
    <3>1. faults' \in Nat
      <4>1. faults \in Nat
        BY <1>2, Zenon DEF TypeOK
      <4> QED BY <1>6, <4>1 DEF StoreFails
    <3>2. pc' \in PcValues
      BY <1>6, Zenon DEF PcValues
    <3> QED BY <1>1, <1>2, <1>4, <1>6, <3>1, <3>2, Zenon DEF TypeOK
  <2>2. Hand' /\ Sent' /\ pc' # "taken" /\ pc' # "delivered" /\ pc # "down"
    BY <1>1, <1>6, Zenon DEF Hand, Sent, Attempting
  <2>3. Held' /\ Store' /\ Line' /\ Depth' /\ PendingCounts' /\ Budget'
    BY <1>1, <1>3, <1>6, <2>2, MovesOn, Zenon
  <2>4. Circuit'
    BY <1>1, <1>2, <1>4, <1>6, Zenon DEF Circuit, Attempting
  <2>5. Signed'
    BY <1>1, <1>2, <1>6, SignedStays, Zenon
  <2> QED BY <2>1, <2>3, <2>4, <2>5, Zenon DEF IInv
<1> QED BY <1>5, <1>6, Zenon DEF SettleDelivered

-----------------------------------------------------------------------------
(* Into the queue, and out of it.                                          *)

(* enqueue() of a new transaction: its row is written first. *)
LEMMA EnqueueAcceptsStep ==
    ASSUME Ground, IInv, NEW x \in Txns, EnqueueAccepts(x)
    PROVE  IInv'
<1> DEFINE retry == [retries |-> 0, wait |-> 0]
<1>1. /\ pc # "down" /\ status[x] = "none" /\ ~Full(queue)
      /\ rows' = [rows EXCEPT ![x] = retry] /\ faults' = faults
      /\ memory' = [memory EXCEPT ![x] = retry]
      /\ queue' = Append(queue, x)
      /\ pending' = pending + 1
      /\ status' = [status EXCEPT ![x] = "owned"]
      /\ UNCHANGED <<pc, draining, current, age, open, callKey, shutdown, parked, destination,
                     key, destRows, attempts, arrived, staleSends, starts>>
  BY Zenon DEF EnqueueAccepts, StoreTransaction, worker
<1>2. TypeOK /\ Held /\ Store /\ Line /\ Depth /\ PendingCounts /\ Circuit /\ Budget /\ Signed
  BY Zenon DEF IInv
<1>3. retry \in Retry /\ retry.retries = 0
  BY DEF Retry
<1> HIDE DEF retry
<1>4. /\ rows \in [Txns -> Retry \cup {NoRow}] /\ memory \in [Txns -> Retry]
      /\ status \in [Txns -> {"none", "refused", "owned", "delivered", "dropped"}]
      /\ queue \in Seq(Txns) /\ pending \in Nat
  BY <1>2, Zenon DEF TypeOK
<1>5. /\ rows' \in [Txns -> Retry \cup {NoRow}] /\ rows'[x] = retry
      /\ \A y \in Txns : y # x => rows'[y] = rows[y]
  BY <1>1, <1>3, <1>4
<1>6. /\ memory' \in [Txns -> Retry] /\ memory'[x] = retry
      /\ \A y \in Txns : y # x => memory'[y] = memory[y]
  BY <1>1, <1>3, <1>4
<1>7. /\ status' \in [Txns -> {"none", "refused", "owned", "delivered", "dropped"}]
      /\ status'[x] = "owned"
      /\ \A y \in Txns : y # x => status'[y] = status[y]
  BY <1>1, <1>4
<1>8. /\ x \notin Stored /\ x \notin InMemory /\ x # current
      /\ x \notin Range(queue) \cup Range(parked)
      /\ Range(queue) \cup Range(parked) \subseteq Txns
  <2>1. x \notin Stored
    BY <1>1, <1>2, Zenon DEF Store, StoreAgrees
  <2>2. x \notin InMemory
    BY <1>2, <2>1, MemoryIsStored, Zenon DEF Store
  <2> QED BY <1>2, <2>1, <2>2, InLine, TxnsAssumption, Zenon DEF InMemory
<1>9. /\ queue' \in Seq(Txns) /\ Len(queue') = Len(queue) + 1 /\ Range(queue') = Range(queue) \cup {x}
      /\ IsInjective(queue')
  <2> DEFINE longer == Append(queue, x)
  <2>1. IsInjective(queue) /\ x \notin Range(queue)
    BY <1>2, <1>8, Zenon DEF Line
  <2>2. /\ longer \in Seq(Txns) /\ Len(longer) = Len(queue) + 1 /\ Range(longer) = Range(queue) \cup {x}
        /\ IsInjective(longer)
    BY <1>4, <2>1, AppendNew
  <2> HIDE DEF longer
  <2>3. queue' = longer
    BY <1>1, Zenon DEF longer
  <2> QED BY <2>2, <2>3, Zenon
<1>10. TypeOK'
  <2>1. pending' \in Nat
    BY <1>1, <1>4
  <2> QED BY <1>1, <1>2, <1>5, <1>6, <1>7, <1>9, <2>1, Zenon DEF TypeOK
<1>11. Held'
  BY <1>1, <1>2, Zenon DEF Held, Hand
<1>12. Stored' = Stored \cup {x}
  BY <1>3, <1>5, RetryIsARow, Zenon DEF Stored
<1>13. Store'
  <2>1. Stored' = {y \in Txns : status'[y] = "owned"}
    BY <1>2, <1>7, <1>12, Zenon DEF Store, StoreAgrees
  <2>2. InMemory' = InMemory \cup {x}
    BY <1>1, <1>9, TxnsAssumption, Zenon DEF InMemory
  <2>3. \A y \in InMemory' : rows'[y] = memory'[y]
    BY <1>2, <1>5, <1>6, <1>8, <2>2, MemoryIsStored, Zenon DEF Store
  <2>4. IsFiniteSet(Stored')
    BY <1>2, <1>12, Zenon DEF Store, Ground
  <2> QED BY <2>1, <2>3, <2>4, Zenon DEF Store, StoreAgrees
<1>14. Line'
  <2>1. Range(queue') \cap Range(parked') = {} /\ current' \notin Range(queue') \cup Range(parked')
    BY <1>1, <1>2, <1>8, <1>9, Zenon DEF Line
  <2> QED BY <1>1, <1>2, <1>9, <2>1, Zenon DEF Line
<1>15. Depth'
  <2>1. MaxDepth \in Nat /\ Len(queue) \in Nat /\ (parked # <<>> => Len(queue) >= MaxDepth)
    BY <1>2, InLine, BoundsAssumption, Zenon DEF Depth, ParkedOnlyWhenFull
  <2>2. /\ MaxDepth # 0 => Len(queue') <= MaxDepth /\ Len(queue') <= MaxDepth + 1 /\ ~(Len(queue') > MaxDepth)
        /\ parked # <<>> => Len(queue') >= MaxDepth
    BY <1>1, <1>9, <2>1 DEF Full
  <2> QED BY <1>1, <2>2, Zenon DEF Depth, ParkedOnlyWhenFull, DepthBound
<1>16. PendingCounts'
  <2>1. Len(queue) \in Nat
    BY <1>2, InLine, Zenon
  <2> QED BY <1>1, <1>2, <1>4, <1>9, <2>1 DEF PendingCounts
<1>17. Circuit' /\ Signed'
  BY <1>1, <1>2, Zenon DEF Circuit, Signed
<1>18. Budget'
  <2>1. Restarts' = Restarts
    BY <1>1, Zenon DEF Restarts
  <2>2. attempts[x] = 0 /\ starts # 0
    BY <1>1, <1>2, Zenon DEF Budget
  <2>3. Restarts \in Nat /\ MaxRetries \in Nat \ {0}
    <3>1. starts \in Nat
      BY <1>2, Zenon DEF TypeOK
    <3> QED BY <3>1, BoundsAssumption DEF Restarts
  <2>4. /\ retry.retries < MaxRetries /\ attempts[x] <= retry.retries + Restarts
        /\ attempts[x] <= retry.retries + Restarts + 1
    BY <1>3, <2>2, <2>3
  <2>5. \A y \in Stored' : /\ rows'[y].retries < MaxRetries
                           /\ attempts'[y] <= rows'[y].retries + Restarts' + 1
    BY <1>1, <1>2, <1>5, <1>12, <2>1, <2>4, Zenon DEF Budget, Stored
  <2>6. \A y \in Range(queue') \cup Range(parked') : attempts'[y] <= rows'[y].retries + Restarts'
    BY <1>1, <1>2, <1>5, <1>8, <1>9, <2>1, <2>4, Zenon DEF Budget
  <2>7. /\ \A y \in Txns : status'[y] = "none" => attempts'[y] = 0
        /\ \A y \in Txns : attempts'[y] <= MaxRetries + Restarts'
    BY <1>1, <1>2, <1>7, <2>1, Zenon DEF Budget
  <2>8. Hand' /\ ~Sent' => attempts'[current'] <= rows'[current'].retries + Restarts'
    <3>1. Hand' /\ ~Sent' => Hand /\ ~Sent
      BY <1>1, Zenon DEF Hand, Sent
    <3>2. Hand => current \in Txns
      BY <1>2, HandIsStored, Zenon DEF Store
    <3> QED BY <1>1, <1>2, <1>5, <1>8, <2>1, <3>1, <3>2, Zenon DEF Budget
  <2> QED BY <1>1, <2>2, <2>5, <2>6, <2>7, <2>8, Zenon DEF Budget
<1> QED BY <1>10, <1>11, <1>13, <1>14, <1>15, <1>16, <1>17, <1>18, Zenon DEF IInv

(* top_up_replay_locked() moves the front of the overflow to the back of   *)
(* the queue, as far as there is room and no further.                      *)
LEMMA ToppedUp ==
    ASSUME NEW q \in Seq(Txns), parked \in Seq(Txns), pending \in Nat,
           IsInjective(q), IsInjective(parked), Range(q) \cap Range(parked) = {},
           TopUp(q)
    PROVE  /\ queue' \in Seq(Txns) /\ parked' \in Seq(Txns)
           /\ IsInjective(queue') /\ IsInjective(parked') /\ Range(queue') \cap Range(parked') = {}
           /\ Range(queue') \cup Range(parked') \subseteq Range(q) \cup Range(parked)
           /\ Len(queue') \in Nat /\ pending' \in Nat /\ pending' - Len(queue') = pending - Len(q)
           /\ parked' # <<>> => Len(queue') >= MaxDepth
           /\ MaxDepth # 0 /\ Len(q) <= MaxDepth => Len(queue') <= MaxDepth
<1> DEFINE l == Len(q)
           p == Len(parked)
           room == IF MaxDepth = 0 \/ MaxDepth - l >= p THEN p
                   ELSE IF MaxDepth > l THEN MaxDepth - l ELSE 0
           a == SubSeq(parked, 1, room)
           b == SubSeq(parked, room + 1, Len(parked))
<1>1. l \in Nat /\ p \in Nat /\ MaxDepth \in Nat
  BY BoundsAssumption
<1>2. queue' = q \o a /\ parked' = b /\ pending' = pending + room
  BY Zenon DEF TopUp
<1> HIDE DEF l, p
<1>3. room \in 0 .. p /\ room \in Nat
  BY <1>1
<1>4. /\ p - room > 0 => l + room >= MaxDepth
      /\ MaxDepth # 0 /\ l <= MaxDepth => l + room <= MaxDepth
  BY <1>1
<1> HIDE DEF room
<1>5. /\ a \in Seq(Txns) /\ Len(a) = room /\ IsInjective(a)
      /\ b \in Seq(Txns) /\ Len(b) = p - room /\ IsInjective(b)
      /\ Range(a) \cap Range(b) = {} /\ Range(a) \cup Range(b) \subseteq Range(parked)
  <2>1. room \in 0 .. Len(parked)
    BY <1>3 DEF p
  <2> QED BY <2>1, CutInTwo, ZenonT(30) DEF p
<1> HIDE DEF a, b
<1>6. Range(q) \cap Range(a) = {}
  BY <1>5, Zenon
<1>7. /\ q \o a \in Seq(Txns) /\ Len(q \o a) = l + room /\ Range(q \o a) = Range(q) \cup Range(a)
      /\ IsInjective(q \o a)
  <2>1. a \in Seq(Txns)
    BY <1>5, Zenon
  <2>2. /\ q \o a \in Seq(Txns) /\ Len(q \o a) = Len(q) + Len(a)
        /\ Range(q \o a) = Range(q) \cup Range(a)
        /\ IsInjective(q) /\ IsInjective(a) /\ Range(q) \cap Range(a) = {} => IsInjective(q \o a)
    BY <2>1, OneBehindTheOther, Zenon
  <2>3. IsInjective(q \o a)
    BY <1>5, <1>6, <2>2, Zenon
  <2> QED BY <1>5, <2>2, <2>3, Zenon DEF l
<1>8. queue' \in Seq(Txns) /\ parked' \in Seq(Txns) /\ IsInjective(queue') /\ IsInjective(parked')
  BY <1>2, <1>5, <1>7, Zenon
<1>9. /\ Range(queue') \cap Range(parked') = {}
      /\ Range(queue') \cup Range(parked') \subseteq Range(q) \cup Range(parked)
  BY <1>2, <1>5, <1>7, Zenon
<1>10. Len(queue') = l + room /\ Len(parked') = p - room
  BY <1>2, <1>5, <1>7, Zenon
<1>11. Len(queue') \in Nat /\ pending' \in Nat /\ pending' - Len(queue') = pending - l
  BY <1>1, <1>2, <1>3, <1>10
<1>12. parked' # <<>> => Len(queue') >= MaxDepth
  <2>1. parked' # <<>> => Len(parked') > 0
    BY <1>8
  <2> QED BY <1>4, <1>10, <2>1, Zenon
<1>13. MaxDepth # 0 /\ l <= MaxDepth => Len(queue') <= MaxDepth
  BY <1>4, <1>10, Zenon
<1> QED BY <1>8, <1>9, <1>11, <1>12, <1>13, Zenon DEF l

(* take_next() takes one transaction, and what is left keeps its order. *)
LEMMA TakeNextStep ==
    ASSUME IInv, TakeNext
    PROVE  IInv'
<1>1. /\ pc = "take" /\ pc' = "taken"
      /\ UNCHANGED <<draining, age, open, callKey, shutdown, memory, destination, key, rows,
                     destRows, faults, status, attempts, arrived, staleSends, starts>>
  BY Zenon DEF TakeNext, durable, history
<1>2. PICK i \in Ready : current' = queue[i] /\ TopUp(Erase(queue, i))
  BY Zenon DEF TakeNext
<1>3. TypeOK /\ Held /\ Store /\ Line /\ Depth /\ PendingCounts /\ Circuit /\ Budget /\ Signed
  BY Zenon DEF IInv
<1>4. /\ queue \in Seq(Txns) /\ parked \in Seq(Txns) /\ pending \in Nat
      /\ IsInjective(queue) /\ IsInjective(parked) /\ Range(queue) \cap Range(parked) = {}
  BY <1>3, Zenon DEF TypeOK, Line
<1>5. i \in DOMAIN queue /\ queue[i] \in Range(queue)
  BY <1>2, Zenon DEF Ready, Range
<1> DEFINE q == Erase(queue, i)
<1>6. /\ q \in Seq(Txns) /\ Len(q) = Len(queue) - 1 /\ IsInjective(q)
      /\ Range(q) \subseteq Range(queue) \ {queue[i]}
  BY <1>4, <1>5, TakenOut
<1> HIDE DEF q
<1>7. Range(q) \cap Range(parked) = {} /\ TopUp(q)
  BY <1>2, <1>4, <1>6, Zenon DEF q
<1>8. /\ queue' \in Seq(Txns) /\ parked' \in Seq(Txns)
      /\ IsInjective(queue') /\ IsInjective(parked') /\ Range(queue') \cap Range(parked') = {}
      /\ Range(queue') \cup Range(parked') \subseteq Range(q) \cup Range(parked)
      /\ Len(queue') \in Nat /\ pending' \in Nat /\ pending' - Len(queue') = pending - Len(q)
      /\ parked' # <<>> => Len(queue') >= MaxDepth
      /\ MaxDepth # 0 /\ Len(q) <= MaxDepth => Len(queue') <= MaxDepth
  BY <1>4, <1>6, <1>7, ToppedUp, Zenon
<1>9. /\ current' \in Range(queue) /\ current' \in Txns /\ current' # NoTxn
      /\ current' \notin Range(queue') \cup Range(parked')
      /\ Range(queue') \cup Range(parked') \subseteq Range(queue) \cup Range(parked)
  BY <1>2, <1>3, <1>4, <1>5, <1>6, <1>8, InLine, TxnsAssumption, Zenon
<1>10. TypeOK'
  <2>1. pc' \in PcValues
    BY <1>1, Zenon DEF PcValues
  <2> QED BY <1>1, <1>3, <1>8, <1>9, <2>1, Zenon DEF TypeOK
<1>11. Hand' /\ ~Sent'
  BY <1>1, Zenon DEF Hand, Sent
<1>12. Held'
  BY <1>1, <1>9, <1>11, Zenon DEF Held
<1>13. Store'
  <2>1. InMemory' \subseteq InMemory /\ Stored' = Stored
    BY <1>1, <1>9, Zenon DEF InMemory, Stored
  <2> QED BY <1>1, <1>3, <2>1, Zenon DEF Store, StoreAgrees
<1>14. Line'
  BY <1>8, <1>9, Zenon DEF Line
<1>15. Depth'
  <2>1. /\ MaxDepth \in Nat /\ Len(queue) \in Nat
        /\ MaxDepth # 0 => Len(queue) <= MaxDepth + 1
    BY <1>3, InLine, BoundsAssumption, Zenon DEF Depth, DepthBound
  <2>2. MaxDepth # 0 => Len(q) <= MaxDepth
    BY <1>6, <2>1
  <2>3. MaxDepth # 0 => Len(queue') <= MaxDepth
    BY <1>8, <2>2, Zenon
  <2>4. MaxDepth # 0 => Len(queue') <= MaxDepth + 1 /\ ~(Len(queue') > MaxDepth)
    BY <1>8, <2>1, <2>3
  <2> QED BY <1>8, <2>3, <2>4, Zenon DEF Depth, ParkedOnlyWhenFull, DepthBound
<1>16. PendingCounts'
  <2>1. Len(queue) \in Nat /\ pending = Len(queue) + 0 /\ (PendingCounts' <=> pending' = Len(queue') + 1)
    BY <1>1, <1>3, InLine, Zenon DEF PendingCounts
  <2> QED BY <1>6, <1>8, <2>1
<1>17. Circuit'
  <2>1. ~open
    BY <1>1, <1>3, Zenon DEF Circuit, Attempting
  <2> QED BY <1>1, <1>3, <2>1, Zenon DEF Circuit
<1>18. Budget'
  <2>1. Restarts' = Restarts /\ Stored' = Stored
    BY <1>1, Zenon DEF Restarts, Stored
  <2>2. starts' # 0
    BY <1>1, <1>3, Zenon DEF Budget
  <2> QED BY <1>1, <1>3, <1>9, <2>1, <2>2, Zenon DEF Budget
<1>19. Signed'
  BY <1>1, <1>3, SignedStays, Zenon
<1> QED BY <1>10, <1>12, <1>13, <1>14, <1>15, <1>16, <1>17, <1>18, <1>19, Zenon DEF IInv

-----------------------------------------------------------------------------
(* The process goes down, and comes up again.                              *)

(* Nothing is queued in an empty queue. *)
LEMMA NothingQueued ==
    /\ <<>> \in Seq(Txns) /\ Len(<<>>) = 0 /\ Range(<<>>) = {} /\ IsInjective(<<>>)
  BY DEF Range, IsInjective

(* Memory is lost; the rows, and what became of the transactions, are not. *)
LEMMA LoseMemoryStep ==
    ASSUME IInv, LoseMemory
    PROVE  IInv'
<1>1. /\ pc' = "down" /\ shutdown' = FALSE /\ draining' = FALSE
      /\ queue' = <<>> /\ parked' = <<>> /\ current' = NoTxn
      /\ memory' = [x \in Txns |-> [retries |-> 0, wait |-> 0]]
      /\ pending' = 0 /\ age' = 0 /\ open' = FALSE
      /\ destination' = [d \in Destinations |-> Fresh]
      /\ callKey' = 0
      /\ UNCHANGED <<key, rows, destRows, faults, status, attempts, arrived, staleSends, starts>>
  BY Zenon DEF LoseMemory, durable, history
<1>2. TypeOK /\ Store /\ Circuit /\ Budget /\ Signed
  BY Zenon DEF IInv
<1>3. Fresh \in Backoff /\ ~(Fresh.wait > 0) /\ [retries |-> 0, wait |-> 0] \in Retry
  BY DEF Fresh, Backoff, Retry
<1>4. /\ memory' \in [Txns -> Retry] /\ destination' \in [Destinations -> Backoff]
      /\ \A d \in Destinations : destination'[d] = Fresh
  BY <1>1, <1>3, Zenon
<1>5. TypeOK'
  <2>1. pc' \in PcValues /\ pending' \in Nat /\ age' \in Nat /\ callKey' \in Nat
    BY <1>1 DEF PcValues
  <2>2. queue' \in Seq(Txns) /\ parked' \in Seq(Txns) /\ current' \in Txns \cup {NoTxn}
    BY <1>1, NothingQueued, Zenon
  <2> QED BY <1>1, <1>2, <1>4, <2>1, <2>2, Zenon DEF TypeOK
<1>6. ~Hand' /\ Held'
  BY <1>1, Zenon DEF Held, Hand, Attempting
<1>7. Store'
  <2>1. InMemory' = {} /\ Stored' = Stored
    BY <1>1, NothingQueued, Zenon DEF InMemory, Stored
  <2> QED BY <1>1, <1>2, <2>1, Zenon DEF Store, StoreAgrees
<1>8. Line'
  BY <1>1, NothingQueued, Zenon DEF Line
<1>9. Depth' /\ PendingCounts'
  <2>1. Len(queue') = 0 /\ MaxDepth \in Nat
    BY <1>1, NothingQueued, BoundsAssumption, Zenon
  <2>2. Len(queue') <= MaxDepth + 1 /\ ~(Len(queue') > MaxDepth)
    BY <2>1
  <2>3. Depth'
    BY <1>1, <1>6, <2>2, Zenon DEF Depth, ParkedOnlyWhenFull, DepthBound
  <2>4. PendingCounts'
    BY <1>1, <2>1 DEF PendingCounts
  <2> QED BY <2>3, <2>4, Zenon
<1>10. Circuit'
  BY <1>1, <1>2, <1>3, <1>4, Zenon DEF Circuit
<1>11. Budget'
  <2>1. Restarts' = Restarts /\ Stored' = Stored
    BY <1>1, Zenon DEF Restarts, Stored
  <2> QED BY <1>1, <1>2, <1>6, <2>1, NothingQueued, Zenon DEF Budget
<1>12. Signed'
  BY <1>1, <1>2, SignedStays, Zenon
<1> QED BY <1>5, <1>6, <1>7, <1>8, <1>9, <1>10, <1>11, <1>12, Zenon DEF IInv

(* replay_pending() splits the rows between the queue and the overflow. *)
LEMMA Replayed ==
    ASSUME Ground, IsFiniteSet(Stored), Start
    PROVE  /\ queue' \in Seq(Txns) /\ parked' \in Seq(Txns)
           /\ IsInjective(queue') /\ IsInjective(parked') /\ Range(queue') \cap Range(parked') = {}
           /\ Range(queue') \cup Range(parked') \subseteq Stored
           /\ pending' \in Nat /\ pending' = Len(queue')
           /\ parked' # <<>> => Len(queue') >= MaxDepth
           /\ MaxDepth # 0 => Len(queue') <= MaxDepth
<1>1. PICK order \in Injection(1 .. Cardinality(Stored), Stored) :
         LET fits == IF MaxDepth = 0 \/ Len(order) <= MaxDepth THEN Len(order) ELSE MaxDepth
         IN  /\ queue' = SubSeq(order, 1, fits)
             /\ parked' = SubSeq(order, fits + 1, Len(order))
             /\ pending' = fits
  BY Zenon DEF Start
<1> DEFINE n == Len(order)
           fits == IF MaxDepth = 0 \/ n <= MaxDepth THEN n ELSE MaxDepth
<1>2. queue' = SubSeq(order, 1, fits) /\ parked' = SubSeq(order, fits + 1, Len(order)) /\ pending' = fits
  BY <1>1, Zenon
<1>3. order \in Seq(Txns) /\ IsInjective(order) /\ Range(order) \subseteq Stored
  <2>1. Stored \subseteq Txns
    BY Zenon DEF Stored
  <2> QED BY <1>1, <2>1, EachRowOnce, Zenon
<1>4. n \in Nat /\ MaxDepth \in Nat
  BY <1>3, BoundsAssumption
<1> HIDE DEF n
<1>5. /\ fits \in 0 .. n /\ fits \in Nat
      /\ n - fits > 0 => fits >= MaxDepth
      /\ MaxDepth # 0 => fits <= MaxDepth
  BY <1>4
<1> HIDE DEF fits
<1>6. fits \in 0 .. Len(order)
  BY <1>5 DEF n
<1>7. /\ queue' \in Seq(Txns) /\ Len(queue') = fits /\ IsInjective(queue')
      /\ parked' \in Seq(Txns) /\ Len(parked') = n - fits /\ IsInjective(parked')
      /\ Range(queue') \cap Range(parked') = {}
      /\ Range(queue') \cup Range(parked') \subseteq Range(order)
  BY <1>2, <1>3, <1>6, CutInTwo, ZenonT(30) DEF n
<1>8. parked' # <<>> => Len(parked') > 0
  BY <1>7
<1> QED BY <1>2, <1>3, <1>5, <1>7, <1>8, Zenon

(* A start may hide one attempt of each transaction: the one whose count   *)
(* was not in its row.                                                     *)
LEMMA StartStep ==
    ASSUME Ground, IInv, Start
    PROVE  IInv'
<1>1. /\ pc = "down" /\ pc' = "check" /\ starts' = starts + 1 /\ destination' = destRows
      /\ memory' = [x \in Txns |-> IF x \in Stored THEN rows[x] ELSE memory[x]]
      /\ UNCHANGED <<shutdown, draining, current, age, open, callKey, key, rows, destRows, faults,
                     status, attempts, arrived, staleSends>>
  BY Zenon DEF Start, durable, history
<1>2. TypeOK /\ Held /\ Store /\ Line /\ Depth /\ PendingCounts /\ Circuit /\ Budget /\ Signed
  BY Zenon DEF IInv
<1>3. /\ queue' \in Seq(Txns) /\ parked' \in Seq(Txns)
      /\ IsInjective(queue') /\ IsInjective(parked') /\ Range(queue') \cap Range(parked') = {}
      /\ Range(queue') \cup Range(parked') \subseteq Stored
      /\ pending' \in Nat /\ pending' = Len(queue')
      /\ parked' # <<>> => Len(queue') >= MaxDepth
      /\ MaxDepth # 0 => Len(queue') <= MaxDepth
  BY <1>2, Replayed, Zenon DEF Store
<1>4. /\ rows \in [Txns -> Retry \cup {NoRow}] /\ memory \in [Txns -> Retry] /\ starts \in Nat
      /\ attempts \in [Txns -> Nat]
  BY <1>2, Zenon DEF TypeOK
<1>5. Stored \subseteq Txns /\ \A x \in Stored : rows[x] \in Retry
  BY <1>4, Zenon DEF Stored
<1>6. memory' \in [Txns -> Retry] /\ \A x \in Stored : memory'[x] = rows[x]
  BY <1>1, <1>4, <1>5, Zenon
<1>7. TypeOK'
  <2>1. pc' \in PcValues /\ starts' \in Nat
    BY <1>1, <1>4 DEF PcValues
  <2> QED BY <1>1, <1>2, <1>3, <1>6, <2>1, Zenon DEF TypeOK
<1>8. ~Hand /\ ~Hand' /\ current = NoTxn
  BY <1>1, <1>2, Zenon DEF Hand, Held, Attempting
<1>9. Held'
  BY <1>1, <1>8, Zenon DEF Held
<1>10. Store'
  <2>1. InMemory' = Range(queue') \cup Range(parked') /\ Stored' = Stored
    BY <1>1, <1>8, Zenon DEF InMemory, Stored
  <2> QED BY <1>1, <1>2, <1>3, <1>6, <2>1, Zenon DEF Store, StoreAgrees
<1>11. Line'
  BY <1>1, <1>3, <1>5, <1>8, TxnsAssumption, Zenon DEF Line
<1>12. Depth' /\ PendingCounts'
  <2>1. Len(queue') \in Nat /\ MaxDepth \in Nat
    BY <1>3, BoundsAssumption, Zenon
  <2>2. MaxDepth # 0 => Len(queue') <= MaxDepth + 1 /\ ~(Len(queue') > MaxDepth)
    BY <1>3, <2>1
  <2>3. Depth'
    BY <1>3, <1>8, <2>2, Zenon DEF Depth, ParkedOnlyWhenFull, DepthBound
  <2>4. PendingCounts'
    BY <1>1, <1>3, <2>1 DEF PendingCounts
  <2> QED BY <2>3, <2>4, Zenon
<1>13. Circuit'
  <2>1. ~open
    BY <1>1, <1>2, Zenon DEF Circuit, Attempting
  <2> QED BY <1>1, <1>2, <2>1, Zenon DEF Circuit
<1>14. Budget'
  <2>1. Restarts \in Nat /\ Restarts' \in Nat /\ starts' # 0
    BY <1>1, <1>4 DEF Restarts
  <2>2. MaxRetries \in Nat /\ \A x \in Txns : attempts[x] \in Nat
    BY <1>4, BoundsAssumption
  <2>3. \A x \in Stored : rows[x].retries \in Nat
    BY <1>5, RetryIsARow, Zenon
  <2>4. \A x \in Stored : attempts[x] <= rows[x].retries + Restarts'
    <3>1. CASE starts = 0
      <4>1. \A x \in Stored : attempts[x] = 0
        BY <1>2, <1>5, <3>1, Zenon DEF Budget
      <4> QED BY <2>1, <2>3, <4>1
    <3>2. CASE starts # 0
      <4>1. Restarts' = Restarts + 1
        BY <1>1, <1>4, <3>2 DEF Restarts
      <4>2. \A x \in Stored : attempts[x] <= rows[x].retries + Restarts + 1
        BY <1>2, Zenon DEF Budget
      <4> QED BY <1>5, <2>1, <2>2, <2>3, <4>1, <4>2
    <3> QED BY <3>1, <3>2, Zenon
  <2>5. \A x \in Stored : attempts[x] <= rows[x].retries + Restarts' + 1
    BY <1>5, <2>1, <2>2, <2>3, <2>4
  <2>6. \A x \in Txns : attempts[x] <= MaxRetries + Restarts'
    <3>1. Restarts' >= Restarts
      BY <1>1, <1>4 DEF Restarts
    <3>2. \A x \in Txns : attempts[x] <= MaxRetries + Restarts
      BY <1>2, Zenon DEF Budget
    <3> QED BY <2>1, <2>2, <3>1, <3>2
  <2>7. Stored' = Stored
    BY <1>1, Zenon DEF Stored
  <2>8. \A x \in Stored : rows[x].retries < MaxRetries
    BY <1>2, Zenon DEF Budget
  <2>9. \A x \in Txns : status[x] = "none" => attempts[x] = 0
    BY <1>2, Zenon DEF Budget
  <2> QED BY <1>1, <1>3, <1>8, <2>1, <2>4, <2>5, <2>6, <2>7, <2>8, <2>9, Zenon DEF Budget
<1>15. Signed'
  BY <1>1, <1>2, SignedStays, Zenon
<1> QED BY <1>7, <1>9, <1>10, <1>11, <1>12, <1>13, <1>14, <1>15, Zenon DEF IInv


-----------------------------------------------------------------------------
(* The clock.                                                              *)

(* A tick brings a deadline nearer and leaves the rest of a row alone. *)
LEMMA NearerKeeps ==
    /\ \A r \in Retry : Nearer(r) \in Retry /\ Nearer(r).retries = r.retries
    /\ Nearer(NoRow) = NoRow
    /\ \A b \in Backoff : /\ Nearer(b) \in Backoff /\ Nearer(b).failures = b.failures
                          /\ Nearer(b).wait > 0 => b.wait > 0
  BY DEF Nearer, Retry, NoRow, Backoff

(* No row, count or place in the queue depends on how far ahead it lies. *)
LEMMA TickStep ==
    ASSUME IInv, Tick
    PROVE  IInv'
<1>1. /\ age' = IF pc \in Attempting THEN age + 1 ELSE age
      /\ memory' = [x \in Txns |-> Nearer(memory[x])]
      /\ rows' = [x \in Txns |-> Nearer(rows[x])]
      /\ destination' = [d \in Destinations |-> Nearer(destination[d])]
      /\ destRows' = [d \in Destinations |-> Nearer(destRows[d])]
      /\ UNCHANGED <<pc, draining, current, open, callKey, shutdown, queue, parked,
                     pending, key, faults, status, attempts, arrived, staleSends, starts>>
  BY Zenon DEF Tick, history
<1>2. TypeOK /\ Held /\ Store /\ Line /\ Depth /\ PendingCounts /\ Circuit /\ Budget /\ Signed
  BY Zenon DEF IInv
<1>3. /\ rows \in [Txns -> Retry \cup {NoRow}] /\ memory \in [Txns -> Retry] /\ age \in Nat
      /\ destination \in [Destinations -> Backoff] /\ destRows \in [Destinations -> Backoff]
      /\ queue \in Seq(Txns) /\ parked \in Seq(Txns)
  BY <1>2, Zenon DEF TypeOK
<1>4. /\ memory' \in [Txns -> Retry]
      /\ \A x \in Txns : memory'[x] = Nearer(memory[x]) /\ memory'[x].retries = memory[x].retries
  BY <1>1, <1>3, NearerKeeps, Zenon
<1>5. /\ rows' \in [Txns -> Retry \cup {NoRow}]
      /\ \A x \in Txns : /\ rows'[x] = Nearer(rows[x]) /\ rows'[x].retries = rows[x].retries
                         /\ rows'[x] = NoRow <=> rows[x] = NoRow
  <2>1. \A x \in Txns : rows'[x] = Nearer(rows[x]) /\ (rows[x] \in Retry \/ rows[x] = NoRow)
    BY <1>1, <1>3, Zenon
  <2>2. \A x \in Txns : rows[x] \in Retry => rows'[x] # NoRow
    BY <2>1, NearerKeeps, RetryIsARow, Zenon
  <2>3. \A x \in Txns : rows'[x].retries = rows[x].retries /\ rows'[x] \in Retry \cup {NoRow}
    BY <2>1, NearerKeeps, Zenon
  <2>4. \A x \in Txns : rows[x] = NoRow => rows'[x] = NoRow
    BY <2>1, NearerKeeps, Zenon
  <2>5. rows' \in [Txns -> Retry \cup {NoRow}]
    BY <1>1, <2>1, <2>3, Zenon
  <2>6. ASSUME NEW x \in Txns
        PROVE  rows'[x] = NoRow <=> rows[x] = NoRow
    BY <2>1, <2>2, <2>4, Zenon
  <2> QED BY <2>1, <2>3, <2>5, <2>6, Zenon
<1>6. /\ destination' \in [Destinations -> Backoff] /\ destRows' \in [Destinations -> Backoff]
      /\ \A d \in Destinations :
            /\ destination'[d].failures = destination[d].failures
            /\ destination'[d].wait > 0 => destination[d].wait > 0
            /\ destRows'[d].failures = destRows[d].failures
            /\ destRows'[d].wait > 0 => destRows[d].wait > 0
  BY <1>1, <1>3, NearerKeeps, Zenon
<1>7. TypeOK'
  <2>1. age' \in Nat
    BY <1>1, <1>3
  <2> QED BY <1>1, <1>2, <1>4, <1>5, <1>6, <2>1, Zenon DEF TypeOK
<1>8. (Hand' <=> Hand) /\ (Sent' <=> Sent) /\ Restarts' = Restarts
  BY <1>1, Zenon DEF Hand, Sent, Restarts
<1>9. Held'
  BY <1>1, <1>2, <1>8, Zenon DEF Held
<1>10. Stored' = Stored /\ InMemory' = InMemory
  BY <1>1, <1>5, Zenon DEF Stored, InMemory
<1>11. InMemory \subseteq Txns /\ Range(queue) \cup Range(parked) \subseteq InMemory
  BY <1>2, MemoryIsStored, Zenon DEF Store, InMemory
<1>12. Store'
  BY <1>1, <1>2, <1>4, <1>5, <1>10, <1>11, Zenon DEF Store, StoreAgrees
<1>13. Line'
  BY <1>1, <1>2, LineStays, Zenon
<1>14. Depth'
  <2>1. ASSUME Len(queue) > MaxDepth
        PROVE  queue[Len(queue)] \in Txns
    BY <1>3, <2>1, BoundsAssumption
  <2>2. \A x \in Txns : DestOf[x] \in Destinations
    BY TxnsAssumption, Zenon
  <2>3. ASSUME MaxDepth # 0, Len(queue) > MaxDepth,
               NEW x, x = queue[Len(queue)],
               memory[x].retries > 0 \/ destination[DestOf[x]].failures > 0
        PROVE  memory'[x].retries > 0 \/ destination'[DestOf[x]].failures > 0
    BY <1>4, <1>6, <2>1, <2>2, <2>3, Zenon
  <2>4. DepthBound'
    BY <1>1, <1>2, <2>3, Zenon DEF Depth, DepthBound
  <2> QED BY <1>1, <1>2, <1>8, <2>4, Zenon DEF Depth, ParkedOnlyWhenFull
<1>15. PendingCounts'
  BY <1>1, <1>2, Zenon DEF PendingCounts
<1>16. Circuit'
  <2>1. open => DestOf[current] \in Destinations
    BY <1>2, HandIsStored, Zenon DEF Circuit, Hand, Store
  <2> QED BY <1>1, <1>2, <1>6, <2>1, Zenon DEF Circuit
<1>17. Budget'
  <2>1. Hand => current \in Txns
    BY <1>2, HandIsStored, Zenon DEF Store
  <2>2. Stored \subseteq Txns
    BY Zenon DEF Stored
  <2> QED BY <1>1, <1>2, <1>5, <1>8, <1>10, <1>11, <2>1, <2>2, Zenon DEF Budget
<1>18. Signed'
  BY <1>1, <1>2, SignedStays, Zenon
<1> QED BY <1>7, <1>9, <1>12, <1>13, <1>14, <1>15, <1>16, <1>17, <1>18, Zenon DEF IInv

-----------------------------------------------------------------------------
(* The invariant, and the theorems.                                        *)

(* It holds before the first start: nothing is stored, queued or sent, *)
LEMMA InitIInv ==
    ASSUME Ground, Init
    PROVE  IInv
<1>1. /\ pc = "down" /\ shutdown = FALSE /\ draining = FALSE
      /\ queue = <<>> /\ parked = <<>> /\ current = NoTxn
      /\ memory = [x \in Txns |-> [retries |-> 0, wait |-> 0]]
      /\ pending = 0 /\ age = 0 /\ open = FALSE
      /\ destination = [d \in Destinations |-> Fresh]
      /\ key = 0 /\ callKey = 0
      /\ rows = [x \in Txns |-> NoRow]
      /\ destRows = [d \in Destinations |-> Fresh]
      /\ status = [x \in Txns |-> "none"]
      /\ attempts = [x \in Txns |-> 0] /\ arrived = {} /\ staleSends = 0
      /\ starts = 0 /\ faults = 0
  BY Zenon DEF Init
<1>2. Fresh \in Backoff /\ ~(Fresh.wait > 0) /\ [retries |-> 0, wait |-> 0] \in Retry
  BY DEF Fresh, Backoff, Retry
<1>3. TypeOK
  <2>1. /\ pc \in PcValues /\ pending \in Nat /\ age \in Nat /\ callKey \in Nat /\ key \in Nat
        /\ staleSends \in Nat /\ starts \in Nat /\ faults \in Nat /\ attempts \in [Txns -> Nat]
    BY <1>1 DEF PcValues
  <2>2. queue \in Seq(Txns) /\ parked \in Seq(Txns)
    BY <1>1, NothingQueued, Zenon
  <2>3. shutdown \in BOOLEAN /\ draining \in BOOLEAN /\ open \in BOOLEAN
    BY <1>1, Zenon
  <2>4. /\ current \in Txns \cup {NoTxn} /\ memory \in [Txns -> Retry]
        /\ destination \in [Destinations -> Backoff] /\ destRows \in [Destinations -> Backoff]
        /\ rows \in [Txns -> Retry \cup {NoRow}]
        /\ status \in [Txns -> {"none", "refused", "owned", "delivered", "dropped"}]
        /\ arrived \in SUBSET Txns
    BY <1>1, <1>2, Zenon
  <2> QED BY <2>1, <2>2, <2>3, <2>4, Zenon DEF TypeOK
<1>4. ~Hand /\ Held
  BY <1>1, Zenon DEF Held, Hand, Attempting
<1>5. Stored = {} /\ InMemory = {}
  BY <1>1, NothingQueued, Zenon DEF Stored, InMemory
<1>6. Store
  <2>1. {x \in Txns : status[x] = "owned"} = {}
    BY <1>1
  <2> QED BY <1>5, <2>1, Zenon DEF Store, StoreAgrees, Ground
<1>7. Line
  BY <1>1, NothingQueued, Zenon DEF Line
<1>8. Depth /\ PendingCounts
  <2>1. Len(queue) = 0 /\ MaxDepth \in Nat
    BY <1>1, NothingQueued, BoundsAssumption, Zenon
  <2>2. Len(queue) <= MaxDepth + 1 /\ ~(Len(queue) > MaxDepth)
    BY <2>1
  <2>3. Depth
    BY <1>1, <1>4, <2>2, Zenon DEF Depth, ParkedOnlyWhenFull, DepthBound
  <2>4. PendingCounts
    BY <1>1, <2>1 DEF PendingCounts
  <2> QED BY <2>3, <2>4, Zenon
<1>9. Circuit
  BY <1>1, <1>2, Zenon DEF Circuit
<1>10. Budget
  <2>1. Restarts = 0 /\ MaxRetries \in Nat
    BY <1>1, BoundsAssumption DEF Restarts
  <2>2. \A x \in Txns : attempts[x] = 0 /\ attempts[x] <= MaxRetries + Restarts
    BY <1>1, <2>1
  <2> QED BY <1>1, <1>4, <1>5, <2>2, NothingQueued, Zenon DEF Budget
<1>11. Signed
  BY <1>1 DEF Signed
<1> QED BY <1>3, <1>4, <1>6, <1>7, <1>8, <1>9, <1>10, <1>11, Zenon DEF IInv

(* and every step keeps it. *)
LEMMA NextIInv ==
    ASSUME Ground, IInv, [Next]_vars
    PROVE  IInv'
<1>1. CASE Work
  <2>1. CASE Check \/ TakeNothing \/ WaitReturns \/ WaitTimesOut
    BY <2>1, LoopSteps, Zenon
  <2>2. CASE TakeNext
    BY <2>2, TakeNextStep, Zenon
  <2>3. CASE BeginAttempt
    BY <2>3, BeginAttemptStep, Zenon
  <2>4. CASE Resolve
    BY <2>4, ResolveStep, Zenon
  <2>5. CASE CopySigningIdentity
    BY <2>5, CopySigningIdentityStep, Zenon
  <2>6. CASE CircuitOpen
    BY <2>6, CircuitOpenStep, Zenon
  <2>7. CASE Send
    BY <2>7, SendStep, Zenon
  <2>8. CASE SettleDelivered
    BY <2>8, SettleDeliveredStep, Zenon
  <2>9. CASE RecordFailure
    BY <2>9, RecordFailureStep, Zenon
  <2>10. CASE ReEnqueueWithBackoff
    BY <2>10, ReEnqueueWithBackoffStep, Zenon
  <2>11. CASE Park
    BY <2>11, ParkStep, Zenon
  <2> QED BY <1>1, <2>1, <2>2, <2>3, <2>4, <2>5, <2>6, <2>7, <2>8, <2>9, <2>10, <2>11, Zenon DEF Work
<1>2. CASE Environment
  <2>1. CASE \E x \in Txns : EnqueueAccepts(x) \/ EnqueueRefuses(x)
    BY <2>1, EnqueueAcceptsStep, EnqueueRefusesStep, Zenon
  <2>2. CASE UpdateSigningIdentity
    BY <2>2, UpdateSigningIdentityStep, Zenon
  <2>3. CASE RequestShutdown
    BY <2>3, RequestShutdownStep, Zenon
  <2>4. CASE Crash
    BY <2>4, LoseMemoryStep, Zenon DEF Crash
  <2> QED BY <1>2, <2>1, <2>2, <2>3, <2>4, Zenon DEF Environment
<1>3. CASE Start
  BY <1>3, StartStep, Zenon
<1>4. CASE Exit
  BY <1>4, LoseMemoryStep, Zenon DEF Exit
<1>5. CASE Tick
  BY <1>5, TickStep, Zenon
<1>6. CASE UNCHANGED vars
  <2>1. UNCHANGED <<pc, shutdown, draining, queue, parked, current, memory, pending, age, open,
                    destination, key, callKey, rows, destRows, status, attempts, arrived,
                    staleSends, starts, faults>>
    BY <1>6, Zenon DEF vars
  <2>2. TypeOK'
    BY <2>1, Zenon DEF IInv, TypeOK
  <2>3. Held' /\ Line'
    BY <2>1, Zenon DEF IInv, Held, Line, Hand
  <2>4. Store'
    BY <2>1, Zenon DEF IInv, Store, StoreAgrees, Stored, InMemory
  <2>5. Depth' /\ PendingCounts'
    BY <2>1, Zenon DEF IInv, Depth, ParkedOnlyWhenFull, DepthBound, Hand, PendingCounts
  <2>6. Circuit' /\ Signed'
    BY <2>1, Zenon DEF IInv, Circuit, Signed
  <2>7. Budget'
    BY <2>1, Zenon DEF IInv, Budget, Restarts, Stored, Hand, Sent
  <2> QED BY <2>2, <2>3, <2>4, <2>5, <2>6, <2>7, Zenon DEF IInv
<1> QED BY <1>1, <1>2, <1>3, <1>4, <1>5, <1>6, Zenon DEF Next

(* What the queue needs follows from it. *)
LEMMA IInvSound == IInv => QueueIsSound
<1> SUFFICES ASSUME IInv PROVE QueueIsSound
  OBVIOUS
<1>1. TypeOK /\ Store /\ Line /\ Depth /\ PendingCounts /\ Budget /\ Signed
  BY Zenon DEF IInv
<1>2. queue \in Seq(Txns) /\ parked \in Seq(Txns) /\ staleSends \in Nat /\ key \in Nat
  BY <1>1, Zenon DEF TypeOK
<1>3. NoDuplicates
  <2>1. IsInjective(queue \o parked)
    BY <1>1, <1>2, OneBehindTheOther, Zenon DEF Line
  <2> QED BY <1>1, <2>1, Zenon DEF NoDuplicates, Line
<1>4. AttemptsBounded
  BY <1>1, Zenon DEF Budget, AttemptsBounded, Restarts
<1>5. OneStaleSendPerRotation
  BY <1>1, <1>2 DEF Signed, OneStaleSendPerRotation
<1> QED BY <1>1, <1>3, <1>4, <1>5, Zenon DEF QueueIsSound, QueueBounded, Store, Depth

-----------------------------------------------------------------------------
(* The refinement.                                                         *)

(* A transaction is settled, or a copy of it arrives, only while the       *)
(* outbox owns it, and every other step is one the outbox does not see.    *)
LEMMA NextPromised == IInv /\ [Next]_vars => [Promise!Next]_Promise!vars
<1> SUFFICES ASSUME IInv, [Next]_vars
             PROVE  Promise!Next \/ UNCHANGED <<status, arrived>>
  BY Zenon DEF Promise!vars
<1>1. Hand => current \in Txns /\ status[current] = "owned"
  BY HandIsStored, Zenon DEF IInv, Store
<1>2. \A p \in Attempting : pc = p => Hand
  BY Zenon DEF Hand
<1>3. CASE \E x \in Txns : EnqueueAccepts(x) \/ EnqueueRefuses(x)
  <2>1. PICK x \in Txns : EnqueueAccepts(x) \/ EnqueueRefuses(x)
    BY <1>3, Zenon
  <2>2. status[x] = "none" /\ UNCHANGED arrived
    BY <2>1, Zenon DEF EnqueueAccepts, EnqueueRefuses
  <2>3. \/ status' = [status EXCEPT ![x] = "owned"]
        \/ status' = [status EXCEPT ![x] = "refused"]
    BY <2>1, Zenon DEF EnqueueAccepts, EnqueueRefuses
  <2> QED BY <2>2, <2>3, Zenon DEF Promise!Next, Promise!Accept, Promise!Refuse, Promise!Become
<1>4. CASE Send
  <2>1. current \in Txns /\ status[current] = "owned"
    BY <1>1, <1>2, <1>4, Zenon DEF Send, Attempting
  <2>2. UNCHANGED status /\ (arrived' = arrived \/ arrived' = arrived \cup {current})
    BY <1>4, Zenon DEF Send
  <2> QED BY <2>1, <2>2, Zenon DEF Promise!Next, Promise!Arrive
<1>5. CASE SettleDelivered
  <2>1. current \in Txns /\ status[current] = "owned" /\ current \in arrived
    BY <1>1, <1>2, <1>5, Zenon DEF SettleDelivered, Attempting, IInv, Held
  <2>2. UNCHANGED arrived /\ (status' = [status EXCEPT ![current] = "delivered"] \/ UNCHANGED status)
    BY <1>5, Zenon DEF SettleDelivered
  <2> QED BY <2>1, <2>2, Zenon DEF Promise!Next, Promise!Deliver, Promise!Become
<1>6. CASE ReEnqueueWithBackoff
  <2>1. current \in Txns /\ status[current] = "owned"
    BY <1>1, <1>2, <1>6, Zenon DEF ReEnqueueWithBackoff, Attempting
  <2>2. UNCHANGED arrived
    BY <1>6, Zenon DEF ReEnqueueWithBackoff
  <2>3. status' = [status EXCEPT ![current] = "dropped"] \/ UNCHANGED status
    BY <1>6, Zenon DEF ReEnqueueWithBackoff, DropTransaction, Requeue
  <2> QED BY <2>1, <2>2, <2>3, Zenon DEF Promise!Next, Promise!Drop, Promise!Become
<1>7. CASE Check \/ TakeNext \/ TakeNothing \/ WaitReturns \/ WaitTimesOut
  BY <1>7, Zenon DEF Check, TakeNext, TakeNothing, WaitReturns, WaitTimesOut, history
<1>8. CASE BeginAttempt \/ Resolve \/ CopySigningIdentity \/ CircuitOpen \/ RecordFailure \/ Park
  BY <1>8, Zenon DEF BeginAttempt, Resolve, CopySigningIdentity, CircuitOpen, RecordFailure, Park,
                     Requeue, history
<1>9. CASE UpdateSigningIdentity \/ RequestShutdown \/ Crash
  BY <1>9, Zenon DEF UpdateSigningIdentity, RequestShutdown, Crash, LoseMemory, history
<1>10. CASE Start \/ Exit \/ Tick
  BY <1>10, Zenon DEF Start, Exit, LoseMemory, Tick, history
<1>11. CASE UNCHANGED vars
  BY <1>11, Zenon DEF vars
<1> QED BY <1>3, <1>4, <1>5, <1>6, <1>7, <1>8, <1>9, <1>10, <1>11, Zenon DEF Next, Work, Environment

-----------------------------------------------------------------------------
(* compute_backoff(), and the ground of the proof.                         *)

INSTANCE FiniteSetTheorems

(* One turn of its loop, *)
Doubled(v, max) == IF v >= max \/ v > max \div 2 THEN max ELSE v * 2

(* and the intervals of its first n turns. *)
AreIntervals(f, base, max, n) ==
    f = [k \in 0 .. n |-> IF k = 0 THEN base ELSE Doubled(f[k - 1], max)]

(* The loop is well defined: it has intervals for every number of turns. *)
LEMMA IntervalsExist ==
    ASSUME NEW base, NEW max, NEW n \in Nat
    PROVE  \E f : AreIntervals(f, base, max, n)
<1> DEFINE Bad == {m \in Nat : ~ \E f : AreIntervals(f, base, max, m)}
<1> SUFFICES ASSUME Bad # {} PROVE FALSE
  OBVIOUS
<1>0. Bad \subseteq Nat
  BY Zenon
<1>1. PICK m \in Bad : \A y \in Bad : ~ (<<y, m>> \in OpToRel(<, Nat))
  BY <1>0, WFMin, NatLessThanWellFounded, Zenon
<1>2. \A y \in Nat : y < m => y \notin Bad
  BY <1>1, Zenon DEF OpToRel
<1>3. m # 0
  <2> SUFFICES ASSUME m = 0 PROVE FALSE
    OBVIOUS
  <2> DEFINE f == [k \in 0 .. 0 |-> base]
  <2>1. AreIntervals(f, base, max, 0)
    BY DEF AreIntervals
  <2> QED BY <2>1
<1>4. m - 1 \in Nat /\ m - 1 \notin Bad
  BY <1>2, <1>3
<1>5. PICK f : AreIntervals(f, base, max, m - 1)
  BY <1>4
<1> DEFINE g == [k \in 0 .. m |-> IF k = m THEN Doubled(f[m - 1], max) ELSE f[k]]
<1>6. \A k \in 0 .. m : g[k] = IF k = 0 THEN base ELSE Doubled(g[k - 1], max)
  <2> TAKE k \in 0 .. m
  <2>1. CASE k = m
    <3>1. m - 1 \in 0 .. m /\ m - 1 # m
      BY <1>4
    <3>2. g[m - 1] = f[m - 1] /\ g[m] = Doubled(f[m - 1], max)
      BY <3>1, <1>4
    <3> QED BY <2>1, <3>2, <1>3
  <2>2. CASE k # m /\ k # 0
    <3>1. k \in 0 .. m - 1 /\ k - 1 \in 0 .. m /\ k - 1 # m
      BY <2>2, <1>4
    <3>2. g[k] = f[k] /\ g[k - 1] = f[k - 1]
      BY <3>1, <2>2
    <3>3. f[k] = Doubled(f[k - 1], max)
      BY <1>5, <3>1, <2>2 DEF AreIntervals
    <3> QED BY <2>2, <3>2, <3>3
  <2>3. CASE k # m /\ k = 0
    <3>1. 0 \in 0 .. m - 1
      BY <1>4
    <3>2. f[0] = base
      BY <1>5, <3>1 DEF AreIntervals
    <3> QED BY <2>3, <3>2
  <2> QED BY <2>1, <2>2, <2>3
<1>7. AreIntervals(g, base, max, m)
  <2>1. g = [k \in 0 .. m |-> g[k]]
    OBVIOUS
  <2> HIDE DEF g
  <2>2. g = [k \in 0 .. m |-> IF k = 0 THEN base ELSE Doubled(g[k - 1], max)]
    BY <1>6, <2>1, Zenon
  <2> QED BY <2>2 DEF AreIntervals
<1> QED BY <1>7

(* compute_backoff() returns a length of time. *)
LEMMA BackoffType ==
    ASSUME NEW base \in Nat, NEW max \in Nat, NEW n \in Nat
    PROVE  ComputeBackoff(base, max, n) \in Nat
<1> DEFINE interval == CHOOSE f : AreIntervals(f, base, max, n)
<1>1. AreIntervals(interval, base, max, n)
  BY IntervalsExist
<1>2. ComputeBackoff(base, max, n) = interval[n]
  BY DEF ComputeBackoff, AreIntervals, Doubled
<1> HIDE DEF interval
<1> DEFINE Bad == {k \in Nat : k <= n /\ interval[k] \notin Nat}
<1>3. Bad = {}
  <2> SUFFICES ASSUME Bad # {} PROVE FALSE
    OBVIOUS
  <2>0. Bad \subseteq Nat
    BY Zenon
  <2>1. PICK m \in Bad : \A y \in Bad : ~ (<<y, m>> \in OpToRel(<, Nat))
    BY <2>0, WFMin, NatLessThanWellFounded, Zenon
  <2>2. m \in 0 .. n /\ interval[m] \notin Nat /\ \A y \in Nat : y < m => y \notin Bad
    <3>1. m \in 0 .. n /\ m \in Nat /\ interval[m] \notin Nat
      OBVIOUS
    <3> HIDE DEF Bad
    <3>2. \A y \in Nat : y < m => y \notin Bad
      BY <2>1, <3>1, Zenon DEF OpToRel
    <3> QED BY <3>1, <3>2
  <2>3. interval[m] = IF m = 0 THEN base ELSE Doubled(interval[m - 1], max)
    BY <1>1, <2>2 DEF AreIntervals
  <2>4. m # 0
    BY <2>2, <2>3
  <2>5. m - 1 \in Nat /\ m - 1 < m /\ m - 1 \in 0 .. n
    BY <2>2, <2>4
  <2>6. interval[m - 1] \in Nat
    BY <2>2, <2>5
  <2>7. Doubled(interval[m - 1], max) \in Nat
    BY <2>6 DEF Doubled
  <2> QED BY <2>2, <2>3, <2>4, <2>7
<1> QED BY <1>2, <1>3

(* The ground of the proof holds: FiniteSetTheorems has the finite sets. *)
LEMMA GroundHolds == Ground
<1>1. \A n \in Nat : ComputeBackoff(BaseInterval, MaxInterval, n) \in Nat
  BY BackoffType, BoundsAssumption, Zenon
<1>2. /\ IsFiniteSet({}) /\ \A S : IsFiniteSet(S) => Cardinality(S) \in Nat
      /\ \A S, x : IsFiniteSet(S) => IsFiniteSet(S \cup {x}) /\ IsFiniteSet(S \ {x})
  BY FS_EmptySet, FS_CardinalityType, FS_AddElement, FS_RemoveElement, Zenon
<1> QED BY <1>1, <1>2, Zenon DEF Ground

-----------------------------------------------------------------------------
(* The theorems.                                                           *)

(* The invariant holds whatever the worker, its callers, the store and the *)
(* process do.                                                             *)
LEMMA AlwaysIInv == Spec => []IInv
<1>1. Init => IInv
  BY InitIInv, GroundHolds, Zenon
<1>2. IInv /\ [Next]_vars => IInv'
  BY NextIInv, GroundHolds, Zenon
<1> QED BY <1>1, <1>2, PTL DEF Spec

(* The dispatch worker's queue and its rows agree, nothing is queued twice *)
(* or beyond the depth, and no transaction overruns its retries: whatever  *)
(* order enqueue(), run_once(), failed writes, crashes, replays and key    *)
(* rotations come in.                                                      *)
THEOREM QueueCorrect == Spec => []QueueIsSound
  BY AlwaysIInv, IInvSound, PTL

(* The worker implements the Outbox: what enqueue() accepts is settled at  *)
(* most once, copies of it arrive only before that, and it is called       *)
(* delivered only if one has, across crashes and failed writes.            *)
THEOREM OutboxImplemented == Spec => ImplementsOutbox
<1>1. Init => Promise!Init
  BY Zenon DEF Init, Promise!Init
<1> QED BY <1>1, AlwaysIInv, NextPromised, PTL DEF Spec, ImplementsOutbox, Promise!Spec
=============================================================================
