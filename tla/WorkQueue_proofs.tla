--------------------------- MODULE WorkQueue_proofs ---------------------------
(***************************************************************************)
(* Proofs about WorkQueue, for rings of any size, any number of posts and  *)
(* memory of either kind.  The code keeps heads modulo the ring; the       *)
(* inductive invariant ties each of them to the number of posts it stands  *)
(* for, and every slot to the post whose WQE it holds.                     *)
(***************************************************************************)
EXTENDS WorkQueue, Integers, TLAPS

\* What the callers owe the driver, which checks neither: one thread at a time posts
\* to a ring, and no more WQEs are unread than the ring has slots.
OnePoster == \E p : Posters = {p}
RoomInRing == Outstanding <= Cnt
\* A full ring looks to the NIC like an empty one.
NeverFull == Outstanding < Cnt

-----------------------------------------------------------------------------
(* Arithmetic modulo the ring.                                             *)

LEMMA DivMod ==
  ASSUME NEW k \in Nat, NEW m \in Nat, m > 0
  PROVE  k \div m \in Nat /\ k % m \in Nat /\ k % m < m /\ k = m * (k \div m) + (k % m)
  <1> DEFINE q == k \div m
             r == k % m
  <1>1. q \in Nat /\ r \in Nat /\ r < m
    OBVIOUS
  <1>2. r = k - m * q
    OBVIOUS
  <1> HIDE DEF q, r
  <1>3. k = m * q + r
    BY <1>1, <1>2
  <1> QED
    BY <1>1, <1>3, Zenon DEF q, r

LEMMA ModOf ==
  ASSUME NEW q \in Nat, NEW r \in Nat, NEW m \in Nat, r < m
  PROVE  (m * q + r) % m = r
  OBVIOUS

LEMMA NoMultiple ==
  ASSUME NEW q \in Int, NEW m \in Nat, m * q > 0 - m, m * q < m
  PROVE  q = 0
  OBVIOUS

\* A lap later the slot is the same.
LEMMA SameSlot ==
  ASSUME NEW k \in Nat, NEW m \in Nat, m > 0
  PROVE  (k + m) % m = k % m
  <1> DEFINE q == k \div m
             r == k % m
  <1>1. q \in Nat /\ r \in Nat /\ r < m /\ k = m * q + r
    BY DivMod
  <1> HIDE DEF q, r
  <1>2. q + 1 \in Nat /\ k + m = m * (q + 1) + r
    BY <1>1
  <1>3. (m * (q + 1) + r) % m = r
    BY <1>1, <1>2, ModOf
  <1> QED
    BY <1>2, <1>3 DEF r

\* Masking after every step is masking the sum.
LEMMA MaskStep ==
  ASSUME NEW k \in Nat, NEW m \in Nat, m > 0
  PROVE  ((k % m) + 1) % m = (k + 1) % m
  <1> DEFINE q == k \div m
             r == k % m
  <1>1. q \in Nat /\ r \in Nat /\ r < m /\ k = m * q + r
    BY DivMod
  <1> HIDE DEF q, r
  <1>2. CASE r + 1 < m
    <2>1. (m * q + (r + 1)) % m = r + 1 /\ (m * 0 + (r + 1)) % m = r + 1
      BY <1>1, <1>2, ModOf
    <2> QED
      BY <2>1, <1>1 DEF r
  <1>3. CASE r + 1 = m
    <2>1. (m * (q + 1) + 0) % m = 0 /\ (m * 1 + 0) % m = 0
      BY <1>1, ModOf
    <2>2. m * (q + 1) + 0 = k + 1 /\ m * 1 + 0 = r + 1
      BY <1>1, <1>3
    <2> QED
      BY <2>1, <2>2 DEF r
  <1> QED
    BY <1>1, <1>2, <1>3

\* Within a lap all slots differ.
LEMMA SlotsApart ==
  ASSUME NEW a \in Nat, NEW b \in Nat, NEW m \in Nat, a < b, b - a < m
  PROVE  a % m # b % m
  <1> DEFINE q == a \div m
             r == a % m
             s == b \div m
             u == b % m
  <1>1. q \in Nat /\ r \in Nat /\ a = m * q + r
    BY DivMod
  <1>2. s \in Nat /\ u \in Nat /\ b = m * s + u
    BY DivMod
  <1> HIDE DEF q, r, s, u
  <1> SUFFICES ASSUME u = r PROVE FALSE
    BY DEF r, u
  <1>3. b - a = m * (s - q)
    BY <1>1, <1>2
  <1>4. s - q = 0
    BY <1>1, <1>2, <1>3, NoMultiple
  <1> QED
    BY <1>3, <1>4

\* The distance of two positions less than a lap apart, from their slots.
LEMMA Distance ==
  ASSUME NEW a \in Nat, NEW b \in Nat, NEW m \in Nat, m > 0, a <= b, b - a < m
  PROVE  ((b % m) + m - (a % m)) % m = b - a
  <1> DEFINE q == a \div m
             r == a % m
             s == b \div m
             u == b % m
  <1>1. q \in Nat /\ r \in Nat /\ r < m /\ a = m * q + r
    BY DivMod
  <1>2. s \in Nat /\ u \in Nat /\ u < m /\ b = m * s + u
    BY DivMod
  <1> HIDE DEF q, r, s, u
  <1>3. b - a = m * (s - q) + (u - r)
    BY <1>1, <1>2
  <1>4. CASE r <= u
    <2>1. m * (s - q) > 0 - m /\ m * (s - q) < m
      BY <1>1, <1>2, <1>3, <1>4
    <2>2. s - q = 0
      BY <1>1, <1>2, <2>1, NoMultiple
    <2>3. b - a = u - r
      BY <1>1, <1>2, <1>3, <2>2
    <2>4. (m * 1 + (u - r)) % m = u - r
      BY <1>1, <1>2, <1>4, ModOf
    <2>5. m * 1 + (u - r) = u + m - r
      BY <1>1, <1>2
    <2> QED
      BY <2>3, <2>4, <2>5 DEF r, u
  <1>5. CASE u < r
    <2>1. m * (s - q - 1) > 0 - m /\ m * (s - q - 1) < m
      <3>1. m * (s - q - 1) = (b - a) - m - (u - r)
        BY <1>1, <1>2, <1>3
      <3> QED
        BY <1>1, <1>2, <1>5, <3>1
    <2>2. s - q - 1 = 0
      BY <1>1, <1>2, <2>1, NoMultiple
    <2>3. b - a = m + (u - r)
      BY <1>1, <1>2, <1>3, <2>2
    <2>4. (m * 0 + (u + m - r)) % m = u + m - r
      BY <1>1, <1>2, <1>5, ModOf
    <2>5. m * 0 + (u + m - r) = u + m - r
      BY <1>1, <1>2
    <2> QED
      BY <1>1, <1>2, <2>3, <2>4, <2>5 DEF r, u
  <1> QED
    BY <1>1, <1>2, <1>4, <1>5

\* The NIC finds in the doorbell record the head the driver encoded.
LEMMA HeadDecoded ==
  ASSUME NEW q, NEW h \in 0..Cnt - 1
  PROVE  Encoded(q, h) \in Nat /\ Decoded(q, Encoded(q, h)) = h
  <1>1. h \in Nat /\ h < 65536
    BY WorkQueueAssumption, RecordAssumption
  <1>2. h * 64 \in Nat /\ (h * 64) \div 64 = h
    BY <1>1
  <1>3. h % 65536 = h
    BY <1>1
  <1> QED
    BY <1>1, <1>2, <1>3 DEF Encoded, Decoded

-----------------------------------------------------------------------------
(* The inductive invariants.                                               *)

\* With any number of posters: a post under way has a WQE number.
Underway == \A t \in Threads : pc[t] # "idle" => local[t].wqe > 0
TypeInv == TypeOK /\ Underway

\* Posts to t's ring whose WQE is in memory, and those the doorbell record tells of.
Stored(t) == IF pc[t] = "write" \/ store[t] # NoStore THEN begun[t[1]] - 1 ELSE begun[t[1]]
Told(t) == IF pc[t] \in {"write", "bump", "doorbell"} THEN begun[t[1]] - 1 ELSE begun[t[1]]

\* What the slot of post w holds before that post stores its WQE.
LapBefore(w) == IF w > Cnt THEN w - Cnt ELSE 0

\* Heads, doorbell record and the NIC's position count posts modulo the ring.
Positions(t) ==
  LET q == t[1] IN
  /\ head[q] = (IF pc[t] \in {"write", "bump"} THEN begun[q] - 1 ELSE begun[q]) % Cnt
  /\ Decoded(q, db_record[q]) = Told(t) % Cnt
  /\ tail[q] = Len(read[q]) % Cnt
  /\ Len(read[q]) <= Told(t)
  /\ begun[q] - Len(read[q]) <= Outstanding

\* The post under way, and its store if that is delayed.
Own(t) ==
  LET q == t[1]  own == [head |-> (begun[q] - 1) % Cnt, wqe |-> begun[q]] IN
  /\ pc[t] # "idle" => begun[q] > 0 /\ local[t] = own
  /\ store[t] # NoStore =>
       /\ ~StoresInOrder
       /\ pc[t] \in {"bump", "doorbell", "fence"}
       /\ store[t] = [slot |-> own.head, wqe |-> own.wqe]

\* Each slot holds the last post stored in it.
Slots(t) ==
  \A w \in Nat : Stored(t) < w /\ w <= Stored(t) + Cnt =>
    ring[t[1]][(w - 1) % Cnt] = LapBefore(w)

RingInv == \A t \in Threads : Positions(t) /\ Own(t) /\ Slots(t)

IInv == TypeInv /\ RingInv /\ SlotsKept

-----------------------------------------------------------------------------
(* Types, for any number of posters.                                       *)

LEMMA TypeInit == Init => TypeInv
  BY WorkQueueAssumption DEF Init, TypeInv, TypeOK, Underway, NoStore

LEMMA TypeStutter == TypeInv /\ UNCHANGED vars => TypeInv'
  BY DEF TypeInv, TypeOK, Underway, vars

\* The posts of the two rings are those of all threads.
LEMMA PostIs ==
  ASSUME post_send \/ post_recv
  PROVE  \E t \in Threads : Post(t)
  BY DEF post_send, post_recv

LEMMA RingOf == \A t \in Threads : t[1] \in Queues
  BY DEF Threads

\* A masked index is one of the ring.
LEMMA IndexOK == \A k \in Nat : k % Cnt \in 0..Cnt - 1
  BY WorkQueueAssumption

\* What the types say of one thread and its ring.
LEMMA TypesOf ==
  ASSUME TypeOK, NEW t \in Threads
  PROVE  /\ t[1] \in Queues
         /\ head[t[1]] \in 0..Cnt - 1 /\ db_record[t[1]] \in Nat /\ tail[t[1]] \in 0..Cnt - 1
         /\ begun[t[1]] \in 0..MaxPosts
         /\ local[t].head \in 0..Cnt - 1 /\ local[t].wqe \in 0..MaxPosts
         /\ store[t].slot \in 0..Cnt - 1 /\ store[t].wqe \in 0..MaxPosts
         /\ Len(read[t[1]]) \in Nat
  <1>1. t[1] \in Queues
    BY RingOf
  <1>2. /\ local[t] \in [head : 0..Cnt - 1, wqe : 0..MaxPosts]
        /\ store[t] \in [slot : 0..Cnt - 1, wqe : 0..MaxPosts]
    BY DEF TypeOK
  <1>3. read[t[1]] \in Seq(0..MaxPosts)
    BY <1>1 DEF TypeOK
  <1> QED
    BY <1>1, <1>2, <1>3 DEF TypeOK

LEMMA TypeStep ==
  ASSUME TypeInv, Next
  PROVE  TypeInv'
  <1> USE WorkQueueAssumption DEF TypeInv
  <1>1. ASSUME NEW t \in Threads, Begin(t) PROVE TypeInv'
    <2>1. begun[t[1]] + 1 \in 1..MaxPosts
      BY <1>1, TypesOf DEF Begin
    <2>2. local' \in [Threads -> [head : 0..Cnt - 1, wqe : 0..MaxPosts]]
      <3>1. [head |-> head[t[1]], wqe |-> begun[t[1]] + 1] \in [head : 0..Cnt - 1, wqe : 0..MaxPosts]
        BY <2>1, TypesOf
      <3> QED
        BY <1>1, <3>1 DEF Begin, TypeOK
    <2>3. Underway'
      <3>1. local'[t].wqe = begun[t[1]] + 1
        BY <1>1 DEF Begin, TypeOK
      <3>2. \A u \in Threads : u # t => local'[u] = local[u] /\ pc'[u] = pc[u]
        BY <1>1 DEF Begin, Goto, TypeOK
      <3> QED
        BY <2>1, <3>1, <3>2 DEF Underway
    <2> QED
      BY <1>1, <2>1, <2>2, <2>3, TypesOf DEF Begin, Goto, TypeOK
  <1>2. ASSUME NEW t \in Threads, WriteWqe(t) PROVE TypeInv'
    <2>1. [ring EXCEPT ![t[1]][local[t].head] = local[t].wqe] \in [Queues -> [0..Cnt - 1 -> 0..MaxPosts]]
      <3>1. [ring[t[1]] EXCEPT ![local[t].head] = local[t].wqe] \in [0..Cnt - 1 -> 0..MaxPosts]
        BY TypesOf DEF TypeOK
      <3> QED
        BY <3>1, TypesOf DEF TypeOK
    <2>2. [slot |-> local[t].head, wqe |-> local[t].wqe] \in [slot : 0..Cnt - 1, wqe : 0..MaxPosts]
      BY TypesOf
    <2>3. ring' \in [Queues -> [0..Cnt - 1 -> 0..MaxPosts]]
      BY <1>2, <2>1 DEF WriteWqe, TypeOK
    <2>4. store' \in [Threads -> [slot : 0..Cnt - 1, wqe : 0..MaxPosts]]
      BY <1>2, <2>2 DEF WriteWqe, TypeOK
    <2> QED
      BY <1>2, <2>3, <2>4 DEF WriteWqe, Goto, TypeOK, Underway
  <1>3. ASSUME NEW t \in Threads, BumpHead(t) PROVE TypeInv'
    <2>1. local[t].head + 1 \in Nat
      BY TypesOf
    <2>2. Masked(local[t].head + 1) \in 0..Cnt - 1
      BY <2>1, IndexOK DEF Masked
    <2> QED
      BY <1>3, <2>2, TypesOf DEF BumpHead, Goto, TypeOK, Underway
  <1>4. ASSUME NEW t \in Threads, WriteDoorbell(t) PROVE TypeInv'
    <2>1. Encoded(t[1], head[t[1]]) \in Nat
      BY TypesOf, HeadDecoded
    <2> QED
      BY <1>4, <2>1, TypesOf DEF WriteDoorbell, Goto, TypeOK, Underway
  <1>5. ASSUME NEW t \in Threads, Drain(t) PROVE TypeInv'
    <2>1. ring' \in [Queues -> [0..Cnt - 1 -> 0..MaxPosts]]
      BY <1>5, TypesOf DEF Drain, TypeOK
    <2>2. store' \in [Threads -> [slot : 0..Cnt - 1, wqe : 0..MaxPosts]]
      BY <1>5 DEF Drain, NoStore, TypeOK
    <2> QED
      BY <1>5, <2>1, <2>2 DEF Drain, TypeOK, Underway
  <1>6. ASSUME NEW t \in Threads, Fence(t) PROVE TypeInv'
    <2>1. local[t].wqe \in 1..MaxPosts
      BY <1>6, TypesOf DEF Fence, Goto, Underway
    <2>2. returned' \in [Queues -> SUBSET (1..MaxPosts)]
      BY <1>6, <2>1, TypesOf DEF Fence, TypeOK
    <2> QED
      BY <1>6, <2>2 DEF Fence, Goto, TypeOK, Underway
  <1>7. ASSUME NEW q \in Queues, NicReads(q) PROVE TypeInv'
    <2>1. ring[q][tail[q]] \in 0..MaxPosts /\ (tail[q] + 1) % Cnt \in 0..Cnt - 1
      BY IndexOK DEF TypeOK
    <2>2. read' \in [Queues -> Seq(0..MaxPosts)]
      BY <1>7, <2>1 DEF NicReads, TypeOK
    <2>3. tail' \in [Queues -> 0..Cnt - 1]
      BY <1>7, <2>1 DEF NicReads, TypeOK
    <2> QED
      BY <1>7, <2>2, <2>3 DEF NicReads, TypeOK, Underway
  <1> QED
    BY <1>1, <1>2, <1>3, <1>4, <1>5, <1>6, <1>7, PostIs DEF Next, Post

\* Every variable keeps its type, however many threads post to a ring: heads
\* index it, and nothing but posted WQEs is read from it.
THEOREM TypeCorrect == Spec => []TypeOK
  <1>1. TypeInv /\ [Next]_vars => TypeInv'
    BY TypeStep, TypeStutter
  <1>2. TypeInv => TypeOK
    BY DEF TypeInv
  <1> QED
    BY <1>1, <1>2, TypeInit, PTL DEF Spec

-----------------------------------------------------------------------------
(* One poster for each ring, and room in the ring.                         *)

Ring(t) == Positions(t) /\ Own(t) /\ Slots(t)

\* Threads with the same ring are the same.
LEMMA OwnRing ==
  ASSUME OnePoster, NEW t \in Threads, NEW u \in Threads, t[1] = u[1]
  PROVE  t = u
  BY DEF OnePoster, Threads

\* What happens on another ring changes nothing.
LEMMA Untouched ==
  ASSUME NEW t \in Threads, Ring(t),
         head'[t[1]] = head[t[1]], ring'[t[1]] = ring[t[1]], db_record'[t[1]] = db_record[t[1]],
         pc'[t] = pc[t], local'[t] = local[t], store'[t] = store[t], begun'[t[1]] = begun[t[1]],
         tail'[t[1]] = tail[t[1]], read'[t[1]] = read[t[1]]
  PROVE  Ring(t)'
  BY DEF Ring, Positions, Own, Slots, Stored, Told

\* A post whose WQE gets to memory takes the slot of the post a lap before.
LEMMA WqeStored ==
  ASSUME NEW t \in Threads, TypeOK, Slots(t), begun[t[1]] > 0, Stored(t) = begun[t[1]] - 1,
         begun'[t[1]] = begun[t[1]], Stored(t)' = begun[t[1]],
         ring'[t[1]] = [ring[t[1]] EXCEPT ![(begun[t[1]] - 1) % Cnt] = begun[t[1]]]
  PROVE  Slots(t)'
  <1> DEFINE b == begun[t[1]]
  <1>1. b \in Nat /\ b > 0 /\ Cnt \in Nat /\ Cnt > 0
    BY TypesOf, WorkQueueAssumption
  <1>2. DOMAIN ring[t[1]] = 0..Cnt - 1
    BY TypesOf DEF TypeOK
  <1>3. SUFFICES ASSUME NEW w \in Nat, b < w, w <= b + Cnt
                 PROVE  ring'[t[1]][(w - 1) % Cnt] = LapBefore(w)
    BY DEF Slots
  <1> HIDE DEF b
  <1>4. CASE w = b + Cnt
    <2>1. (w - 1) % Cnt = (b - 1) % Cnt
      <3>1. b - 1 \in Nat /\ w - 1 = (b - 1) + Cnt
        BY <1>1, <1>4
      <3> QED
        BY <1>1, <3>1, SameSlot
    <2>2. (b - 1) % Cnt \in 0..Cnt - 1
      BY <1>1, IndexOK
    <2>3. LapBefore(w) = b
      BY <1>1, <1>4 DEF LapBefore
    <2> QED
      BY <1>2, <2>1, <2>2, <2>3 DEF b
  <1>5. CASE w < b + Cnt
    <2>1. (b - 1) % Cnt # (w - 1) % Cnt
      <3>1. b - 1 \in Nat /\ w - 1 \in Nat /\ b - 1 < w - 1 /\ (w - 1) - (b - 1) < Cnt
        BY <1>1, <1>3, <1>5
      <3> QED
        BY <1>1, <3>1, SlotsApart
    <2>2. (w - 1) % Cnt \in 0..Cnt - 1
      BY <1>1, <1>3, IndexOK
    <2>3. ring[t[1]][(w - 1) % Cnt] = LapBefore(w)
      <3>1. b - 1 < w /\ w <= (b - 1) + Cnt
        BY <1>1, <1>3, <1>5
      <3> QED
        BY <3>1 DEF Slots, b
    <2> QED
      BY <1>2, <2>1, <2>2, <2>3 DEF b
  <1> QED
    BY <1>1, <1>3, <1>4, <1>5

\* Every statement of a post keeps the positions and the slots of its ring.
LEMMA PostKeeps ==
  ASSUME NEW t \in Threads, TypeOK, Ring(t), Post(t)
  PROVE  Ring(t)'
  <1> DEFINE q == t[1]
             b == begun[q]
  <1>0. /\ q \in Queues /\ b \in Nat /\ Cnt \in Nat /\ Cnt > 0
        /\ head[q] \in Nat /\ Len(read[q]) \in Nat /\ Outstanding \in Nat
    BY TypesOf, WorkQueueAssumption
  <1>1. CASE Begin(t)
    <2>1. /\ pc[t] = "idle" /\ pc'[t] = "write" /\ begun'[q] = b + 1
          /\ local'[t] = [head |-> head[q], wqe |-> b + 1]
          /\ b - Len(read[q]) < Outstanding
          /\ UNCHANGED <<head, ring, db_record, store, tail, read>>
      BY <1>0, <1>1 DEF Begin, Goto, TypeOK
    <2>2. store[t] = NoStore
      BY <2>1 DEF Ring, Own
    <2>3. Stored(t) = b /\ Stored(t)' = b /\ Told(t) = b /\ Told(t)' = b
      BY <1>0, <2>1, <2>2 DEF Stored, Told
    <2>4. head[q] = b % Cnt
      BY <2>1 DEF Ring, Positions
    <2>5. Positions(t)'
      <3>1. begun'[q] - 1 = b /\ pc'[t] \in {"write", "bump"}
        BY <1>0, <2>1
      <3>2. begun'[q] - Len(read[q]) <= Outstanding
        BY <1>0, <2>1
      <3> QED
        BY <2>1, <2>3, <2>4, <3>1, <3>2 DEF Ring, Positions
    <2>6. Own(t)'
      BY <1>0, <2>1, <2>2, <2>4 DEF Own
    <2>7. Slots(t)'
      BY <2>1, <2>3 DEF Ring, Slots
    <2> QED
      BY <2>5, <2>6, <2>7 DEF Ring
  <1>2. CASE WriteWqe(t)
    <2>1. /\ pc[t] = "write" /\ pc'[t] = "bump"
          /\ UNCHANGED <<head, db_record, local, begun, tail, read>>
      BY <1>2 DEF WriteWqe, Goto, TypeOK
    <2>2. b > 0 /\ local[t] = [head |-> (b - 1) % Cnt, wqe |-> b] /\ store[t] = NoStore
      BY <2>1 DEF Ring, Own
    <2>3. Stored(t) = b - 1 /\ Told(t) = b - 1 /\ Told(t)' = b - 1
      BY <2>1 DEF Stored, Told
    <2>4. Positions(t)'
      BY <2>1, <2>3 DEF Ring, Positions
    <2>5. CASE ring' = [ring EXCEPT ![q][local[t].head] = local[t].wqe] /\ UNCHANGED store
      <3>1. ring'[q] = [ring[q] EXCEPT ![(b - 1) % Cnt] = b]
        <4>1. ring'[q] = [ring[q] EXCEPT ![local[t].head] = local[t].wqe]
          BY <1>0, <2>5 DEF TypeOK
        <4> QED
          BY <2>2, <4>1
      <3>2. Stored(t)' = b
        BY <2>1, <2>2, <2>5 DEF Stored
      <3>3. Slots(t)'
        BY <2>1, <2>2, <2>3, <3>1, <3>2, WqeStored DEF Ring
      <3>4. Own(t)'
        BY <2>1, <2>2, <2>5 DEF Own
      <3> QED
        BY <2>4, <3>3, <3>4 DEF Ring
    <2>6. CASE /\ ~StoresInOrder /\ UNCHANGED ring
               /\ store' = [store EXCEPT ![t] = [slot |-> local[t].head, wqe |-> local[t].wqe]]
      <3>1. store'[t] = [slot |-> (b - 1) % Cnt, wqe |-> b]
        BY <2>2, <2>6 DEF TypeOK
      <3>2. store'[t] # NoStore
        BY <1>0, <2>2, <3>1 DEF NoStore
      <3>3. Stored(t)' = b - 1
        BY <2>1, <3>2 DEF Stored
      <3>4. Slots(t)'
        BY <2>3, <2>6, <3>3 DEF Ring, Slots
      <3>5. Own(t)'
        BY <2>1, <2>2, <2>6, <3>1 DEF Own
      <3> QED
        BY <2>4, <3>4, <3>5 DEF Ring
    <2> QED
      BY <1>2, <2>5, <2>6 DEF WriteWqe
  <1>3. CASE BumpHead(t)
    <2>1. /\ pc[t] = "bump" /\ pc'[t] = "doorbell" /\ head'[q] = Masked(local[t].head + 1)
          /\ UNCHANGED <<ring, db_record, local, store, begun, tail, read>>
      BY <1>0, <1>3 DEF BumpHead, Goto, TypeOK
    <2>2. b > 0 /\ local[t].head = (b - 1) % Cnt
      BY <2>1 DEF Ring, Own
    <2>3. head'[q] = b % Cnt
      <3>1. b - 1 \in Nat /\ (b - 1) + 1 = b
        BY <1>0, <2>2
      <3> QED
        BY <1>0, <2>1, <2>2, <3>1, MaskStep DEF Masked
    <2>4. Stored(t)' = Stored(t) /\ Told(t)' = Told(t)
      BY <2>1 DEF Stored, Told
    <2>5. Positions(t)'
      BY <2>1, <2>3, <2>4 DEF Ring, Positions
    <2>6. Own(t)' /\ Slots(t)'
      BY <2>1, <2>4 DEF Ring, Own, Slots
    <2> QED
      BY <2>5, <2>6 DEF Ring
  <1>4. CASE WriteDoorbell(t)
    <2>1. /\ pc[t] = "doorbell" /\ pc'[t] = "fence" /\ Decoded(q, db_record'[q]) = head[q]
          /\ UNCHANGED <<head, ring, local, store, begun, tail, read>>
      <3>1. db_record'[q] = Encoded(q, head[q])
        BY <1>0, <1>4 DEF WriteDoorbell, TypeOK
      <3> QED
        BY <1>0, <1>4, <3>1, TypesOf, HeadDecoded DEF WriteDoorbell, Goto, TypeOK
    <2>2. Stored(t)' = Stored(t) /\ Told(t) = b - 1 /\ Told(t)' = b
      BY <2>1 DEF Stored, Told
    <2>3. Positions(t)'
      <3>1. Len(read[q]) <= b
        BY <1>0, <2>2 DEF Ring, Positions
      <3>2. head[q] = b % Cnt
        BY <2>1 DEF Ring, Positions
      <3> QED
        BY <2>1, <2>2, <3>1, <3>2 DEF Ring, Positions
    <2>4. Own(t)' /\ Slots(t)'
      BY <2>1, <2>2 DEF Ring, Own, Slots
    <2> QED
      BY <2>3, <2>4 DEF Ring
  <1>5. CASE Drain(t)
    <2>1. /\ store[t] # NoStore /\ store'[t] = NoStore
          /\ UNCHANGED <<head, db_record, pc, local, begun, tail, read>>
      BY <1>5 DEF Drain, TypeOK
    <2>2. /\ pc[t] \in {"bump", "doorbell", "fence"}
          /\ store[t] = [slot |-> (b - 1) % Cnt, wqe |-> b] /\ b > 0
      BY <2>1 DEF Ring, Own
    <2>3. ring'[q] = [ring[q] EXCEPT ![(b - 1) % Cnt] = b]
      <3>1. ring'[q] = [ring[q] EXCEPT ![store[t].slot] = store[t].wqe]
        BY <1>0, <1>5 DEF Drain, TypeOK
      <3> QED
        BY <2>2, <3>1
    <2>4. Stored(t) = b - 1 /\ Stored(t)' = b /\ Told(t)' = Told(t)
      BY <2>1, <2>2 DEF Stored, Told
    <2>5. Slots(t)'
      BY <2>1, <2>2, <2>3, <2>4, WqeStored DEF Ring
    <2>6. Positions(t)' /\ Own(t)'
      BY <2>1, <2>2, <2>4 DEF Ring, Positions, Own
    <2> QED
      BY <2>5, <2>6 DEF Ring
  <1>6. CASE Fence(t)
    <2>1. /\ pc[t] = "fence" /\ pc'[t] = "idle" /\ store[t] = NoStore
          /\ UNCHANGED <<head, ring, db_record, local, store, begun, tail, read>>
      BY <1>6 DEF Fence, Goto, TypeOK
    <2>2. Stored(t)' = Stored(t) /\ Told(t)' = Told(t)
      BY <2>1 DEF Stored, Told
    <2> QED
      BY <2>1, <2>2 DEF Ring, Positions, Own, Slots
  <1> QED
    BY <1>1, <1>2, <1>3, <1>4, <1>5, <1>6 DEF Post

\* The NIC reads the next WQE told of: the one posted or, if its store is delayed,
\* what the slot held a lap before.
LEMMA NicKeeps ==
  ASSUME RoomInRing, NEW t \in Threads, TypeOK, Ring(t), NicReads(t[1])
  PROVE  /\ Ring(t)'
         /\ LET i == Len(read[t[1]]) + 1 IN
            /\ read'[t[1]] = Append(read[t[1]], ring[t[1]][tail[t[1]]])
            /\ \/ ring[t[1]][tail[t[1]]] = i
               \/ ~StoresInOrder /\ ring[t[1]][tail[t[1]]] = LapBefore(i)
  <1> DEFINE q == t[1]
             b == begun[q]
             r == Len(read[q])
             v == ring[q][tail[q]]
  <1>0. /\ q \in Queues /\ b \in Nat /\ Cnt \in Nat /\ Cnt > 0 /\ r \in Nat /\ Outstanding \in Nat
        /\ Outstanding <= Cnt
    BY TypesOf, WorkQueueAssumption DEF RoomInRing
  <1>1. /\ tail[q] # Decoded(q, db_record[q])
        /\ read'[q] = Append(read[q], v) /\ tail'[q] = (tail[q] + 1) % Cnt
        /\ UNCHANGED <<head, ring, db_record, pc, local, store, begun>>
    BY <1>0 DEF NicReads, TypeOK
  <1>2. Len(read'[q]) = r + 1
    BY <1>0, <1>1 DEF TypeOK
  <1>3. Stored(t)' = Stored(t) /\ Told(t)' = Told(t)
    BY <1>1 DEF Stored, Told
  <1>4. /\ tail[q] = r % Cnt /\ Decoded(q, db_record[q]) = Told(t) % Cnt /\ r <= Told(t)
        /\ b - r <= Outstanding
    BY DEF Ring, Positions
  <1>5. /\ Told(t) \in {b, b - 1} /\ Told(t) \in Int /\ Told(t) <= b
        /\ Stored(t) \in {b, b - 1} /\ Stored(t) \in Int /\ Stored(t) <= b
    BY <1>0 DEF Told, Stored
  <1>6. r < Told(t)
    <2>1. r # Told(t)
      BY <1>1, <1>4
    <2> QED
      BY <1>0, <1>4, <1>5, <2>1
  <1>7. tail'[q] = (r + 1) % Cnt
    BY <1>0, <1>1, <1>4, MaskStep
  <1>8. Ring(t)'
    <2>1. Positions(t)'
      <3>1. r + 1 <= Told(t) /\ b - (r + 1) <= Outstanding
        BY <1>0, <1>4, <1>5, <1>6
      <3> QED
        BY <1>1, <1>2, <1>3, <1>7, <3>1 DEF Ring, Positions
    <2>2. Own(t)' /\ Slots(t)'
      BY <1>1, <1>3 DEF Ring, Own, Slots
    <2> QED
      BY <2>1, <2>2 DEF Ring
  <1>9. v = r + 1 \/ (~StoresInOrder /\ v = LapBefore(r + 1))
    <2>1. CASE r + 1 <= Stored(t)
      <3> DEFINE w == r + 1 + Cnt
      <3>1. w \in Nat /\ w - 1 = r + Cnt
        <4> HIDE DEF r
        <4> QED
          BY <1>0
      <3>2. Stored(t) < w /\ w <= Stored(t) + Cnt
        <4> HIDE DEF q, b, r
        <4>1. Stored(t) < w
          BY <1>0, <1>4, <1>5
        <4>2. w <= Stored(t) + Cnt
          BY <1>0, <1>5, <2>1
        <4> QED
          BY <4>1, <4>2
      <3>3. v = LapBefore(w)
        BY <1>0, <1>4, <3>1, <3>2, SameSlot DEF Ring, Slots
      <3> QED
        BY <1>0, <3>3 DEF LapBefore
    <2>2. CASE r + 1 > Stored(t)
      <3>1. r + 1 = b /\ Stored(t) = b - 1 /\ Told(t) = b
        BY <1>0, <1>5, <1>6, <2>2
      <3>2. store[t] # NoStore
        BY <1>0, <3>1 DEF Stored, Told
      <3>3. ~StoresInOrder
        BY <3>2 DEF Ring, Own
      <3>4. r + 1 \in Nat /\ Stored(t) < r + 1 /\ r + 1 <= Stored(t) + Cnt /\ (r + 1) - 1 = r
        BY <1>0, <3>1
      <3>5. v = LapBefore(r + 1)
        BY <1>4, <3>4 DEF Ring, Slots
      <3> QED
        BY <3>3, <3>5
    <2> QED
      BY <1>0, <1>5, <2>1, <2>2
  <1> QED
    BY <1>1, <1>8, <1>9

LEMMA RingInit == Init => RingInv /\ SlotsKept
  <1> SUFFICES ASSUME Init PROVE RingInv /\ SlotsKept
    OBVIOUS
  <1>1. ASSUME NEW t \in Threads PROVE Ring(t)
    <2>1. /\ t[1] \in Queues /\ pc[t] = "idle" /\ store[t] = NoStore /\ begun[t[1]] = 0
          /\ head[t[1]] = 0 /\ db_record[t[1]] = 0 /\ tail[t[1]] = 0 /\ read[t[1]] = << >>
          /\ ring[t[1]] = [i \in 0..Cnt - 1 |-> 0]
      BY RingOf DEF Init
    <2>2. 0 % Cnt = 0 /\ Decoded(t[1], 0) = 0
      BY WorkQueueAssumption DEF Decoded
    <2>3. Stored(t) = 0 /\ Told(t) = 0
      BY <2>1 DEF Stored, Told
    <2>4. Positions(t) /\ Own(t)
      BY <2>1, <2>2, <2>3, WorkQueueAssumption DEF Positions, Own
    <2>5. ASSUME NEW w \in Nat, 0 < w, w <= Cnt PROVE ring[t[1]][(w - 1) % Cnt] = LapBefore(w)
      <3>1. (w - 1) % Cnt \in 0..Cnt - 1
        BY <2>5, IndexOK
      <3> QED
        BY <2>1, <2>5, <3>1, WorkQueueAssumption DEF LapBefore
    <2>6. Slots(t)
      BY <2>3, <2>5, WorkQueueAssumption DEF Slots
    <2> QED
      BY <2>4, <2>6 DEF Ring
  <1>2. SlotsKept
    BY DEF Init, SlotsKept
  <1> QED
    BY <1>1, <1>2 DEF RingInv, Ring

LEMMA RingStutter == RingInv /\ SlotsKept /\ UNCHANGED vars => RingInv' /\ SlotsKept'
  <1> SUFFICES ASSUME RingInv, SlotsKept, UNCHANGED vars PROVE RingInv' /\ SlotsKept'
    OBVIOUS
  <1>1. ASSUME NEW t \in Threads PROVE Ring(t)'
    BY <1>1, Untouched DEF vars, RingInv, Ring
  <1>2. SlotsKept'
    BY DEF SlotsKept, vars
  <1> QED
    BY <1>1, <1>2 DEF RingInv, Ring

\* A step of one ring leaves the other as it is.
LEMMA RingStep ==
  ASSUME OnePoster, RoomInRing, IInv, Next
  PROVE  RingInv' /\ SlotsKept'
  <1> USE DEF IInv, TypeInv
  <1>0. \A t \in Threads : Ring(t)
    BY DEF RingInv, Ring
  <1>1. ASSUME NEW u \in Threads, Post(u) PROVE RingInv' /\ SlotsKept'
    <2>1. read' = read
      BY <1>1 DEF Post, Begin, WriteWqe, BumpHead, WriteDoorbell, Drain, Fence
    <2>2. SlotsKept'
      BY <2>1 DEF SlotsKept
    <2>3. ASSUME NEW t \in Threads, t # u PROVE Ring(t)'
      <3>1. t[1] # u[1] /\ t[1] \in Queues /\ u[1] \in Queues
        BY <2>3, OwnRing, RingOf
      <3>2. /\ pc'[t] = pc[t] /\ local'[t] = local[t] /\ store'[t] = store[t]
            /\ head'[t[1]] = head[t[1]] /\ ring'[t[1]] = ring[t[1]]
            /\ db_record'[t[1]] = db_record[t[1]] /\ begun'[t[1]] = begun[t[1]]
            /\ tail'[t[1]] = tail[t[1]]
        BY <1>1, <2>3, <3>1
        DEF Post, Begin, WriteWqe, BumpHead, WriteDoorbell, Drain, Fence, Goto, TypeOK
      <3> QED
        BY <1>0, <2>1, <3>2, Untouched
    <2>4. Ring(u)'
      BY <1>0, <1>1, PostKeeps
    <2> QED
      BY <2>2, <2>3, <2>4 DEF RingInv, Ring
  <1>2. ASSUME NEW q \in Queues, NicReads(q) PROVE RingInv' /\ SlotsKept'
    <2>1. PICK t \in Threads : t[1] = q
      <3>1. PICK p : Posters = {p}
        BY DEF OnePoster
      <3>2. <<q, p>> \in Threads /\ <<q, p>>[1] = q
        BY <3>1 DEF Threads
      <3> QED
        BY <3>2
    <2>2. Ring(t)'
      BY <1>0, <1>2, <2>1, NicKeeps
    <2>3. ASSUME NEW u \in Threads, u # t PROVE Ring(u)'
      <3>1. u[1] # q /\ u[1] \in Queues
        BY <2>1, <2>3, OwnRing, RingOf
      <3>2. /\ read'[u[1]] = read[u[1]] /\ tail'[u[1]] = tail[u[1]]
            /\ UNCHANGED <<head, ring, db_record, pc, local, store, begun>>
        BY <1>2, <3>1 DEF NicReads, TypeOK
      <3> QED
        BY <1>0, <3>2, Untouched
    <2>4. SlotsKept'
      <3>1. SUFFICES ASSUME NEW p \in Queues, NEW i \in DOMAIN read'[p]
                     PROVE  \/ read'[p][i] = i
                            \/ ~StoresInOrder /\ read'[p][i] = (IF i > Cnt THEN i - Cnt ELSE 0)
        BY DEF SlotsKept
      <3>2. CASE p # q
        <4>1. read'[p] = read[p]
          BY <1>2, <3>2 DEF NicReads, TypeOK
        <4> QED
          BY <4>1 DEF SlotsKept
      <3>3. CASE p = q
        <4> DEFINE v == ring[q][tail[q]]
        <4>1. /\ read'[q] = Append(read[q], v)
              /\ \/ v = Len(read[q]) + 1
                 \/ ~StoresInOrder /\ v = LapBefore(Len(read[q]) + 1)
          BY <1>0, <1>2, <2>1, NicKeeps
        <4>2. read[q] \in Seq(0..MaxPosts) /\ v \in 0..MaxPosts
          <5>1. ring[q] \in [0..Cnt - 1 -> 0..MaxPosts] /\ tail[q] \in 0..Cnt - 1
            BY DEF TypeOK
          <5> QED
            BY <5>1 DEF TypeOK
        <4> HIDE DEF v
        <4>3. i \in 1..Len(read[q]) + 1
          BY <3>3, <4>1, <4>2
        <4>4. CASE i = Len(read[q]) + 1
          BY <3>3, <4>1, <4>2, <4>4 DEF LapBefore
        <4>5. CASE i \in 1..Len(read[q])
          <5>1. i \in DOMAIN read[q] /\ read'[q][i] = read[q][i]
            BY <4>1, <4>2, <4>5
          <5> QED
            BY <3>3, <5>1 DEF SlotsKept
        <4> QED
          BY <4>2, <4>3, <4>4, <4>5
      <3> QED
        BY <3>2, <3>3
    <2> QED
      BY <2>2, <2>3, <2>4 DEF RingInv, Ring
  <1> QED
    BY <1>1, <1>2, PostIs DEF Next

-----------------------------------------------------------------------------
(* The theorems about the order of reads.                                  *)

\* Heads, doorbell record and ring agree on the posts made, stored, told of and read.
THEOREM RingsFollowPosts ==
  ASSUME OnePoster, RoomInRing
  PROVE  Spec => []IInv
  <1>1. Init => IInv
    BY TypeInit, RingInit DEF IInv
  <1>2. IInv /\ [Next]_vars => IInv'
    BY OnePoster, RoomInRing, TypeStep, TypeStutter, RingStep, RingStutter DEF IInv
  <1> QED
    BY <1>1, <1>2, PTL DEF Spec

\* With one thread to a ring and never more than Cnt WQEs unread, no slot is
\* written before the NIC read it, on memory of either kind.
THEOREM SlotsNotReused ==
  ASSUME OnePoster, RoomInRing
  PROVE  Spec => []SlotsKept
  <1>1. IInv => SlotsKept
    BY DEF IInv
  <1> QED
    BY <1>1, RingsFollowPosts, OnePoster, RoomInRing, PTL

\* If the NIC also sees the stores of a thread in program order, it reads every WQE
\* once and in the order of the posts: the missing barrier is all that stands between
\* the code and that order.
THEOREM OrderedStoresReadInOrder ==
  ASSUME OnePoster, RoomInRing, StoresInOrder
  PROVE  Spec => []ReadInOrder
  <1>1. SlotsKept => ReadInOrder
    BY StoresInOrder DEF SlotsKept, ReadInOrder
  <1> QED
    BY <1>1, SlotsNotReused, OnePoster, RoomInRing, PTL

-----------------------------------------------------------------------------
(* What a post that returned 0 has achieved.                               *)

\* The posts that returned are among those the doorbell record tells of.
ReturnedTold == \A t \in Threads : \A w \in returned[t[1]] : w <= Told(t)

\* The record never goes back, and a post returns when it tells of that post.
LEMMA ToldGrows ==
  ASSUME NEW t \in Threads, TypeOK, Ring(t), Post(t)
  PROVE  /\ Told(t) \in Int /\ Told(t)' \in Int /\ Told(t) <= Told(t)'
         /\ \A w \in returned'[t[1]] : w \in returned[t[1]] \/ w <= Told(t)'
  <1> DEFINE b == begun[t[1]]
  <1>0. t[1] \in Queues /\ b \in Nat /\ returned[t[1]] \in SUBSET (1..MaxPosts)
    BY TypesOf DEF TypeOK
  <1>1. CASE Begin(t)
    <2>1. pc[t] = "idle" /\ pc'[t] = "write" /\ begun'[t[1]] = b + 1 /\ returned' = returned
      BY <1>0, <1>1 DEF Begin, Goto, TypeOK
    <2> QED
      BY <1>0, <2>1 DEF Told
  <1>2. CASE WriteWqe(t) \/ BumpHead(t) \/ WriteDoorbell(t)
    <2>1. /\ pc[t] \in {"write", "bump", "doorbell"}
          /\ begun' = begun /\ returned' = returned
      BY <1>2 DEF WriteWqe, BumpHead, WriteDoorbell, Goto
    <2> QED
      BY <1>0, <2>1 DEF Told
  <1>3. CASE Drain(t)
    <2>1. pc' = pc /\ begun' = begun /\ returned' = returned
      BY <1>3 DEF Drain
    <2> QED
      BY <1>0, <2>1 DEF Told
  <1>4. CASE Fence(t)
    <2>1. /\ pc[t] = "fence" /\ pc'[t] = "idle" /\ begun' = begun
          /\ returned'[t[1]] = returned[t[1]] \cup {local[t].wqe}
      BY <1>0, <1>4 DEF Fence, Goto, TypeOK
    <2>2. local[t].wqe = b
      BY <2>1 DEF Ring, Own
    <2> QED
      BY <1>0, <2>1, <2>2 DEF Told
  <1> QED
    BY <1>1, <1>2, <1>3, <1>4 DEF Post

\* A step of another ring, or of the NIC, changes neither.
LEMMA ReturnedStep ==
  ASSUME OnePoster, IInv, ReturnedTold, [Next]_vars
  PROVE  ReturnedTold'
  <1> USE DEF IInv, TypeInv
  <1>1. SUFFICES ASSUME NEW t \in Threads, NEW w \in returned'[t[1]]
                 PROVE  w <= Told(t)'
    BY DEF ReturnedTold
  <1>2. CASE Post(t)
    <2>1. w \in returned[t[1]] => w <= Told(t) /\ w \in Int
      BY TypesOf DEF ReturnedTold, TypeOK
    <2>2. /\ Told(t) \in Int /\ Told(t)' \in Int /\ Told(t) <= Told(t)'
          /\ w \in returned[t[1]] \/ w <= Told(t)'
      BY <1>1, <1>2, ToldGrows DEF RingInv, Ring
    <2> QED
      BY <2>1, <2>2
  <1>3. ASSUME NEW u \in Threads, Post(u), u # t PROVE w <= Told(t)'
    <2>1. t[1] # u[1] /\ t[1] \in Queues /\ u[1] \in Queues
      BY <1>3, OwnRing, RingOf
    <2>2. pc'[t] = pc[t] /\ begun'[t[1]] = begun[t[1]] /\ returned'[t[1]] = returned[t[1]]
      BY <1>3, <2>1
      DEF Post, Begin, WriteWqe, BumpHead, WriteDoorbell, Drain, Fence, Goto, TypeOK
    <2> QED
      BY <1>1, <2>2 DEF Told, ReturnedTold
  <1>4. ASSUME NEW q \in Queues, NicReads(q) PROVE w <= Told(t)'
    BY <1>1, <1>4 DEF NicReads, Told, ReturnedTold
  <1>5. CASE UNCHANGED vars
    BY <1>1, <1>5 DEF vars, Told, ReturnedTold
  <1> QED
    BY <1>2, <1>3, <1>4, <1>5, PostIs DEF Next

\* With one thread to a ring and the ring never full, a post that returned 0 was read,
\* or a NIC that reads up to the doorbell record will come to it.
THEOREM ReturnedPostsInRecord ==
  ASSUME OnePoster, NeverFull
  PROVE  Spec => []ReturnedInRecord
  <1>1. RoomInRing
    BY NeverFull, WorkQueueAssumption DEF NeverFull, RoomInRing
  <1>2. Init => ReturnedTold
    BY RingOf DEF Init, ReturnedTold
  <1>3. IInv /\ ReturnedTold => ReturnedInRecord
    <2> SUFFICES ASSUME IInv, ReturnedTold, NEW q \in Queues, NEW w \in returned[q]
                 PROVE  w <= Len(read[q]) + ((Decoded(q, db_record[q]) + Cnt - tail[q]) % Cnt)
      BY DEF ReturnedInRecord
    <2>1. PICK t \in Threads : t[1] = q
      <3>1. PICK p : Posters = {p}
        BY OnePoster DEF OnePoster
      <3>2. <<q, p>> \in Threads /\ <<q, p>>[1] = q
        BY <3>1 DEF Threads
      <3> QED
        BY <3>2
    <2> DEFINE r == Len(read[q])
    <2>2. /\ r \in Nat /\ begun[q] \in Nat /\ Cnt \in Nat /\ Cnt > 0
          /\ Outstanding \in Nat /\ Outstanding < Cnt
      BY <2>1, TypesOf, WorkQueueAssumption, NeverFull DEF IInv, TypeInv, NeverFull
    <2>3. /\ Decoded(q, db_record[q]) = Told(t) % Cnt /\ tail[q] = r % Cnt
          /\ r <= Told(t) /\ begun[q] - r <= Outstanding /\ w <= Told(t)
      BY <2>1 DEF IInv, RingInv, Positions, ReturnedTold
    <2>4. Told(t) \in Int /\ Told(t) <= begun[q]
      BY <2>1, <2>2 DEF Told
    <2>5. Told(t) \in Nat /\ Told(t) - r < Cnt
      <3> HIDE DEF r
      <3> QED
        BY <2>2, <2>3, <2>4
    <2>6. ((Told(t) % Cnt) + Cnt - (r % Cnt)) % Cnt = Told(t) - r
      BY <2>2, <2>3, <2>5, Distance
    <2> HIDE DEF r
    <2>7. w <= r + (Told(t) - r)
      BY <2>2, <2>3, <2>5
    <2> QED
      BY <2>3, <2>6, <2>7 DEF r
  <1>4. IInv /\ ReturnedTold /\ [Next]_vars => ReturnedTold'
    BY OnePoster, ReturnedStep
  <1>5. Spec => []IInv
    BY <1>1, OnePoster, RingsFollowPosts
  <1> QED
    BY <1>2, <1>3, <1>4, <1>5, PTL DEF Spec

=============================================================================
