----------------------------- MODULE WorkQueue -----------------------------
(***************************************************************************)
(* The data path of a queue pair: mlx5_ib_post_send_full and               *)
(* mlx5_ib_post_recv_full (kext/mlx5_qp.cpp) writing WQEs to the send and  *)
(* receive rings, and the NIC reading them.                                *)
(*                                                                         *)
(* The posting code keeps only a masked head: it does not know how many    *)
(* WQEs the NIC has read, so how many may be outstanding is up to the      *)
(* caller.  There is no barrier between the stores to the WQE and the one  *)
(* to the doorbell record, and the kext is built for arm64e.               *)
(*                                                                         *)
(* A WQE is the number of the post that wrote it, 0 in a fresh ring.  That *)
(* the NIC ever looks at the doorbell record is not assumed: the BlueFlame *)
(* write that would tell it to is never made, as mqp->uar is never set.    *)
(***************************************************************************)
EXTENDS Naturals, Sequences

CONSTANTS
  Queues,       \* the rings in use, a subset of {"sq", "rq"}
  Posters,      \* threads posting to each ring
  Cnt,          \* sq_wqe_cnt, rq_wqe_cnt: 256
  Outstanding,  \* WQEs the callers keep unread in a ring at most
  MaxPosts,     \* bound: posts to each ring
  StoresInOrder \* the NIC sees the stores of a thread in program order

ASSUME WorkQueueAssumption ==
  /\ Queues \subseteq {"sq", "rq"}
  /\ Cnt \in Nat /\ Cnt > 0
  /\ Outstanding \in Nat /\ MaxPosts \in Nat
  /\ StoresInOrder \in BOOLEAN

\* The receive record has 16 bits.
ASSUME RecordAssumption == Cnt <= 65536

VARIABLES
  head,       \* sq_head, rq_head
  ring,       \* the WQEs as the NIC would read them
  db_record,  \* the words of the doorbell record as the NIC would read them
  pc,         \* where each poster is
  local,      \* each poster's head and the WQE it posts
  store,      \* the WQE store of a poster that the NIC cannot see yet, if any
  begun,      \* posts begun on each ring
  returned,   \* posts of each ring that returned 0
  tail,       \* the NIC's position in each ring
  read        \* the WQEs the NIC read, in order

vars == <<head, ring, db_record, pc, local, store, begun, returned, tail, read>>

Threads == Queues \X Posters
NoStore == [slot |-> 0, wqe |-> 0]

\* alloc_qp_resources zeroes the rings, the heads and the doorbell record.
Init ==
  /\ head = [q \in Queues |-> 0]
  /\ ring = [q \in Queues |-> [i \in 0..Cnt - 1 |-> 0]]
  /\ db_record = [q \in Queues |-> 0]
  /\ pc = [t \in Threads |-> "idle"]
  /\ local = [t \in Threads |-> [head |-> 0, wqe |-> 0]]
  /\ store = [t \in Threads |-> NoStore]
  /\ begun = [q \in Queues |-> 0]
  /\ returned = [q \in Queues |-> {}]
  /\ tail = [q \in Queues |-> 0]
  /\ read = [q \in Queues |-> << >>]

Goto(t, from, to) == pc[t] = from /\ pc' = [pc EXCEPT ![t] = to]

\* A mutant: masks with cnt instead of cnt - 1.
Masked_OffByOne(i) == i % (Cnt + 1)

\* (head + 1) & (cnt - 1), for a cnt that is a power of two.
Masked(i) == i % Cnt

\* The word stored for a head: sq_head << sq_wqe_shift, or rq_head & 0xFFFF; and the
\* head a NIC that knows these formats takes from it.
Encoded(q, h) == IF q = "sq" THEN h * 64 ELSE h % 65536
Decoded(q, v) == IF q = "sq" THEN v \div 64 ELSE v

-----------------------------------------------------------------------------
(***************************************************************************)
(* Mutants: slips the properties below must catch; no part of Spec.        *)
(***************************************************************************)
\* Writes the WQE one slot ahead.
WriteWqe_NextSlot(t) ==
  /\ Goto(t, "write", "bump")
  /\ ring' = [ring EXCEPT ![t[1]][(local[t].head + 1) % Cnt] = local[t].wqe]
  /\ UNCHANGED <<head, db_record, local, store, begun, returned, tail, read>>

\* Writes the head the call began with.
WriteDoorbell_OldHead(t) ==
  /\ Goto(t, "doorbell", "fence")
  /\ db_record' = [db_record EXCEPT ![t[1]] = Encoded(t[1], local[t].head)]
  /\ UNCHANGED <<head, ring, local, store, begun, returned, tail, read>>

-----------------------------------------------------------------------------
(* A post, statement by statement; t[1] is the ring.                       *)

\* The caller posts only while fewer than Outstanding WQEs are unread.
Begin(t) ==
  LET q == t[1] IN
  /\ begun[q] < MaxPosts
  /\ begun[q] - Len(read[q]) < Outstanding
  /\ Goto(t, "idle", "write")
  /\ begun' = [begun EXCEPT ![q] = @ + 1]
  /\ local' = [local EXCEPT ![t] = [head |-> head[q], wqe |-> begun[q] + 1]]
  /\ UNCHANGED <<head, ring, db_record, store, returned, tail, read>>

\* The stores to the WQE, all its segments as one.
WriteWqe(t) ==
  /\ Goto(t, "write", "bump")
  /\ \/ /\ ring' = [ring EXCEPT ![t[1]][local[t].head] = local[t].wqe]
        /\ UNCHANGED store
     \/ /\ ~StoresInOrder
        /\ store' = [store EXCEPT ![t] = [slot |-> local[t].head, wqe |-> local[t].wqe]]
        /\ UNCHANGED ring
  /\ UNCHANGED <<head, db_record, local, begun, returned, tail, read>>

BumpHead(t) ==
  /\ Goto(t, "bump", "doorbell")
  /\ head' = [head EXCEPT ![t[1]] = Masked(local[t].head + 1)]
  /\ UNCHANGED <<ring, db_record, local, store, begun, returned, tail, read>>

WriteDoorbell(t) ==
  /\ Goto(t, "doorbell", "fence")
  /\ db_record' = [db_record EXCEPT ![t[1]] = Encoded(t[1], head[t[1]])]
  /\ UNCHANGED <<head, ring, local, store, begun, returned, tail, read>>

\* A store that was delayed reaches memory.
Drain(t) ==
  /\ store[t] # NoStore
  /\ ring' = [ring EXCEPT ![t[1]][store[t].slot] = store[t].wqe]
  /\ store' = [store EXCEPT ![t] = NoStore]
  /\ UNCHANGED <<head, db_record, pc, local, begun, returned, tail, read>>

\* OSSynchronizeIO waits for every store; then the call returns 0.  mqp->uar is
\* never set, so no BlueFlame register is written.
Fence(t) ==
  /\ store[t] = NoStore
  /\ Goto(t, "fence", "idle")
  /\ returned' = [returned EXCEPT ![t[1]] = @ \cup {local[t].wqe}]
  /\ UNCHANGED <<head, ring, db_record, local, store, begun, tail, read>>

Post(t) ==
  \/ Begin(t) \/ WriteWqe(t) \/ BumpHead(t) \/ WriteDoorbell(t) \/ Drain(t) \/ Fence(t)

post_send == \E t \in Threads : t[1] = "sq" /\ Post(t)
post_recv == \E t \in Threads : t[1] = "rq" /\ Post(t)

\* The NIC reads from its own position up to the head the record names.
NicReads(q) ==
  /\ tail[q] # Decoded(q, db_record[q])
  /\ read' = [read EXCEPT ![q] = Append(@, ring[q][tail[q]])]
  /\ tail' = [tail EXCEPT ![q] = (@ + 1) % Cnt]
  /\ UNCHANGED <<head, ring, db_record, pc, local, store, begun, returned>>

Next == post_send \/ post_recv \/ \E q \in Queues : Len(read[q]) < MaxPosts /\ NicReads(q)

Spec == Init /\ [][Next]_vars

-----------------------------------------------------------------------------
\* Types; heads and the NIC's position index the ring.
TypeOK ==
  /\ head \in [Queues -> 0..Cnt - 1]
  /\ ring \in [Queues -> [0..Cnt - 1 -> 0..MaxPosts]]
  /\ db_record \in [Queues -> Nat]
  /\ pc \in [Threads -> {"idle", "write", "bump", "doorbell", "fence"}]
  /\ local \in [Threads -> [head : 0..Cnt - 1, wqe : 0..MaxPosts]]
  /\ store \in [Threads -> [slot : 0..Cnt - 1, wqe : 0..MaxPosts]]
  /\ begun \in [Queues -> 0..MaxPosts]
  /\ returned \in [Queues -> SUBSET (1..MaxPosts)]
  /\ tail \in [Queues -> 0..Cnt - 1]
  /\ read \in [Queues -> Seq(0..MaxPosts)]

\* The NIC reads every WQE once, whole and in the order of the posts: none is
\* overwritten before it is read, none is read before it is written.
ReadInOrder ==
  \A q \in Queues : \A i \in DOMAIN read[q] : read[q][i] = i

\* The slot of a WQE is never reused before the NIC read it: the i-th WQE read is
\* that of the i-th post or, if the doorbell record overtook the store, what a lap
\* earlier left in the slot.
SlotsKept ==
  \A q \in Queues : \A i \in DOMAIN read[q] :
    \/ read[q][i] = i
    \/ ~StoresInOrder /\ read[q][i] = (IF i > Cnt THEN i - Cnt ELSE 0)

\* A post that returned 0 has been read, or lies between the NIC's position and the head
\* the doorbell record names: a NIC that reads up to the record misses none.
ReturnedInRecord ==
  \A q \in Queues : \A w \in returned[q] :
    w <= Len(read[q]) + ((Decoded(q, db_record[q]) + Cnt - tail[q]) % Cnt)

=============================================================================
