--------------------------- MODULE DmaSizes_proofs ---------------------------
(***************************************************************************)
(* Proofs about DmaSizes: the sizes and the loops for any region, any      *)
(* reported ring geometry and any number of CQEs, in words of any width    *)
(* that holds the driver's own constants.  Powers of two are counted as    *)
(* the subsets of an interval, which spares an induction.                  *)
(***************************************************************************)
EXTENDS DmaSizes, Integers, FiniteSets, FiniteSetTheorems, TLAPS

-----------------------------------------------------------------------------
(* Arithmetic.                                                             *)

LEMMA DivMod ==
  ASSUME NEW k \in Nat, NEW m \in Nat, m > 0
  PROVE  k \div m \in Nat /\ k % m \in Nat /\ k % m < m /\ k = m * (k \div m) + (k % m)
  <1> DEFINE q == k \div m
             r == k % m
  <1>1. q \in Nat /\ r \in Nat /\ r < m
    OBVIOUS
  <1>2. r = k - m * q
    OBVIOUS
  <1> HIDE DEF q, r
  <1>3. k = m * q + r
    BY <1>1, <1>2
  <1> QED
    BY <1>1, <1>3, Zenon DEF q, r

LEMMA DivOf ==
  ASSUME NEW q \in Nat, NEW r \in Nat, NEW m \in Nat, r < m
  PROVE  (m * q + r) \div m = q
  OBVIOUS

LEMMA ModSmall ==
  ASSUME NEW k \in Nat, NEW m \in Nat, k < m
  PROVE  k % m = k
  OBVIOUS

LEMMA MulMono ==
  ASSUME NEW a \in Nat, NEW b \in Nat, NEW c \in Nat, a <= b
  PROVE  a * c <= b * c /\ c * a <= c * b /\ a * c \in Nat /\ b * c \in Nat
  OBVIOUS

LEMMA MulType == \A a, b \in Nat : a * b \in Nat
  OBVIOUS

\* A larger number has at least as many multiples below it.
LEMMA DivMono ==
  ASSUME NEW a \in Nat, NEW b \in Nat, NEW m \in Nat, m > 0, a <= b
  PROVE  a \div m <= b \div m
  OBVIOUS

\* The subsets of 1..k are 2^k.
LEMMA PowerIs ==
  ASSUME NEW k \in Nat
  PROVE  /\ IsFiniteSet(SUBSET (1..k)) /\ Cardinality(SUBSET (1..k)) = 2^k
         /\ 2^k \in Nat /\ 2^k > 0
  <1>1. IsFiniteSet(1..k) /\ Cardinality(1..k) = k
    BY FS_Interval
  <1>2. IsFiniteSet(SUBSET (1..k)) /\ Cardinality(SUBSET (1..k)) = 2^k
    BY <1>1, FS_SUBSET
  <1>3. SUBSET (1..k) # {}
    OBVIOUS
  <1>4. 2^k \in Nat /\ 2^k # 0
    BY <1>2, <1>3, FS_CardinalityType, FS_EmptySet
  <1> QED
    BY <1>2, <1>4

\* Half of the subsets of 1..k + 1 have k + 1.
LEMMA PowerStep ==
  ASSUME NEW k \in Nat
  PROVE  2^(k + 1) = 2 * 2^k
  <1> DEFINE S == SUBSET (1..k)
             T == {A \cup {k + 1} : A \in S}
             f == [A \in S |-> A \cup {k + 1}]
  <1>1. SUBSET (1..k + 1) = S \cup T
    <2>1. S \cup T \subseteq SUBSET (1..k + 1)
      <3>1. 1..k \subseteq 1..k + 1 /\ k + 1 \in 1..k + 1
        OBVIOUS
      <3> QED
        BY <3>1
    <2>2. ASSUME NEW B \in SUBSET (1..k + 1) PROVE B \in S \cup T
      <3>1. CASE k + 1 \in B
        <4>1. B \ {k + 1} \in S /\ B = (B \ {k + 1}) \cup {k + 1}
          BY <3>1
        <4> QED
          BY <4>1
      <3>2. CASE k + 1 \notin B
        BY <3>2
      <3> QED
        BY <3>1, <3>2
    <2> QED
      BY <2>1, <2>2
  <1>2. S \cap T = {}
    OBVIOUS
  <1>3. f \in Bijection(S, T)
    <2>1. \A A, B \in S : f[A] = f[B] => A = B
      <3>1. \A A \in S : k + 1 \notin A
        OBVIOUS
      <3>2. \A A \in S : f[A] = A \cup {k + 1}
        OBVIOUS
      <3>3. ASSUME NEW A \in S, NEW B \in S, A \cup {k + 1} = B \cup {k + 1} PROVE A = B
        <4>1. A = (A \cup {k + 1}) \ {k + 1} /\ B = (B \cup {k + 1}) \ {k + 1}
          BY <3>1
        <4> QED
          BY <3>3, <4>1
      <3> HIDE DEF S, f
      <3> QED
        BY <3>2, <3>3
    <2>2. f \in [S -> T]
      OBVIOUS
    <2>3. \A B \in T : \E A \in S : f[A] = B
      OBVIOUS
    <2> HIDE DEF S, T, f
    <2> QED
      BY <2>1, <2>2, <2>3, Zenon DEF Bijection, Injection, Surjection, IsInjective
  <1>4. k + 1 \in Nat
    OBVIOUS
  <1>5. IsFiniteSet(S) /\ Cardinality(S) = 2^k /\ 2^k \in Nat /\ Cardinality(S \cup T) = 2^(k + 1)
    BY <1>1, <1>4, PowerIs
  <1> HIDE DEF S, T, f
  <1>6. ExistsBijection(S, T)
    BY <1>3 DEF ExistsBijection
  <1>7. IsFiniteSet(T) /\ Cardinality(T) = 2^k
    BY <1>5, <1>6, FS_Bijection
  <1>8. Cardinality(S \cap T) = 0
    BY <1>2, FS_EmptySet
  <1>9. Cardinality(S \cup T) = Cardinality(S) + Cardinality(T) - Cardinality(S \cap T)
    BY <1>5, <1>7, FS_Union
  <1> QED
    BY <1>5, <1>7, <1>8, <1>9

-----------------------------------------------------------------------------
(* The inductive invariant: what each computation has reached.             *)

Fresh == pc = "size" => count = 0 /\ i = 0 /\ tmp = 0

\* The page list: its sizes, and the pages listed so far.
ListInv ==
  job.op = "build_pas_list" =>
    /\ pc \in {"size", "pas", "done"}
    /\ pc # "size" => count = PagesOf(U32(job.length)) /\ size = RoundUp(U32(count * EntrySize))
    /\ \A j \in 0..i - 1 : (job.start + j * PageSize) \div PageSize \in pas
    /\ pc = "done" => i = count

\* The command memory: its sizes.
CmdInv ==
  job.op = "cmd_init" =>
    /\ pc \in {"size", "entries", "done"}
    /\ pc # "size" =>
         /\ count = NumEntries(job.log_size)
         /\ size = U32(count * 2^job.log_stride)
         /\ mbox = U32(count * 2 * MailboxBytes)

\* The CQ: its size, and what the loop has halved i times.
CqInv ==
  job.op = "create_cq" =>
    /\ pc \in {"size", "log", "done"}
    /\ pc # "size" =>
         /\ count > 0 /\ tmp > 0 /\ i + tmp <= count
         /\ size = U32(count * CqeBytes)
         /\ 2^i * tmp <= count /\ count < 2^i * (tmp + 1)
    /\ pc = "done" => tmp = 1

IInv == TypeOK /\ Fresh /\ ListInv /\ CmdInv /\ CqInv

-----------------------------------------------------------------------------
(* Facts about the constants, the arguments and the operators.             *)

LEMMA ConstantsAre ==
  /\ Word \in Nat /\ Word > 0 /\ PageSize \in Nat /\ PageSize > 0 /\ EntrySize \in Nat /\ EntrySize > 0
  /\ MaxCmdEntries \in Nat /\ MaxCmdEntries > 0 /\ CmdEntryBytes \in Nat /\ CmdEntryBytes > 0
  /\ MailboxBytes \in Nat /\ MailboxBytes > 0
  /\ DefaultCqes \in Nat /\ DefaultCqes > 0 /\ CqeBytes \in Nat /\ CqeBytes > 0
  BY DmaSizesAssumption

LEMMA JobIs ==
  ASSUME job \in Jobs
  PROVE  /\ job.op \in {"build_pas_list", "cmd_init", "create_cq"}
         /\ job.op = "build_pas_list" => job.start \in Nat /\ job.length \in Nat
         /\ job.op = "cmd_init" => job.log_size \in Nat /\ job.log_stride \in Nat
         /\ job.op = "create_cq" => job.cqe \in Nat
  BY DmaSizesAssumption DEF Jobs

LEMMA U32Is ==
  ASSUME NEW k \in Nat
  PROVE  U32(k) \in 0..Word - 1 /\ U32(k) \in Nat /\ (k < Word => U32(k) = k)
  BY ConstantsAre, ModSmall DEF U32

\* Rounding up stays inside the word, and loses nothing if it does not wrap.
LEMMA RoundUpIs ==
  ASSUME NEW k \in Nat
  PROVE  /\ RoundUp(k) \in 0..Word - 1
         /\ k + PageSize <= Word => k <= RoundUp(k)
  <1> DEFINE x == U32(k + PageSize - 1)
             q == x \div PageSize
             r == x % PageSize
  <1>1. PageSize \in Nat /\ PageSize > 0 /\ Word \in Nat /\ k + PageSize - 1 \in Nat
    BY ConstantsAre
  <1>2. x \in 0..Word - 1 /\ x \in Nat /\ (k + PageSize <= Word => x = k + PageSize - 1)
    BY <1>1, U32Is
  <1> HIDE DEF x
  <1>3. q \in Nat /\ r \in Nat /\ r < PageSize /\ x = PageSize * q + r
    BY <1>1, <1>2, DivMod
  <1>4. RoundUp(k) = q * PageSize
    BY DEF RoundUp, x
  <1> HIDE DEF q, r
  <1>5. q * PageSize \in Nat /\ q * PageSize = PageSize * q
    BY <1>1, <1>3
  <1> QED
    BY <1>1, <1>2, <1>3, <1>4, <1>5

\* A list has at least one page, and few enough for its entries to be counted in a word.
LEMMA PagesOfIs ==
  ASSUME NEW k \in Nat
  PROVE  /\ PagesOf(k) \in Nat /\ PagesOf(k) > 0
         /\ PagesOf(k) * EntrySize \in Nat
         /\ PagesOf(k) * EntrySize + PageSize <= Word
  <1> DEFINE x == U32(k + PageSize - 1)
             q == x \div PageSize
             m == Word \div PageSize + 1
  <1>1. /\ PageSize \in Nat /\ PageSize > 0 /\ Word \in Nat /\ k + PageSize - 1 \in Nat
        /\ EntrySize \in Nat
    BY ConstantsAre
  <1>2. x \in Nat /\ x <= Word
    BY <1>1, U32Is
  <1> HIDE DEF x
  <1>3. q \in Nat /\ Word \div PageSize \in Nat /\ q <= Word \div PageSize
    BY <1>1, <1>2, DivMod, DivMono
  <1>4. PagesOf(k) = IF q = 0 THEN 1 ELSE q
    BY DEF PagesOf, x
  <1> HIDE DEF q
  <1>5. PagesOf(k) \in Nat /\ PagesOf(k) > 0 /\ m \in Nat /\ PagesOf(k) <= m
    BY <1>3, <1>4
  <1>6. EntrySize * m + PageSize <= Word
    BY DmaSizesAssumption
  <1> HIDE DEF m
  <1>7. PagesOf(k) * EntrySize <= m * EntrySize /\ PagesOf(k) * EntrySize \in Nat
    BY <1>1, <1>5, MulMono
  <1>8. m * EntrySize = EntrySize * m /\ m * EntrySize \in Nat
    BY <1>1, <1>5
  <1> QED
    BY <1>1, <1>5, <1>6, <1>7, <1>8

LEMMA NumEntriesIs ==
  ASSUME NEW k \in Nat
  PROVE  NumEntries(k) \in Nat /\ NumEntries(k) > 0 /\ NumEntries(k) <= MaxCmdEntries
  <1>1. 2^k \in Nat /\ 2^k > 0
    BY PowerIs
  <1> QED
    BY <1>1, ConstantsAre DEF NumEntries

-----------------------------------------------------------------------------
(* Every step keeps the invariant.                                         *)

LEMMA InitHolds == Init => IInv
  <1> SUFFICES ASSUME Init PROVE IInv
    OBVIOUS
  <1>1. TypeOK /\ Fresh
    BY ConstantsAre DEF Init, TypeOK, Fresh
  <1>2. ListInv /\ CmdInv /\ CqInv
    BY DEF Init, ListInv, CmdInv, CqInv
  <1> QED
    BY <1>1, <1>2 DEF IInv

LEMMA StutterHolds == IInv /\ UNCHANGED vars => IInv'
  <1> SUFFICES ASSUME IInv, UNCHANGED vars PROVE IInv'
    OBVIOUS
  <1> USE DEF IInv, vars
  <1>1. TypeOK' /\ Fresh'
    BY DEF TypeOK, Fresh
  <1>2. ListInv' /\ CmdInv' /\ CqInv'
    BY DEF ListInv, CmdInv, CqInv
  <1> QED
    BY <1>1, <1>2

\* The page list: its size is computed, and each round of the loop lists a page.
LEMMA BuildPasListKeeps ==
  ASSUME IInv, BuildPasList
  PROVE  IInv'
  <1>1. /\ pc = "size" /\ pc' = "pas" /\ job.op = "build_pas_list" /\ i = 0 /\ tmp = 0
        /\ count' = PagesOf(U32(job.length)) /\ size' = RoundUp(U32(count' * EntrySize))
        /\ UNCHANGED <<job, mbox, pas, i, tmp>>
    BY DEF IInv, Fresh, BuildPasList
  <1>2. U32(job.length) \in Nat
    BY <1>1, JobIs, U32Is DEF IInv, TypeOK
  <1>3. count' \in Nat /\ count' * EntrySize \in Nat
    BY <1>1, <1>2, PagesOfIs
  <1>4. size' \in 0..Word - 1
    BY <1>1, <1>3, U32Is, RoundUpIs
  <1>5. TypeOK' /\ Fresh'
    BY <1>1, <1>3, <1>4 DEF IInv, TypeOK, Fresh
  <1>6. ListInv' /\ CmdInv' /\ CqInv'
    BY <1>1 DEF ListInv, CmdInv, CqInv
  <1> QED
    BY <1>5, <1>6 DEF IInv

LEMMA FillPasKeeps ==
  ASSUME IInv, FillPas
  PROVE  IInv'
  <1> DEFINE page == (job.start + i * PageSize) \div PageSize
  <1>1. /\ pc = "pas" /\ i < count /\ pas' = pas \cup {page} /\ i' = i + 1
        /\ UNCHANGED <<job, count, size, mbox, tmp, pc>>
    BY DEF FillPas
  <1>2. job.op = "build_pas_list" /\ count \in Nat /\ i \in Nat
    BY <1>1, JobIs DEF IInv, TypeOK, ListInv, CmdInv, CqInv
  <1>3. page \in Nat
    <2>1. job.start + i * PageSize \in Nat
      BY <1>2, JobIs, ConstantsAre, MulMono DEF IInv, TypeOK
    <2> QED
      BY <2>1, ConstantsAre, DivMod
  <1>4. TypeOK' /\ Fresh'
    <2> HIDE DEF page
    <2>1. i' \in 0..count'
      BY <1>1, <1>2
    <2> QED
      BY <1>1, <1>3, <2>1 DEF IInv, TypeOK, Fresh
  <1>5. ListInv'
    <2>1. \A j \in 0..i' - 1 : (job.start + j * PageSize) \div PageSize \in pas'
      <3>1. ASSUME NEW j \in 0..i - 1 PROVE (job.start + j * PageSize) \div PageSize \in pas
        BY <1>2, <3>1 DEF IInv, ListInv
      <3>2. \A j \in 0..i' - 1 : j \in 0..i - 1 \/ j = i
        BY <1>1, <1>2
      <3> QED
        BY <1>1, <3>1, <3>2
    <2> QED
      BY <1>1, <1>2, <2>1 DEF IInv, ListInv
  <1>6. CmdInv' /\ CqInv'
    BY <1>1, <1>2 DEF CmdInv, CqInv
  <1> QED
    BY <1>4, <1>5, <1>6 DEF IInv

\* The command memory: its sizes are computed, and the loop goes over its entries.
LEMMA CmdInitKeeps ==
  ASSUME IInv, CmdInit
  PROVE  IInv'
  <1>1. /\ pc = "size" /\ pc' = "entries" /\ job.op = "cmd_init" /\ i = 0 /\ tmp = 0
        /\ count' = NumEntries(job.log_size) /\ size' = U32(count' * 2^job.log_stride)
        /\ mbox' = U32(count' * 2 * MailboxBytes)
        /\ UNCHANGED <<job, pas, i, tmp>>
    BY DEF IInv, Fresh, CmdInit
  <1>2. job.log_size \in Nat /\ job.log_stride \in Nat
    BY <1>1, JobIs DEF IInv, TypeOK
  <1>3. count' \in Nat /\ 2^job.log_stride \in Nat
    BY <1>1, <1>2, NumEntriesIs, PowerIs
  <1>4. count' * 2^job.log_stride \in Nat
    BY <1>3, MulMono
  <1>5. count' * 2 * MailboxBytes \in Nat
    <2>1. count' * 2 \in Nat
      BY <1>3, MulType
    <2> QED
      BY <2>1, ConstantsAre, MulType
  <1>6. TypeOK' /\ Fresh'
    BY <1>1, <1>3, <1>4, <1>5, U32Is DEF IInv, TypeOK, Fresh
  <1>7. ListInv' /\ CmdInv' /\ CqInv'
    BY <1>1 DEF ListInv, CmdInv, CqInv
  <1> QED
    BY <1>6, <1>7 DEF IInv

LEMMA InitEntryKeeps ==
  ASSUME IInv, InitEntry
  PROVE  IInv'
  <1>1. /\ pc = "entries" /\ i < count /\ i' = i + 1
        /\ UNCHANGED <<job, count, size, mbox, pas, tmp, pc>>
    BY DEF InitEntry
  <1>2. job.op = "cmd_init" /\ count \in Nat /\ i \in Nat
    BY <1>1, JobIs DEF IInv, TypeOK, ListInv, CmdInv, CqInv
  <1>3. TypeOK' /\ Fresh'
    BY <1>1, <1>2 DEF IInv, TypeOK, Fresh
  <1>4. ListInv' /\ CmdInv' /\ CqInv'
    BY <1>1, <1>2 DEF IInv, ListInv, CmdInv, CqInv
  <1> QED
    BY <1>3, <1>4 DEF IInv

\* The CQ: its size is computed, and each round of the loop halves what is left.
LEMMA CreateCqKeeps ==
  ASSUME IInv, CreateCq
  PROVE  IInv'
  <1>1. /\ pc = "size" /\ pc' = "log" /\ job.op = "create_cq" /\ i = 0
        /\ count' = (IF job.cqe > 0 THEN job.cqe ELSE DefaultCqes)
        /\ size' = U32(count' * CqeBytes) /\ tmp' = count'
        /\ UNCHANGED <<job, mbox, pas, i>>
    BY DEF IInv, Fresh, CreateCq
  <1>2. count' \in Nat /\ count' > 0
    BY <1>1, JobIs, ConstantsAre DEF IInv, TypeOK
  <1>3. count' * CqeBytes \in Nat
    BY <1>2, ConstantsAre, MulType
  <1>4. TypeOK' /\ Fresh'
    BY <1>1, <1>2, <1>3, U32Is DEF IInv, TypeOK, Fresh
  <1>5. CqInv'
    <2>1. 2^0 = 1
      OBVIOUS
    <2>2. 2^i' * tmp' <= count' /\ count' < 2^i' * (tmp' + 1)
      BY <1>1, <1>2, <2>1
    <2> QED
      BY <1>1, <1>2, <2>2 DEF CqInv
  <1>6. ListInv' /\ CmdInv'
    BY <1>1 DEF ListInv, CmdInv
  <1> QED
    BY <1>4, <1>5, <1>6 DEF IInv

LEMMA LogStepKeeps ==
  ASSUME IInv, LogStep
  PROVE  IInv'
  <1>1. /\ pc = "log" /\ tmp > 1 /\ i' = i + 1 /\ tmp' = tmp \div 2
        /\ UNCHANGED <<job, count, size, mbox, pas, pc>>
    BY DEF LogStep
  <1>2. job.op = "create_cq" /\ count \in Nat /\ i \in Nat /\ tmp \in Nat
    BY <1>1, JobIs DEF IInv, TypeOK, ListInv, CmdInv, CqInv
  <1>3. i + tmp <= count /\ 2^i * tmp <= count /\ count < 2^i * (tmp + 1)
    BY <1>1, <1>2 DEF IInv, CqInv
  <1>4. tmp' \in Nat /\ tmp' + 1 \in Nat
    BY <1>1, <1>2
  <1>5. /\ tmp' \in Nat /\ tmp' > 0 /\ tmp' < tmp
        /\ 2 * tmp' <= tmp /\ tmp + 1 <= 2 * (tmp' + 1)
    BY <1>1, <1>2
  <1>6. i' + tmp' <= count /\ i' \in 0..count /\ tmp' \in 0..count
    BY <1>1, <1>2, <1>3, <1>5
  <1>7. 2^i' * tmp' <= count /\ count < 2^i' * (tmp' + 1)
    <2> DEFINE p == 2^i
               a == 2 * tmp'
               b == 2 * (tmp' + 1)
    <2>1. p \in Nat /\ 2^i' = 2 * p
      BY <1>1, <1>2, PowerIs, PowerStep
    <2> HIDE DEF p
    <2>2. /\ a \in Nat /\ b \in Nat /\ tmp + 1 \in Nat
          /\ a <= tmp /\ tmp + 1 <= b
      <3>1. a \in Nat /\ b \in Nat
        BY <1>4, MulType
      <3>2. tmp + 1 \in Nat
        BY <1>2
      <3>3. a <= tmp /\ tmp + 1 <= b
        BY <1>5
      <3> QED
        BY <3>1, <3>2, <3>3
    <2>3. (2 * p) * tmp' = p * a /\ (2 * p) * (tmp' + 1) = p * b
      BY <1>5, <2>1
    <2> HIDE DEF a, b
    <2>4. p * a <= p * tmp /\ p * (tmp + 1) <= p * b
      BY <1>2, <2>1, <2>2, MulMono
    <2>5. p * a \in Nat /\ p * b \in Nat /\ p * tmp \in Nat /\ p * (tmp + 1) \in Nat
      BY <1>2, <2>1, <2>2, MulType
    <2>6. p * tmp <= count /\ count < p * (tmp + 1)
      BY <1>3 DEF p
    <2>7. p * a <= count /\ count < p * b
      BY <1>2, <2>4, <2>5, <2>6
    <2> QED
      BY <2>1, <2>3, <2>7
  <1>8. TypeOK' /\ Fresh'
    BY <1>1, <1>2, <1>6 DEF IInv, TypeOK, Fresh
  <1>9. ListInv' /\ CmdInv'
    BY <1>1, <1>2 DEF ListInv, CmdInv
  <1>10. CqInv'
    BY <1>1, <1>2, <1>5, <1>6, <1>7 DEF IInv, CqInv
  <1> QED
    BY <1>8, <1>9, <1>10 DEF IInv

LEMMA DoneKeeps ==
  ASSUME IInv, Done
  PROVE  IInv'
  <1>1. /\ pc' = "done" /\ pc \in {"pas", "entries", "log"}
        /\ pc = "log" => tmp <= 1
        /\ pc \in {"pas", "entries"} => i = count
        /\ UNCHANGED <<job, count, size, mbox, pas, i, tmp>>
    BY DEF Done
  <1>2. TypeOK' /\ Fresh'
    BY <1>1 DEF IInv, TypeOK, Fresh
  <1>3. ListInv' /\ CmdInv'
    BY <1>1 DEF IInv, ListInv, CmdInv
  <1>4. CqInv'
    <2>1. tmp \in Nat
      BY DEF IInv, TypeOK
    <2> QED
      BY <1>1, <2>1 DEF IInv, CqInv
  <1> QED
    BY <1>2, <1>3, <1>4 DEF IInv

-----------------------------------------------------------------------------
(* What the invariant says of the memory.                                  *)

\* The list holds a page address for every page counted.
LEMMA ListFitsHolds == IInv => ListFits
  <1> SUFFICES ASSUME IInv, pc = "pas" PROVE count * EntrySize <= size
    BY DEF ListFits
  <1>1. job.op = "build_pas_list"
    BY JobIs DEF IInv, TypeOK, ListInv, CmdInv, CqInv
  <1>2. count = PagesOf(U32(job.length)) /\ size = RoundUp(U32(count * EntrySize))
    BY <1>1 DEF IInv, ListInv
  <1>3. U32(job.length) \in Nat
    BY <1>1, JobIs, U32Is DEF IInv, TypeOK
  <1> DEFINE x == count * EntrySize
  <1>4. x \in Nat /\ x + PageSize <= Word
    BY <1>2, <1>3, PagesOfIs
  <1>5. size = RoundUp(U32(x))
    BY <1>2
  <1> HIDE DEF x
  <1>6. U32(x) = x
    BY <1>4, U32Is, ConstantsAre
  <1>7. x <= RoundUp(x)
    BY <1>4, RoundUpIs
  <1>8. x <= size
    BY <1>5, <1>6, <1>7
  <1> QED
    BY <1>8 DEF x

\* Page j of a region that starts at a page is listed by round j of the loop, and the
\* rounds are as many as the pages.
LEMMA EveryPageHolds == IInv => EveryPageListed
  <1> DEFINE start == job.start
             len == job.length
             s == start \div PageSize
             x == len + PageSize - 1
  <1> SUFFICES ASSUME IInv, pc = "done", job.op = "build_pas_list",
                      len > 0, start % PageSize = 0, len + PageSize <= Word
               PROVE  s..((start + len - 1) \div PageSize) \subseteq pas
    BY DEF EveryPageListed
  <1>1. start \in Nat /\ len \in Nat /\ PageSize \in Nat /\ PageSize > 0 /\ Word \in Nat
    BY JobIs, ConstantsAre DEF IInv, TypeOK
  <1>2. s \in Nat /\ start = PageSize * s
    <2>1. start = PageSize * s + (start % PageSize) /\ s \in Nat
      BY <1>1, DivMod
    <2> HIDE DEF s, start
    <2>2. PageSize * s + 0 = PageSize * s
      BY <1>1, <2>1
    <2> QED
      BY <2>1, <2>2
  <1>3. count = x \div PageSize
    <2>1. count = PagesOf(U32(len))
      BY DEF IInv, ListInv
    <2>2. U32(len) = len /\ U32(x) = x /\ x \in Nat /\ x >= PageSize
      BY <1>1, U32Is
    <2>3. x \div PageSize >= PageSize \div PageSize /\ PageSize \div PageSize = 1
      <3>1. PageSize \div PageSize = 1
        BY <1>1
      <3> QED
        BY <1>1, <2>2, <3>1, DivMono
    <2> QED
      BY <2>1, <2>2, <2>3 DEF PagesOf
  <1> DEFINE r == x % PageSize
  <1>4. count \in Nat /\ r \in Nat /\ r < PageSize /\ x = PageSize * count + r
    <2>1. x \in Nat
      BY <1>1
    <2> HIDE DEF x
    <2> QED
      BY <1>1, <1>3, <2>1, DivMod
  <1>5. count > 0
    <2>1. x >= PageSize
      BY <1>1
    <2> HIDE DEF x, r
    <2>2. CASE count = 0
      <3>1. PageSize * count = 0
        BY <1>1, <2>2
      <3> QED
        BY <1>1, <1>4, <2>1, <3>1
    <2> QED
      BY <1>4, <2>2
  <1>6. (start + len - 1) \div PageSize = s + (count - 1)
    <2>1. start + len - 1 = PageSize * (s + (count - 1)) + r
      <3> HIDE DEF r, s, start, len
      <3>1. PageSize * (s + (count - 1)) = PageSize * s + PageSize * count - PageSize
        BY <1>1, <1>2, <1>4
      <3>2. PageSize * s \in Nat /\ PageSize * count \in Nat
        BY <1>1, <1>2, <1>4, MulType
      <3> QED
        BY <1>1, <1>2, <1>4, <3>1, <3>2
    <2>2. s + (count - 1) \in Nat
      BY <1>2, <1>4, <1>5
    <2> HIDE DEF r, s, start, len
    <2> QED
      BY <1>1, <1>4, <2>1, <2>2, DivOf
  <1>7. ASSUME NEW j \in 0..count - 1 PROVE s + j \in pas
    <2>1. (start + j * PageSize) \div PageSize \in pas
      BY <1>7 DEF IInv, ListInv
    <2>2. (start + j * PageSize) \div PageSize = s + j
      <3> HIDE DEF start, s
      <3>1. j \in Nat /\ s + j \in Nat
        BY <1>2, <1>4, <1>7
      <3>2. PageSize * (s + j) + 0 = PageSize * s + j * PageSize
        BY <1>1, <1>2, <3>1
      <3>3. (PageSize * (s + j) + 0) \div PageSize = s + j
        BY <1>1, <3>1, DivOf
      <3> QED
        BY <1>2, <3>2, <3>3
    <2> QED
      BY <2>1, <2>2
  <1> HIDE DEF s
  <1>8. ASSUME NEW k \in s..(s + (count - 1)) PROVE k \in pas
    <2>1. k - s \in 0..count - 1 /\ s + (k - s) = k
      BY <1>2, <1>4, <1>5, <1>8
    <2> QED
      BY <1>7, <2>1
  <1> QED
    BY <1>6, <1>8

\* A stride holds an entry, so consecutive entries do not overlap.
LEMMA CommandMemoryHolds == IInv => CommandMemoryFits
  <1> DEFINE stride == 2^job.log_stride
  <1> SUFFICES ASSUME IInv, pc = "entries", stride >= CmdEntryBytes, MaxCmdEntries * stride < Word
               PROVE  /\ i < count => U32(i * stride) + CmdEntryBytes <= size
                      /\ \A j \in 0..i - 1 : j < count => U32(j * stride) + CmdEntryBytes <= U32(i * stride)
                      /\ 2 * count * MailboxBytes <= mbox
    BY DEF CommandMemoryFits
  <1>1. job.op = "cmd_init"
    BY JobIs DEF IInv, TypeOK, ListInv, CmdInv, CqInv
  <1>2. /\ count = NumEntries(job.log_size) /\ size = U32(count * stride)
        /\ mbox = U32(count * 2 * MailboxBytes)
    BY <1>1 DEF IInv, CmdInv
  <1>3. job.log_size \in Nat /\ stride \in Nat
    BY <1>1, JobIs, PowerIs DEF IInv, TypeOK
  <1>4. count \in Nat /\ count <= MaxCmdEntries /\ i \in 0..count
    BY <1>2, <1>3, NumEntriesIs DEF IInv, TypeOK
  <1> HIDE DEF stride
  <1>5. /\ Word \in Nat /\ MaxCmdEntries \in Nat /\ CmdEntryBytes \in Nat /\ MailboxBytes \in Nat
        /\ MaxCmdEntries * 2 * MailboxBytes < Word
    BY ConstantsAre, DmaSizesAssumption
  \* What lies inside the ring is counted without a wrap.
  <1>6. ASSUME NEW k \in 0..count PROVE U32(k * stride) = k * stride /\ k * stride \in Nat
    <2>1. k \in Nat /\ k <= MaxCmdEntries
      BY <1>4, <1>5, <1>6
    <2>2. k * stride <= MaxCmdEntries * stride /\ k * stride \in Nat /\ MaxCmdEntries * stride \in Nat
      BY <1>3, <1>5, <2>1, MulMono
    <2>3. k * stride < Word
      BY <1>5, <2>2
    <2> QED
      BY <2>2, <2>3, U32Is
  <1>7. ASSUME NEW k \in 0..count, NEW l \in 0..count, k < l
        PROVE  U32(k * stride) + CmdEntryBytes <= U32(l * stride)
    <2>1. k \in Nat /\ l \in Nat /\ k + 1 \in Nat /\ k + 1 <= l
      BY <1>4, <1>7
    <2>2. (k + 1) * stride <= l * stride
      BY <1>3, <2>1, MulMono
    <2>3. (k + 1) * stride = k * stride + stride
      BY <1>3, <2>1
    <2>4. k * stride \in Nat /\ l * stride \in Nat
      BY <1>6
    <2>5. k * stride + CmdEntryBytes <= l * stride
      BY <1>3, <1>5, <2>2, <2>3, <2>4
    <2> QED
      BY <1>6, <2>5
  <1>8. i < count => U32(i * stride) + CmdEntryBytes <= size
    BY <1>2, <1>4, <1>7
  <1>9. \A j \in 0..i - 1 : j < count => U32(j * stride) + CmdEntryBytes <= U32(i * stride)
    BY <1>4, <1>7
  <1>10. 2 * count * MailboxBytes <= mbox
    <2> DEFINE m == 2 * MailboxBytes
    <2>1. m \in Nat /\ count * 2 * MailboxBytes = count * m /\ 2 * count * MailboxBytes = count * m
          /\ MaxCmdEntries * 2 * MailboxBytes = MaxCmdEntries * m
      BY <1>4, <1>5
    <2> HIDE DEF m
    <2>2. count * m <= MaxCmdEntries * m /\ count * m \in Nat /\ MaxCmdEntries * m \in Nat
      BY <1>4, <1>5, <2>1, MulMono
    <2>3. U32(count * m) = count * m
      BY <1>5, <2>1, <2>2, U32Is
    <2> QED
      BY <1>2, <2>1, <2>2, <2>3
  <1> QED
    BY <1>8, <1>9, <1>10

\* The loop has halved the count down to one, so 2^log_cq_size is the largest power of
\* two not above it.
LEMMA CqesFitHolds == IInv => CqesFit
  <1> DEFINE p == 2^i
  <1> SUFFICES ASSUME IInv, pc = "done", job.op = "create_cq", count * CqeBytes < Word
               PROVE  p * CqeBytes <= size /\ count < 2 * p
    BY DEF CqesFit
  <1>1. /\ tmp = 1 /\ size = U32(count * CqeBytes)
        /\ p * tmp <= count /\ count < p * (tmp + 1)
    BY DEF IInv, CqInv
  <1>2. count \in Nat /\ i \in Nat
    BY DEF IInv, TypeOK
  <1>3. p \in Nat
    BY <1>2, PowerIs
  <1> HIDE DEF p
  <1>4. p <= count /\ count < 2 * p
    BY <1>1, <1>2, <1>3
  <1>5. p * CqeBytes <= count * CqeBytes /\ count * CqeBytes \in Nat
    BY <1>2, <1>3, <1>4, ConstantsAre, MulMono
  <1>6. U32(count * CqeBytes) = count * CqeBytes
    BY <1>5, U32Is
  <1> QED
    BY <1>1, <1>4, <1>5, <1>6

-----------------------------------------------------------------------------
(* The theorems.                                                           *)

\* The sizes, the list and the loop counters follow from the arguments alone.
THEOREM SizesInvariant == Spec => []IInv
  <1>1. IInv /\ Next => IInv'
    BY BuildPasListKeeps, FillPasKeeps, CmdInitKeeps, InitEntryKeeps, CreateCqKeeps, LogStepKeeps,
       DoneKeeps
    DEF Next
  <1> QED
    BY <1>1, InitHolds, StutterHolds, PTL DEF Spec

\* Every size is a uint32_t and no loop runs past its end.
THEOREM TypeCorrect == Spec => []TypeOK
  <1>1. IInv => TypeOK
    BY DEF IInv
  <1> QED
    BY <1>1, SizesInvariant, PTL

\* build_pas_list writes only inside the list it allocated, for any region.
THEOREM ListHoldsItsPages == Spec => []ListFits
  BY SizesInvariant, ListFitsHolds, PTL

\* A region that starts at a page and whose length can be rounded up in 32 bits is
\* listed whole.
THEOREM RegionsListedWhole == Spec => []EveryPageListed
  BY SizesInvariant, EveryPageHolds, PTL

\* Whatever ring geometry the device reports, mlx5_cmd_init writes each entry inside the
\* ring and none over another, and every slot has its two mailboxes.
THEOREM CommandMemorySuffices == Spec => []CommandMemoryFits
  BY SizesInvariant, CommandMemoryHolds, PTL

\* The CQEs the firmware may write are inside the ring, and more than half of those
\* asked for.
THEOREM CqRingSuffices == Spec => []CqesFit
  BY SizesInvariant, CqesFitHolds, PTL

=============================================================================
