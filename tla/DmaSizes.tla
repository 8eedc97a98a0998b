------------------------------ MODULE DmaSizes ------------------------------
(***************************************************************************)
(* The sizes of DMA memory the driver computes from what a client or the   *)
(* device gives it, in the arithmetic of its 32-bit integers, and the      *)
(* accesses made to that memory afterwards:                                *)
(*   - build_pas_list (kext/mlx5_mr.cpp): the page list of a region;       *)
(*   - mlx5_cmd_init (kext/mlx5_cmd.cpp): command ring and mailboxes, from *)
(*     the sizes the init segment reports;                                 *)
(*   - mlx5_ib_create_cq (kext/mlx5_verbs.cpp): the ring of a CQ.          *)
(*                                                                         *)
(* A region is [start, start + length) of physically contiguous memory, as *)
(* the code assumes.  The NIC translates page by page, ignoring the low    *)
(* bits of a listed address.  Allocations succeed.                         *)
(***************************************************************************)
EXTENDS Naturals

CONSTANTS
  Word,             \* 2^32: the sizes are uint32_t
  Starts, Lengths,  \* arguments of reg_user_mr explored
  PageSize,         \* 4096, for the pages and for rounding the list up
  EntrySize,        \* 8 bytes for each address in the list
  Logs,             \* log_size and log_stride explored, 5 bits each
  MaxCmdEntries,    \* 32 (MLX5_MAX_CMD_ENTRIES)
  CmdEntryBytes,    \* 64, the size of mlx5_cmd_prot_block
  MailboxBytes,     \* 4096 (MLX5_CMD_MAILBOX_SIZE)
  Cqes,             \* cq->cqe explored, 0 for every one not positive
  DefaultCqes,      \* 64
  CqeBytes          \* 64

ASSUME DmaSizesAssumption ==
  /\ Starts \subseteq Nat /\ Lengths \subseteq Nat /\ Logs \subseteq Nat /\ Cqes \subseteq Nat
  /\ {Word, PageSize, EntrySize, MaxCmdEntries, CmdEntryBytes, MailboxBytes,
      DefaultCqes, CqeBytes} \subseteq Nat \ {0}
  /\ MaxCmdEntries * 2 * MailboxBytes < Word
  /\ EntrySize * (Word \div PageSize + 1) + PageSize <= Word
  /\ DefaultCqes * CqeBytes < Word
  /\ \A l \in Logs : 2^l < Word

VARIABLES
  job,    \* the call and its arguments
  count,  \* npages, num_entries or cqe_count
  size,   \* bytes allocated: pas_alloc or ring_size
  mbox,   \* mbox_pool_size
  pas,    \* the pages listed so far
  i,      \* loop counter: pas[i], ring entry i, or log_cq_size
  tmp,    \* local tmp of create_cq
  pc

vars == <<job, count, size, mbox, pas, i, tmp, pc>>

Jobs ==
  [op : {"build_pas_list"}, start : Starts, length : Lengths]
    \cup [op : {"cmd_init"}, log_size : Logs, log_stride : Logs]
    \cup [op : {"create_cq"}, cqe : Cqes]

\* A value stored in a uint32_t.
U32(n) == n % Word

Init ==
  /\ job \in Jobs
  /\ count = 0 /\ size = 0 /\ mbox = 0 /\ pas = {} /\ i = 0 /\ tmp = 0
  /\ pc = "size"

-----------------------------------------------------------------------------
(***************************************************************************)
(* Mutants: slips the properties below must catch; no part of Spec.        *)
(***************************************************************************)
\* Counts whole pages only.
PagesOf_RoundsDown(len) == IF len \div PageSize = 0 THEN 1 ELSE len \div PageSize

\* Allocates the list without rounding it up to what its entries need.
RoundUp_Down(n) == (n \div PageSize) * PageSize

\* Runs the loop once too often.
FillPas_OneMore ==
  /\ pc = "pas" /\ i <= count
  /\ pas' = pas \cup {(job.start + i * PageSize) \div PageSize}
  /\ i' = i + 1
  /\ UNCHANGED <<job, count, size, mbox, tmp, pc>>

\* Takes the number of entries as the device reports it.
NumEntries_NoClamp(log) == 2^log

\* Computes the logarithm rounded up.
LogStep_Up ==
  /\ pc = "log" /\ tmp > 1
  /\ i' = i + 1 /\ tmp' = (tmp + 1) \div 2
  /\ UNCHANGED <<job, count, size, mbox, pas, pc>>

-----------------------------------------------------------------------------
(* The page list of a memory region.                                       *)

\* (n + 4095) & ~4095.
RoundUp(n) == (U32(n + PageSize - 1) \div PageSize) * PageSize

PagesOf(len) ==
  LET n == U32(len + PageSize - 1) \div PageSize IN IF n = 0 THEN 1 ELSE n

\* The call passes (uint32_t)length.
BuildPasList ==
  /\ pc = "size" /\ job.op = "build_pas_list"
  /\ count' = PagesOf(U32(job.length))
  /\ size' = RoundUp(U32(count' * EntrySize))
  /\ pc' = "pas"
  /\ UNCHANGED <<job, mbox, pas, i, tmp>>

\* pas[i] = base_addr + i * page_size; the NIC takes the page of that address.
FillPas ==
  /\ pc = "pas" /\ i < count
  /\ pas' = pas \cup {(job.start + i * PageSize) \div PageSize}
  /\ i' = i + 1
  /\ UNCHANGED <<job, count, size, mbox, tmp, pc>>

-----------------------------------------------------------------------------
(* The command ring and the mailboxes.                                     *)

NumEntries(log) == IF 2^log > MaxCmdEntries THEN MaxCmdEntries ELSE 2^log

CmdInit ==
  /\ pc = "size" /\ job.op = "cmd_init"
  /\ count' = NumEntries(job.log_size)
  /\ size' = U32(count' * 2^job.log_stride)
  /\ mbox' = U32(count' * 2 * MailboxBytes)
  /\ pc' = "entries"
  /\ UNCHANGED <<job, pas, i, tmp>>

\* Writes entry i, at i * entry_stride.
InitEntry ==
  /\ pc = "entries" /\ i < count
  /\ i' = i + 1
  /\ UNCHANGED <<job, count, size, mbox, pas, tmp, pc>>

-----------------------------------------------------------------------------
(* The ring of a completion queue.                                         *)

CreateCq ==
  /\ pc = "size" /\ job.op = "create_cq"
  /\ count' = IF job.cqe > 0 THEN job.cqe ELSE DefaultCqes
  /\ size' = U32(count' * CqeBytes)
  /\ tmp' = count'
  /\ pc' = "log"
  /\ UNCHANGED <<job, mbox, pas, i>>

\* while (tmp > 1) { log_cq_size++; tmp >>= 1; }
LogStep ==
  /\ pc = "log" /\ tmp > 1
  /\ i' = i + 1 /\ tmp' = tmp \div 2
  /\ UNCHANGED <<job, count, size, mbox, pas, pc>>

-----------------------------------------------------------------------------
Done ==
  /\ IF pc = "log" THEN tmp <= 1 ELSE pc \in {"pas", "entries"} /\ i = count
  /\ pc' = "done"
  /\ UNCHANGED <<job, count, size, mbox, pas, i, tmp>>

Next == BuildPasList \/ FillPas \/ CmdInit \/ InitEntry \/ CreateCq \/ LogStep \/ Done

Spec == Init /\ [][Next]_vars

-----------------------------------------------------------------------------
\* Types; sizes are uint32_t, and no loop runs past its end.
TypeOK ==
  /\ job \in Jobs
  /\ count \in Nat /\ size \in 0..Word - 1 /\ mbox \in 0..Word - 1
  /\ pas \subseteq Nat /\ i \in 0..count /\ tmp \in 0..count
  /\ pc \in {"size", "pas", "entries", "log", "done"}

\* Every page of a region is in the list the firmware gets, if the region starts
\* at a page and its length can be rounded up in 32 bits; nothing checks either.
EveryPageListed ==
  pc = "done" /\ job.op = "build_pas_list" =>
    LET start == job.start  len == job.length IN
    len > 0 /\ start % PageSize = 0 /\ len + PageSize <= Word =>
      (start \div PageSize)..((start + len - 1) \div PageSize) \subseteq pas

\* build_pas_list writes only inside the list it allocated, for any region.
ListFits == pc = "pas" => count * EntrySize <= size

\* Whatever number of entries the device reports, the loop of mlx5_cmd_init writes
\* each entry inside the ring and not over another one, and every slot has its two
\* mailboxes; if a stride holds an entry and the largest ring fits in 32 bits,
\* neither of which is checked.
CommandMemoryFits ==
  pc = "entries" =>
    LET stride == 2^job.log_stride IN
    stride >= CmdEntryBytes /\ MaxCmdEntries * stride < Word =>
      /\ i < count => U32(i * stride) + CmdEntryBytes <= size
      /\ \A j \in 0..i - 1 : j < count => U32(j * stride) + CmdEntryBytes <= U32(i * stride)
      /\ 2 * count * MailboxBytes <= mbox

\* The CQEs the firmware may write, 2^log_cq_size, are inside the ring, and more
\* than half of those asked for; if the size of the ring fits in 32 bits, which
\* nothing checks.
CqesFit ==
  pc = "done" /\ job.op = "create_cq" /\ count * CqeBytes < Word =>
    2^i * CqeBytes <= size /\ count < 2 * 2^i

=============================================================================
