\* Aligned and unaligned regions, any reported ring geometry and any CQ size, up to
\* what 32 bits (here 6) cannot hold.
SPECIFICATION Spec
CONSTANTS
  Word = 64
  Starts = {0, 1, 7, 8, 13, 16}
  Lengths = {0, 1, 2, 3, 7, 8, 9, 15, 16, 17, 31, 32, 40, 48, 55, 56, 57, 63, 64, 65, 72, 121}
  PageSize = 8
  EntrySize = 2
  Logs = {0, 1, 2, 3, 4, 5}
  MaxCmdEntries = 4
  CmdEntryBytes = 4
  MailboxBytes = 4
  Cqes = {0, 1, 2, 3, 4, 5, 6, 7, 8, 9, 15, 16, 17, 32}
  DefaultCqes = 8
  CqeBytes = 4
INVARIANTS TypeOK EveryPageListed ListFits CommandMemoryFits CqesFit
CHECK_DEADLOCK FALSE
