----------------------------- MODULE HcaBringup -----------------------------
(***************************************************************************)
(* The life of the VerbifrostConnectXRDMA service: start() with            *)
(* initHardware() and mlx5_cmd_init, the four bring-up commands, and       *)
(* stop() with freeHardware() and mlx5_cmd_cleanup.                        *)
(*                                                                         *)
(* The four counted objects the service owns are named by the fields that  *)
(* point to them.  mlx5_cmd_exec is the service CmdService describes: a    *)
(* step of start() here, since start() runs alone.  The temporary          *)
(* IODMACommands, which every path releases, and the IORegistry properties *)
(* are left out.                                                           *)
(***************************************************************************)
EXTENDS Integers, Sequences

CONSTANTS
  Faults,     \* the points of start() that may fail, a subset of FaultPoints
  BootPolls,  \* iterations of waitForInitializing: 1000
  MaxLoads    \* bound: times the kext is loaded

FaultPoints == {"super", "cast", "map", "ring", "ringdma", "mbox", "mboxdma"}

ASSUME BringupAssumption ==
  /\ Faults \subseteq FaultPoints
  /\ BootPolls \in Nat
  /\ MaxLoads \in Nat

VARIABLES
  pc,            \* the next step of start(), or "unloaded", "started", "stop"
  ptr,           \* which of the object's pointers are non-null
  refs,          \* references held on each object
  reachable,     \* ctx->mbox_dma_base is the address of the mailbox pool
  published,     \* registerService() was called
  polls,         \* local i of waitForInitializing
  loads,         \* times start() was entered
  failed,        \* history: the points of start() that failed in this load
  initializing,  \* MLX5_ISEG_INITIALIZING_BIT
  fwRing,        \* the firmware has the address of this load's command ring
  accepted       \* commands the firmware carried out in this load, in order

firmware == <<initializing, fwRing, accepted>>
vars == <<pc, ptr, refs, reachable, published, polls, loads, failed, firmware>>

Objects == {"fPCIDevice", "fBAR0Map", "cmd_ring_md", "mbox_md"}
Commands == <<"ENABLE_HCA", "QUERY_PAGES", "QUERY_HCA_CAP", "INIT_HCA">>
CommandNames == {Commands[i] : i \in DOMAIN Commands}
Places == {"unloaded", "super", "provider", "bar0", "iseg", "wait", "ring", "ringdma",
           "register", "mbox", "mboxdma", "publish", "started", "stop"} \cup CommandNames

Init ==
  /\ pc = "unloaded"
  /\ ptr = [o \in Objects |-> FALSE]
  /\ refs = [o \in Objects |-> 0]
  /\ reachable = FALSE
  /\ published = FALSE
  /\ polls = 0
  /\ loads = 0
  /\ failed = {}
  /\ initializing \in BOOLEAN
  /\ fwRing = FALSE
  /\ accepted = << >>

-----------------------------------------------------------------------------
Goto(from, to) == pc = from /\ pc' = to

Fails(p) == p \in Faults /\ failed' = failed \cup {p}
Succeeds == UNCHANGED failed

Acquire(o) ==
  /\ ptr' = [ptr EXCEPT ![o] = TRUE]
  /\ refs' = [refs EXCEPT ![o] = @ + 1]

-----------------------------------------------------------------------------
(***************************************************************************)
(* Mutants: slips the properties below must catch; no part of Spec.        *)
(***************************************************************************)
\* Keeps polling the boot bit without counting.
WaitAgain_Uncounted ==
  /\ pc = "wait" /\ polls < BootPolls /\ initializing
  /\ UNCHANGED vars

\* One poll too many.
WaitAgain_OffByOne ==
  /\ pc = "wait" /\ polls <= BootPolls /\ initializing
  /\ polls' = polls + 1
  /\ UNCHANGED <<pc, ptr, refs, reachable, published, loads, failed, firmware>>

\* Goes on when the firmware never booted.
WaitExpired_Ignored ==
  /\ polls = BootPolls
  /\ Goto("wait", "ring")
  /\ UNCHANGED <<ptr, refs, reachable, published, polls, loads, failed, firmware>>

\* Ignores what ENABLE_HCA returned.
sendEnableHCA_Unchecked ==
  /\ Goto("ENABLE_HCA", "QUERY_PAGES")
  /\ accepted' \in {accepted, Append(accepted, "ENABLE_HCA")}
  /\ UNCHANGED <<ptr, refs, reachable, published, polls, loads, failed, initializing, fwRing>>

\* Forgets the map of BAR0.
stop_KeepsBAR0 ==
  /\ Goto("started", "unloaded") \/ Goto("stop", "unloaded")
  /\ refs' = [o \in Objects |-> IF ptr[o] /\ o # "fBAR0Map" THEN refs[o] - 1 ELSE refs[o]]
  /\ ptr' = [o \in Objects |-> FALSE]
  /\ published' = FALSE
  /\ UNCHANGED <<reachable, polls, loads, failed, firmware>>

\* Leaves the pointers it released.
stop_KeepsPointers ==
  /\ Goto("started", "unloaded") \/ Goto("stop", "unloaded")
  /\ refs' = [o \in Objects |-> IF ptr[o] THEN refs[o] - 1 ELSE refs[o]]
  /\ published' = FALSE
  /\ UNCHANGED <<ptr, reachable, polls, loads, failed, firmware>>

-----------------------------------------------------------------------------
(* start() and initHardware(), in the order of their statements.           *)

\* IOKit makes the service, zero-filled, and calls start().  Only the PCI device is
\* the same object in every load.
Load ==
  /\ loads < MaxLoads
  /\ Goto("unloaded", "super")
  /\ loads' = loads + 1
  /\ polls' = 0
  /\ reachable' = FALSE
  /\ fwRing' = FALSE
  /\ accepted' = << >>
  /\ failed' = {}
  /\ refs' = [o \in Objects |-> IF o = "fPCIDevice" THEN refs[o] ELSE 0]
  /\ ptr' = [o \in Objects |-> FALSE]
  /\ UNCHANGED <<published, initializing>>

SuperStart ==
  /\ \/ Fails("super") /\ Goto("super", "unloaded")
     \/ Succeeds /\ Goto("super", "provider")
  /\ UNCHANGED <<ptr, refs, reachable, published, polls, loads, firmware>>

\* The cast of the provider, its retain, and enabling the PCI device.  A wrong
\* provider makes start() return without stop().
TakeProvider ==
  /\ \/ Fails("cast") /\ Goto("provider", "unloaded") /\ UNCHANGED <<ptr, refs>>
     \/ Succeeds /\ Goto("provider", "bar0") /\ Acquire("fPCIDevice")
  /\ UNCHANGED <<reachable, published, polls, loads, firmware>>

mapBAR0 ==
  /\ \/ Fails("map") /\ Goto("bar0", "stop") /\ UNCHANGED <<ptr, refs>>
     \/ Succeeds /\ Goto("bar0", "iseg") /\ Acquire("fBAR0Map")
  /\ UNCHANGED <<reachable, published, polls, loads, firmware>>

\* Only reads and logs; fInitSeg is set once BAR0 is mapped.
readInitSegment ==
  /\ Goto("iseg", IF ptr["fBAR0Map"] THEN "wait" ELSE "stop")
  /\ polls' = 0
  /\ UNCHANGED <<ptr, refs, reachable, published, loads, failed, firmware>>

WaitAgain ==
  /\ pc = "wait" /\ polls < BootPolls /\ initializing
  /\ polls' = polls + 1
  /\ UNCHANGED <<pc, ptr, refs, reachable, published, loads, failed, firmware>>

WaitDone ==
  /\ polls < BootPolls /\ ~initializing
  /\ Goto("wait", "ring")
  /\ UNCHANGED <<ptr, refs, reachable, published, polls, loads, failed, firmware>>

\* The bit is not read again after the loop.
WaitExpired ==
  /\ polls = BootPolls
  /\ Goto("wait", "stop")
  /\ UNCHANGED <<ptr, refs, reachable, published, polls, loads, failed, firmware>>

\* mlx5_cmd_init zeroes the context and allocates the ring.
AllocRing ==
  /\ \/ /\ Fails("ring") /\ Goto("ring", "stop")
        /\ ptr' = [ptr EXCEPT !["cmd_ring_md"] = FALSE, !["mbox_md"] = FALSE]
        /\ UNCHANGED refs
     \/ /\ Succeeds /\ Goto("ring", "ringdma")
        /\ ptr' = [ptr EXCEPT !["cmd_ring_md"] = TRUE, !["mbox_md"] = FALSE]
        /\ refs' = [refs EXCEPT !["cmd_ring_md"] = @ + 1]
  /\ UNCHANGED <<reachable, published, polls, loads, firmware>>

\* Each way the mapping fails releases the ring and leaves the pointer set.
MapRing ==
  /\ \/ /\ Fails("ringdma") /\ Goto("ringdma", "stop")
        /\ refs' = [refs EXCEPT !["cmd_ring_md"] = @ - 1]
     \/ Succeeds /\ Goto("ringdma", "register") /\ UNCHANGED refs
  /\ UNCHANGED <<ptr, reachable, published, polls, loads, firmware>>

\* The entries get owner SW before the address goes to the init segment.
RegisterRing ==
  /\ Goto("register", "mbox")
  /\ fwRing' = TRUE
  /\ UNCHANGED <<ptr, refs, reachable, published, polls, loads, failed, initializing, accepted>>

AllocMailboxes ==
  /\ \/ /\ Fails("mbox") /\ Goto("mbox", "stop")
        /\ refs' = [refs EXCEPT !["cmd_ring_md"] = @ - 1]
        /\ UNCHANGED ptr
     \/ Succeeds /\ Goto("mbox", "mboxdma") /\ Acquire("mbox_md")
  /\ UNCHANGED <<reachable, published, polls, loads, firmware>>

\* No failure of this mapping makes mlx5_cmd_init fail: the address stays 0.
\* The doorbell of all entries finds none owned by the hardware.
MapMailboxes ==
  /\ Goto("mboxdma", "ENABLE_HCA")
  /\ \/ Fails("mboxdma") /\ reachable' = FALSE
     \/ Succeeds /\ reachable' = TRUE
  /\ UNCHANGED <<ptr, refs, published, polls, loads, firmware>>

(***************************************************************************)
(* One mlx5_cmd_exec.  With its mailboxes where the entry says, it replies *)
(* as CmdService: Success iff the command took effect, Timeout either way. *)
(* With address 0 in the entry the firmware gets no command, the output    *)
(* mailbox keeps its zeroes, and a zero status reads as success.           *)
(***************************************************************************)
Exec(command, next) ==
  \E ret \in {"Success", "Error", "Timeout"}, effect \in BOOLEAN :
    /\ effect => reachable
    /\ ret = "Success" /\ reachable => effect
    /\ ret = "Error" => ~effect
    /\ Goto(command, IF ret = "Success" THEN next ELSE "stop")
    /\ accepted' = IF effect THEN Append(accepted, command) ELSE accepted

sendEnableHCA ==
  /\ Exec("ENABLE_HCA", "QUERY_PAGES")
  /\ UNCHANGED <<ptr, refs, reachable, published, polls, loads, failed, initializing, fwRing>>

\* The answer is logged; no command gives the firmware the pages.
queryPages ==
  /\ Exec("QUERY_PAGES", "QUERY_HCA_CAP")
  /\ UNCHANGED <<ptr, refs, reachable, published, polls, loads, failed, initializing, fwRing>>

queryHcaCap ==
  /\ Exec("QUERY_HCA_CAP", "INIT_HCA")
  /\ UNCHANGED <<ptr, refs, reachable, published, polls, loads, failed, initializing, fwRing>>

initHca ==
  /\ Exec("INIT_HCA", "publish")
  /\ UNCHANGED <<ptr, refs, reachable, published, polls, loads, failed, initializing, fwRing>>

Publish ==
  /\ Goto("publish", "started")
  /\ published' = TRUE
  /\ UNCHANGED <<ptr, refs, reachable, polls, loads, failed, firmware>>

\* stop(): called by start() when initHardware failed, and by IOKit.  freeHardware
\* and mlx5_cmd_cleanup release what a pointer names and clear the pointer.  The
\* firmware is told nothing.
stop ==
  /\ Goto("started", "unloaded") \/ Goto("stop", "unloaded")
  /\ refs' = [o \in Objects |-> IF ptr[o] THEN refs[o] - 1 ELSE refs[o]]
  /\ ptr' = [o \in Objects |-> FALSE]
  /\ published' = FALSE
  /\ UNCHANGED <<reachable, polls, loads, failed, firmware>>

\* A step the thread in start() takes.
StartStep ==
  \/ SuperStart \/ TakeProvider
  \/ mapBAR0 \/ readInitSegment
  \/ WaitAgain \/ WaitDone \/ WaitExpired
  \/ AllocRing \/ MapRing \/ RegisterRing \/ AllocMailboxes \/ MapMailboxes
  \/ sendEnableHCA \/ queryPages \/ queryHcaCap \/ initHca
  \/ Publish
  \/ pc = "stop" /\ stop

\* The firmware finishes booting.
FwBoots ==
  /\ initializing
  /\ initializing' = FALSE
  /\ UNCHANGED <<pc, ptr, refs, reachable, published, polls, loads, failed, fwRing, accepted>>

Next == Load \/ StartStep \/ (pc = "started" /\ stop) \/ FwBoots

Spec == Init /\ [][Next]_vars

\* start() runs on; nothing is assumed of the firmware, of IOKit's calls to
\* stop(), or of new loads.  EveryCallReturns of CmdQueue lets Exec be a step.
FairSpec == Spec /\ WF_vars(StartStep)

-----------------------------------------------------------------------------
\* Types; the boot bit is polled at most BootPolls times.
TypeOK ==
  /\ pc \in Places
  /\ ptr \in [Objects -> BOOLEAN]
  /\ refs \in [Objects -> Int]
  /\ reachable \in BOOLEAN
  /\ published \in BOOLEAN
  /\ polls \in 0..BootPolls
  /\ loads \in 0..MaxLoads
  /\ failed \subseteq Faults
  /\ initializing \in BOOLEAN
  /\ fwRing \in BOOLEAN
  /\ accepted \in Seq(CommandNames)

\* A service IOKit can see drives an HCA that really went through ENABLE_HCA,
\* the queries and INIT_HCA, in that order, in this load, unless the mailboxes
\* could not be mapped, which mlx5_cmd_init does not report.
ReadyMeansInitialized == published /\ "mboxdma" \notin failed => accepted = Commands

\* The failures after which mlx5_cmd_init releases the ring and keeps the pointer.
RingReleasedEarly == failed \cap {"ringdma", "mbox"} # {}

\* Whatever start() got to before it failed, and after every stop(), each object
\* the service retained or allocated was released exactly once; the ring too,
\* unless mlx5_cmd_init released it itself.
ReleasedWhenDown ==
  pc = "unloaded" =>
    \A o \in Objects : refs[o] = 0 \/ (o = "cmd_ring_md" /\ RingReleasedEarly)

\* A pointer stop() would release still holds its reference; with the same exception.
PointersLive ==
  \A o \in Objects : ptr[o] => refs[o] = 1 \/ (o = "cmd_ring_md" /\ RingReleasedEarly)

\* No release without a reference: IOKit would panic or free someone else's memory.
NoOverRelease == \A o \in Objects : refs[o] >= 0

\* A command is sent only to booted firmware that knows a ring still allocated,
\* with a mailbox pool, however start() got there.
CommandsHaveQueue ==
  pc \in CommandNames =>
    /\ ~initializing /\ fwRing
    /\ refs["cmd_ring_md"] = 1 /\ refs["mbox_md"] = 1

\* start() returns, with the service ready or cleaned up, even if the firmware
\* never boots.
StartReturns ==
  pc \notin {"unloaded", "started"} ~> pc \in {"unloaded", "started"}

=============================================================================
