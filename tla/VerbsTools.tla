----------------------------- MODULE VerbsTools -----------------------------
(***************************************************************************)
(* The programs in tools/ that use the verbs API, and the verbs as they    *)
(* reach a ConnectX device through the table of mlx5_ib_init_ops           *)
(* (kext/mlx5_verbs.cpp): vfinfo, trace_verbs and dump_ops go over all     *)
(* devices, resolve_dispatch and resolve_got open the first and look up    *)
(* symbols.                                                                *)
(*                                                                         *)
(* A run of a tool takes and gives back contexts, PDs, MRs, CQs and QPs;   *)
(* any call may fail.  What is printed is left out, and so are calls whose *)
(* outcome only changes what is printed.  A device of another provider may *)
(* answer a call either way; an mlx5 device answers as its verb does.      *)
(***************************************************************************)
EXTENDS Naturals

CONSTANTS
  Tools,       \* the tools explored
  MaxDevices,  \* bound: devices in the list
  MaxGids,     \* bound: gid_tbl_len a provider reports
  GidLimit     \* 4: entries of the GID table vfinfo shows at most

Resolvers == {"resolve_dispatch", "resolve_got"}

ASSUME VerbsToolsAssumption ==
  /\ Tools \subseteq {"vfinfo", "trace_verbs", "dump_ops"} \cup Resolvers
  /\ MaxDevices \in Nat /\ MaxGids \in Nat /\ GidLimit \in Nat

VARIABLES
  tool,      \* the program that runs
  provider,  \* who serves each device
  n,         \* num_devices
  list,      \* the device list: "none", "null", "held" or "freed"
  dev,       \* the device at hand, 0 before the first
  port,      \* the local port attributes
  reported,  \* history: what the provider said of the port of this device
  unanswered,\* history: devices whose query_port failed
  g,         \* local g of the GID loop
  held,      \* what the tool has of each device
  refused,   \* history: what could not be destroyed
  pc

vars == <<tool, provider, n, list, dev, port, reported, unanswered, g, held, refused, pc>>

Devices == 1..MaxDevices
Kinds == {"ctx", "pd", "mr", "cq", "qp"}
Ports == [active : BOOLEAN, gids : 0..MaxGids]
ZeroPort == [active |-> FALSE, gids |-> 0]

Init ==
  /\ tool \in Tools
  /\ provider \in [Devices -> {"mlx5", "other"}]
  /\ n = 0 /\ list = "none" /\ dev = 0
  /\ port = ZeroPort /\ reported = ZeroPort
  /\ unanswered = {} /\ held = {} /\ refused = {}
  /\ g = 0
  /\ pc = "list"

-----------------------------------------------------------------------------
(***************************************************************************)
(* The verbs of an mlx5 device by their possible outcomes, TRUE for        *)
(* success.  Those that send a command (VerbObjects) may go either way;    *)
(* the table holds the stubs of the others, not the verbs of mlx5_qp.cpp   *)
(* and mlx5_mr.cpp.                                                        *)
(***************************************************************************)
ByCommand == {TRUE, FALSE}
mlx5_ib_query_port == {TRUE}
mlx5_ib_create_qp == {FALSE}
mlx5_ib_destroy_qp == {FALSE}
mlx5_ib_reg_user_mr == {FALSE}

mlx5_ib_init_ops ==
  [query_port |-> mlx5_ib_query_port,
   alloc_pd |-> ByCommand, dealloc_pd |-> ByCommand,
   create_cq |-> ByCommand, destroy_cq |-> ByCommand,
   create_qp |-> mlx5_ib_create_qp, destroy_qp |-> mlx5_ib_destroy_qp,
   reg_mr |-> mlx5_ib_reg_user_mr, dereg_mr |-> ByCommand]

Outcomes(verb) == IF provider[dev] = "mlx5" THEN mlx5_ib_init_ops[verb] ELSE BOOLEAN

-----------------------------------------------------------------------------
(***************************************************************************)
(* Where a tool goes on after each call: <<on success, on failure>>.  A    *)
(* tool looks at no return value of a destruction.                         *)
(***************************************************************************)
(* First the mutants: slips the properties below must catch.               *)

\* Leaves the PD when the MR cannot be registered.
vfinfo_flow_NoDealloc ==
  [alloc_pd |-> <<"reg_mr", "create_cq">>, reg_mr |-> <<"dereg_mr", "create_cq">>,
   dereg_mr |-> "dealloc_pd", dealloc_pd |-> "create_cq",
   create_cq |-> <<"destroy_cq", "close">>, destroy_cq |-> "close"]

\* Deallocates the PD before the CQ and the QP.
trace_verbs_flow_PdFirst ==
  [alloc_pd |-> <<"create_cq", "close">>, create_cq |-> <<"create_qp", "dealloc_pd">>,
   create_qp |-> <<"dealloc_pd", "destroy_cq">>, destroy_qp |-> "destroy_cq",
   destroy_cq |-> "close", dealloc_pd |-> "destroy_qp"]

-----------------------------------------------------------------------------
vfinfo_flow ==
  [alloc_pd |-> <<"reg_mr", "create_cq">>, reg_mr |-> <<"dereg_mr", "dealloc_pd">>,
   dereg_mr |-> "dealloc_pd", dealloc_pd |-> "create_cq",
   create_cq |-> <<"destroy_cq", "close">>, destroy_cq |-> "close"]

trace_verbs_flow ==
  [alloc_pd |-> <<"create_cq", "close">>, create_cq |-> <<"create_qp", "dealloc_pd">>,
   create_qp |-> <<"destroy_qp", "destroy_cq">>, destroy_qp |-> "destroy_cq",
   destroy_cq |-> "dealloc_pd", dealloc_pd |-> "close"]

Flow(verb) == IF tool = "vfinfo" THEN vfinfo_flow[verb] ELSE trace_verbs_flow[verb]

Create(verb, kind) ==
  /\ pc = verb
  /\ \E ok \in Outcomes(verb) :
       /\ held' = IF ok THEN held \cup {<<kind, dev>>} ELSE held
       /\ pc' = Flow(verb)[IF ok THEN 1 ELSE 2]
  /\ UNCHANGED <<tool, provider, n, list, dev, port, reported, unanswered, g, refused>>

Destroy(verb, kind) ==
  /\ pc = verb
  /\ \E ok \in Outcomes(verb) :
       /\ held' = IF ok THEN held \ {<<kind, dev>>} ELSE held
       /\ refused' = IF ok THEN refused ELSE refused \cup {<<kind, dev>>}
  /\ pc' = Flow(verb)
  /\ UNCHANGED <<tool, provider, n, list, dev, port, reported, unanswered, g>>

-----------------------------------------------------------------------------
(* Mutants of the steps below.                                             *)

\* Keeps the attributes of the port before.
Fresh_Kept(p) == IF tool = "vfinfo" THEN p = port ELSE p \in Ports

\* Looks at one entry too many.
query_gid_PastLimit ==
  /\ pc = "gid"
  /\ \/ g < port.gids /\ g <= GidLimit /\ g' = g + 1 /\ pc' = pc
     \/ ~(g < port.gids /\ g <= GidLimit) /\ g' = g /\ pc' = "alloc_pd"
  /\ UNCHANGED <<tool, provider, n, list, dev, port, reported, unanswered, held, refused>>

\* Never gets to the next GID.
query_gid_Stays ==
  /\ pc = "gid"
  /\ pc' = IF g < port.gids /\ g < GidLimit THEN pc ELSE "alloc_pd"
  /\ UNCHANGED <<tool, provider, n, list, dev, port, reported, unanswered, g, held, refused>>

-----------------------------------------------------------------------------
\* trace_verbs and resolve_got stop when the library cannot be loaded.
dlopen_fails ==
  /\ pc = "list" /\ tool \in {"trace_verbs", "resolve_got"}
  /\ pc' = "exit"
  /\ UNCHANGED <<tool, provider, n, list, dev, port, reported, unanswered, g, held, refused>>

\* vfinfo stops when there is no list; the others go on and hand even a null list
\* to ibv_free_device_list.
get_device_list ==
  /\ pc = "list"
  /\ \E m \in 0..MaxDevices, null \in BOOLEAN :
       /\ null => m = 0
       /\ n' = m
       /\ list' = IF null THEN "null" ELSE "held"
       /\ pc' = IF tool = "vfinfo" /\ null THEN "exit" ELSE "next"
  /\ UNCHANGED <<tool, provider, dev, port, reported, unanswered, g, held, refused>>

\* The loop over the devices.
next_device ==
  /\ pc = "next" /\ tool \notin Resolvers
  /\ \/ dev < n /\ dev' = dev + 1 /\ pc' = "open"
     \/ dev = n /\ dev' = dev /\ pc' = "free_list"
  /\ UNCHANGED <<tool, provider, n, list, port, reported, unanswered, g, held, refused>>

\* A device that cannot be opened is skipped.
open_device ==
  /\ pc = "open"
  /\ \E ok \in BOOLEAN :
       /\ held' = IF ok THEN held \cup {<<"ctx", dev>>} ELSE held
       /\ pc' = IF ok THEN "port" ELSE "next"
  /\ UNCHANGED <<tool, provider, n, list, dev, port, reported, unanswered, g, refused>>

\* The attributes before the call: zeroed by vfinfo, uninitialised in the others.
Fresh(p) == IF tool = "vfinfo" THEN p = ZeroPort ELSE p \in Ports

\* The stub of mlx5 returns 0 and fills nothing in.
QueryPort(ok) ==
  /\ pc = "port" /\ ok \in Outcomes("query_port")
  /\ \E said \in Ports :
       LET filled == ok /\ provider[dev] = "other" IN
       /\ filled \/ Fresh(said)
       /\ port' = said
       /\ reported' = IF filled THEN said ELSE ZeroPort
  /\ unanswered' = IF ok THEN unanswered ELSE unanswered \cup {dev}
  /\ g' = 0
  /\ UNCHANGED <<tool, provider, n, list, dev, held, refused>>

\* A failure is printed; the table length is then the zero of the memset.
vfinfo_query_port ==
  /\ tool = "vfinfo"
  /\ \E ok \in BOOLEAN : QueryPort(ok)
  /\ pc' = "gid"

\* A failure goes on to the next device, the context still open.  Only an active
\* port is tried with verbs.
trace_verbs_query_port ==
  /\ tool = "trace_verbs"
  /\ \E ok \in BOOLEAN :
       /\ QueryPort(ok)
       /\ pc' = IF ok THEN IF port'.active THEN "alloc_pd" ELSE "close" ELSE "next"

\* The return value is ignored; the operations of an active device are printed.
dump_ops_query_port ==
  /\ tool = "dump_ops"
  /\ \E ok \in BOOLEAN : QueryPort(ok)
  /\ pc' = "close"

\* One entry of the GID table, or the end of the loop.
query_gid ==
  /\ pc = "gid"
  /\ \/ g < port.gids /\ g < GidLimit /\ g' = g + 1 /\ pc' = pc
     \/ ~(g < port.gids /\ g < GidLimit) /\ g' = g /\ pc' = "alloc_pd"
  /\ UNCHANGED <<tool, provider, n, list, dev, port, reported, unanswered, held, refused>>

\* resolve_dispatch and resolve_got keep no pointer to the context they open.
resolve_symbols ==
  /\ pc = "next" /\ tool \in Resolvers
  /\ dev' = IF n > 0 THEN 1 ELSE 0
  /\ \E ok \in BOOLEAN : held' = IF n > 0 /\ ok THEN {<<"ctx", 1>>} ELSE {}
  /\ pc' = "free_list"
  /\ UNCHANGED <<tool, provider, n, list, port, reported, unanswered, g, refused>>

\* The return value is not looked at.  dump_ops needs one active device only.
close_device ==
  /\ pc = "close"
  /\ \E ok \in BOOLEAN :
       /\ held' = IF ok THEN held \ {<<"ctx", dev>>} ELSE held
       /\ refused' = IF ok THEN refused ELSE refused \cup {<<"ctx", dev>>}
  /\ pc' = IF tool = "dump_ops" /\ port.active THEN "free_list" ELSE "next"
  /\ UNCHANGED <<tool, provider, n, list, dev, port, reported, unanswered, g>>

free_device_list ==
  /\ pc = "free_list"
  /\ list' = "freed" /\ pc' = "exit"
  /\ UNCHANGED <<tool, provider, n, dev, port, reported, unanswered, g, held, refused>>

Next ==
  \/ dlopen_fails \/ get_device_list \/ next_device \/ open_device \/ resolve_symbols
  \/ vfinfo_query_port \/ trace_verbs_query_port \/ dump_ops_query_port \/ query_gid
  \/ Create("alloc_pd", "pd") \/ Destroy("dealloc_pd", "pd")
  \/ Create("reg_mr", "mr") \/ Destroy("dereg_mr", "mr")
  \/ Create("create_cq", "cq") \/ Destroy("destroy_cq", "cq")
  \/ Create("create_qp", "qp") \/ Destroy("destroy_qp", "qp")
  \/ close_device \/ free_device_list

Spec == Init /\ [][Next]_vars

\* A tool is a single thread, and each call of the library returns.
FairSpec == Spec /\ WF_vars(Next)

-----------------------------------------------------------------------------
Places == {"list", "next", "open", "port", "gid", "alloc_pd", "dealloc_pd", "reg_mr",
           "dereg_mr", "create_cq", "destroy_cq", "create_qp", "destroy_qp", "close",
           "free_list", "exit"}

\* Types; the device at hand is one of the list.
TypeOK ==
  /\ tool \in Tools /\ provider \in [Devices -> {"mlx5", "other"}]
  /\ n \in 0..MaxDevices /\ dev \in 0..n
  /\ list \in {"none", "null", "held", "freed"}
  /\ port \in Ports /\ reported \in Ports /\ unanswered \subseteq Devices
  /\ g \in 0..GidLimit
  /\ held \subseteq Kinds \X Devices /\ refused \subseteq Kinds \X Devices
  /\ pc \in Places

Parents == [ctx |-> {}, pd |-> {"ctx"}, cq |-> {"ctx"}, mr |-> {"pd"}, qp |-> {"pd", "cq"}]

\* Whatever fails on the way, a tool gives back what it holds before what that was
\* made from: MR and QP before the PD, QP before its CQ, all before the context;
\* except for what the provider refused to destroy, which the tools do not notice.
ParentsHeld ==
  \A r \in held \ refused : \A k \in Parents[r[1]] : <<k, r[2]>> \in held

\* On every path a tool has given everything back when it ends, but for what could
\* not be destroyed, the contexts the resolvers never close, and those trace_verbs skips
\* over when query_port fails.
NothingLeft ==
  pc = "exit" =>
    /\ list # "held"
    /\ \A r \in held \ refused :
         /\ r[1] = "ctx"
         /\ \/ tool \in Resolvers
            \/ tool = "trace_verbs" /\ r[2] \in unanswered

\* vfinfo asks a device only for GIDs its own port reported, never by the table
\* length of the device before.
GidsOfThisPort == tool = "vfinfo" => g <= reported.gids

\* A tool comes to its end, and so lets go of the device list, whatever fails.
Finishes == <>(pc = "exit")

=============================================================================
