-------------------------- MODULE VerbsTools_proofs --------------------------
(***************************************************************************)
(* Proofs about VerbsTools, for any number of devices, any table length    *)
(* and any outcome of every call.  The inductive invariant says what a     *)
(* tool has of the device at hand at each place, and what it may have left *)
(* of the devices before.                                                  *)
(***************************************************************************)
EXTENDS VerbsTools, TLAPS

\* The places where a device is open.
Testing == {"alloc_pd", "dealloc_pd", "reg_mr", "dereg_mr", "create_cq", "destroy_cq",
            "create_qp", "destroy_qp"}
Inside == {"port", "gid", "close"} \cup Testing

\* Where each tool gets to.
PlacesOfTool ==
  /\ pc \in {"reg_mr", "dereg_mr", "gid"} => tool = "vfinfo"
  /\ pc \in {"create_qp", "destroy_qp"} => tool = "trace_verbs"
  /\ pc \in Testing => tool \in {"vfinfo", "trace_verbs"}
  /\ pc \in Inside \cup {"open"} => tool \notin Resolvers

\* What the tool has of the device at hand.
Having ==
  CASE pc = "reg_mr" -> {"ctx", "pd"}
    [] pc = "dereg_mr" -> {"ctx", "pd", "mr"}
    [] pc = "dealloc_pd" -> {"ctx", "pd"}
    [] pc = "create_cq" -> IF tool = "vfinfo" THEN {"ctx"} ELSE {"ctx", "pd"}
    [] pc = "destroy_cq" -> IF tool = "vfinfo" THEN {"ctx", "cq"} ELSE {"ctx", "pd", "cq"}
    [] pc = "create_qp" -> {"ctx", "pd", "cq"}
    [] pc = "destroy_qp" -> {"ctx", "pd", "cq", "qp"}
    [] OTHER -> {"ctx"}

\* What it may have failed to destroy.
MayBeRefused ==
  CASE pc = "dealloc_pd" -> IF tool = "vfinfo" THEN {"mr"} ELSE {"qp", "cq"}
    [] pc = "create_cq" -> IF tool = "vfinfo" THEN {"mr", "pd"} ELSE {}
    [] pc = "destroy_cq" -> IF tool = "vfinfo" THEN {"mr", "pd"} ELSE {"qp"}
    [] pc = "close" -> {"pd", "mr", "cq", "qp"}
    [] OTHER -> {}

DeviceAtHand ==
  pc \in Inside =>
    /\ dev > 0
    /\ \A k \in Kinds : <<k, dev>> \in held /\ <<k, dev>> \notin refused <=> k \in Having
    /\ \A k \in Kinds : <<k, dev>> \in refused => k \in MayBeRefused

\* Devices the tool has not come to.
DevicesAhead ==
  \A d \in Devices : d > dev \/ (d = dev /\ pc = "open") =>
    \A k \in Kinds : <<k, d>> \notin held /\ <<k, d>> \notin refused

\* Devices the tool is done with.
DevicesBehind ==
  \A d \in Devices : d < dev \/ (d = dev /\ pc \notin Inside) =>
    \A k \in Kinds : <<k, d>> \in held /\ <<k, d>> \notin refused =>
      k = "ctx" /\ (tool \in Resolvers \/ (tool = "trace_verbs" /\ d \in unanswered))

ListByPlace ==
  /\ pc = "list" => list = "none" /\ dev = 0
  /\ pc = "open" => dev > 0
  /\ pc = "exit" => list # "held"
  /\ tool \in Resolvers /\ pc \in {"list", "next"} => dev = 0

GidsByPort == tool = "vfinfo" => port = reported /\ g <= reported.gids

IInv ==
  /\ TypeOK
  /\ PlacesOfTool
  /\ DeviceAtHand /\ DevicesAhead /\ DevicesBehind
  /\ ListByPlace
  /\ GidsByPort

-----------------------------------------------------------------------------
(* Facts about the operators of the model.                                 *)

Verbs == {"query_port", "alloc_pd", "dealloc_pd", "create_cq", "destroy_cq", "create_qp",
          "destroy_qp", "reg_mr", "dereg_mr"}

\* A verb of either provider succeeds or fails.
LEMMA OutcomesAre == \A verb \in Verbs : Outcomes(verb) \subseteq BOOLEAN
  <1>1. \A verb \in Verbs :
          mlx5_ib_init_ops[verb] \in {ByCommand, mlx5_ib_query_port, mlx5_ib_create_qp,
                                     mlx5_ib_destroy_qp, mlx5_ib_reg_user_mr}
    BY DEF Verbs, mlx5_ib_init_ops
  <1>2. /\ ByCommand \subseteq BOOLEAN /\ mlx5_ib_query_port \subseteq BOOLEAN
        /\ mlx5_ib_create_qp \subseteq BOOLEAN /\ mlx5_ib_destroy_qp \subseteq BOOLEAN
        /\ mlx5_ib_reg_user_mr \subseteq BOOLEAN
    BY Zenon DEF ByCommand, mlx5_ib_query_port, mlx5_ib_create_qp, mlx5_ib_destroy_qp, mlx5_ib_reg_user_mr
  <1>3. \A verb \in Verbs : mlx5_ib_init_ops[verb] \subseteq BOOLEAN
    BY <1>1, <1>2
  <1> QED
    BY <1>3, Zenon DEF Outcomes

\* Where vfinfo and trace_verbs go after each verb.
LEMMA FlowIs ==
  /\ tool = "vfinfo" =>
       /\ Flow("alloc_pd") = <<"reg_mr", "create_cq">>
       /\ Flow("reg_mr") = <<"dereg_mr", "dealloc_pd">>
       /\ Flow("dereg_mr") = "dealloc_pd"
       /\ Flow("dealloc_pd") = "create_cq"
       /\ Flow("create_cq") = <<"destroy_cq", "close">>
       /\ Flow("destroy_cq") = "close"
  /\ tool = "trace_verbs" =>
       /\ Flow("alloc_pd") = <<"create_cq", "close">>
       /\ Flow("create_cq") = <<"create_qp", "dealloc_pd">>
       /\ Flow("create_qp") = <<"destroy_qp", "destroy_cq">>
       /\ Flow("destroy_qp") = "destroy_cq"
       /\ Flow("destroy_cq") = "dealloc_pd"
       /\ Flow("dealloc_pd") = "close"
  BY DEF Flow, vfinfo_flow, trace_verbs_flow

\* A creation adds one thing of the device at hand or nothing, and goes on accordingly.
LEMMA CreateEffect ==
  ASSUME NEW verb \in Verbs, NEW kind, Create(verb, kind)
  PROVE  \/ held' = held \cup {<<kind, dev>>} /\ pc' = Flow(verb)[1]
         \/ held' = held /\ pc' = Flow(verb)[2]
  BY OutcomesAre DEF Create

\* A destruction removes one thing of it or is refused, and goes on either way.
LEMMA DestroyEffect ==
  ASSUME NEW verb \in Verbs, NEW kind, Destroy(verb, kind)
  PROVE  \/ held' = held \ {<<kind, dev>>} /\ refused' = refused
         \/ held' = held /\ refused' = refused \cup {<<kind, dev>>}
  BY OutcomesAre DEF Destroy

\* A verb a tool tries on an open device.
VerbCall ==
  \/ Create("alloc_pd", "pd") \/ Destroy("dealloc_pd", "pd")
  \/ Create("reg_mr", "mr") \/ Destroy("dereg_mr", "mr")
  \/ Create("create_cq", "cq") \/ Destroy("destroy_cq", "cq")
  \/ Create("create_qp", "qp") \/ Destroy("destroy_qp", "qp")

-----------------------------------------------------------------------------
(* The parts of the invariant, preserved by every call.                    *)

\* Every call of a tool keeps the types, and each tool to its own places.
LEMMA TypeStep ==
  ASSUME TypeOK, PlacesOfTool, DeviceAtHand, ListByPlace, Next
  PROVE  TypeOK' /\ PlacesOfTool'
  <1> USE VerbsToolsAssumption DEF TypeOK, PlacesOfTool, Inside, Testing, Places, Kinds, Devices, Resolvers
  <1>1. CASE dlopen_fails
    BY <1>1 DEF dlopen_fails
  <1>2. CASE get_device_list
    BY <1>2 DEF get_device_list, ListByPlace
  <1>3. CASE next_device
    BY <1>3 DEF next_device
  <1>4. CASE open_device
    BY <1>4 DEF open_device, ListByPlace
  <1>5. CASE resolve_symbols
    BY <1>5 DEF resolve_symbols
  <1>6. CASE vfinfo_query_port
    BY <1>6 DEF vfinfo_query_port, QueryPort, Fresh, Ports, ZeroPort, DeviceAtHand
  <1>7. CASE trace_verbs_query_port
    BY <1>7 DEF trace_verbs_query_port, QueryPort, Fresh, Ports, ZeroPort, DeviceAtHand
  <1>8. CASE dump_ops_query_port
    BY <1>8 DEF dump_ops_query_port, QueryPort, Fresh, Ports, ZeroPort, DeviceAtHand
  <1>9. CASE query_gid
    BY <1>9 DEF query_gid, Ports, ZeroPort, DeviceAtHand
  <1>10. CASE close_device
    BY <1>10 DEF close_device, DeviceAtHand
  <1>11. CASE free_device_list
    BY <1>11 DEF free_device_list
  <1>12. CASE Create("alloc_pd", "pd")
    BY <1>12, FlowIs, CreateEffect DEF Create, Verbs, DeviceAtHand
  <1>13. CASE Create("reg_mr", "mr")
    BY <1>13, FlowIs, CreateEffect DEF Create, Verbs, DeviceAtHand
  <1>14. CASE Create("create_cq", "cq")
    BY <1>14, FlowIs, CreateEffect DEF Create, Verbs, DeviceAtHand
  <1>15. CASE Create("create_qp", "qp")
    BY <1>15, FlowIs, CreateEffect DEF Create, Verbs, DeviceAtHand
  <1>16. CASE Destroy("dealloc_pd", "pd")
    BY <1>16, FlowIs, DestroyEffect DEF Destroy, Verbs, DeviceAtHand
  <1>17. CASE Destroy("dereg_mr", "mr")
    BY <1>17, FlowIs, DestroyEffect DEF Destroy, Verbs, DeviceAtHand
  <1>18. CASE Destroy("destroy_cq", "cq")
    BY <1>18, FlowIs, DestroyEffect DEF Destroy, Verbs, DeviceAtHand
  <1>19. CASE Destroy("destroy_qp", "qp")
    BY <1>19, FlowIs, DestroyEffect DEF Destroy, Verbs, DeviceAtHand
  <1> QED
    BY <1>1, <1>2, <1>3, <1>4, <1>5, <1>6, <1>7, <1>8, <1>9, <1>10, <1>11, <1>12, <1>13, <1>14, <1>15, <1>16, <1>17, <1>18, <1>19
    DEF Next

\* A verb keeps the tool at the device, and touches nothing of another one.
LEMMA VerbCallStays ==
  ASSUME TypeOK, PlacesOfTool, VerbCall
  PROVE  /\ pc \in Inside /\ pc' \in Inside
         /\ UNCHANGED <<tool, n, list, dev, port, reported, unanswered, g>>
         /\ \A k \in Kinds, d \in Devices : d # dev =>
              /\ <<k, d>> \in held' <=> <<k, d>> \in held
              /\ <<k, d>> \in refused' <=> <<k, d>> \in refused
  <1> USE DEF PlacesOfTool, Inside, Testing
  <1>1. CASE Create("alloc_pd", "pd")
    BY <1>1, FlowIs, CreateEffect DEF Create, Verbs
  <1>2. CASE Create("reg_mr", "mr")
    BY <1>2, FlowIs, CreateEffect DEF Create, Verbs
  <1>3. CASE Create("create_cq", "cq")
    BY <1>3, FlowIs, CreateEffect DEF Create, Verbs
  <1>4. CASE Create("create_qp", "qp")
    BY <1>4, FlowIs, CreateEffect DEF Create, Verbs
  <1>5. CASE Destroy("dealloc_pd", "pd")
    BY <1>5, FlowIs, DestroyEffect DEF Destroy, Verbs
  <1>6. CASE Destroy("dereg_mr", "mr")
    BY <1>6, FlowIs, DestroyEffect DEF Destroy, Verbs
  <1>7. CASE Destroy("destroy_cq", "cq")
    BY <1>7, FlowIs, DestroyEffect DEF Destroy, Verbs
  <1>8. CASE Destroy("destroy_qp", "qp")
    BY <1>8, FlowIs, DestroyEffect DEF Destroy, Verbs
  <1> QED
    BY <1>1, <1>2, <1>3, <1>4, <1>5, <1>6, <1>7, <1>8 DEF VerbCall

\* A verb leaves of the device at hand what the place after it tells.
LEMMA VerbCallAtHand ==
  ASSUME TypeOK, PlacesOfTool, DeviceAtHand, VerbCall
  PROVE  DeviceAtHand'
  <1> USE DEF TypeOK, PlacesOfTool, DeviceAtHand, Having, MayBeRefused, Inside, Testing, Kinds, Devices
  <1>1. CASE Create("alloc_pd", "pd")
    <2>1. CASE tool = "vfinfo"
      BY <1>1, <2>1, FlowIs, CreateEffect DEF Create, Verbs
    <2>2. CASE tool = "trace_verbs"
      BY <1>1, <2>2, FlowIs, CreateEffect DEF Create, Verbs
    <2> QED
      BY <1>1, <2>1, <2>2 DEF Create
  <1>2. CASE Create("reg_mr", "mr")
    BY <1>2, FlowIs, CreateEffect DEF Create, Verbs
  <1>3. CASE Create("create_cq", "cq")
    <2>1. CASE tool = "vfinfo"
      BY <1>3, <2>1, FlowIs, CreateEffect DEF Create, Verbs
    <2>2. CASE tool = "trace_verbs"
      BY <1>3, <2>2, FlowIs, CreateEffect DEF Create, Verbs
    <2> QED
      BY <1>3, <2>1, <2>2 DEF Create
  <1>4. CASE Create("create_qp", "qp")
    BY <1>4, FlowIs, CreateEffect DEF Create, Verbs
  <1>5. CASE Destroy("dealloc_pd", "pd")
    <2>1. CASE tool = "vfinfo"
      BY <1>5, <2>1, FlowIs, DestroyEffect DEF Destroy, Verbs
    <2>2. CASE tool = "trace_verbs"
      BY <1>5, <2>2, FlowIs, DestroyEffect DEF Destroy, Verbs
    <2> QED
      BY <1>5, <2>1, <2>2 DEF Destroy
  <1>6. CASE Destroy("dereg_mr", "mr")
    BY <1>6, FlowIs, DestroyEffect DEF Destroy, Verbs
  <1>7. CASE Destroy("destroy_cq", "cq")
    <2>1. CASE tool = "vfinfo"
      BY <1>7, <2>1, FlowIs, DestroyEffect DEF Destroy, Verbs
    <2>2. CASE tool = "trace_verbs"
      BY <1>7, <2>2, FlowIs, DestroyEffect DEF Destroy, Verbs
    <2> QED
      BY <1>7, <2>1, <2>2 DEF Destroy
  <1>8. CASE Destroy("destroy_qp", "qp")
    BY <1>8, FlowIs, DestroyEffect DEF Destroy, Verbs
  <1> QED
    BY <1>1, <1>2, <1>3, <1>4, <1>5, <1>6, <1>7, <1>8 DEF VerbCall

\* What a tool has of the device at hand is what the calls before that place leave.
LEMMA AtHandStep ==
  ASSUME TypeOK, PlacesOfTool, DeviceAtHand, DevicesAhead, ListByPlace, Next
  PROVE  DeviceAtHand'
  <1> USE VerbsToolsAssumption
      DEF TypeOK, PlacesOfTool, DeviceAtHand, DevicesAhead, ListByPlace, Having, MayBeRefused,
          Inside, Testing, Kinds, Devices, Resolvers
  <1>1. CASE dlopen_fails
    BY <1>1 DEF dlopen_fails
  <1>2. CASE get_device_list
    BY <1>2 DEF get_device_list
  <1>3. CASE next_device
    BY <1>3 DEF next_device
  <1>4. CASE open_device
    BY <1>4 DEF open_device
  <1>5. CASE resolve_symbols
    BY <1>5 DEF resolve_symbols
  <1>6. CASE vfinfo_query_port
    BY <1>6 DEF vfinfo_query_port, QueryPort
  <1>7. CASE trace_verbs_query_port
    BY <1>7 DEF trace_verbs_query_port, QueryPort
  <1>8. CASE dump_ops_query_port
    BY <1>8 DEF dump_ops_query_port, QueryPort
  <1>9. CASE query_gid
    BY <1>9 DEF query_gid
  <1>10. CASE close_device
    BY <1>10 DEF close_device
  <1>11. CASE free_device_list
    BY <1>11 DEF free_device_list
  <1>12. CASE VerbCall
    BY <1>12, VerbCallAtHand
  <1> QED
    BY <1>1, <1>2, <1>3, <1>4, <1>5, <1>6, <1>7, <1>8, <1>9, <1>10, <1>11, <1>12 DEF Next, VerbCall

\* Devices the tool has not come to stay untouched.
LEMMA AheadStep ==
  ASSUME TypeOK, PlacesOfTool, DeviceAtHand, DevicesAhead, ListByPlace, Next
  PROVE  DevicesAhead'
  <1> SUFFICES ASSUME NEW d \in Devices, d > dev' \/ (d = dev' /\ pc' = "open"), NEW k \in Kinds
               PROVE  <<k, d>> \notin held' /\ <<k, d>> \notin refused'
    BY DEF DevicesAhead
  <1>0. d \in Nat /\ dev \in Nat /\ n \in Nat
    BY VerbsToolsAssumption DEF TypeOK, Devices
  <1> USE <1>0
      DEF TypeOK, PlacesOfTool, DeviceAtHand, DevicesAhead, ListByPlace, Inside, Testing, Resolvers
  <1>1. CASE dlopen_fails
    BY <1>1 DEF dlopen_fails
  <1>2. CASE get_device_list
    BY <1>2 DEF get_device_list
  <1>3. CASE next_device
    BY <1>3 DEF next_device
  <1>4. CASE open_device
    BY <1>4 DEF open_device
  <1>5. CASE resolve_symbols
    BY <1>5 DEF resolve_symbols
  <1>6. CASE vfinfo_query_port
    BY <1>6 DEF vfinfo_query_port, QueryPort
  <1>7. CASE trace_verbs_query_port
    BY <1>7 DEF trace_verbs_query_port, QueryPort
  <1>8. CASE dump_ops_query_port
    BY <1>8 DEF dump_ops_query_port, QueryPort
  <1>9. CASE query_gid
    BY <1>9 DEF query_gid
  <1>10. CASE close_device
    BY <1>10 DEF close_device
  <1>11. CASE free_device_list
    BY <1>11 DEF free_device_list
  <1>12. CASE VerbCall
    BY <1>12, VerbCallStays
  <1> QED
    BY <1>1, <1>2, <1>3, <1>4, <1>5, <1>6, <1>7, <1>8, <1>9, <1>10, <1>11, <1>12 DEF Next, VerbCall

\* Of a device it is done with, a tool keeps a context at most, on the two known paths.
LEMMA BehindStep ==
  ASSUME TypeOK, PlacesOfTool, DeviceAtHand, DevicesAhead, DevicesBehind, ListByPlace, Next
  PROVE  DevicesBehind'
  <1> SUFFICES ASSUME NEW d \in Devices, d < dev' \/ (d = dev' /\ pc' \notin Inside), NEW k \in Kinds,
                      <<k, d>> \in held', <<k, d>> \notin refused'
               PROVE  k = "ctx" /\ (tool' \in Resolvers \/ (tool' = "trace_verbs" /\ d \in unanswered'))
    BY DEF DevicesBehind
  <1>0. d \in Nat /\ d > 0 /\ dev \in Nat /\ n \in Nat
    BY VerbsToolsAssumption DEF TypeOK, Devices
  <1> USE <1>0
      DEF TypeOK, PlacesOfTool, DeviceAtHand, DevicesAhead, DevicesBehind, ListByPlace, Having,
          Inside, Testing, Resolvers
  <1>1. CASE dlopen_fails
    BY <1>1 DEF dlopen_fails
  <1>2. CASE get_device_list
    BY <1>2 DEF get_device_list
  <1>3. CASE next_device
    BY <1>3 DEF next_device
  <1>4. CASE open_device
    BY <1>4 DEF open_device
  <1>5. CASE resolve_symbols
    BY <1>5 DEF resolve_symbols
  <1>6. CASE vfinfo_query_port
    BY <1>6 DEF vfinfo_query_port, QueryPort
  <1>7. CASE trace_verbs_query_port
    BY <1>7 DEF trace_verbs_query_port, QueryPort
  <1>8. CASE dump_ops_query_port
    BY <1>8 DEF dump_ops_query_port, QueryPort
  <1>9. CASE query_gid
    BY <1>9 DEF query_gid
  <1>10. CASE close_device
    BY <1>10 DEF close_device
  <1>11. CASE free_device_list
    BY <1>11 DEF free_device_list
  <1>12. CASE VerbCall
    BY <1>12, VerbCallStays
  <1> QED
    BY <1>1, <1>2, <1>3, <1>4, <1>5, <1>6, <1>7, <1>8, <1>9, <1>10, <1>11, <1>12 DEF Next, VerbCall

\* The device list and the GID loop follow the place too.
LEMMA ListStep ==
  ASSUME TypeOK, PlacesOfTool, DeviceAtHand, ListByPlace, GidsByPort, Next
  PROVE  ListByPlace' /\ GidsByPort'
  <1> USE DEF TypeOK, PlacesOfTool, DeviceAtHand, ListByPlace, GidsByPort, Inside, Testing, Ports, ZeroPort, Resolvers
  <1>1. CASE dlopen_fails
    BY <1>1 DEF dlopen_fails
  <1>2. CASE get_device_list
    BY <1>2 DEF get_device_list
  <1>3. CASE next_device
    BY <1>3 DEF next_device
  <1>4. CASE open_device
    BY <1>4 DEF open_device
  <1>5. CASE resolve_symbols
    BY <1>5 DEF resolve_symbols
  <1>6. CASE vfinfo_query_port
    BY <1>6 DEF vfinfo_query_port, QueryPort, Fresh
  <1>7. CASE trace_verbs_query_port
    BY <1>7 DEF trace_verbs_query_port, QueryPort, Fresh
  <1>8. CASE dump_ops_query_port
    BY <1>8 DEF dump_ops_query_port, QueryPort, Fresh
  <1>9. CASE query_gid
    BY <1>9 DEF query_gid
  <1>10. CASE close_device
    BY <1>10 DEF close_device
  <1>11. CASE free_device_list
    BY <1>11 DEF free_device_list
  <1>12. CASE VerbCall
    BY <1>12, VerbCallStays
  <1> QED
    BY <1>1, <1>2, <1>3, <1>4, <1>5, <1>6, <1>7, <1>8, <1>9, <1>10, <1>11, <1>12 DEF Next, VerbCall

\* Before the first call nothing is held, and nothing happens between two calls.
LEMMA InitHolds == Init => IInv
  <1> SUFFICES ASSUME Init PROVE IInv
    OBVIOUS
  <1>1. TypeOK /\ PlacesOfTool /\ ListByPlace /\ GidsByPort
    BY VerbsToolsAssumption
    DEF Init, TypeOK, PlacesOfTool, ListByPlace, GidsByPort, Ports, ZeroPort, Places, Inside, Testing
  <1>2. DeviceAtHand /\ DevicesAhead /\ DevicesBehind
    BY DEF Init, DeviceAtHand, DevicesAhead, DevicesBehind, Inside, Testing
  <1> QED
    BY <1>1, <1>2 DEF IInv

LEMMA StutterHolds == IInv /\ UNCHANGED vars => IInv'
  <1> SUFFICES ASSUME IInv, UNCHANGED vars PROVE IInv'
    OBVIOUS
  <1> USE DEF IInv, vars
  <1>1. TypeOK' /\ PlacesOfTool' /\ ListByPlace' /\ GidsByPort'
    BY DEF TypeOK, PlacesOfTool, ListByPlace, GidsByPort
  <1>2. Having' = Having /\ MayBeRefused' = MayBeRefused
    BY DEF Having, MayBeRefused
  <1>3. DeviceAtHand' /\ DevicesAhead' /\ DevicesBehind'
    BY <1>2 DEF DeviceAtHand, DevicesAhead, DevicesBehind
  <1> QED
    BY <1>1, <1>3

-----------------------------------------------------------------------------
(* The theorems.                                                           *)

\* At each place a tool has of the device at hand exactly what the calls before it
\* made, and of the other devices nothing but the contexts two tools leave open.
THEOREM ToolsInvariant == Spec => []IInv
  <1>1. IInv /\ Next => IInv'
    BY TypeStep, AtHandStep, AheadStep, BehindStep, ListStep DEF IInv
  <1> QED
    BY InitHolds, StutterHolds, <1>1, PTL DEF Spec

\* Every variable keeps its type, and no tool goes past the device list.
THEOREM TypeCorrect == Spec => []TypeOK
  <1>1. IInv => TypeOK
    BY DEF IInv
  <1> QED
    BY <1>1, ToolsInvariant, PTL

\* Whatever fails, what a tool holds it gives back before what that was made from.
THEOREM ParentsOutlive == Spec => []ParentsHeld
  <1>1. IInv => ParentsHeld
    <2> SUFFICES ASSUME IInv, NEW r \in held \ refused, NEW k \in Parents[r[1]]
                 PROVE  <<k, r[2]>> \in held
      BY DEF ParentsHeld
    <2> DEFINE m == r[1]
               d == r[2]
    <2>1. r = <<m, d>> /\ m \in Kinds /\ d \in Devices
      BY DEF IInv, TypeOK
    <2>2. d \in Nat /\ dev \in Nat
      BY <2>1, VerbsToolsAssumption DEF IInv, TypeOK, Devices
    <2>3. <<m, d>> \in held /\ <<m, d>> \notin refused /\ k \in Parents[m]
      BY <2>1
    <2>4. m # "ctx" /\ k \in Kinds
      BY <2>1, <2>3 DEF Parents, Kinds
    <2> HIDE DEF m, d
    <2>5. d = dev /\ pc \in Inside
      BY <2>1, <2>2, <2>3, <2>4 DEF IInv, DevicesAhead, DevicesBehind
    <2>6. m \in Having
      BY <2>1, <2>3, <2>5 DEF IInv, DeviceAtHand
    <2>7. k \in Having
      BY <2>1, <2>3, <2>4, <2>6, <2>5 DEF Having, Parents, Kinds, Inside, Testing
    <2> QED
      BY <2>4, <2>5, <2>7 DEF IInv, DeviceAtHand, d
  <1> QED
    BY <1>1, ToolsInvariant, PTL

\* A tool that ends leaves nothing but what it could not destroy and the contexts of
\* the resolvers and of the devices whose query_port failed in trace_verbs.
THEOREM NothingStaysBehind == Spec => []NothingLeft
  <1>1. IInv => NothingLeft
    <2> SUFFICES ASSUME IInv, pc = "exit"
                 PROVE  /\ list # "held"
                        /\ \A r \in held \ refused :
                             /\ r[1] = "ctx"
                             /\ \/ tool \in Resolvers
                                \/ tool = "trace_verbs" /\ r[2] \in unanswered
      BY DEF NothingLeft
    <2>1. list # "held"
      BY DEF IInv, ListByPlace
    <2>2. ASSUME NEW r \in held \ refused
          PROVE  r[1] = "ctx" /\ (tool \in Resolvers \/ (tool = "trace_verbs" /\ r[2] \in unanswered))
      <3> DEFINE m == r[1]
                 d == r[2]
      <3>1. r = <<m, d>> /\ m \in Kinds /\ d \in Devices
        BY DEF IInv, TypeOK
      <3>2. d \in Nat /\ dev \in Nat
        BY <3>1, VerbsToolsAssumption DEF IInv, TypeOK, Devices
      <3>3. <<m, d>> \in held /\ <<m, d>> \notin refused
        BY <3>1
      <3> HIDE DEF m, d
      <3>4. m = "ctx" /\ (tool \in Resolvers \/ (tool = "trace_verbs" /\ d \in unanswered))
        BY <3>1, <3>2, <3>3 DEF IInv, DevicesAhead, DevicesBehind, Inside, Testing
      <3> QED
        BY <3>4 DEF m, d
    <2> QED
      BY <2>1, <2>2
  <1> QED
    BY <1>1, ToolsInvariant, PTL

\* vfinfo never asks a device for GIDs by the table length of another device.
THEOREM GidsWithinTable == Spec => []GidsOfThisPort
  <1>1. IInv => GidsOfThisPort
    BY DEF IInv, GidsByPort, GidsOfThisPort
  <1> QED
    BY <1>1, ToolsInvariant, PTL

=============================================================================
