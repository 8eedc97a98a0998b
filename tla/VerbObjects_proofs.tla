------------------------- MODULE VerbObjects_proofs -------------------------
(***************************************************************************)
(* Proofs about VerbObjects, for any number of handles, clients and calls. *)
(*                                                                         *)
(* What becomes of the memory is proved whatever the replies and however   *)
(* the verbs overlap.  The firmware's objects, which the numbers are to    *)
(* name, are counted by TLC.                                               *)
(***************************************************************************)
EXTENDS VerbObjects, TLAPS

Cmds == INSTANCE CmdService_proofs WITH Callers <- Clients

\* The firmware's numbers survive being shifted left by 8 bits in an lkey.
NumbersFit == \A n \in Numbers : n < KeySpace

-----------------------------------------------------------------------------
(* The inductive invariants.                                               *)

\* The types, but for the numbers kept in the handles.
ControlTypes ==
  /\ op \in [Clients -> {"none", "create", "destroy"}]
  /\ on \in [Clients -> Handles]
  /\ hstate \in [Handles -> {"absent", "busy", "live", "gone", "failed", "given_up"}]
  /\ refs \in [Handles -> {0, 1}]
  /\ answer \in [Handles -> Numbers \cup {0}]
  /\ objects \in SUBSET Handles

\* A verb is one command, and the handle it works on is nobody else's.
Exclusion ==
  /\ \A c \in Clients : waiting[c] <=> op[c] # "none"
  /\ \A c \in Clients : op[c] # "none" => hstate[on[c]] = "busy"
  /\ \A c, d \in Clients : op[c] # "none" /\ op[d] # "none" /\ on[c] = on[d] => c = d

\* Where a handle is in its life tells whether its memory is allocated.  No
\* destruction frees it.
MemoryInv ==
  \A h \in Handles :
    refs[h] = IF h \in Pds \/ hstate[h] \in {"absent", "failed", "given_up"} THEN 0 ELSE 1

BaseInv == ControlTypes /\ Cmds!ServiceInv /\ Exclusion /\ MemoryInv

Numbered == number \in [Handles -> Numbers \cup {0}]

\* A step of client c or of the firmware for it; a call is for handle h.
Step(c, h) ==
  \/ CreateNoMemory(c, h) \/ CreateCall(c, h) \/ CreateReturn(c) \/ RegMrNoMemory(c)
  \/ DestroyCall(c, h) \/ DestroyReturn(c)
  \/ FwCreate(c) \/ FwDestroy(c)

-----------------------------------------------------------------------------
(* Facts about the operators of the model.                                 *)

\* The verbs of the three kinds are these eight steps.
LEMMA NextIsStep ==
  ASSUME Next
  PROVE  \E c \in Clients, h \in Handles : Step(c, h)
  <1>1. PICK c \in Clients : Verb(c) \/ FwCreate(c) \/ FwDestroy(c)
    BY DEF Next
  <1>2. \E h \in Handles : TRUE
    BY VerbObjectsAssumption DEF Handles
  <1> QED
    BY <1>1, <1>2 DEF Verb, Step, alloc_pd, create_cq, reg_user_mr, dealloc_pd, destroy_cq, dereg_mr

\* The command service of VerbObjects is the one CmdService_proofs is about.
LEMMA SameService ==
  /\ MaxCalls \in Nat
  /\ Service!Init <=> Cmds!Init
  /\ \A c : Service!Call(c) <=> Cmds!Call(c)
  /\ \A c : Service!Serve(c) <=> Cmds!Serve(c)
  /\ \A c, r : Service!Reply(c, r) <=> Cmds!Reply(c, r)
  BY VerbObjectsAssumption
  DEF Service!Init, Service!Call, Service!Serve, Service!Reply,
      Cmds!Init, Cmds!Call, Cmds!Serve, Cmds!Reply

\* A number below the modulus is its own remainder.
LEMMA SmallMod ==
  ASSUME NEW n \in Nat, NEW m \in Nat, n < m
  PROVE  n % m = n
  OBVIOUS

\* Whatever the layout, a number that fits is kept as a number or as 0.
LEMMA KeptType ==
  ASSUME NumbersFit, NEW h, answer[h] \in Numbers \cup {0}, NEW n \in WordsRead(h)
  PROVE  Kept(h, n) \in Numbers \cup {0}
  <1>1. n \in Numbers \cup {0}
    BY DEF WordsRead, Response
  <1> QED
    BY <1>1, SmallMod, VerbObjectsAssumption DEF NumbersFit, Kept

-----------------------------------------------------------------------------
(* Types, exclusion and memory: whatever the replies are.                  *)

\* Every step keeps the types of the control state.
LEMMA TypeStep ==
  ASSUME BaseInv, NEW c \in Clients, NEW h \in Handles, Step(c, h)
  PROVE  ControlTypes'
  <1> USE DEF BaseInv, ControlTypes, Exclusion, MemoryInv
  <1>1. CASE CreateNoMemory(c, h)
    BY <1>1 DEF CreateNoMemory, serviceVars
  <1>2. CASE CreateCall(c, h)
    BY <1>2 DEF CreateCall
  <1>3. CASE CreateReturn(c)
    BY <1>3 DEF CreateReturn, Failed
  <1>4. CASE RegMrNoMemory(c)
    BY <1>4, VerbObjectsAssumption DEF RegMrNoMemory
  <1>5. CASE DestroyCall(c, h)
    BY <1>5 DEF DestroyCall
  <1>6. CASE DestroyReturn(c)
    BY <1>6 DEF DestroyReturn
  <1>7. CASE FwCreate(c)
    BY <1>7 DEF FwCreate
  <1>8. CASE FwDestroy(c)
    BY <1>8 DEF FwDestroy
  <1> QED
    BY <1>1, <1>2, <1>3, <1>4, <1>5, <1>6, <1>7, <1>8 DEF Step

\* A handle has one verb at a time, and a verb one command.
LEMMA ExclusionStep ==
  ASSUME BaseInv, NEW c \in Clients, NEW h \in Handles, Step(c, h)
  PROVE  Cmds!ServiceInv' /\ Exclusion'
  <1> USE DEF BaseInv, ControlTypes, Exclusion
  <1>1. CASE CreateNoMemory(c, h)
    BY <1>1, Cmds!StutterKeeps DEF CreateNoMemory, serviceVars, Cmds!vars
  <1>2. CASE CreateCall(c, h)
    BY <1>2, SameService, Cmds!CallKeeps DEF CreateCall
  <1>3. CASE CreateReturn(c)
    BY <1>3, SameService, Cmds!ReplyKeeps DEF CreateReturn, Failed
  <1>4. CASE RegMrNoMemory(c)
    BY <1>4, SameService, Cmds!ReplyKeeps DEF RegMrNoMemory
  <1>5. CASE DestroyCall(c, h)
    BY <1>5, SameService, Cmds!CallKeeps DEF DestroyCall
  <1>6. CASE DestroyReturn(c)
    BY <1>6, SameService, Cmds!ReplyKeeps DEF DestroyReturn
  <1>7. CASE FwCreate(c)
    BY <1>7, SameService, Cmds!ServeKeeps DEF FwCreate
  <1>8. CASE FwDestroy(c)
    BY <1>8, SameService, Cmds!ServeKeeps DEF FwDestroy
  <1> QED
    BY <1>1, <1>2, <1>3, <1>4, <1>5, <1>6, <1>7, <1>8 DEF Step

\* Every step leaves the memory as the place of the handle in its life tells.
LEMMA MemoryStep ==
  ASSUME BaseInv, NEW c \in Clients, NEW h \in Handles, Step(c, h)
  PROVE  MemoryInv'
  <1> USE VerbObjectsAssumption DEF BaseInv, ControlTypes, Exclusion, MemoryInv
  <1>1. CASE CreateNoMemory(c, h)
    BY <1>1 DEF CreateNoMemory, serviceVars
  <1>2. CASE CreateCall(c, h)
    BY <1>2 DEF CreateCall
  <1>3. CASE CreateReturn(c)
    BY <1>3 DEF CreateReturn, Failed
  <1>4. CASE RegMrNoMemory(c)
    BY <1>4 DEF RegMrNoMemory
  <1>5. CASE DestroyCall(c, h)
    BY <1>5 DEF DestroyCall
  <1>6. CASE DestroyReturn(c)
    BY <1>6 DEF DestroyReturn
  <1>7. CASE FwCreate(c)
    BY <1>7 DEF FwCreate
  <1>8. CASE FwDestroy(c)
    BY <1>8 DEF FwDestroy
  <1> QED
    BY <1>1, <1>2, <1>3, <1>4, <1>5, <1>6, <1>7, <1>8 DEF Step

-----------------------------------------------------------------------------
(* The theorems.                                                           *)

\* Before the first verb there is no object, no memory and no command.
LEMMA InitInv == Init => BaseInv /\ Numbered
  <1> SUFFICES ASSUME Init
               PROVE  BaseInv /\ Numbered
    OBVIOUS
  <1>1. Cmds!ServiceInv /\ \A c \in Clients : ~waiting[c]
    BY SameService, Cmds!InitKeeps DEF Init
  <1>2. on \in [Clients -> Handles]
    BY VerbObjectsAssumption DEF Init, Handles
  <1>3. objects \in SUBSET Handles /\ answer \in [Handles -> Numbers \cup {0}]
    BY DEF Init
  <1>4. ControlTypes
    BY <1>2, <1>3 DEF Init, ControlTypes
  <1>5. Exclusion /\ MemoryInv
    BY <1>1 DEF Init, Exclusion, MemoryInv
  <1>6. Numbered
    BY VerbObjectsAssumption DEF Init, Numbered, Handles
  <1> QED
    BY <1>1, <1>4, <1>5, <1>6 DEF BaseInv

\* A step that changes nothing keeps every invariant.
LEMMA StutterInv ==
  ASSUME UNCHANGED vars
  PROVE  (BaseInv => BaseInv') /\ (Numbered => Numbered')
  <1>1. Cmds!ServiceInv => Cmds!ServiceInv'
    BY Cmds!StutterKeeps DEF vars, serviceVars, Cmds!vars
  <1> QED
    BY <1>1 DEF vars, serviceVars, BaseInv, ControlTypes, Exclusion, MemoryInv, Numbered

\* Whatever the replies: a handle has one verb at a time, and its place in its life
\* tells whether its DMA memory is allocated.
THEOREM MemoryFollowsLife == Spec => []BaseInv
  <1>1. BaseInv /\ [Next]_vars => BaseInv'
    <2>1. ASSUME BaseInv, Next
          PROVE  BaseInv'
      BY <2>1, NextIsStep, TypeStep, ExclusionStep, MemoryStep DEF BaseInv
    <2> QED
      BY <2>1, StutterInv
  <1> QED
    BY <1>1, InitInv, PTL DEF Spec

\* A create_cq or reg_user_mr that failed, at whatever point, has freed its memory.
THEOREM FailedCreatesFree == Spec => []FailedCreateFrees
  <1>1. BaseInv => FailedCreateFrees
    BY DEF BaseInv, MemoryInv, FailedCreateFrees
  <1> QED
    BY <1>1, MemoryFollowsLife, PTL

\* Types of the handles and of the firmware's objects, if its numbers fit in a key.
THEOREM TypeCorrect ==
  ASSUME NumbersFit
  PROVE  Spec => []TypeOK
  <1>1. BaseInv /\ Numbered /\ [Next]_vars => Numbered'
    <2>1. ASSUME BaseInv, Numbered, NEW c \in Clients, NEW h \in Handles, Step(c, h)
          PROVE  Numbered'
      <3>1. CASE CreateReturn(c)
        <4>1. \A n \in WordsRead(on[c]) : Kept(on[c], n) \in Numbers \cup {0}
          BY <2>1, NumbersFit, KeptType DEF BaseInv, ControlTypes
        <4>2. PICK r \in Replies, n \in WordsRead(on[c]) :
                number' = [number EXCEPT ![on[c]] = IF r = "Success" THEN Kept(on[c], n) ELSE @]
          BY <3>1 DEF CreateReturn
        <4>3. on[c] \in Handles
          BY <2>1 DEF BaseInv, ControlTypes
        <4>4. CASE r = "Success"
          BY <2>1, <4>1, <4>2, <4>3, <4>4 DEF Numbered
        <4>5. CASE r # "Success"
          BY <2>1, <4>2, <4>3, <4>5 DEF Numbered
        <4> QED
          BY <4>4, <4>5
      <3>2. CASE ~CreateReturn(c)
        BY <2>1, <3>2 DEF Step, CreateNoMemory, CreateCall, RegMrNoMemory, DestroyCall, DestroyReturn,
           FwCreate, FwDestroy, Numbered
      <3> QED
        BY <3>1, <3>2
    <2> QED
      BY <2>1, NextIsStep, StutterInv
  <1>2. BaseInv /\ Numbered => TypeOK
    BY DEF BaseInv, ControlTypes, Numbered, TypeOK
  <1> QED
    BY <1>1, <1>2, InitInv, MemoryFollowsLife, PTL DEF Spec

=============================================================================
