---------------------------- MODULE VerbObjects ----------------------------
(***************************************************************************)
(* Protection domains, completion queues and memory regions: alloc_pd,     *)
(* dealloc_pd, create_cq, destroy_cq (kext/mlx5_verbs.cpp),                *)
(* reg_user_mr_full (kext/mlx5_mr.cpp) and dereg_mr, over the command      *)
(* service of CmdService.  All have one shape: allocate DMA memory, have   *)
(* the firmware make an object, keep the number it answers with, and name  *)
(* the object by that number to destroy it.                                *)
(*                                                                         *)
(* A handle (ib_pd, ib_cq, ib_mr) is used for one object; a client may     *)
(* destroy it again as long as that returned -1.  IdOffset is the byte of  *)
(* a mailbox where the firmware has object numbers: 8 in the comments of   *)
(* mlx5_verbs.cpp, 16 in how the code addresses its buffers.               *)
(***************************************************************************)
EXTENDS Integers, FiniteSets

CONSTANTS
  Pds, Cqs, Mrs,   \* handles
  Clients,         \* threads calling the verbs
  MaxCalls,        \* bound: commands sent
  Numbers,         \* object numbers of the firmware
  KeySpace,        \* 2^24: an lkey is a 32-bit word with the number shifted by 8
  IdOffset         \* where the firmware has object numbers in a mailbox

Replies == {"Success", "Error", "Timeout"}

ASSUME VerbObjectsAssumption ==
  /\ Pds \cup Cqs \cup Mrs # {}
  /\ Pds \cap Cqs = {} /\ Pds \cap Mrs = {} /\ Cqs \cap Mrs = {}
  /\ MaxCalls \in Nat /\ Numbers \subseteq Nat
  /\ KeySpace \in Nat /\ KeySpace > 0
  /\ IdOffset \in {8, 16}

VARIABLES
  waiting, cmd, reply, effect, issued, turns,  \* the command service
  op,       \* the verb each client is in
  on,       \* the handle it works on
  hstate,   \* each handle: "absent", "busy", "live"; for good "gone", "failed", or
            \* "given_up" when its creation failed and the firmware may have the object
  number,   \* local_dma_lkey, cqe, or the number in lkey
  refs,     \* references held on the handle's DMA memory
  answer,   \* the number the firmware answered each creation with
  objects   \* the firmware's objects, by the handle they were made for

Service == INSTANCE CmdService WITH Callers <- Clients

Handles == Pds \cup Cqs \cup Mrs
serviceVars == <<waiting, cmd, reply, effect, issued, turns>>
vars == <<serviceVars, op, on, hstate, number, refs, answer, objects>>

Init ==
  /\ Service!Init
  /\ op = [c \in Clients |-> "none"]
  /\ on = [c \in Clients |-> CHOOSE h \in Handles : TRUE]
  /\ hstate = [h \in Handles |-> "absent"]
  /\ number = [h \in Handles |-> 0]
  /\ refs = [h \in Handles |-> 0]
  /\ answer = [h \in Handles |-> 0]
  /\ objects = {}

-----------------------------------------------------------------------------
\* sizeof(out_buf), which the ring entry gives the firmware as out_len.
OutLen(h) == IF h \in Mrs THEN 64 ELSE 16

\* A word of the output mailbox, zeroed before the command: the firmware writes
\* no further than out_len.
Response(h, offset) == IF offset = IdOffset /\ offset < OutLen(h) THEN answer[h] ELSE 0

\* The verbs read out_buf + 8, and mlx5_cmd_exec fills out_buf from mailbox + 8.  Once
\* calls have overlapped, the mailbox may hold the answer to any of them.
WordsRead(h) == IF turns THEN {Response(h, 8 + 8)} ELSE Numbers \cup {0}

\* The number as the handle keeps it: an MR in lkey, shifted left by 8 bits.
Kept(h, n) == IF h \in Mrs THEN n % KeySpace ELSE n

\* The verbs put the number at in_buf, and mlx5_cmd_exec copies in_buf to
\* mailbox + 16; the rest of the input mailbox is zero.
NumberSent(h) == IF IdOffset = 16 THEN number[h] ELSE 0

\* The handle after a creation that did not give the client an object.
Failed(r) == IF r = "Error" THEN "failed" ELSE "given_up"

-----------------------------------------------------------------------------
(***************************************************************************)
(* Mutants: slips the properties must catch; no part of Spec.              *)
(***************************************************************************)
\* Leaves the memory of a failed creation to nobody.
CreateReturn_Leaks(c) ==
  LET h == on[c] IN
  \E r \in Replies :
    /\ op[c] = "create"
    /\ Service!Reply(c, r)
    /\ op' = [op EXCEPT ![c] = "none"]
    /\ hstate' = [hstate EXCEPT ![h] = IF r = "Success" THEN "live" ELSE Failed(r)]
    /\ \E n \in WordsRead(h) :
         number' = [number EXCEPT ![h] = IF r = "Success" THEN Kept(h, n) ELSE @]
    /\ UNCHANGED <<on, refs, answer, objects>>

\* Frees the ring or page list, whatever the command returned.
DestroyReturn_Frees(c) ==
  \E r \in Replies :
    /\ op[c] = "destroy"
    /\ Service!Reply(c, r)
    /\ op' = [op EXCEPT ![c] = "none"]
    /\ hstate' = [hstate EXCEPT ![on[c]] = IF r = "Success" THEN "gone" ELSE "live"]
    /\ refs' = [refs EXCEPT ![on[c]] = IF on[c] \in Pds THEN @ ELSE @ - 1]
    /\ UNCHANGED <<on, number, answer, objects>>


-----------------------------------------------------------------------------
\* No DMA memory: the verb fails before the command.
CreateNoMemory(c, h) ==
  /\ op[c] = "none" /\ hstate[h] = "absent" /\ h \notin Pds
  /\ hstate' = [hstate EXCEPT ![h] = "failed"]
  /\ UNCHANGED <<serviceVars, op, on, number, refs, answer, objects>>

\* The CQ ring or the page list is allocated; a PD has no memory.
CreateCall(c, h) ==
  /\ op[c] = "none" /\ hstate[h] = "absent"
  /\ Service!Call(c)
  /\ op' = [op EXCEPT ![c] = "create"]
  /\ on' = [on EXCEPT ![c] = h]
  /\ hstate' = [hstate EXCEPT ![h] = "busy"]
  /\ refs' = [refs EXCEPT ![h] = IF h \in Pds THEN @ ELSE @ + 1]
  /\ UNCHANGED <<number, answer, objects>>

\* A failure, a timeout too, frees the memory.
CreateReturn(c) ==
  LET h == on[c] IN
  \E r \in Replies :
    /\ op[c] = "create"
    /\ Service!Reply(c, r)
    /\ op' = [op EXCEPT ![c] = "none"]
    /\ hstate' = [hstate EXCEPT ![h] = IF r = "Success" THEN "live" ELSE Failed(r)]
    /\ \E n \in WordsRead(h) :
         number' = [number EXCEPT ![h] = IF r = "Success" THEN Kept(h, n) ELSE @]
    /\ refs' = [refs EXCEPT ![h] = IF r = "Success" \/ h \in Pds THEN @ ELSE @ - 1]
    /\ UNCHANGED <<on, answer, objects>>

\* CREATE_MKEY succeeded and IOMalloc fails: the page list is freed and the
\* firmware keeps the key.
RegMrNoMemory(c) ==
  LET h == on[c] IN
  /\ op[c] = "create" /\ h \in Mrs
  /\ Service!Reply(c, "Success")
  /\ op' = [op EXCEPT ![c] = "none"]
  /\ hstate' = [hstate EXCEPT ![h] = "given_up"]
  /\ refs' = [refs EXCEPT ![h] = @ - 1]
  /\ UNCHANGED <<on, number, answer, objects>>

DestroyCall(c, h) ==
  /\ op[c] = "none" /\ hstate[h] = "live"
  /\ Service!Call(c)
  /\ op' = [op EXCEPT ![c] = "destroy"]
  /\ on' = [on EXCEPT ![c] = h]
  /\ hstate' = [hstate EXCEPT ![h] = "busy"]
  /\ UNCHANGED <<number, refs, answer, objects>>

\* No memory is freed: destroy_cq has no pointer to the ring, and dereg_mr
\* leaves the page list and the mlx5_ib_mr.
DestroyReturn(c) ==
  \E r \in Replies :
    /\ op[c] = "destroy"
    /\ Service!Reply(c, r)
    /\ op' = [op EXCEPT ![c] = "none"]
    /\ hstate' = [hstate EXCEPT ![on[c]] = IF r = "Success" THEN "gone" ELSE "live"]
    /\ UNCHANGED <<on, number, refs, answer, objects>>

alloc_pd(c, h) == h \in Pds /\ CreateCall(c, h)
create_cq(c, h) == h \in Cqs /\ (CreateCall(c, h) \/ CreateNoMemory(c, h))
reg_user_mr(c, h) == h \in Mrs /\ (CreateCall(c, h) \/ CreateNoMemory(c, h))
dealloc_pd(c, h) == h \in Pds /\ DestroyCall(c, h)
destroy_cq(c, h) == h \in Cqs /\ DestroyCall(c, h)
dereg_mr(c, h) == h \in Mrs /\ DestroyCall(c, h)

Verb(c) ==
  \/ \E h \in Handles :
       \/ alloc_pd(c, h) \/ create_cq(c, h) \/ reg_user_mr(c, h)
       \/ dealloc_pd(c, h) \/ destroy_cq(c, h) \/ dereg_mr(c, h)
  \/ CreateReturn(c) \/ RegMrNoMemory(c) \/ DestroyReturn(c)

(***************************************************************************)
(* The firmware numbers the live objects of a kind differently, and acts   *)
(* on the number it finds in the command.                                  *)
(***************************************************************************)
Kind(h) == IF h \in Pds THEN Pds ELSE IF h \in Cqs THEN Cqs ELSE Mrs

FwCreate(c) ==
  LET h == on[c] IN
  /\ op[c] = "create" /\ Service!Serve(c)
  /\ \E n \in Numbers :
       /\ \A k \in objects \cap Kind(h) : answer[k] # n
       /\ answer' = [answer EXCEPT ![h] = n]
  /\ objects' = objects \cup {h}
  /\ UNCHANGED <<op, on, hstate, number, refs>>

FwDestroy(c) ==
  /\ op[c] = "destroy" /\ Service!Serve(c)
  /\ \E k \in objects \cap Kind(on[c]) :
       /\ answer[k] = NumberSent(on[c])
       /\ objects' = objects \ {k}
  /\ UNCHANGED <<op, on, hstate, number, refs, answer>>

Next == \E c \in Clients : Verb(c) \/ FwCreate(c) \/ FwDestroy(c)

Spec == Init /\ [][Next]_vars

-----------------------------------------------------------------------------
\* Types of the handles and of the firmware's objects.
TypeOK ==
  /\ op \in [Clients -> {"none", "create", "destroy"}]
  /\ on \in [Clients -> Handles]
  /\ hstate \in [Handles -> {"absent", "busy", "live", "gone", "failed", "given_up"}]
  /\ number \in [Handles -> Numbers \cup {0}]
  /\ refs \in [Handles -> {0, 1}]
  /\ answer \in [Handles -> Numbers \cup {0}]
  /\ objects \in SUBSET Handles

\* A live handle carries the number of its own object in the firmware.
HandleNamesObject == \A h \in Handles : hstate[h] = "live" => h \in objects /\ number[h] = answer[h]


\* A creation that failed or was given up, at whatever point, leaves no memory
\* allocated.
FailedCreateFrees == \A h \in Handles : hstate[h] \in {"failed", "given_up"} => refs[h] = 0

=============================================================================
