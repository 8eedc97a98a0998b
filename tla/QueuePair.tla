----------------------------- MODULE QueuePair -----------------------------
(***************************************************************************)
(* The control path of a queue pair: mlx5_ib_create_qp_full,               *)
(* mlx5_ib_modify_qp_full and mlx5_ib_destroy_qp_full (kext/mlx5_qp.cpp),  *)
(* run by client threads over the command service of CmdService.  Each     *)
(* verb is split where it blocks in mlx5_cmd_exec.                         *)
(*                                                                         *)
(* There is one QP handle.  Each creation allocates a new send ring,       *)
(* receive ring and doorbell record, named by the number of the creation.  *)
(* The firmware's QP is named by the rings it was given.  Numbers, CQs and *)
(* PDs are left out: MODIFY_QP carries no QP number, so the firmware is    *)
(* taken to have one QP in mind.  A client does not use the handle again   *)
(* after destroy_qp returned, whatever it returned: the rings are gone.    *)
(***************************************************************************)
EXTENDS Integers

CONSTANTS
  Clients,         \* threads calling the verbs
  MaxCalls,        \* bound: commands sent
  MaxCreates       \* bound: creations tried

ASSUME QueuePairAssumption == MaxCalls \in Nat /\ MaxCreates \in Nat

Replies == {"Success", "Error", "Timeout"}
Buffers == {"sq", "rq", "db"}  \* sq_md, rq_md and db_md

VARIABLES
  waiting, cmd, reply, effect, issued, turns,  \* the command service
  op,       \* the verb each client is in
  target,   \* local target_state of modify_qp
  handle,   \* "absent", "busy" while created or destroyed, or "live"
  state,    \* mqp->state
  buffers,  \* the creation whose buffers mqp points to; 0 before the first
  creates,  \* creations tried
  refs,     \* references held on each buffer of each creation
  given_up, \* history: creations whose CREATE_QP timed out or DESTROY_QP failed
  fwQps,    \* the firmware's QPs
  fwState   \* the state the firmware has for the QP of each creation

Service == INSTANCE CmdService WITH Callers <- Clients

service == <<waiting, cmd, reply, effect, issued, turns>>
driver == <<op, target, handle, state, buffers, creates, refs, given_up>>
vars == <<service, driver, fwQps, fwState>>

States == <<"RESET", "INIT", "RTR", "RTS">>
Rank == [s \in {"RESET", "INIT", "RTR", "RTS"} |-> CHOOSE i \in 1..4 : States[i] = s]

Init ==
  /\ Service!Init
  /\ op = [c \in Clients |-> "none"]
  /\ target = [c \in Clients |-> "RESET"]
  /\ handle = "absent"
  /\ state = "RESET"
  /\ buffers = 0
  /\ creates = 0
  /\ refs = [g \in 1..MaxCreates |-> [b \in Buffers |-> 0]]
  /\ given_up = {}
  /\ fwQps = {}
  /\ fwState = [g \in 1..MaxCreates |-> "RESET"]

\* The references after creation g allocated the buffers got and released those in gone.
Count(g, got, gone) ==
  [refs EXCEPT ![g] = [b \in Buffers |-> @[b] + (IF b \in got THEN 1 ELSE 0)
                                             - (IF b \in gone THEN 1 ELSE 0)]]

\* The buffers alloc_qp_resources has when the allocation of buffer b fails, ...
Allocated(b) ==
  IF b = "sq" THEN {} ELSE IF b = "rq" THEN {"sq"} ELSE {"sq", "rq"}

-----------------------------------------------------------------------------
(***************************************************************************)
(* Mutants: slips the properties below must catch; no part of Spec.        *)
(***************************************************************************)
\* Forgets the receive ring when the doorbell record cannot be allocated.
Rollback_KeepsRq(b) == IF b = "sq" THEN {} ELSE {"sq"}

\* Records the new state whatever the command returned.
ModifyReturn_Unchecked(c) ==
  \E r \in Replies :
    /\ op[c] = "modify"
    /\ Service!Reply(c, r)
    /\ op' = [op EXCEPT ![c] = "none"]
    /\ state' = target[c]
    /\ UNCHANGED <<target, handle, buffers, creates, refs, given_up, fwQps, fwState>>

\* Takes a QP in RTS on to the next state of the firmware's enum.
ModifyCall_PastRTS(c) ==
  /\ handle = "live" /\ op[c] = "none"
  /\ Service!Call(c)
  /\ op' = [op EXCEPT ![c] = "modify"]
  /\ target' = [target EXCEPT ![c] = IF state = "RTS" THEN "SQER" ELSE States[Rank[state] + 1]]
  /\ UNCHANGED <<handle, state, buffers, creates, refs, given_up, fwQps, fwState>>

\* Frees the buffers before it sends DESTROY_QP.
DestroyCall_FreesFirst(c) ==
  /\ handle = "live" /\ op[c] = "none"
  /\ Service!Call(c)
  /\ op' = [op EXCEPT ![c] = "destroy"]
  /\ handle' = "busy"
  /\ refs' = Count(buffers, {}, Buffers)
  /\ UNCHANGED <<target, state, buffers, creates, given_up, fwQps, fwState>>

-----------------------------------------------------------------------------
(* The verbs, up to the command and from its return.                       *)

\* ... and those it releases before it returns kIOReturnNoMemory.
Rollback(b) ==
  IF b = "sq" THEN {} ELSE IF b = "rq" THEN {"sq"} ELSE {"sq", "rq"}

\* alloc_qp_resources fails at one of its three buffers.
CreateNoMemory(c) ==
  /\ handle = "absent" /\ op[c] = "none" /\ creates < MaxCreates
  /\ creates' = creates + 1
  /\ buffers' = creates + 1
  /\ state' = "RESET"
  /\ \E b \in Buffers : refs' = Count(creates + 1, Allocated(b), Rollback(b))
  /\ UNCHANGED <<service, op, target, handle, given_up, fwQps, fwState>>

\* memset, alloc_qp_resources, and CREATE_QP with the three addresses.
CreateCall(c) ==
  /\ handle = "absent" /\ op[c] = "none" /\ creates < MaxCreates
  /\ Service!Call(c)
  /\ op' = [op EXCEPT ![c] = "create"]
  /\ handle' = "busy"
  /\ creates' = creates + 1
  /\ buffers' = creates + 1
  /\ refs' = Count(creates + 1, Buffers, {})
  /\ state' = "RESET"
  /\ UNCHANGED <<target, given_up, fwQps, fwState>>

\* Anything but success, a timeout too, frees the buffers.
CreateReturn(c) ==
  \E r \in Replies :
    /\ op[c] = "create"
    /\ Service!Reply(c, r)
    /\ op' = [op EXCEPT ![c] = "none"]
    /\ handle' = IF r = "Success" THEN "live" ELSE "absent"
    /\ refs' = IF r = "Success" THEN refs ELSE Count(buffers, {}, Buffers)
    /\ given_up' = IF r = "Timeout" THEN given_up \cup {buffers} ELSE given_up
    /\ state' = IF r = "Success" THEN "RESET" ELSE state
    /\ UNCHANGED <<target, buffers, creates, fwQps, fwState>>

\* The attributes are ignored: the target is the state after mqp->state.  In RTS
\* the verb returns -1 without a command.
ModifyCall(c) ==
  /\ handle = "live" /\ op[c] = "none" /\ state # "RTS"
  /\ Service!Call(c)
  /\ op' = [op EXCEPT ![c] = "modify"]
  /\ target' = [target EXCEPT ![c] = States[Rank[state] + 1]]
  /\ UNCHANGED <<handle, state, buffers, creates, refs, given_up, fwQps, fwState>>

ModifyReturn(c) ==
  \E r \in Replies :
    /\ op[c] = "modify"
    /\ Service!Reply(c, r)
    /\ op' = [op EXCEPT ![c] = "none"]
    /\ state' = IF r = "Success" THEN target[c] ELSE state
    /\ UNCHANGED <<target, handle, buffers, creates, refs, given_up, fwQps, fwState>>

DestroyCall(c) ==
  /\ handle = "live" /\ op[c] = "none"
  /\ Service!Call(c)
  /\ op' = [op EXCEPT ![c] = "destroy"]
  /\ handle' = "busy"
  /\ UNCHANGED <<target, state, buffers, creates, refs, given_up, fwQps, fwState>>

\* The buffers are freed whatever DESTROY_QP returned.
DestroyReturn(c) ==
  \E r \in Replies :
    /\ op[c] = "destroy"
    /\ Service!Reply(c, r)
    /\ op' = [op EXCEPT ![c] = "none"]
    /\ handle' = "absent"
    /\ refs' = Count(buffers, {}, Buffers)
    /\ given_up' = IF r = "Success" THEN given_up ELSE given_up \cup {buffers}
    /\ UNCHANGED <<target, state, buffers, creates, fwQps, fwState>>

Verb(c) ==
  \/ CreateNoMemory(c) \/ CreateCall(c) \/ CreateReturn(c)
  \/ ModifyCall(c) \/ ModifyReturn(c)
  \/ DestroyCall(c) \/ DestroyReturn(c)

(***************************************************************************)
(* The firmware carries a command out.  It takes a QP one state further,   *)
(* or from INIT to INIT or RTS to RTS, which InfiniBand allows.            *)
(***************************************************************************)
FwCreate(c) ==
  /\ op[c] = "create" /\ Service!Serve(c)
  /\ fwQps' = fwQps \cup {buffers}
  /\ fwState' = [fwState EXCEPT ![buffers] = "RESET"]
  /\ UNCHANGED driver

FwModify(c) ==
  /\ op[c] = "modify" /\ Service!Serve(c)
  /\ buffers \in fwQps
  /\ \/ Rank[target[c]] = Rank[fwState[buffers]] + 1
     \/ target[c] = fwState[buffers] /\ target[c] \in {"INIT", "RTS"}
  /\ fwState' = [fwState EXCEPT ![buffers] = target[c]]
  /\ UNCHANGED <<driver, fwQps>>

FwDestroy(c) ==
  /\ op[c] = "destroy" /\ Service!Serve(c)
  /\ buffers \in fwQps
  /\ fwQps' = fwQps \ {buffers}
  /\ UNCHANGED <<driver, fwState>>

Next == \E c \in Clients : Verb(c) \/ FwCreate(c) \/ FwModify(c) \/ FwDestroy(c)

Spec == Init /\ [][Next]_vars

-----------------------------------------------------------------------------
\* Types of the QP and of the firmware's view of it.
TypeOK ==
  /\ op \in [Clients -> {"none", "create", "modify", "destroy"}]
  /\ target \in [Clients -> DOMAIN Rank]
  /\ handle \in {"absent", "busy", "live"}
  /\ state \in DOMAIN Rank
  /\ buffers \in 0..MaxCreates
  /\ creates \in 0..MaxCreates
  /\ refs \in [1..MaxCreates -> [Buffers -> Int]]
  /\ given_up \in SUBSET (1..MaxCreates)
  /\ fwQps \in SUBSET (1..MaxCreates)
  /\ fwState \in [1..MaxCreates -> DOMAIN Rank]
  /\ reply \in [Clients -> Replies \cup {"none"}]
  /\ turns \in BOOLEAN

\* As long as the verbs take turns, mqp->state never claims a transition the firmware
\* has not made, though any reply may be an error or lost and be tried again.
NotAheadOfFirmware ==
  turns /\ handle = "live" => buffers \in fwQps /\ Rank[state] <= Rank[fwState[buffers]]

\* As long as the verbs take turns, a QP the firmware has keeps all three buffers,
\* unless the code gave it up without knowing it gone: create_qp when CREATE_QP timed
\* out, destroy_qp when DESTROY_QP did not succeed.
FwRingsLive ==
  turns => \A g \in fwQps \ given_up : \A b \in Buffers : refs[g][b] = 1

\* With no QP, no buffer of any creation is left allocated or released twice, whichever
\* allocation or command failed and whichever modify_qp calls overlapped.
NoBufferLeak ==
  handle = "absent" => \A g \in 1..MaxCreates : \A b \in Buffers : refs[g][b] = 0

=============================================================================
