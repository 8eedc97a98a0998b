-------------------------- MODULE QueuePair_proofs --------------------------
(***************************************************************************)
(* Proofs about QueuePair, for any number of clients, calls and creations. *)
(*                                                                         *)
(* Nothing is assumed of the replies.  What depends on the firmware holds  *)
(* as long as the verbs take turns on the command queue; what depends on   *)
(* the driver alone holds however they overlap.                            *)
(***************************************************************************)
EXTENDS QueuePair, TLAPS

Cmds == INSTANCE CmdService_proofs WITH Callers <- Clients

-----------------------------------------------------------------------------
(* The inductive invariants.                                               *)

\* One verb at a time creates or destroys the QP, and while the verbs take turns
\* modify_qp runs on a QP that exists.
Exclusion ==
  /\ \A c \in Clients :
       /\ waiting[c] <=> op[c] # "none"
       /\ op[c] \in {"create", "destroy"} => handle = "busy"
       /\ turns /\ op[c] = "modify" => handle = "live"
  /\ \A c, d \in Clients :
       op[c] \in {"create", "destroy"} /\ op[d] \in {"create", "destroy"} => c = d
  /\ buffers = creates
  /\ handle # "absent" => buffers > 0

\* The buffers of the present QP are held once, all others are free.
RefsInv ==
  \A g \in 1..MaxCreates : \A b \in Buffers :
    refs[g][b] = (IF handle # "absent" /\ g = buffers THEN 1 ELSE 0)

\* The firmware has at most the present QP, not before it created it or after it
\* destroyed it, and QPs the driver gave up.
FwQpsInv ==
  /\ \A g \in fwQps \cup given_up : g <= creates
  /\ turns => \A g \in fwQps \ given_up : g = buffers /\ handle # "absent"
  /\ turns => \A c \in Clients :
       /\ op[c] = "create" /\ ~Cmds!Done(c) => buffers \notin fwQps
       /\ op[c] = "destroy" /\ Cmds!Done(c) => buffers \notin fwQps

\* The firmware's state of the present QP, and the transition still on its way.
Confirmed == buffers \in fwQps /\ Rank[state] <= Rank[fwState[buffers]]

StateInv ==
  turns =>
    /\ handle = "live" => Confirmed
    /\ \A c \in Clients :
         /\ op[c] = "create" /\ Cmds!Done(c) => buffers \in fwQps
         /\ op[c] = "modify" /\ Cmds!Done(c) => Rank[target[c]] <= Rank[fwState[buffers]]

BaseInv == TypeOK /\ Cmds!ServiceInv /\ Exclusion

-----------------------------------------------------------------------------
(* Facts about the operators of the model.                                 *)

\* The order of the states modify_qp walks through.
LEMMA RankIs ==
  /\ DOMAIN Rank = {"RESET", "INIT", "RTR", "RTS"}
  /\ Rank["RESET"] = 1 /\ Rank["INIT"] = 2 /\ Rank["RTR"] = 3 /\ Rank["RTS"] = 4
  <1>1. States[1] = "RESET" /\ States[2] = "INIT" /\ States[3] = "RTR" /\ States[4] = "RTS"
    BY DEF States
  <1>2. ASSUME NEW s \in {"RESET", "INIT", "RTR", "RTS"}
        PROVE  Rank[s] \in 1..4 /\ States[Rank[s]] = s
    <2>1. \E i \in 1..4 : States[i] = s
      BY <1>1
    <2>2. Rank[s] = CHOOSE i \in 1..4 : States[i] = s
      BY DEF Rank
    <2> QED
      BY <2>1, <2>2
  <1> QED
    BY <1>1, <1>2 DEF Rank

\* The target modify_qp computes from any state before RTS is a state.
LEMMA NextState ==
  ASSUME NEW s \in DOMAIN Rank, s # "RTS"
  PROVE  States[Rank[s] + 1] \in DOMAIN Rank
  BY RankIs DEF States

\* What Count does to each reference: for any buffers, when all three are allocated and
\* when all three are released.
LEMMA CountIs ==
  ASSUME TypeOK, NEW g \in 1..MaxCreates, NEW got, NEW gone
  PROVE  /\ Count(g, got, gone) \in [1..MaxCreates -> [Buffers -> Int]]
         /\ \A h \in 1..MaxCreates \ {g} : Count(g, got, gone)[h] = refs[h]
         /\ \A b \in Buffers :
              Count(g, got, gone)[g][b] = refs[g][b] + (IF b \in got THEN 1 ELSE 0)
                                                     - (IF b \in gone THEN 1 ELSE 0)
  BY DEF TypeOK, Count

LEMMA AcquireAll ==
  ASSUME TypeOK, NEW g \in 1..MaxCreates, refs' = Count(g, Buffers, {})
  PROVE  /\ \A h \in 1..MaxCreates \ {g} : refs'[h] = refs[h]
         /\ \A b \in Buffers : refs'[g][b] = refs[g][b] + 1
  BY CountIs DEF TypeOK

LEMMA ReleaseAll ==
  ASSUME TypeOK, NEW g \in 1..MaxCreates, refs' = Count(g, {}, Buffers)
  PROVE  /\ \A h \in 1..MaxCreates \ {g} : refs'[h] = refs[h]
         /\ \A b \in Buffers : refs'[g][b] = refs[g][b] - 1
  <1>1. /\ \A h \in 1..MaxCreates \ {g} : refs'[h] = refs[h]
        /\ \A b \in Buffers : refs'[g][b] = refs[g][b] + 0 - 1
    BY CountIs
  <1>2. \A b \in Buffers : refs[g][b] \in Int
    BY DEF TypeOK
  <1> QED
    BY <1>1, <1>2

\* A failed allocation releases what was allocated before it.
LEMMA RollbackIsComplete == \A b \in Buffers : Rollback(b) = Allocated(b)
  BY DEF Rollback, Allocated

\* The command service of QueuePair is the one CmdService_proofs is about.
LEMMA SameService ==
  /\ MaxCalls \in Nat
  /\ Service!Init <=> Cmds!Init
  /\ \A c : Service!Call(c) <=> Cmds!Call(c)
  /\ \A c : Service!Serve(c) <=> Cmds!Serve(c)
  /\ \A c, r : Service!Reply(c, r) <=> Cmds!Reply(c, r)
  BY QueuePairAssumption
  DEF Service!Init, Service!Call, Service!Serve, Service!Reply,
      Cmds!Init, Cmds!Call, Cmds!Serve, Cmds!Reply

-----------------------------------------------------------------------------
(* Types, the command service and the exclusion of the verbs: whatever the *)
(* replies are.                                                            *)

\* Every verb and every step of the firmware keeps the types; the buffers the
\* firmware is given are those of a creation.
LEMMA TypeStep ==
  ASSUME BaseInv, NEW c \in Clients, Verb(c) \/ FwCreate(c) \/ FwModify(c) \/ FwDestroy(c)
  PROVE  TypeOK'
  <1> USE QueuePairAssumption, RankIs DEF BaseInv, TypeOK, driver
  <1>1. CASE CreateNoMemory(c)
    <2>1. creates + 1 \in 1..MaxCreates
      BY <1>1 DEF CreateNoMemory
    <2>2. refs' \in [1..MaxCreates -> [Buffers -> Int]]
      <3>1. PICK b \in Buffers : refs' = Count(creates + 1, Allocated(b), Rollback(b))
        BY <1>1 DEF CreateNoMemory
      <3> HIDE DEF TypeOK
      <3> QED
        BY <2>1, <3>1, CountIs DEF BaseInv
    <2> QED
      BY <1>1, <2>1, <2>2 DEF CreateNoMemory, service
  <1>2. CASE CreateCall(c)
    <2>1. creates + 1 \in 1..MaxCreates
      BY <1>2 DEF CreateCall
    <2>2. refs' \in [1..MaxCreates -> [Buffers -> Int]]
      BY <1>2, <2>1, CountIs DEF CreateCall
    <2> QED
      BY <1>2, <2>1, <2>2 DEF CreateCall, Service!Call
  <1>3. CASE CreateReturn(c)
    <2>1. buffers \in 1..MaxCreates
      BY <1>3 DEF CreateReturn, Exclusion
    <2>2. PICK r \in Replies : CreateReturn(c)!(r)
      BY <1>3 DEF CreateReturn
    <2>3. refs' \in [1..MaxCreates -> [Buffers -> Int]]
      BY <2>1, <2>2, CountIs
    <2>4. reply' \in [Clients -> Replies \cup {"none"}] /\ turns' = turns
      BY <2>2 DEF Service!Reply
    <2>5. given_up' \in SUBSET (1..MaxCreates)
      BY <2>1, <2>2
    <2> QED
      BY <2>2, <2>3, <2>4, <2>5
  <1>4. CASE ModifyCall(c)
    BY <1>4, NextState DEF ModifyCall, Service!Call
  <1>5. CASE ModifyReturn(c)
    BY <1>5 DEF ModifyReturn, Service!Reply
  <1>6. CASE DestroyCall(c)
    BY <1>6 DEF DestroyCall, Service!Call
  <1>7. CASE DestroyReturn(c)
    <2>1. buffers \in 1..MaxCreates
      BY <1>7 DEF DestroyReturn, Exclusion
    <2>2. refs' \in [1..MaxCreates -> [Buffers -> Int]]
      BY <1>7, <2>1, CountIs DEF DestroyReturn
    <2> QED
      BY <1>7, <2>1, <2>2 DEF DestroyReturn, Service!Reply
  <1>8. CASE FwCreate(c)
    <2>1. buffers \in 1..MaxCreates
      BY <1>8 DEF FwCreate, Exclusion
    <2> QED
      BY <1>8, <2>1 DEF FwCreate, Service!Serve
  <1>9. CASE FwModify(c)
    BY <1>9 DEF FwModify, Service!Serve
  <1>10. CASE FwDestroy(c)
    BY <1>10 DEF FwDestroy, Service!Serve
  <1> QED
    BY <1>1, <1>2, <1>3, <1>4, <1>5, <1>6, <1>7, <1>8, <1>9, <1>10 DEF Verb

\* Each verb is one call of the command service, and one creation or destruction of
\* the QP runs at a time.
LEMMA ExclusionStep ==
  ASSUME BaseInv, NEW c \in Clients, Verb(c) \/ FwCreate(c) \/ FwModify(c) \/ FwDestroy(c)
  PROVE  Cmds!ServiceInv' /\ Exclusion'
  <1> USE DEF BaseInv, TypeOK, Exclusion, driver
  <1>1. CASE CreateNoMemory(c)
    BY <1>1 DEF CreateNoMemory, service, Cmds!ServiceInv
  <1>2. CASE CreateCall(c)
    BY <1>2, SameService, Cmds!CallKeeps DEF CreateCall
  <1>3. CASE CreateReturn(c)
    BY <1>3, SameService, Cmds!ReplyKeeps DEF CreateReturn
  <1>4. CASE ModifyCall(c)
    BY <1>4, SameService, Cmds!CallKeeps DEF ModifyCall
  <1>5. CASE ModifyReturn(c)
    BY <1>5, SameService, Cmds!ReplyKeeps DEF ModifyReturn
  <1>6. CASE DestroyCall(c)
    BY <1>6, SameService, Cmds!CallKeeps DEF DestroyCall
  <1>7. CASE DestroyReturn(c)
    BY <1>7, SameService, Cmds!ReplyKeeps DEF DestroyReturn
  <1>8. CASE FwCreate(c)
    BY <1>8, SameService, Cmds!ServeKeeps DEF FwCreate
  <1>9. CASE FwModify(c)
    BY <1>9, SameService, Cmds!ServeKeeps DEF FwModify
  <1>10. CASE FwDestroy(c)
    BY <1>10, SameService, Cmds!ServeKeeps DEF FwDestroy
  <1> QED
    BY <1>1, <1>2, <1>3, <1>4, <1>5, <1>6, <1>7, <1>8, <1>9, <1>10 DEF Verb

\* While the verbs take turns, a client in a verb is in it alone, and a command is
\* sent when no other is pending.
LEMMA Alone ==
  ASSUME BaseInv, turns, NEW c \in Clients
  PROVE  /\ op[c] # "none" => \A d \in Clients \ {c} : op[d] = "none"
         /\ (\A d \in Clients : ~waiting[d]) => \A d \in Clients : op[d] = "none"
  BY DEF BaseInv, Exclusion, Cmds!ServiceInv

-----------------------------------------------------------------------------
(* The buffers, the firmware's QPs and the states.                         *)

\* Every step leaves the present QP's buffers held once and all others free.
LEMMA RefsStep ==
  ASSUME BaseInv, RefsInv, NEW c \in Clients,
         Verb(c) \/ FwCreate(c) \/ FwModify(c) \/ FwDestroy(c)
  PROVE  RefsInv'
  <1> USE DEF BaseInv, Exclusion, driver
  <1>1. CASE CreateNoMemory(c)
    <2>1. PICK x \in Buffers : refs' = Count(creates + 1, Allocated(x), Rollback(x))
      BY <1>1 DEF CreateNoMemory
    <2>2. creates + 1 \in 1..MaxCreates /\ handle = "absent" /\ handle' = "absent"
      BY <1>1, QueuePairAssumption DEF CreateNoMemory, TypeOK
    <2>3. \A g \in 1..MaxCreates \ {creates + 1} : refs'[g] = refs[g]
      BY <2>1, <2>2, CountIs
    <2>4. \A b \in Buffers : refs[creates + 1][b] \in Int
      BY <2>2 DEF TypeOK
    <2>5. \A b \in Buffers : refs'[creates + 1][b] = refs[creates + 1][b]
      BY <2>1, <2>2, <2>4, CountIs, RollbackIsComplete
    <2> QED
      BY <2>2, <2>3, <2>5 DEF RefsInv
  <1>2. CASE CreateCall(c)
    <2>1. refs' = Count(creates + 1, Buffers, {}) /\ creates + 1 \in 1..MaxCreates
      BY <1>2, QueuePairAssumption DEF CreateCall, TypeOK
    <2>2. handle = "absent" /\ handle' = "busy" /\ buffers' = creates + 1
      BY <1>2 DEF CreateCall
    <2>3. /\ \A h \in 1..MaxCreates \ {creates + 1} : refs'[h] = refs[h]
          /\ \A b \in Buffers : refs'[creates + 1][b] = refs[creates + 1][b] + 1
      BY <2>1, AcquireAll
    <2> QED
      BY <2>1, <2>2, <2>3 DEF RefsInv
  <1>3. CASE CreateReturn(c)
    <2>1. buffers \in 1..MaxCreates /\ handle = "busy" /\ buffers' = buffers
      BY <1>3 DEF CreateReturn, TypeOK
    <2>2. CASE handle' = "live" /\ refs' = refs
      BY <2>1, <2>2 DEF RefsInv
    <2>3. CASE handle' = "absent" /\ refs' = Count(buffers, {}, Buffers)
      <3>1. /\ \A h \in 1..MaxCreates \ {buffers} : refs'[h] = refs[h]
            /\ \A b \in Buffers : refs'[buffers][b] = refs[buffers][b] - 1
        BY <2>1, <2>3, ReleaseAll
      <3> QED
        BY <2>1, <2>3, <3>1 DEF RefsInv
    <2> QED
      BY <1>3, <2>2, <2>3 DEF CreateReturn
  <1>4. CASE ModifyCall(c)
    BY <1>4 DEF ModifyCall, RefsInv
  <1>5. CASE ModifyReturn(c)
    BY <1>5 DEF ModifyReturn, RefsInv
  <1>6. CASE DestroyCall(c)
    BY <1>6 DEF DestroyCall, RefsInv
  <1>7. CASE DestroyReturn(c)
    <2>1. buffers \in 1..MaxCreates /\ handle = "busy" /\ handle' = "absent"
      BY <1>7 DEF DestroyReturn, TypeOK
    <2>2. /\ \A h \in 1..MaxCreates \ {buffers} : refs'[h] = refs[h]
          /\ \A b \in Buffers : refs'[buffers][b] = refs[buffers][b] - 1
      BY <1>7, <2>1, ReleaseAll DEF DestroyReturn
    <2> QED
      BY <2>1, <2>2 DEF RefsInv
  <1>8. CASE FwCreate(c)
    BY <1>8 DEF FwCreate, RefsInv
  <1>9. CASE FwModify(c)
    BY <1>9 DEF FwModify, RefsInv
  <1>10. CASE FwDestroy(c)
    BY <1>10 DEF FwDestroy, RefsInv
  <1> QED
    BY <1>1, <1>2, <1>3, <1>4, <1>5, <1>6, <1>7, <1>8, <1>9, <1>10 DEF Verb

\* The firmware's QPs follow the handle, except for the ones given up.
LEMMA FwQpsStep ==
  ASSUME BaseInv, FwQpsInv, NEW c \in Clients,
         Verb(c) \/ FwCreate(c) \/ FwModify(c) \/ FwDestroy(c)
  PROVE  FwQpsInv'
  <1> USE QueuePairAssumption DEF BaseInv, TypeOK, Exclusion, FwQpsInv, Replies, driver
  <1>1. CASE CreateNoMemory(c)
    <2>1. /\ handle = "absent" /\ UNCHANGED <<fwQps, given_up, handle, turns>>
          /\ creates' = creates + 1 /\ creates \in Nat
      BY <1>1 DEF CreateNoMemory, service
    <2>2. \A d \in Clients : op'[d] \notin {"create", "destroy"}
      BY <1>1 DEF CreateNoMemory
    <2>3. \A g \in fwQps \cup given_up : g \in Nat /\ g <= creates'
      BY <2>1
    <2>4. turns => \A g \in fwQps : g \in given_up
      BY <2>1
    <2> QED
      BY <2>1, <2>2, <2>3, <2>4
  <1>2. CASE CreateCall(c)
    BY <1>2, SameService, Cmds!CallKeeps DEF CreateCall
  <1>3. CASE CreateReturn(c)
    BY <1>3, SameService, Cmds!ReplyKeeps DEF CreateReturn
  <1>4. CASE ModifyCall(c)
    BY <1>4, SameService, Cmds!CallKeeps DEF ModifyCall
  <1>5. CASE ModifyReturn(c)
    BY <1>5, SameService, Cmds!ReplyKeeps DEF ModifyReturn
  <1>6. CASE DestroyCall(c)
    BY <1>6, SameService, Cmds!CallKeeps DEF DestroyCall
  <1>7. CASE DestroyReturn(c)
    BY <1>7, SameService, Cmds!ReplyKeeps DEF DestroyReturn
  <1>8. CASE FwCreate(c)
    BY <1>8, SameService, Cmds!ServeKeeps DEF FwCreate
  <1>9. CASE FwModify(c)
    BY <1>9, SameService, Cmds!ServeKeeps DEF FwModify
  <1>10. CASE FwDestroy(c)
    BY <1>10, SameService, Cmds!ServeKeeps DEF FwDestroy
  <1> QED
    BY <1>1, <1>2, <1>3, <1>4, <1>5, <1>6, <1>7, <1>8, <1>9, <1>10 DEF Verb

\* A transition is confirmed before mqp->state records it.
LEMMA StateStep ==
  ASSUME BaseInv, StateInv, NEW c \in Clients,
         Verb(c) \/ FwCreate(c) \/ FwModify(c) \/ FwDestroy(c)
  PROVE  StateInv'
  <1> USE QueuePairAssumption, RankIs DEF BaseInv, TypeOK, Exclusion, Replies, driver
  <1>1. CASE CreateNoMemory(c)
    BY <1>1 DEF CreateNoMemory, service, Cmds!Done, StateInv
  <1>2. CASE CreateCall(c)
    BY <1>2, SameService, Cmds!CallKeeps, Alone DEF CreateCall, StateInv
  <1>3. CASE CreateReturn(c)
    <2>1. PICK r \in Replies : CreateReturn(c)!(r)
      BY <1>3 DEF CreateReturn
    <2>2. /\ turns' = turns /\ (turns /\ r = "Success" => Cmds!Done(c))
          /\ UNCHANGED <<buffers, fwQps, fwState, target>>
          /\ turns => \A d \in Clients : op'[d] = "none"
      BY <2>1, SameService, Cmds!ReplyKeeps, Alone
    <2>3. ASSUME turns, handle' = "live"
          PROVE  Confirmed'
      <3>1. buffers \in fwQps /\ state' = "RESET"
        BY <2>1, <2>2, <2>3 DEF StateInv
      <3> QED
        BY <2>2, <3>1 DEF Confirmed
    <2> QED
      BY <2>2, <2>3 DEF StateInv
  <1>4. CASE ModifyCall(c)
    BY <1>4, SameService, Cmds!CallKeeps, Alone DEF ModifyCall, StateInv, Confirmed
  <1>5. CASE ModifyReturn(c)
    <2>1. PICK r \in Replies : ModifyReturn(c)!(r)
      BY <1>5 DEF ModifyReturn
    <2>2. /\ turns' = turns /\ (turns /\ r = "Success" => Cmds!Done(c))
          /\ UNCHANGED <<buffers, fwQps, fwState, target, handle>>
          /\ turns => \A d \in Clients : op'[d] = "none"
      BY <2>1, SameService, Cmds!ReplyKeeps, Alone
    <2>3. ASSUME turns, handle = "live"
          PROVE  Confirmed'
      BY <2>1, <2>2, <2>3 DEF StateInv, Confirmed
    <2> QED
      BY <2>2, <2>3 DEF StateInv
  <1>6. CASE DestroyCall(c)
    BY <1>6, SameService, Cmds!CallKeeps, Alone DEF DestroyCall, StateInv
  <1>7. CASE DestroyReturn(c)
    <2>1. turns' = turns /\ handle' = "absent" /\ (turns => \A d \in Clients : op'[d] = "none")
      BY <1>7, SameService, Cmds!ReplyKeeps, Alone DEF DestroyReturn
    <2> QED
      BY <2>1 DEF StateInv
  <1>8. CASE FwCreate(c)
    <2>1. turns /\ handle = "busy" /\ \A d \in Clients \ {c} : op[d] = "none"
      BY <1>8, SameService, Cmds!ServeKeeps, Alone DEF FwCreate
    <2> QED
      BY <1>8, <2>1 DEF FwCreate, StateInv
  <1>9. CASE FwModify(c)
    <2>1. turns /\ handle = "live" /\ \A d \in Clients \ {c} : op[d] = "none"
      BY <1>9, SameService, Cmds!ServeKeeps, Alone DEF FwModify
    <2>2. buffers \in fwQps /\ fwState'[buffers] = target[c] /\ Rank[fwState[buffers]] <= Rank[target[c]]
      BY <1>9 DEF FwModify
    <2>3. \A s, t, u \in DOMAIN Rank : Rank[s] <= Rank[t] /\ Rank[t] <= Rank[u] => Rank[s] <= Rank[u]
      OBVIOUS
    <2>4. Rank[target[c]] <= Rank[target[c]] /\ Rank[state] <= Rank[target[c]]
      BY <2>1, <2>2, <2>3 DEF StateInv, Confirmed
    <2>5. UNCHANGED driver /\ UNCHANGED fwQps /\ op[c] = "modify"
      BY <1>9 DEF FwModify
    <2> QED
      BY <2>1, <2>2, <2>4, <2>5 DEF StateInv, Confirmed
  <1>10. CASE FwDestroy(c)
    <2>1. turns /\ handle = "busy" /\ \A d \in Clients \ {c} : op[d] = "none"
      BY <1>10, SameService, Cmds!ServeKeeps, Alone DEF FwDestroy
    <2> QED
      BY <1>10, <2>1 DEF FwDestroy, StateInv
  <1> QED
    BY <1>1, <1>2, <1>3, <1>4, <1>5, <1>6, <1>7, <1>8, <1>9, <1>10 DEF Verb

-----------------------------------------------------------------------------
(* The theorems.                                                           *)

\* Before the first verb nothing is allocated, and no command was sent.
LEMMA InitInv == Init => BaseInv /\ RefsInv /\ FwQpsInv /\ StateInv
  <1> SUFFICES ASSUME Init
               PROVE  BaseInv /\ RefsInv /\ FwQpsInv /\ StateInv
    OBVIOUS
  <1> USE QueuePairAssumption, RankIs DEF Init, Service!Init
  <1>1. TypeOK
    BY DEF TypeOK
  <1>2. waiting \in [Clients -> BOOLEAN] /\ \A c \in Clients : ~waiting[c]
    BY Zenon
  <1>3. Cmds!ServiceInv
    BY <1>2 DEF Cmds!ServiceInv
  <1>4. Exclusion
    BY <1>2 DEF Exclusion
  <1> QED
    BY <1>1, <1>3, <1>4 DEF BaseInv, RefsInv, FwQpsInv, StateInv

\* A step that changes nothing keeps every invariant.
LEMMA StutterInv ==
  ASSUME UNCHANGED vars
  PROVE  /\ BaseInv => BaseInv'
         /\ RefsInv => RefsInv'
         /\ FwQpsInv => FwQpsInv'
         /\ StateInv => StateInv'
  BY DEF vars, service, driver, BaseInv, TypeOK, Cmds!ServiceInv, Exclusion, Cmds!Done, RefsInv, FwQpsInv, StateInv, Confirmed

\* Whatever the replies: types hold, pending commands differ, and one verb at a time
\* creates or destroys the QP.
THEOREM VerbsExclude == Spec => []BaseInv
  <1>1. Init => BaseInv
    BY InitInv
  <1>2. BaseInv /\ [Next]_vars => BaseInv'
    <2>1. BaseInv /\ Next => BaseInv'
      BY TypeStep, ExclusionStep DEF Next, BaseInv
    <2> QED
      BY <2>1, StutterInv
  <1> QED
    BY <1>1, <1>2, PTL DEF Spec

\* Types of the QP and of the firmware's view of it, whatever the replies.
THEOREM TypeCorrect == Spec => []TypeOK
  <1>1. BaseInv => TypeOK
    BY DEF BaseInv
  <1> QED
    BY <1>1, VerbsExclude, PTL

\* No path of create_qp and destroy_qp leaves a buffer allocated, or releases one twice,
\* once the QP is gone: whichever allocation failed and whatever the firmware answered.
THEOREM BuffersReleased == Spec => []NoBufferLeak
  <1>1. BaseInv /\ RefsInv /\ [Next]_vars => RefsInv'
    <2>1. BaseInv /\ RefsInv /\ Next => RefsInv'
      BY RefsStep DEF Next
    <2> QED
      BY <2>1, StutterInv
  <1>2. RefsInv => NoBufferLeak
    BY DEF RefsInv, NoBufferLeak
  <1> QED
    BY <1>1, <1>2, InitInv, VerbsExclude, PTL DEF Spec

\* While the verbs take turns, the buffers of a firmware QP are freed in two cases only:
\* CREATE_QP timed out, or DESTROY_QP did not succeed.
THEOREM RingsOutliveFirmwareQp == Spec => []FwRingsLive
  <1>1. BaseInv /\ RefsInv /\ FwQpsInv /\ [Next]_vars => RefsInv' /\ FwQpsInv'
    <2>1. BaseInv /\ RefsInv /\ FwQpsInv /\ Next => RefsInv' /\ FwQpsInv'
      BY RefsStep, FwQpsStep DEF Next
    <2> QED
      BY <2>1, StutterInv
  <1>2. BaseInv /\ RefsInv /\ FwQpsInv => FwRingsLive
    BY DEF BaseInv, TypeOK, RefsInv, FwQpsInv, FwRingsLive
  <1> QED
    BY <1>1, <1>2, InitInv, VerbsExclude, PTL DEF Spec

\* While the verbs take turns, mqp->state is never ahead of the firmware, whatever
\* modify_qp and the other verbs were answered.
THEOREM StateConfirmed == Spec => []NotAheadOfFirmware
  <1>1. BaseInv /\ StateInv /\ [Next]_vars => StateInv'
    <2>1. BaseInv /\ StateInv /\ Next => StateInv'
      BY StateStep DEF Next
    <2> QED
      BY <2>1, StutterInv
  <1>2. StateInv => NotAheadOfFirmware
    BY DEF StateInv, Confirmed, NotAheadOfFirmware
  <1> QED
    BY <1>1, <1>2, InitInv, VerbsExclude, PTL DEF Spec

=============================================================================
