-------------------------- MODULE CmdService_proofs --------------------------
(***************************************************************************)
(* What follows from CmdService alone, for the modules that issue commands *)
(* over it: which command a caller waits for, and what a step of another   *)
(* caller, or of the firmware, can do to it.                               *)
(***************************************************************************)
EXTENDS CmdService, TLAPS

\* Commands are numbered as issued, the pending ones differ, none has taken effect
\* before it is issued, and at most one is pending while the callers take turns.
ServiceInv ==
  /\ waiting \in [Callers -> BOOLEAN]
  /\ cmd \in [Callers -> 0..MaxCalls]
  /\ issued \in 0..MaxCalls
  /\ turns \in BOOLEAN
  /\ effect \in [1..MaxCalls -> {0, 1}]
  /\ \A c \in Callers : cmd[c] <= issued /\ (waiting[c] => cmd[c] > 0)
  /\ \A c, d \in Callers : waiting[c] /\ waiting[d] /\ c # d => cmd[c] # cmd[d]
  /\ \A i \in 1..MaxCalls : i > issued => effect[i] = 0
  /\ turns => \A c, d \in Callers : waiting[c] /\ waiting[d] => c = d

\* Whether the firmware carried out the command c waits for.
Done(c) == effect[cmd[c]] = 1

-----------------------------------------------------------------------------
\* A new command is numbered after all others and has not taken effect.
LEMMA CallKeeps ==
  ASSUME MaxCalls \in Nat, ServiceInv, NEW c \in Callers, Call(c)
  PROVE  /\ ServiceInv'
         /\ ~waiting[c] /\ waiting'[c]
         /\ \A d \in Callers \ {c} : waiting'[d] <=> waiting[d]
         /\ ~Done(c)'
         /\ \A d \in Callers \ {c} : Done(d)' <=> Done(d)
         /\ turns' <=> (turns /\ \A d \in Callers : ~waiting[d])
  <1>1. waiting' = [waiting EXCEPT ![c] = TRUE] /\ waiting' \in [Callers -> BOOLEAN]
    BY Zenon DEF ServiceInv, Call
  <1>2. cmd' \in [Callers -> 0..MaxCalls] /\ issued' \in 0..MaxCalls /\ effect' = effect
    BY DEF ServiceInv, Call
  <1>3. /\ issued' = issued + 1 /\ cmd'[c] = issued + 1 /\ ~waiting[c] /\ issued < MaxCalls
        /\ \A d \in Callers \ {c} : cmd'[d] = cmd[d]
    BY <1>1 DEF ServiceInv, Call
  <1>4. \A d \in Callers \ {c} : waiting'[d] <=> waiting[d]
    BY <1>1, Zenon DEF ServiceInv
  <1>7. turns' \in BOOLEAN /\ (turns' <=> (turns /\ \A d \in Callers : ~waiting[d]))
    BY Zenon DEF Call
  <1>5. ServiceInv'
    <2>1. ASSUME NEW d \in Callers
          PROVE  cmd'[d] <= issued' /\ (waiting'[d] => cmd'[d] > 0)
      BY <1>2, <1>3, <1>4 DEF ServiceInv
    <2>2. ASSUME NEW d \in Callers, NEW e \in Callers, waiting'[d], waiting'[e], d # e
          PROVE  cmd'[d] # cmd'[e]
      <3>1. CASE d = c \/ e = c
        BY <1>3, <2>2, <3>1 DEF ServiceInv
      <3>2. CASE d # c /\ e # c
        <4>1. waiting[d] /\ waiting[e]
          BY <1>4, <2>2, <3>2
        <4> QED
          BY <1>3, <2>2, <3>2, <4>1 DEF ServiceInv
      <3> QED
        BY <3>1, <3>2
    <2>3. \A i \in 1..MaxCalls : i > issued' => effect'[i] = 0
      BY <1>2, <1>3 DEF ServiceInv
    <2>4. effect' \in [1..MaxCalls -> {0, 1}]
      BY <1>2 DEF ServiceInv
    <2>5. turns' => \A d, e \in Callers : waiting'[d] /\ waiting'[e] => d = e
      BY <1>4, <1>7
    <2> QED
      BY <1>1, <1>2, <1>7, <2>1, <2>2, <2>3, <2>4, <2>5 DEF ServiceInv
  <1>6. waiting'[c]
    BY <1>1, Zenon DEF ServiceInv
  <1> QED
    BY <1>2, <1>3, <1>4, <1>5, <1>6, <1>7 DEF ServiceInv, Done

\* Carrying out one command leaves every other one as it was.
LEMMA ServeKeeps ==
  ASSUME MaxCalls \in Nat, ServiceInv, NEW c \in Callers, Serve(c)
  PROVE  /\ ServiceInv'
         /\ turns /\ turns' /\ waiting[c] /\ waiting' = waiting /\ reply' = reply
         /\ ~Done(c) /\ Done(c)'
         /\ \A d \in Callers \ {c} : waiting[d] => (Done(d)' <=> Done(d))
  <1>1. cmd[c] \in 1..MaxCalls
    BY DEF ServiceInv, Serve
  <1>2. effect' \in [1..MaxCalls -> {0, 1}] /\ effect'[cmd[c]] = 1
    BY <1>1 DEF ServiceInv, Serve
  <1>3. \A i \in 1..MaxCalls : i # cmd[c] => effect'[i] = effect[i]
    BY <1>1 DEF ServiceInv, Serve
  <1>4. turns /\ turns' = turns /\ waiting' = waiting
    BY DEF Serve
  <1>5. ServiceInv'
    BY <1>1, <1>2, <1>3, <1>4 DEF ServiceInv, Serve
  <1> QED
    BY <1>1, <1>2, <1>3, <1>4, <1>5 DEF ServiceInv, Serve, Done

\* A return changes no command; Success and Error tell what became of it, if the
\* callers take turns.
LEMMA ReplyKeeps ==
  ASSUME MaxCalls \in Nat, ServiceInv, NEW c \in Callers, NEW r, Reply(c, r)
  PROVE  /\ ServiceInv'
         /\ waiting[c] /\ ~waiting'[c]
         /\ \A d \in Callers \ {c} : waiting'[d] <=> waiting[d]
         /\ turns /\ r = "Success" => Done(c)
         /\ turns /\ r = "Error" => ~Done(c)
         /\ turns' = turns
         /\ \A d \in Callers : Done(d)' <=> Done(d)
  <1>1. waiting' = [waiting EXCEPT ![c] = FALSE] /\ waiting' \in [Callers -> BOOLEAN]
    BY Zenon DEF ServiceInv, Reply
  <1>2. waiting[c] /\ ~waiting'[c] /\ \A d \in Callers \ {c} : waiting'[d] <=> waiting[d]
    BY <1>1, Zenon DEF ServiceInv, Reply
  <1>3. ServiceInv'
    BY <1>1, <1>2 DEF ServiceInv, Reply
  <1> QED
    BY <1>2, <1>3 DEF ServiceInv, Reply, Done

-----------------------------------------------------------------------------
\* No command was issued yet.
LEMMA InitKeeps ==
  ASSUME MaxCalls \in Nat, Init
  PROVE  ServiceInv /\ turns /\ \A c \in Callers : ~waiting[c]
  <1>1. waiting \in [Callers -> BOOLEAN] /\ \A c \in Callers : ~waiting[c]
    BY Zenon DEF Init
  <1> QED
    BY <1>1 DEF Init, ServiceInv

\* Nothing happens, and nothing changes.
LEMMA StutterKeeps ==
  ASSUME UNCHANGED vars
  PROVE  (ServiceInv => ServiceInv') /\ \A c \in Callers : Done(c)' <=> Done(c)
  BY DEF vars, ServiceInv, Done

\* What the contract itself says of any number of callers: at most one command is
\* pending while they take turns, and each takes effect at most once, after it was
\* issued.  mlx5_cmd_exec keeps this contract for one caller (ImplementsService).
THEOREM CommandsStayApart ==
  ASSUME MaxCalls \in Nat
  PROVE  Spec => []ServiceInv
  <1>1. Init => ServiceInv
    BY InitKeeps
  <1>2. ServiceInv /\ [Next]_vars => ServiceInv'
    BY CallKeeps, ServeKeeps, ReplyKeeps, StutterKeeps DEF Next
  <1> QED
    BY <1>1, <1>2, PTL DEF Spec

=============================================================================
