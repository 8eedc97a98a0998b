----------------------------- MODULE CmdService -----------------------------
(***************************************************************************)
(* What the callers of mlx5_cmd_exec (sendEnableHCA, create_qp, ...) count *)
(* on: a blocking call that tells whether the firmware carried the command *)
(* out.  A command takes effect at most once, and only during its call.    *)
(*                                                                         *)
(* All of this is promised to callers who take turns.  mlx5_cmd_exec uses  *)
(* slot 0 and its mailboxes with no lock: once two calls have overlapped,  *)
(* an answer may belong to either, and a reply tells nothing any more.     *)
(***************************************************************************)
EXTENDS Naturals

CONSTANTS Callers, MaxCalls

VARIABLES
  waiting,  \* whether each caller is inside a call
  cmd,      \* the command of each caller's present or last call
  reply,    \* what that call returned
  effect,   \* how often each command took effect
  issued,   \* number of calls made
  turns     \* history: no two calls have overlapped so far

vars == <<waiting, cmd, reply, effect, issued, turns>>

Init ==
  /\ waiting = [c \in Callers |-> FALSE]
  /\ cmd = [c \in Callers |-> 0]
  /\ reply = [c \in Callers |-> "none"]
  /\ effect = [i \in 1..MaxCalls |-> 0]
  /\ issued = 0
  /\ turns = TRUE

Call(c) ==
  /\ ~waiting[c] /\ issued < MaxCalls
  /\ waiting' = [waiting EXCEPT ![c] = TRUE]
  /\ issued' = issued + 1
  /\ cmd' = [cmd EXCEPT ![c] = issued + 1]
  /\ reply' = [reply EXCEPT ![c] = "none"]
  /\ turns' = (turns /\ \A d \in Callers : ~waiting[d])
  /\ UNCHANGED effect

\* What the firmware makes of overlapping commands is not followed.
Serve(c) ==
  /\ turns /\ waiting[c] /\ effect[cmd[c]] = 0
  /\ effect' = [effect EXCEPT ![cmd[c]] = 1]
  /\ UNCHANGED <<waiting, cmd, reply, issued, turns>>

\* Of callers who take turns, Success and Error tell whether the command took effect;
\* Timeout does not.
Reply(c, r) ==
  /\ waiting[c]
  /\ turns /\ r = "Success" => effect[cmd[c]] = 1
  /\ turns /\ r = "Error" => effect[cmd[c]] = 0
  /\ waiting' = [waiting EXCEPT ![c] = FALSE]
  /\ reply' = [reply EXCEPT ![c] = r]
  /\ UNCHANGED <<cmd, effect, issued, turns>>

Next ==
  \E c \in Callers :
    Call(c) \/ Serve(c) \/ \E r \in {"Success", "Error", "Timeout"} : Reply(c, r)

Spec == Init /\ [][Next]_vars

=============================================================================
