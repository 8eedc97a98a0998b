------------------------------ MODULE CmdQueue ------------------------------
(***************************************************************************)
(* The command queue of the mlx5 driver: mlx5_cmd_exec (kext/mlx5_cmd.cpp) *)
(* run by any number of threads, against the firmware that serves the ring.*)
(*                                                                         *)
(* mlx5_cmd_exec always uses ring slot 0 and that slot's two mailboxes,    *)
(* takes no lock, and polls the owner bit of the ring entry a bounded      *)
(* number of times.  Every access to state that the firmware or another    *)
(* thread can touch is a step of its own.                                  *)
(*                                                                         *)
(* A command is named by the number of the call that issued it; 0 stands   *)
(* for the zeroes memset leaves in a mailbox.  The statistics counters are *)
(* left out (only a log line reads them).                                  *)
(***************************************************************************)
EXTENDS Naturals

CONSTANTS
  Callers,      \* threads that call mlx5_cmd_exec
  MaxCalls,     \* bound: calls explored in total
  PollBudget,   \* MLX5_CMD_TIMEOUT_MS / 10 polls of the owner bit
  TokenSpace,   \* 2^8: next_token is a uint8_t
  Punctual      \* TRUE: the firmware touches the slot only while it is polled

ASSUME ConstantsAssumption ==
  /\ MaxCalls \in Nat
  /\ PollBudget \in Nat
  /\ TokenSpace \in Nat /\ TokenSpace > 1
  /\ Punctual \in BOOLEAN

VARIABLES
  next_token,       \* ctx->next_token
  entry,            \* ring entry 0: owner bit, delivery status, token
  in_mbox,          \* the command in the input mailbox
  out_mbox,         \* the response in the output mailbox
  doorbell,         \* a write to MLX5_ISEG_CMD_DOORBELL the firmware has not seen
  pc,               \* where each caller is in mlx5_cmd_exec
  cmd,              \* the command each caller is executing, or executed last
  token,            \* local token
  polls,            \* local i of the polling loop
  delivery_status,  \* local delivery_status
  result,           \* what the last call returned
  data,             \* the command whose response was copied to out_data
  job,              \* what the firmware is working on
  issued,           \* history: number of calls made
  execs             \* history: how often the firmware carried out each command

driverVars == <<next_token, pc, cmd, token, polls, delivery_status, result, data, issued>>
vars == <<driverVars, entry, in_mbox, out_mbox, doorbell, job, execs>>

Cmds == 1..MaxCalls
NoCmd == 0
Zeroed == [of |-> NoCmd, status |-> "OK"]     \* MLX5_CMD_STAT_OK is 0x00
NoJob == [phase |-> "none", cmd |-> NoCmd, token |-> 0]

\* 0xFFFFFFFF, the token mlx5_cmd_init leaves in the entries: no uint8_t value.
InvalidToken == TokenSpace

(***************************************************************************)
(* What mlx5_cmd_init leaves behind.  Its doorbell write finds every entry *)
(* owned by software, so the firmware has nothing to fetch.                *)
(***************************************************************************)
Init ==
  /\ next_token = 0
  /\ entry = [owner |-> "SW", delivery |-> "OK", token |-> InvalidToken]
  /\ in_mbox = NoCmd
  /\ out_mbox = Zeroed
  /\ doorbell = FALSE
  /\ pc = [c \in Callers |-> "idle"]
  /\ cmd = [c \in Callers |-> NoCmd]
  /\ token = [c \in Callers |-> 0]
  /\ polls = [c \in Callers |-> 0]
  /\ delivery_status = [c \in Callers |-> "OK"]
  /\ result = [c \in Callers |-> "none"]
  /\ data = [c \in Callers |-> NoCmd]
  /\ job = NoJob
  /\ issued = 0
  /\ execs = [i \in Cmds |-> 0]

-----------------------------------------------------------------------------
(* The driver's program counter.                                           *)

Goto(c, from, to) ==
  /\ pc[c] = from
  /\ pc' = [pc EXCEPT ![c] = to]

Return(c, from, ret) ==
  /\ Goto(c, from, "idle")
  /\ result' = [result EXCEPT ![c] = ret]

(***************************************************************************)
(* Mutants: the actions below as a plausible slip would have them.  They   *)
(* are no part of Spec; each breaks one property.                          *)
(***************************************************************************)
\* Retries a command that timed out.
Enter_Retries(c) ==
  /\ issued < MaxCalls
  /\ Goto(c, "idle", "token")
  /\ issued' = issued + 1
  /\ cmd' = [cmd EXCEPT ![c] = IF result[c] = "Timeout" THEN @ ELSE issued + 1]
  /\ result' = [result EXCEPT ![c] = "none"]
  /\ UNCHANGED <<next_token, token, polls, delivery_status, data,
                 entry, in_mbox, out_mbox, doorbell, job, execs>>

\* Forgets that next_token is a uint8_t.
StoreToken_NoWrap(c) ==
  /\ Goto(c, "bump", "clear")
  /\ next_token' = token[c] + 1
  /\ token' = [token EXCEPT ![c] = @ + 1]
  /\ UNCHANGED <<cmd, polls, delivery_status, result, data, issued,
                 entry, in_mbox, out_mbox, doorbell, job, execs>>

\* Does not skip 0.
StoreToken_KeepsZero(c) ==
  LET t == (token[c] + 1) % TokenSpace IN
  /\ Goto(c, "bump", "clear")
  /\ next_token' = t
  /\ token' = [token EXCEPT ![c] = t]
  /\ UNCHANGED <<cmd, polls, delivery_status, result, data, issued,
                 entry, in_mbox, out_mbox, doorbell, job, execs>>

\* Polls without counting.
PollAgain_Uncounted(c) ==
  /\ pc[c] = "poll" /\ polls[c] < PollBudget
  /\ entry.owner = "HW"
  /\ UNCHANGED vars

\* Drops the delivery status.
ReadDelivery_Ignored(c) ==
  /\ Goto(c, "delivery", "check")
  /\ UNCHANGED <<next_token, cmd, token, polls, delivery_status, result, data, issued,
                 entry, in_mbox, out_mbox, doorbell, job, execs>>

\* Does not read the owner bit again after the loop.
CheckEntry_NoTimeout(c) ==
  /\ \/ /\ delivery_status[c] # "OK"
        /\ Return(c, "check", "Error")
     \/ /\ delivery_status[c] = "OK"
        /\ Goto(c, "check", "status")
        /\ UNCHANGED result
  /\ UNCHANGED <<next_token, cmd, token, polls, delivery_status, data, issued,
                 entry, in_mbox, out_mbox, doorbell, job, execs>>

\* Reports a timeout as a plain error.
CheckEntry_TimeoutIsError(c) ==
  /\ \/ /\ entry.owner # "SW" \/ delivery_status[c] # "OK"
        /\ Return(c, "check", "Error")
     \/ /\ entry.owner = "SW" /\ delivery_status[c] = "OK"
        /\ Goto(c, "check", "status")
        /\ UNCHANGED result
  /\ UNCHANGED <<next_token, cmd, token, polls, delivery_status, data, issued,
                 entry, in_mbox, out_mbox, doorbell, job, execs>>

\* Takes any answer for success.
ReadStatus_Ignored(c) ==
  /\ Goto(c, "status", "copy")
  /\ UNCHANGED <<next_token, cmd, token, polls, delivery_status, result, data, issued,
                 entry, in_mbox, out_mbox, doorbell, job, execs>>

-----------------------------------------------------------------------------
(* mlx5_cmd_exec, in the order of its statements.                          *)

\* The call; *out_status becomes 0xFF.
Enter(c) ==
  /\ issued < MaxCalls
  /\ Goto(c, "idle", "token")
  /\ issued' = issued + 1
  /\ cmd' = [cmd EXCEPT ![c] = issued + 1]
  /\ result' = [result EXCEPT ![c] = "none"]
  /\ UNCHANGED <<next_token, token, polls, delivery_status, data,
                 entry, in_mbox, out_mbox, doorbell, job, execs>>

\* ++ctx->next_token is a load and a store; no lock makes them one step.
LoadToken(c) ==
  /\ Goto(c, "token", "bump") \/ Goto(c, "retoken", "rebump")
  /\ token' = [token EXCEPT ![c] = next_token]
  /\ UNCHANGED <<next_token, cmd, polls, delivery_status, result, data, issued,
                 entry, in_mbox, out_mbox, doorbell, job, execs>>

\* The store.  A token that wrapped to 0 is incremented a second time, once.
StoreToken(c) ==
  LET t == (token[c] + 1) % TokenSpace IN
  /\ \/ Goto(c, "bump", IF t = 0 THEN "retoken" ELSE "clear")
     \/ Goto(c, "rebump", "clear")
  /\ next_token' = t
  /\ token' = [token EXCEPT ![c] = t]
  /\ UNCHANGED <<cmd, polls, delivery_status, result, data, issued,
                 entry, in_mbox, out_mbox, doorbell, job, execs>>

ClearMailboxes(c) ==
  /\ Goto(c, "clear", "fill")
  /\ in_mbox' = NoCmd
  /\ out_mbox' = Zeroed
  /\ UNCHANGED <<next_token, cmd, token, polls, delivery_status, result, data, issued,
                 entry, doorbell, job, execs>>

FillMailbox(c) ==
  /\ Goto(c, "fill", "entry")
  /\ in_mbox' = cmd[c]
  /\ UNCHANGED <<next_token, cmd, token, polls, delivery_status, result, data, issued,
                 entry, out_mbox, doorbell, job, execs>>

\* The mailbox addresses written with the token are always those of slot 0.
FillEntry(c) ==
  /\ Goto(c, "entry", "handover")
  /\ entry' = [entry EXCEPT !.token = token[c]]
  /\ UNCHANGED <<next_token, cmd, token, polls, delivery_status, result, data, issued,
                 in_mbox, out_mbox, doorbell, job, execs>>

\* entry->status = MLX5_CMD_OWNER_HW also zeroes the delivery bits.
HandOver(c) ==
  /\ Goto(c, "handover", "doorbell")
  /\ entry' = [entry EXCEPT !.owner = "HW", !.delivery = "OK"]
  /\ UNCHANGED <<next_token, cmd, token, polls, delivery_status, result, data, issued,
                 in_mbox, out_mbox, doorbell, job, execs>>

\* The doorbell write, and the locals of the loop that follows it.
RingDoorbell(c) ==
  /\ Goto(c, "doorbell", "poll")
  /\ doorbell' = TRUE
  /\ polls' = [polls EXCEPT ![c] = 0]
  /\ delivery_status' = [delivery_status EXCEPT ![c] = "OK"]
  /\ UNCHANGED <<next_token, cmd, token, result, data, issued,
                 entry, in_mbox, out_mbox, job, execs>>

\* A poll that finds the entry still with the hardware sleeps and goes round.
PollAgain(c) ==
  /\ pc[c] = "poll" /\ polls[c] < PollBudget
  /\ entry.owner = "HW"
  /\ polls' = [polls EXCEPT ![c] = @ + 1]
  /\ UNCHANGED <<next_token, pc, cmd, token, delivery_status, result, data, issued,
                 entry, in_mbox, out_mbox, doorbell, job, execs>>

PollDone(c) ==
  /\ polls[c] < PollBudget
  /\ entry.owner = "SW"
  /\ Goto(c, "poll", "delivery")
  /\ UNCHANGED <<next_token, cmd, token, polls, delivery_status, result, data, issued,
                 entry, in_mbox, out_mbox, doorbell, job, execs>>

PollExpired(c) ==
  /\ polls[c] = PollBudget
  /\ Goto(c, "poll", "check")
  /\ UNCHANGED <<next_token, cmd, token, polls, delivery_status, result, data, issued,
                 entry, in_mbox, out_mbox, doorbell, job, execs>>

\* The delivery bits come from a second read of entry->status.
ReadDelivery(c) ==
  /\ Goto(c, "delivery", "check")
  /\ delivery_status' = [delivery_status EXCEPT ![c] = entry.delivery]
  /\ UNCHANGED <<next_token, cmd, token, polls, result, data, issued,
                 entry, in_mbox, out_mbox, doorbell, job, execs>>

\* "Check if we timed out" reads the owner bit once more, then the local
\* delivery_status decides; it is still 0 if the loop never saw the entry back.
CheckEntry(c) ==
  /\ \/ /\ entry.owner # "SW"
        /\ Return(c, "check", "Timeout")
     \/ /\ entry.owner = "SW" /\ delivery_status[c] # "OK"
        /\ Return(c, "check", "Error")
     \/ /\ entry.owner = "SW" /\ delivery_status[c] = "OK"
        /\ Goto(c, "check", "status")
        /\ UNCHANGED result
  /\ UNCHANGED <<next_token, cmd, token, polls, delivery_status, data, issued,
                 entry, in_mbox, out_mbox, doorbell, job, execs>>

ReadStatus(c) ==
  /\ \/ /\ out_mbox.status # "OK"
        /\ Return(c, "status", "Error")
     \/ /\ out_mbox.status = "OK"
        /\ Goto(c, "status", "copy")
        /\ UNCHANGED result
  /\ UNCHANGED <<next_token, cmd, token, polls, delivery_status, data, issued,
                 entry, in_mbox, out_mbox, doorbell, job, execs>>

CopyResponse(c) ==
  /\ Return(c, "copy", "Success")
  /\ data' = [data EXCEPT ![c] = out_mbox.of]
  /\ UNCHANGED <<next_token, cmd, token, polls, delivery_status, issued,
                 entry, in_mbox, out_mbox, doorbell, job, execs>>

\* One step of a call in progress.
Continue(c) ==
  \/ LoadToken(c) \/ StoreToken(c)
  \/ ClearMailboxes(c) \/ FillMailbox(c) \/ FillEntry(c)
  \/ HandOver(c) \/ RingDoorbell(c)
  \/ PollAgain(c) \/ PollDone(c) \/ PollExpired(c)
  \/ ReadDelivery(c) \/ CheckEntry(c) \/ ReadStatus(c) \/ CopyResponse(c)

mlx5_cmd_exec(c) == Enter(c) \/ Continue(c)

-----------------------------------------------------------------------------
(***************************************************************************)
(* The firmware, as mlx5_cmd_exec relies on it: a doorbell makes it look   *)
(* at the entry; it reads the command from the input mailbox, carries it   *)
(* out or refuses it, writes the output mailbox and hands the entry back.  *)
(* It may report a failed delivery instead, and it may go silent for good. *)
(*                                                                         *)
(* A punctual firmware moves only while the driver has a poll left for the *)
(* command it works on.  Nothing in the driver enforces that.              *)
(***************************************************************************)
Window ==
  Punctual => \E c \in Callers : /\ pc[c] = "poll" /\ polls[c] < PollBudget
                                 /\ job.phase = "none" \/ job.cmd = cmd[c]

FwFetch ==
  /\ Window /\ doorbell /\ job.phase = "none" /\ entry.owner = "HW"
  /\ job' = [phase |-> "fetched", cmd |-> in_mbox, token |-> entry.token]
  /\ doorbell' = FALSE
  /\ UNCHANGED <<driverVars, entry, in_mbox, out_mbox, execs>>

\* The doorbell of an entry that software owns means nothing.
FwIgnore ==
  /\ Window /\ doorbell /\ job.phase = "none" /\ entry.owner = "SW"
  /\ doorbell' = FALSE
  /\ UNCHANGED <<driverVars, entry, in_mbox, out_mbox, job, execs>>

\* An empty mailbox is no command and is refused.
FwExecute(status) ==
  /\ Window /\ job.phase = "fetched"
  /\ status = "OK" => job.cmd # NoCmd
  /\ out_mbox' = [of |-> job.cmd, status |-> status]
  /\ execs' = IF status = "OK" THEN [execs EXCEPT ![job.cmd] = @ + 1] ELSE execs
  /\ job' = [job EXCEPT !.phase = "answered"]
  /\ UNCHANGED <<driverVars, entry, in_mbox, doorbell>>

FwRelease ==
  /\ Window /\ job.phase = "answered"
  /\ entry' = [entry EXCEPT !.owner = "SW", !.delivery = "OK"]
  /\ job' = NoJob
  /\ UNCHANGED <<driverVars, in_mbox, out_mbox, doorbell, execs>>

FwUndelivered ==
  /\ Window /\ job.phase = "fetched"
  /\ entry' = [entry EXCEPT !.owner = "SW", !.delivery = "FW_ERR"]
  /\ job' = NoJob
  /\ UNCHANGED <<driverVars, in_mbox, out_mbox, doorbell, execs>>

FwDrop ==
  /\ job.phase # "none"
  /\ job' = NoJob
  /\ UNCHANGED <<driverVars, entry, in_mbox, out_mbox, doorbell, execs>>

Firmware ==
  \/ FwFetch \/ FwIgnore
  \/ \E status \in {"OK", "ERR"} : FwExecute(status)
  \/ FwRelease \/ FwUndelivered \/ FwDrop

-----------------------------------------------------------------------------
Next == Firmware \/ \E c \in Callers : mlx5_cmd_exec(c)

Spec == Init /\ [][Next]_vars

\* A thread inside the call keeps running: it holds no lock, and IOSleep(10)
\* always wakes.  Nothing is assumed of the firmware or of new calls.
FairSpec == Spec /\ \A c \in Callers : WF_vars(Continue(c))

-----------------------------------------------------------------------------
Statuses == {"OK", "ERR"}
Results == {"none", "Success", "Error", "Timeout"}
Places == {"idle", "token", "bump", "retoken", "rebump", "clear", "fill", "entry",
           "handover", "doorbell", "poll", "delivery", "check", "status", "copy"}

\* Every variable holds a value of its C type: tokens fit a uint8_t, except for
\* the one mlx5_cmd_init writes, and the loop counter never passes its bound.
TypeOK ==
  /\ next_token \in 0..TokenSpace - 1
  /\ entry \in [owner : {"SW", "HW"}, delivery : {"OK", "FW_ERR"}, token : 0..TokenSpace]
  /\ in_mbox \in 0..MaxCalls
  /\ out_mbox \in [of : 0..MaxCalls, status : Statuses]
  /\ doorbell \in BOOLEAN
  /\ pc \in [Callers -> Places]
  /\ cmd \in [Callers -> 0..MaxCalls]
  /\ token \in [Callers -> 0..TokenSpace - 1]
  /\ polls \in [Callers -> 0..PollBudget]
  /\ delivery_status \in [Callers -> {"OK", "FW_ERR"}]
  /\ result \in [Callers -> Results]
  /\ data \in [Callers -> 0..MaxCalls]
  /\ job \in [phase : {"none", "fetched", "answered"}, cmd : 0..MaxCalls, token : 0..TokenSpace]
  /\ issued \in 0..MaxCalls
  /\ execs \in [Cmds -> Nat]

\* kIOReturnSuccess: out_data holds the firmware's answer to this very command.
SuccessIsOwn ==
  \A c \in Callers : result[c] = "Success" => data[c] = cmd[c]

\* kIOReturnSuccess: the firmware carried this command out, exactly once.
SuccessMeansExecuted ==
  \A c \in Callers : result[c] = "Success" => execs[cmd[c]] = 1

\* kIOReturnError: the command had no effect, so a caller may free what it named.
\* (kIOReturnTimeout promises nothing of the kind.)
ErrorMeansNotExecuted ==
  \A c \in Callers : result[c] = "Error" => execs[cmd[c]] = 0

\* No command is carried out twice, whatever was left in the slot before it.
AtMostOnce == \A i \in Cmds : execs[i] <= 1

\* The token wraps and skips 0, and still two commands in a row, which share the
\* ring entry, never carry the same token: an answer could be told from a stale one.
TokenChanges ==
  [][\A c \in Callers : FillEntry(c) => entry'.token # entry.token /\ entry'.token # 0]_vars

\* A caller never gets the answer to some other call's command.  Weaker than
\* SuccessIsOwn: out_data may also be the zeroes of an unanswered mailbox.
NoForeignResponse ==
  \A c \in Callers : result[c] = "Success" => data[c] \in {NoCmd, cmd[c]}

\* Every call of mlx5_cmd_exec returns, whatever the firmware and the other
\* callers do: the polling loop is bounded and nothing else waits.
EveryCallReturns == \A c \in Callers : pc[c] # "idle" ~> pc[c] = "idle"

-----------------------------------------------------------------------------
\* mlx5_cmd_exec implements the blocking command service its callers count on, as
\* long as its callers take turns.
Service == INSTANCE CmdService WITH
  waiting <- [c \in Callers |-> pc[c] # "idle"],
  reply <- result,
  effect <- execs,
  turns <- TRUE

ServiceSpec == Service!Spec

=============================================================================
