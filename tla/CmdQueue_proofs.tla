--------------------------- MODULE CmdQueue_proofs ---------------------------
(***************************************************************************)
(* Proofs about CmdQueue, for every value of its constants.                *)
(*                                                                         *)
(* TypeOK holds whatever the callers and the firmware do.  What the return *)
(* value of mlx5_cmd_exec tells is proved for Sequential use: one caller,  *)
(* and a firmware that answers while it is polled.                         *)
(***************************************************************************)
EXTENDS CmdQueue, TLAPS

\* One call at a time; with a firmware that is done with it in time, sequential use.
OneCaller == \A c, d \in Callers : c = d
Sequential == Punctual /\ OneCaller

\* Places before the doorbell of a call is rung.
Submitting == {"token", "bump", "retoken", "rebump", "clear", "fill", "entry", "handover", "doorbell"}

OwnJob(c, phase) == job.phase = phase /\ job.cmd = cmd[c]

\* The output mailbox tells what became of c's command.
Answered(c) ==
  /\ out_mbox.of = cmd[c]
  /\ out_mbox.status = "OK" => execs[cmd[c]] = 1
  /\ out_mbox.status = "ERR" => execs[cmd[c]] = 0

Verdict(c, delivery) ==
  /\ delivery = "OK" => Answered(c)
  /\ delivery = "FW_ERR" => execs[cmd[c]] = 0

-----------------------------------------------------------------------------
(* The inductive invariant of sequential use, part by part.                *)

\* Commands are numbered in order, and none is carried out before it is issued.
Numbered ==
  /\ job.cmd <= issued
  /\ \A c \in Callers : cmd[c] = issued /\ (pc[c] # "idle" => issued > 0)
  /\ \A i \in Cmds : execs[i] <= 1 /\ (i > issued => execs[i] = 0)

\* Until its doorbell, a command is unknown to the firmware; a job left over
\* from a call that timed out is another command's.
Unseen ==
  \A c \in Callers : pc[c] \in Submitting =>
    /\ execs[cmd[c]] = 0
    /\ job.phase # "none" => job.cmd # cmd[c]

Submitted ==
  \A c \in Callers :
    /\ pc[c] \in {"entry", "handover", "doorbell", "poll"} => in_mbox = cmd[c]
    /\ pc[c] = "doorbell" => entry.owner = "HW"

\* Where the firmware is with the command that is being polled.
Polled ==
  \A c \in Callers : pc[c] = "poll" =>
    /\ doorbell => /\ execs[cmd[c]] = 0
                   /\ ~OwnJob(c, "fetched") /\ ~OwnJob(c, "answered")
    /\ OwnJob(c, "fetched") => execs[cmd[c]] = 0
    /\ OwnJob(c, "answered") => Answered(c)
    /\ entry.owner = "SW" =>
         /\ ~doorbell /\ ~OwnJob(c, "fetched") /\ ~OwnJob(c, "answered")
         /\ Verdict(c, entry.delivery)
    /\ polls[c] = PollBudget => entry.owner = "HW"

\* What the rest of the call may rely on.
Judged ==
  \A c \in Callers :
    /\ pc[c] = "delivery" => entry.owner = "SW" /\ Verdict(c, entry.delivery)
    /\ pc[c] = "check" => (entry.owner = "SW" => Verdict(c, delivery_status[c]))
    /\ pc[c] = "status" => Answered(c)
    /\ pc[c] = "copy" => Answered(c) /\ out_mbox.status = "OK"

\* What it returns.
Returned ==
  \A c \in Callers :
    /\ pc[c] # "idle" => result[c] = "none"
    /\ result[c] = "Success" => data[c] = cmd[c] /\ execs[cmd[c]] = 1
    /\ result[c] = "Error" => execs[cmd[c]] = 0

SeqInv == Numbered /\ Unseen /\ Submitted /\ Polled /\ Judged /\ Returned
IInv == TypeOK /\ SeqInv

\* The token of the entry is the last one handed out, and a call gets another.
Tokens ==
  /\ entry.token \in {next_token, InvalidToken} \/ \E c \in Callers : pc[c] \in {"retoken", "rebump", "clear", "fill", "entry"}
  /\ \A c \in Callers :
       /\ pc[c] \in {"idle", "token"} => next_token # 0 \/ entry.token = InvalidToken
       /\ pc[c] = "bump" => token[c] = next_token /\ (next_token # 0 \/ entry.token = InvalidToken)
       /\ pc[c] \in {"retoken", "rebump"} => next_token = 0 /\ entry.token \in {TokenSpace - 1, InvalidToken}
       /\ pc[c] = "rebump" => token[c] = 0
       /\ pc[c] \in {"clear", "fill", "entry"} => token[c] = next_token /\ token[c] \notin {0, entry.token}
       /\ pc[c] \in {"handover", "doorbell", "poll", "delivery", "check", "status", "copy"} => next_token # 0

-----------------------------------------------------------------------------
\* next_token stays a uint8_t: the incremented value wraps.
LEMMA TokenWraps ==
  ASSUME NEW t \in 0..TokenSpace - 1
  PROVE  (t + 1) % TokenSpace = IF t + 1 = TokenSpace THEN 0 ELSE t + 1
  BY ConstantsAssumption DEF ConstantsAssumption

\* The idle firmware's job is a job.
LEMMA NoJobType ==
  NoJob \in [phase : {"none", "fetched", "answered"}, cmd : 0..MaxCalls, token : 0..TokenSpace]
  BY ConstantsAssumption DEF ConstantsAssumption, NoJob, NoCmd

\* A step of mlx5_cmd_exec or of the firmware keeps every variable in its type.
LEMMA TypeStep == TypeOK /\ [Next]_vars => TypeOK'
<1> SUFFICES ASSUME TypeOK, [Next]_vars
             PROVE  TypeOK'
  OBVIOUS
<1> USE ConstantsAssumption DEF ConstantsAssumption, TypeOK, Cmds, NoCmd, Statuses, Results, driverVars
<1>1. ASSUME NEW c \in Callers, Enter(c) PROVE TypeOK'
  <2>1. issued + 1 \in 0..MaxCalls /\ "token" \in Places /\ "none" \in Results
    BY <1>1 DEF Enter, Places
  <2> QED
    BY <1>1, <2>1 DEF Enter, Goto
<1>2. ASSUME NEW c \in Callers, LoadToken(c) PROVE TypeOK'
  BY <1>2 DEF LoadToken, Goto, Places
<1>3. ASSUME NEW c \in Callers, StoreToken(c) PROVE TypeOK'
  <2> DEFINE t == (token[c] + 1) % TokenSpace
  <2>1. t \in 0..TokenSpace - 1
    BY <1>3, TokenWraps
  <2>2. pc' \in [Callers -> Places]
    BY <1>3 DEF StoreToken, Goto, Places
  <2> HIDE DEF t
  <2>3. next_token' = t /\ token' = [token EXCEPT ![c] = t]
    BY <1>3 DEF StoreToken, t
  <2>4. next_token' \in 0..TokenSpace - 1 /\ token' \in [Callers -> 0..TokenSpace - 1]
    BY <2>1, <2>3
  <2>5. UNCHANGED <<cmd, polls, delivery_status, result, data, issued,
                    entry, in_mbox, out_mbox, doorbell, job, execs>>
    BY <1>3 DEF StoreToken
  <2> QED
    BY <2>2, <2>4, <2>5
<1>4. ASSUME NEW c \in Callers, ClearMailboxes(c) PROVE TypeOK'
  BY <1>4 DEF ClearMailboxes, Goto, Places, Zeroed
<1>5. ASSUME NEW c \in Callers, FillMailbox(c) PROVE TypeOK'
  BY <1>5 DEF FillMailbox, Goto, Places
<1>6. ASSUME NEW c \in Callers, FillEntry(c) PROVE TypeOK'
  <2>1. token[c] \in 0..TokenSpace /\ "handover" \in Places
    BY <1>6 DEF Places
  <2> QED
    BY <1>6, <2>1 DEF FillEntry, Goto
<1>7. ASSUME NEW c \in Callers, HandOver(c) PROVE TypeOK'
  BY <1>7 DEF HandOver, Goto, Places
<1>8. ASSUME NEW c \in Callers, RingDoorbell(c) PROVE TypeOK'
  BY <1>8 DEF RingDoorbell, Goto, Places
<1>9. ASSUME NEW c \in Callers, PollAgain(c) PROVE TypeOK'
  <2>1. polls' \in [Callers -> 0..PollBudget]
    BY <1>9 DEF PollAgain
  <2> QED
    BY <1>9, <2>1 DEF PollAgain
<1>10. ASSUME NEW c \in Callers, PollDone(c) PROVE TypeOK'
  BY <1>10 DEF PollDone, Goto, Places
<1>11. ASSUME NEW c \in Callers, PollExpired(c) PROVE TypeOK'
  BY <1>11 DEF PollExpired, Goto, Places
<1>12. ASSUME NEW c \in Callers, ReadDelivery(c) PROVE TypeOK'
  BY <1>12 DEF ReadDelivery, Goto, Places
<1>13. ASSUME NEW c \in Callers, CheckEntry(c) PROVE TypeOK'
  <2>0. \E to \in {"idle", "status"} : pc' = [pc EXCEPT ![c] = to]
    BY <1>13, Zenon DEF CheckEntry, Goto, Return
  <2>1. pc' \in [Callers -> Places]
    BY <2>0 DEF Places
  <2>2. result' \in [Callers -> Results]
    BY <1>13 DEF CheckEntry, Return
  <2> QED
    BY <1>13, <2>1, <2>2 DEF CheckEntry
<1>14. ASSUME NEW c \in Callers, ReadStatus(c) PROVE TypeOK'
  BY <1>14 DEF ReadStatus, Goto, Places, Return
<1>15. ASSUME NEW c \in Callers, CopyResponse(c) PROVE TypeOK'
  BY <1>15 DEF CopyResponse, Goto, Places, Return
<1>16. CASE FwFetch
  BY <1>16 DEF FwFetch
<1>17. CASE FwIgnore
  BY <1>17 DEF FwIgnore
<1>18. ASSUME NEW status \in Statuses, FwExecute(status) PROVE TypeOK'
  <2>1. job.cmd \in 0..MaxCalls /\ job.phase = "fetched"
    BY <1>18 DEF FwExecute
  <2>2. execs' \in [Cmds -> Nat]
    BY <1>18 DEF FwExecute
  <2>3. out_mbox' \in [of : 0..MaxCalls, status : Statuses]
    BY <1>18, <2>1 DEF FwExecute
  <2>4. job' \in [phase : {"none", "fetched", "answered"}, cmd : 0..MaxCalls, token : 0..TokenSpace]
    BY <1>18, <2>1 DEF FwExecute
  <2> QED
    BY <1>18, <2>2, <2>3, <2>4 DEF FwExecute
<1>19. CASE FwRelease
  BY <1>19, NoJobType DEF FwRelease
<1>20. CASE FwUndelivered
  BY <1>20, NoJobType DEF FwUndelivered
<1>21. CASE FwDrop
  BY <1>21, NoJobType DEF FwDrop
<1>22. CASE UNCHANGED vars
  BY <1>22 DEF vars
<1> QED
  BY <1>1, <1>2, <1>3, <1>4, <1>5, <1>6, <1>7, <1>8, <1>9, <1>10, <1>11, <1>12, <1>13, <1>14, <1>15, <1>16, <1>17, <1>18, <1>19, <1>20, <1>21, <1>22
     DEF Next, Firmware, mlx5_cmd_exec, Continue

\* The initial values have their types.
LEMMA TypeInit == Init => TypeOK
<1> USE ConstantsAssumption DEF ConstantsAssumption, NoCmd
<1>1. 0 \in 0..MaxCalls /\ 0 \in 0..TokenSpace - 1 /\ TokenSpace \in 0..TokenSpace /\ 0 \in 0..PollBudget
  OBVIOUS
<1>2. "idle" \in Places /\ "none" \in Results /\ Zeroed \in [of : 0..MaxCalls, status : Statuses]
  BY <1>1 DEF Places, Results, Zeroed, Statuses
<1>3. ASSUME Init
      PROVE  /\ entry \in [owner : {"SW", "HW"}, delivery : {"OK", "FW_ERR"}, token : 0..TokenSpace]
             /\ execs \in [Cmds -> Nat]
  BY <1>1, <1>3 DEF Init, InvalidToken
<1>4. ASSUME Init
      PROVE  /\ pc \in [Callers -> Places] /\ cmd \in [Callers -> 0..MaxCalls]
             /\ token \in [Callers -> 0..TokenSpace - 1] /\ polls \in [Callers -> 0..PollBudget]
             /\ delivery_status \in [Callers -> {"OK", "FW_ERR"}]
             /\ result \in [Callers -> Results] /\ data \in [Callers -> 0..MaxCalls]
  BY <1>1, <1>2, <1>4 DEF Init
<1>5. ASSUME Init
      PROVE  /\ next_token \in 0..TokenSpace - 1 /\ in_mbox \in 0..MaxCalls
             /\ doorbell \in BOOLEAN /\ issued \in 0..MaxCalls
  BY <1>1, <1>5 DEF Init
<1> QED
  BY <1>2, <1>3, <1>4, <1>5, NoJobType DEF Init, TypeOK

\* Whatever the callers and the firmware do, every variable keeps its type: the
\* token never leaves its byte and the polling loop never passes its bound.
THEOREM TypeCorrect == Spec => []TypeOK
  BY TypeInit, TypeStep, PTL DEF Spec

-----------------------------------------------------------------------------
\* With one caller and a punctual firmware, every step keeps the invariant.
LEMMA SequentialStep == ASSUME Sequential, IInv, [Next]_vars PROVE SeqInv'
<1> USE ConstantsAssumption
    DEF ConstantsAssumption, OneCaller, Sequential, IInv, TypeOK, Cmds, NoCmd, Statuses, Results, Submitting,
        driverVars, SeqInv, Numbered, Unseen, Submitted, Polled, Judged, Returned, Verdict, Answered, OwnJob
<1>1. ASSUME NEW c \in Callers, Enter(c) PROVE SeqInv'
  <2>1. Numbered'
    BY <1>1 DEF Enter, Goto
  <2>2. Unseen'
    BY <1>1 DEF Enter, Goto
  <2>3. Submitted'
    BY <1>1 DEF Enter, Goto
  <2>4. Polled'
    BY <1>1 DEF Enter, Goto
  <2>5. Judged'
    BY <1>1 DEF Enter, Goto
  <2>6. Returned'
    BY <1>1 DEF Enter, Goto
  <2> QED
    BY <2>1, <2>2, <2>3, <2>4, <2>5, <2>6
<1>2. ASSUME NEW c \in Callers, LoadToken(c) PROVE SeqInv'
  <2>1. Numbered'
    BY <1>2 DEF LoadToken, Goto
  <2>2. Unseen'
    BY <1>2 DEF LoadToken, Goto
  <2>3. Submitted'
    BY <1>2 DEF LoadToken, Goto
  <2>4. Polled'
    BY <1>2 DEF LoadToken, Goto
  <2>5. Judged'
    BY <1>2 DEF LoadToken, Goto
  <2>6. Returned'
    BY <1>2 DEF LoadToken, Goto
  <2> QED
    BY <2>1, <2>2, <2>3, <2>4, <2>5, <2>6
<1>3. ASSUME NEW c \in Callers, StoreToken(c) PROVE SeqInv'
  <2>7. UNCHANGED <<cmd, delivery_status, result, data, issued, entry, in_mbox, out_mbox,
                    doorbell, job, execs>>
    BY <1>3 DEF StoreToken
  <2>8. \E to \in {"retoken", "clear"} :
          pc[c] \in {"bump", "rebump"} /\ pc' = [pc EXCEPT ![c] = to]
    BY <1>3, Zenon DEF StoreToken, Goto
  <2>0. /\ pc[c] \in {"bump", "rebump"} /\ pc'[c] \in {"retoken", "clear"}
        /\ \A d \in Callers \ {c} : pc'[d] = pc[d]
        /\ UNCHANGED <<cmd, delivery_status, result, data, issued, entry, in_mbox, out_mbox,
                       doorbell, job, execs>>
    BY <2>7, <2>8
  <2>1. Numbered'
    BY <2>0
  <2>2. Unseen'
    BY <2>0
  <2>3. Submitted'
    BY <2>0
  <2>4. Polled'
    BY <2>0
  <2>5. Judged'
    BY <2>0
  <2>6. Returned'
    BY <2>0
  <2> QED
    BY <2>1, <2>2, <2>3, <2>4, <2>5, <2>6
<1>4. ASSUME NEW c \in Callers, ClearMailboxes(c) PROVE SeqInv'
  <2>1. Numbered'
    BY <1>4 DEF ClearMailboxes, Goto, Zeroed
  <2>2. Unseen'
    BY <1>4 DEF ClearMailboxes, Goto, Zeroed
  <2>3. Submitted'
    BY <1>4 DEF ClearMailboxes, Goto, Zeroed
  <2>4. Polled'
    BY <1>4 DEF ClearMailboxes, Goto, Zeroed
  <2>5. Judged'
    BY <1>4 DEF ClearMailboxes, Goto, Zeroed
  <2>6. Returned'
    BY <1>4 DEF ClearMailboxes, Goto, Zeroed
  <2> QED
    BY <2>1, <2>2, <2>3, <2>4, <2>5, <2>6
<1>5. ASSUME NEW c \in Callers, FillMailbox(c) PROVE SeqInv'
  <2>1. Numbered'
    BY <1>5 DEF FillMailbox, Goto
  <2>2. Unseen'
    BY <1>5 DEF FillMailbox, Goto
  <2>3. Submitted'
    BY <1>5 DEF FillMailbox, Goto
  <2>4. Polled'
    BY <1>5 DEF FillMailbox, Goto
  <2>5. Judged'
    BY <1>5 DEF FillMailbox, Goto
  <2>6. Returned'
    BY <1>5 DEF FillMailbox, Goto
  <2> QED
    BY <2>1, <2>2, <2>3, <2>4, <2>5, <2>6
<1>6. ASSUME NEW c \in Callers, FillEntry(c) PROVE SeqInv'
  <2>1. Numbered'
    BY <1>6 DEF FillEntry, Goto
  <2>2. Unseen'
    BY <1>6 DEF FillEntry, Goto
  <2>3. Submitted'
    BY <1>6 DEF FillEntry, Goto
  <2>4. Polled'
    BY <1>6 DEF FillEntry, Goto
  <2>5. Judged'
    BY <1>6 DEF FillEntry, Goto
  <2>6. Returned'
    BY <1>6 DEF FillEntry, Goto
  <2> QED
    BY <2>1, <2>2, <2>3, <2>4, <2>5, <2>6
<1>7. ASSUME NEW c \in Callers, HandOver(c) PROVE SeqInv'
  <2>1. Numbered'
    BY <1>7 DEF HandOver, Goto
  <2>2. Unseen'
    BY <1>7 DEF HandOver, Goto
  <2>3. Submitted'
    BY <1>7 DEF HandOver, Goto
  <2>4. Polled'
    BY <1>7 DEF HandOver, Goto
  <2>5. Judged'
    BY <1>7 DEF HandOver, Goto
  <2>6. Returned'
    BY <1>7 DEF HandOver, Goto
  <2> QED
    BY <2>1, <2>2, <2>3, <2>4, <2>5, <2>6
<1>8. ASSUME NEW c \in Callers, RingDoorbell(c) PROVE SeqInv'
  <2>1. Numbered'
    BY <1>8 DEF RingDoorbell, Goto
  <2>2. Unseen'
    BY <1>8 DEF RingDoorbell, Goto
  <2>3. Submitted'
    BY <1>8 DEF RingDoorbell, Goto
  <2>4. Polled'
    BY <1>8 DEF RingDoorbell, Goto
  <2>5. Judged'
    BY <1>8 DEF RingDoorbell, Goto
  <2>6. Returned'
    BY <1>8 DEF RingDoorbell, Goto
  <2> QED
    BY <2>1, <2>2, <2>3, <2>4, <2>5, <2>6
<1>9. ASSUME NEW c \in Callers, PollAgain(c) PROVE SeqInv'
  <2>1. Numbered'
    BY <1>9 DEF PollAgain
  <2>2. Unseen'
    BY <1>9 DEF PollAgain
  <2>3. Submitted'
    BY <1>9 DEF PollAgain
  <2>4. Polled'
    BY <1>9 DEF PollAgain
  <2>5. Judged'
    BY <1>9 DEF PollAgain
  <2>6. Returned'
    BY <1>9 DEF PollAgain
  <2> QED
    BY <2>1, <2>2, <2>3, <2>4, <2>5, <2>6
<1>10. ASSUME NEW c \in Callers, PollDone(c) PROVE SeqInv'
  <2>1. Numbered'
    BY <1>10 DEF PollDone, Goto
  <2>2. Unseen'
    BY <1>10 DEF PollDone, Goto
  <2>3. Submitted'
    BY <1>10 DEF PollDone, Goto
  <2>4. Polled'
    BY <1>10 DEF PollDone, Goto
  <2>5. Judged'
    BY <1>10 DEF PollDone, Goto
  <2>6. Returned'
    BY <1>10 DEF PollDone, Goto
  <2> QED
    BY <2>1, <2>2, <2>3, <2>4, <2>5, <2>6
<1>11. ASSUME NEW c \in Callers, PollExpired(c) PROVE SeqInv'
  <2>1. Numbered'
    BY <1>11 DEF PollExpired, Goto
  <2>2. Unseen'
    BY <1>11 DEF PollExpired, Goto
  <2>3. Submitted'
    BY <1>11 DEF PollExpired, Goto
  <2>4. Polled'
    BY <1>11 DEF PollExpired, Goto
  <2>5. Judged'
    BY <1>11 DEF PollExpired, Goto
  <2>6. Returned'
    BY <1>11 DEF PollExpired, Goto
  <2> QED
    BY <2>1, <2>2, <2>3, <2>4, <2>5, <2>6
<1>12. ASSUME NEW c \in Callers, ReadDelivery(c) PROVE SeqInv'
  <2>1. Numbered'
    BY <1>12 DEF ReadDelivery, Goto
  <2>2. Unseen'
    BY <1>12 DEF ReadDelivery, Goto
  <2>3. Submitted'
    BY <1>12 DEF ReadDelivery, Goto
  <2>4. Polled'
    BY <1>12 DEF ReadDelivery, Goto
  <2>5. Judged'
    BY <1>12 DEF ReadDelivery, Goto
  <2>6. Returned'
    BY <1>12 DEF ReadDelivery, Goto
  <2> QED
    BY <2>1, <2>2, <2>3, <2>4, <2>5, <2>6
<1>13. ASSUME NEW c \in Callers, CheckEntry(c) PROVE SeqInv'
  <2>1. Numbered'
    BY <1>13 DEF CheckEntry, Goto, Return
  <2>2. Unseen'
    BY <1>13 DEF CheckEntry, Goto, Return
  <2>3. Submitted'
    BY <1>13 DEF CheckEntry, Goto, Return
  <2>4. Polled'
    BY <1>13 DEF CheckEntry, Goto, Return
  <2>5. Judged'
    BY <1>13 DEF CheckEntry, Goto, Return
  <2>6. Returned'
    <3>1. UNCHANGED <<cmd, data, execs>> /\ \A d \in Callers : d = c
      BY <1>13 DEF CheckEntry
    <3>2. \/ pc'[c] # "idle" /\ result'[c] = result[c]
          \/ pc'[c] = "idle" /\ result'[c] = "Timeout"
          \/ pc'[c] = "idle" /\ result'[c] = "Error" /\ entry.owner = "SW" /\ delivery_status[c] # "OK"
      BY <1>13 DEF CheckEntry, Goto, Return
    <3>3. pc[c] = "check"
      BY <1>13 DEF CheckEntry, Goto, Return
    <3> QED
      BY <3>1, <3>2, <3>3
  <2> QED
    BY <2>1, <2>2, <2>3, <2>4, <2>5, <2>6
<1>14. ASSUME NEW c \in Callers, ReadStatus(c) PROVE SeqInv'
  <2>1. Numbered'
    BY <1>14 DEF ReadStatus, Goto, Return
  <2>2. Unseen'
    BY <1>14 DEF ReadStatus, Goto, Return
  <2>3. Submitted'
    BY <1>14 DEF ReadStatus, Goto, Return
  <2>4. Polled'
    BY <1>14 DEF ReadStatus, Goto, Return
  <2>5. Judged'
    BY <1>14 DEF ReadStatus, Goto, Return
  <2>6. Returned'
    BY <1>14 DEF ReadStatus, Goto, Return
  <2> QED
    BY <2>1, <2>2, <2>3, <2>4, <2>5, <2>6
<1>15. ASSUME NEW c \in Callers, CopyResponse(c) PROVE SeqInv'
  <2>1. Numbered'
    BY <1>15 DEF CopyResponse, Goto, Return
  <2>2. Unseen'
    BY <1>15 DEF CopyResponse, Goto, Return
  <2>3. Submitted'
    BY <1>15 DEF CopyResponse, Goto, Return
  <2>4. Polled'
    BY <1>15 DEF CopyResponse, Goto, Return
  <2>5. Judged'
    BY <1>15 DEF CopyResponse, Goto, Return
  <2>6. Returned'
    BY <1>15 DEF CopyResponse, Goto, Return
  <2> QED
    BY <2>1, <2>2, <2>3, <2>4, <2>5, <2>6
<1>16. CASE FwFetch
  <2>1. Numbered'
    BY <1>16 DEF FwFetch, Window
  <2>2. Unseen'
    BY <1>16 DEF FwFetch, Window
  <2>3. Submitted'
    BY <1>16 DEF FwFetch, Window
  <2>4. Polled'
    BY <1>16 DEF FwFetch, Window
  <2>5. Judged'
    BY <1>16 DEF FwFetch, Window
  <2>6. Returned'
    BY <1>16 DEF FwFetch, Window
  <2> QED
    BY <2>1, <2>2, <2>3, <2>4, <2>5, <2>6
<1>17. CASE FwIgnore
  BY <1>17 DEF FwIgnore, Window
<1>18. ASSUME NEW status \in Statuses, FwExecute(status) PROVE SeqInv'
  <2>0. (\A c \in Callers : pc[c] = "poll") /\ UNCHANGED <<pc, result>>
    BY <1>18 DEF FwExecute, Window
  <2>1. Numbered'
    <3>1. UNCHANGED <<issued, cmd, pc>> /\ job'.cmd = job.cmd
      BY <1>18 DEF FwExecute
    <3>2. status = "OK" => job.cmd \in Cmds /\ execs[job.cmd] = 0
      BY <1>18 DEF FwExecute, Window
    <3>3. \A i \in Cmds : execs'[i] = execs[i] \/ (i = job.cmd /\ execs'[i] = 1)
      BY <1>18, <3>2 DEF FwExecute
    <3> QED
      BY <3>1, <3>3
  <2>2. Unseen'
    BY <1>18 DEF FwExecute, Window
  <2>3. Submitted'
    BY <1>18 DEF FwExecute, Window
  <2>4. Polled'
    BY <1>18 DEF FwExecute, Window
  <2>5. Judged'
    BY <2>0
  <2>6. Returned'
    BY <2>0
  <2> QED
    BY <2>1, <2>2, <2>3, <2>4, <2>5, <2>6
<1>19. CASE FwRelease
  BY <1>19 DEF FwRelease, Window, NoJob
<1>20. CASE FwUndelivered
  BY <1>20 DEF FwUndelivered, Window, NoJob
<1>21. CASE FwDrop
  BY <1>21 DEF FwDrop, NoJob
<1>22. CASE UNCHANGED vars
  BY <1>22 DEF vars
<1> HIDE DEF SeqInv
<1> QED
  BY <1>1, <1>2, <1>3, <1>4, <1>5, <1>6, <1>7, <1>8, <1>9, <1>10, <1>11, <1>12, <1>13, <1>14, <1>15, <1>16, <1>17, <1>18, <1>19, <1>20, <1>21, <1>22
     DEF Next, Firmware, mlx5_cmd_exec, Continue

\* The initial state satisfies the invariant.
LEMMA SequentialInit == Init => SeqInv
  BY ConstantsAssumption
     DEF Init, SeqInv, Numbered, Unseen, Submitted, Polled, Judged, Returned, Submitting,
         ConstantsAssumption, Cmds, NoCmd, NoJob

\* With one caller and a punctual firmware, the invariant always holds.
THEOREM SequentialInvariant == ASSUME Sequential PROVE Spec => []IInv
<1>1. Init => IInv
  BY SequentialInit, TypeInit DEF IInv
<1>2. IInv /\ [Next]_vars => IInv'
  BY SequentialStep, TypeStep DEF IInv
<1> QED
  BY <1>1, <1>2, PTL DEF Spec

\* In sequential use kIOReturnSuccess returns the answer to the caller's command.
THEOREM SuccessReturnsOwnAnswer == ASSUME Sequential PROVE Spec => []SuccessIsOwn
<1>1. IInv => SuccessIsOwn
  BY DEF IInv, SeqInv, Returned, SuccessIsOwn
<1> QED
  BY <1>1, SequentialInvariant, PTL

\* In sequential use kIOReturnSuccess means the firmware executed the command once.
THEOREM SuccessIsExecution == ASSUME Sequential PROVE Spec => []SuccessMeansExecuted
<1>1. IInv => SuccessMeansExecuted
  BY DEF IInv, SeqInv, Returned, SuccessMeansExecuted
<1> QED
  BY <1>1, SequentialInvariant, PTL

\* In sequential use kIOReturnError means the firmware did not execute the command.
THEOREM ErrorIsNoExecution == ASSUME Sequential PROVE Spec => []ErrorMeansNotExecuted
<1>1. IInv => ErrorMeansNotExecuted
  BY DEF IInv, SeqInv, Returned, ErrorMeansNotExecuted
<1> QED
  BY <1>1, SequentialInvariant, PTL

\* In sequential use no command is carried out twice.
THEOREM NoDoubleExecution == ASSUME Sequential PROVE Spec => []AtMostOnce
<1>1. IInv => AtMostOnce
  BY DEF IInv, SeqInv, Numbered, AtMostOnce
<1> QED
  BY <1>1, SequentialInvariant, PTL

\* The late answer of the run CmdQueue_late needs a late firmware or a second caller:
\* without them no call returns the answer to another one.
THEOREM NoForeignAnswer == ASSUME Sequential PROVE Spec => []NoForeignResponse
<1>1. SuccessIsOwn => NoForeignResponse
  BY DEF SuccessIsOwn, NoForeignResponse
<1> QED
  BY <1>1, SuccessReturnsOwnAnswer, PTL

-----------------------------------------------------------------------------
\* With one caller, every step keeps the tokens of the entry and the call apart.
LEMMA TokenStep ==
  ASSUME OneCaller, TokenSpace > 2, TypeOK, Tokens, [Next]_vars
  PROVE  Tokens'
<1> USE ConstantsAssumption
    DEF ConstantsAssumption, OneCaller, TypeOK, Tokens, InvalidToken, driverVars, Places
<1>1. ASSUME NEW c \in Callers, Enter(c) PROVE Tokens'
  BY <1>1 DEF Enter, Goto
<1>2. ASSUME NEW c \in Callers, LoadToken(c) PROVE Tokens'
  BY <1>2 DEF LoadToken, Goto
<1>3. ASSUME NEW c \in Callers, StoreToken(c) PROVE Tokens'
  BY <1>3, TokenWraps DEF StoreToken, Goto
<1>4. ASSUME NEW c \in Callers, ClearMailboxes(c) PROVE Tokens'
  BY <1>4 DEF ClearMailboxes, Goto
<1>5. ASSUME NEW c \in Callers, FillMailbox(c) PROVE Tokens'
  BY <1>5 DEF FillMailbox, Goto
<1>6. ASSUME NEW c \in Callers, FillEntry(c) PROVE Tokens'
  BY <1>6 DEF FillEntry, Goto
<1>7. ASSUME NEW c \in Callers, HandOver(c) PROVE Tokens'
  BY <1>7 DEF HandOver, Goto
<1>8. ASSUME NEW c \in Callers, RingDoorbell(c) PROVE Tokens'
  BY <1>8 DEF RingDoorbell, Goto
<1>9. ASSUME NEW c \in Callers, PollAgain(c) PROVE Tokens'
  BY <1>9 DEF PollAgain
<1>10. ASSUME NEW c \in Callers, PollDone(c) PROVE Tokens'
  BY <1>10 DEF PollDone, Goto
<1>11. ASSUME NEW c \in Callers, PollExpired(c) PROVE Tokens'
  BY <1>11 DEF PollExpired, Goto
<1>12. ASSUME NEW c \in Callers, ReadDelivery(c) PROVE Tokens'
  BY <1>12 DEF ReadDelivery, Goto
<1>13. ASSUME NEW c \in Callers, CheckEntry(c) PROVE Tokens'
  BY <1>13 DEF CheckEntry, Goto, Return
<1>14. ASSUME NEW c \in Callers, ReadStatus(c) PROVE Tokens'
  BY <1>14 DEF ReadStatus, Goto, Return
<1>15. ASSUME NEW c \in Callers, CopyResponse(c) PROVE Tokens'
  BY <1>15 DEF CopyResponse, Goto, Return
<1>16. CASE Firmware
  <2>1. entry'.token = entry.token /\ UNCHANGED driverVars
    BY <1>16 DEF Firmware, FwFetch, FwIgnore, FwExecute, FwRelease, FwUndelivered, FwDrop
  <2> QED
    BY <2>1
<1>17. CASE UNCHANGED vars
  BY <1>17 DEF vars
<1> QED
  BY <1>1, <1>2, <1>3, <1>4, <1>5, <1>6, <1>7, <1>8, <1>9, <1>10, <1>11, <1>12, <1>13, <1>14, <1>15, <1>16, <1>17
     DEF Next, mlx5_cmd_exec, Continue

\* With one caller, two commands in a row never carry the same token, nor token 0,
\* however late the firmware is.
THEOREM TokensDiffer == ASSUME OneCaller, TokenSpace > 2 PROVE Spec => TokenChanges
<1>1. Init => Tokens
  BY DEF Init, Tokens
<1>2. TypeOK /\ Tokens /\ [Next]_vars
        => [\A c \in Callers : FillEntry(c) => entry'.token # entry.token /\ entry'.token # 0]_vars
  BY DEF TypeOK, Tokens, FillEntry, Goto
<1>3. TypeOK /\ Tokens /\ [Next]_vars => Tokens'
  BY TokenStep
<1> QED
  BY <1>1, <1>2, <1>3, TypeCorrect, PTL DEF Spec, TokenChanges

-----------------------------------------------------------------------------
\* A step of the driver or the firmware is a step of the service, or none.
LEMMA ServiceStep ==
  ASSUME Sequential, IInv, [Next]_vars
  PROVE  [Service!Next]_Service!vars
<1> USE ConstantsAssumption DEF ConstantsAssumption, OneCaller, Sequential, IInv, TypeOK, driverVars
<1>1. ASSUME NEW c \in Callers, Enter(c) PROVE Service!Call(c)
  BY <1>1 DEF Enter, Goto, Service!Call
<1>2. ASSUME NEW c \in Callers,
             \/ LoadToken(c) \/ StoreToken(c) \/ ClearMailboxes(c) \/ FillMailbox(c) \/ FillEntry(c)
             \/ HandOver(c) \/ RingDoorbell(c) \/ PollAgain(c) \/ PollDone(c) \/ PollExpired(c)
             \/ ReadDelivery(c)
      PROVE  UNCHANGED Service!vars
  BY <1>2 DEF LoadToken, StoreToken, ClearMailboxes, FillMailbox, FillEntry, HandOver, RingDoorbell,
              PollAgain, PollDone, PollExpired, ReadDelivery, Goto, Service!vars
<1>3. ASSUME NEW c \in Callers, CheckEntry(c)
      PROVE  \/ \E r \in {"Error", "Timeout"} : Service!Reply(c, r)
             \/ UNCHANGED Service!vars
  <2>1. CASE entry.owner # "SW"
    <3>1. Service!Reply(c, "Timeout")
      BY <1>3, <2>1 DEF CheckEntry, Goto, Return, Service!Reply
    <3> QED
      BY <3>1
  <2>2. CASE entry.owner = "SW" /\ delivery_status[c] # "OK"
    <3>1. execs[cmd[c]] = 0
      BY <1>3, <2>2 DEF CheckEntry, Goto, Return, SeqInv, Judged, Verdict
    <3>2. Service!Reply(c, "Error")
      BY <1>3, <2>2, <3>1 DEF CheckEntry, Goto, Return, Service!Reply
    <3> QED
      BY <3>2
  <2>3. CASE entry.owner = "SW" /\ delivery_status[c] = "OK"
    BY <1>3, <2>3 DEF CheckEntry, Goto, Return, Service!vars
  <2> QED
    BY <2>1, <2>2, <2>3
<1>4. ASSUME NEW c \in Callers, ReadStatus(c)
      PROVE  Service!Reply(c, "Error") \/ UNCHANGED Service!vars
  <2>1. CASE out_mbox.status # "OK"
    <3>1. execs[cmd[c]] = 0
      BY <1>4, <2>1 DEF ReadStatus, Goto, Return, SeqInv, Judged, Answered, Statuses
    <3> QED
      BY <1>4, <2>1, <3>1 DEF ReadStatus, Goto, Return, Service!Reply
  <2>2. CASE out_mbox.status = "OK"
    BY <1>4, <2>2 DEF ReadStatus, Goto, Return, Service!vars
  <2> QED
    BY <2>1, <2>2
<1>5. ASSUME NEW c \in Callers, CopyResponse(c)
      PROVE  Service!Reply(c, "Success")
  BY <1>5 DEF CopyResponse, Goto, Return, SeqInv, Judged, Answered, Service!Reply
<1>6. ASSUME FwExecute("OK")
      PROVE  \E c \in Callers : Service!Serve(c)
  <2>1. PICK c \in Callers : pc[c] = "poll" /\ job.cmd = cmd[c]
    BY <1>6 DEF FwExecute, Window
  <2>2. job.cmd \in Cmds /\ execs[job.cmd] = 0
    BY <1>6, <2>1 DEF FwExecute, SeqInv, Polled, OwnJob, NoCmd, Cmds
  <2>3. execs' = [execs EXCEPT ![cmd[c]] = 1]
    BY <1>6, <2>1, <2>2 DEF FwExecute
  <2> QED
    BY <1>6, <2>1, <2>2, <2>3 DEF FwExecute, Service!Serve
<1>7. CASE FwFetch \/ FwIgnore \/ FwExecute("ERR") \/ FwRelease \/ FwUndelivered \/ FwDrop
  BY <1>7 DEF FwFetch, FwIgnore, FwExecute, FwRelease, FwUndelivered, FwDrop, Service!vars
<1>8. CASE UNCHANGED vars
  BY <1>8 DEF vars, Service!vars
<1> QED
  BY <1>1, <1>2, <1>3, <1>4, <1>5, <1>6, <1>7, <1>8
     DEF Next, Firmware, mlx5_cmd_exec, Continue, Service!Next

\* In sequential use mlx5_cmd_exec implements the service its callers count on.
THEOREM ImplementsService == ASSUME Sequential PROVE Spec => ServiceSpec
<1>1. Init => Service!Init
  BY DEF Init, Service!Init, Cmds, NoCmd
<1>2. IInv /\ [Next]_vars => [Service!Next]_Service!vars
  BY ServiceStep
<1> QED
  BY <1>1, <1>2, SequentialInvariant, PTL DEF Spec, ServiceSpec, Service!Spec

=============================================================================
