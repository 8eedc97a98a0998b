-------------------------- MODULE HcaBringup_proofs --------------------------
(***************************************************************************)
(* Proofs about HcaBringup, for every set of faults, every number of boot  *)
(* polls and every number of loads.  All of them rest on one inductive     *)
(* invariant, which says what is set at each place of start().             *)
(***************************************************************************)
EXTENDS HcaBringup, SequenceTheorems, TLAPS

-----------------------------------------------------------------------------
(* The places of start() from a given statement on, to a successful return.*)
FromPublish == {"publish", "started"}
FromCommands == CommandNames \cup FromPublish
FromMailboxes == {"mboxdma"} \cup FromCommands
FromMbox == {"mbox"} \cup FromMailboxes
FromRing == {"ringdma", "register"} \cup FromMbox
FromBoot == {"ring"} \cup FromRing
FromBAR0 == {"iseg", "wait"} \cup FromBoot
FromDevice == {"bar0"} \cup FromBAR0

\* An object has one reference while its pointer is set and none otherwise, except
\* a ring mlx5_cmd_init released itself.
RefsFollowPointers ==
  \A o \in Objects :
    refs[o] = (IF ptr[o] THEN 1 ELSE 0) \/ (o = "cmd_ring_md" /\ RingReleasedEarly)

\* Which pointers are set, by place.  At "stop" any of them may be.
PointersByPlace ==
  /\ pc # "stop" => (ptr["fPCIDevice"] <=> pc \in FromDevice)
  /\ pc # "stop" => (ptr["fBAR0Map"] <=> pc \in FromBAR0)
  /\ pc # "stop" => (ptr["cmd_ring_md"] <=> pc \in FromRing)
  /\ pc # "stop" => (ptr["mbox_md"] <=> pc \in FromMailboxes)

\* A ring released early ends start().
EarlyReleaseEnds == RingReleasedEarly => pc \in {"stop", "unloaded"}

FirmwareByPlace ==
  /\ pc \in FromBoot => ~initializing
  /\ pc \in FromMbox => fwRing
  /\ pc \in FromCommands /\ "mboxdma" \notin failed => reachable
  /\ published => pc = "started"

\* The firmware took the first n commands of initHardware, and no other.
FirstCommands(n) == Len(accepted) = n /\ \A i \in 1..n : accepted[i] = Commands[i]

\* The commands the firmware took, by place.
AcceptedByPlace ==
  /\ pc \notin FromCommands \cup {"stop", "unloaded"} => FirstCommands(0)
  /\ pc = "ENABLE_HCA" => FirstCommands(0)
  /\ "mboxdma" \notin failed =>
       /\ pc = "QUERY_PAGES" => FirstCommands(1)
       /\ pc = "QUERY_HCA_CAP" => FirstCommands(2)
       /\ pc = "INIT_HCA" => FirstCommands(3)
       /\ pc \in FromPublish => FirstCommands(4)

IInv ==
  /\ TypeOK
  /\ RefsFollowPointers
  /\ PointersByPlace
  /\ EarlyReleaseEnds
  /\ FirmwareByPlace
  /\ AcceptedByPlace

-----------------------------------------------------------------------------
(* Facts about the operators of the model.                                 *)

\* The four commands of initHardware, one by one.
LEMMA CommandNamesAre ==
  /\ CommandNames = {"ENABLE_HCA", "QUERY_PAGES", "QUERY_HCA_CAP", "INIT_HCA"}
  /\ Commands \in Seq(CommandNames)
  <1>1. DOMAIN Commands = {1, 2, 3, 4}
    BY DEF Commands
  <1>2. CommandNames = {"ENABLE_HCA", "QUERY_PAGES", "QUERY_HCA_CAP", "INIT_HCA"}
    BY <1>1 DEF CommandNames, Commands
  <1> QED
    BY <1>2 DEF Commands

\* What one mlx5_cmd_exec of start() does: it goes on or stops, and it goes on
\* with reachable mailboxes only when the firmware took the command.
LEMMA ExecEffect ==
  ASSUME NEW command \in CommandNames, NEW next,
         TypeOK, Exec(command, next)
  PROVE  /\ pc = command /\ pc' \in {next, "stop"}
         /\ accepted' \in {accepted, Append(accepted, command)}
         /\ accepted' \in Seq(CommandNames)
         /\ pc' # "stop" /\ reachable => accepted' = Append(accepted, command)
  BY DEF Exec, Goto, TypeOK

\* A command more extends the prefix of initHardware's sequence.
LEMMA NextCommand ==
  ASSUME TypeOK, NEW n \in 0..3, FirstCommands(n),
         accepted' = Append(accepted, Commands[n + 1])
  PROVE  FirstCommands(n + 1)'
  BY CommandNamesAre DEF FirstCommands, TypeOK

\* All four are the whole sequence.
LEMMA AllCommands ==
  ASSUME TypeOK, FirstCommands(4)
  PROVE  accepted = Commands
  <1>1. Len(Commands) = 4
    BY DEF Commands
  <1> QED
    BY <1>1, CommandNamesAre, SeqEqual, Zenon DEF FirstCommands, TypeOK

\* Taking a reference keeps the types of the pointers and of the counts.
LEMMA AcquireTypes ==
  ASSUME TypeOK, NEW o \in Objects, Acquire(o)
  PROVE  ptr' \in [Objects -> BOOLEAN] /\ refs' \in [Objects -> Int]
  <1>1. ptr' \in [Objects -> BOOLEAN]
    BY Zenon DEF TypeOK, Acquire
  <1>2. refs' \in [Objects -> Int]
    BY SMT DEF TypeOK, Acquire
  <1> QED
    BY <1>1, <1>2

-----------------------------------------------------------------------------
(* Type correctness.                                                       *)

\* A service that was never loaded has its types.
LEMMA InitTypes == Init => TypeOK
  <1> SUFFICES ASSUME Init PROVE TypeOK
    OBVIOUS
  <1>1. ptr \in [Objects -> BOOLEAN] /\ failed \subseteq Faults
    BY Zenon DEF Init
  <1>2. refs \in [Objects -> Int] /\ accepted \in Seq(CommandNames)
    BY DEF Init
  <1>3. pc \in Places /\ polls \in 0..BootPolls /\ loads \in 0..MaxLoads
    BY BringupAssumption DEF Init, Places
  <1> QED
    BY <1>1, <1>2, <1>3 DEF Init, TypeOK

\* Every step of start(), stop() and the firmware keeps the types.
LEMMA TypeStep == TypeOK /\ [Next]_vars => TypeOK'
  <1> SUFFICES ASSUME TypeOK, [Next]_vars
               PROVE  TypeOK'
    OBVIOUS
  <1> USE BringupAssumption, CommandNamesAre DEF TypeOK
  <1>1. CASE UNCHANGED vars
    BY <1>1 DEF vars, firmware
  <1>2. CASE Load
    <2>1. ptr' \in [Objects -> BOOLEAN]
      BY <1>2, Zenon DEF Load
    <2>2. refs' \in [Objects -> Int]
      BY <1>2, SMT DEF Load
    <2>3. failed' \subseteq Faults /\ accepted' \in Seq(CommandNames)
      BY <1>2 DEF Load
    <2>4. pc' \in Places /\ loads' \in 0..MaxLoads /\ polls' \in 0..BootPolls
      BY <1>2 DEF Load, Goto, Places
    <2> QED
      BY <1>2, <2>1, <2>2, <2>3, <2>4 DEF Load
  <1>3. CASE SuperStart
    BY <1>3 DEF SuperStart, Goto, Fails, Succeeds, Places, firmware
  <1>4. CASE TakeProvider
    <2>1. ptr' \in [Objects -> BOOLEAN] /\ refs' \in [Objects -> Int]
      BY <1>4, AcquireTypes DEF TakeProvider, Objects
    <2> QED
      BY <1>4, <2>1 DEF TakeProvider, Goto, Fails, Succeeds, Places, firmware
  <1>5. CASE mapBAR0
    <2>1. ptr' \in [Objects -> BOOLEAN] /\ refs' \in [Objects -> Int]
      BY <1>5, AcquireTypes DEF mapBAR0, Objects
    <2> QED
      BY <1>5, <2>1 DEF mapBAR0, Goto, Fails, Succeeds, Places, firmware
  <1>6. CASE readInitSegment
    BY <1>6 DEF readInitSegment, Goto, Places, firmware
  <1>7. CASE WaitAgain
    BY <1>7 DEF WaitAgain, Places, firmware
  <1>8. CASE WaitDone
    BY <1>8 DEF WaitDone, Goto, Places, firmware
  <1>9. CASE WaitExpired
    BY <1>9 DEF WaitExpired, Goto, Places, firmware
  <1>10. CASE AllocRing
    <2>1. ptr' \in [Objects -> BOOLEAN]
      BY <1>10, Zenon DEF AllocRing
    <2>2. refs' \in [Objects -> Int]
      BY <1>10, SMT DEF AllocRing
    <2> QED
      BY <1>10, <2>1, <2>2 DEF AllocRing, Goto, Fails, Succeeds, Places, firmware
  <1>11. CASE MapRing
    BY <1>11 DEF MapRing, Goto, Fails, Succeeds, Places, firmware
  <1>12. CASE RegisterRing
    BY <1>12 DEF RegisterRing, Goto, Places, firmware
  <1>13. CASE AllocMailboxes
    <2>1. ptr' \in [Objects -> BOOLEAN] /\ refs' \in [Objects -> Int]
      BY <1>13, AcquireTypes DEF AllocMailboxes, Objects
    <2> QED
      BY <1>13, <2>1 DEF AllocMailboxes, Goto, Fails, Succeeds, Places, firmware
  <1>14. CASE MapMailboxes
    BY <1>14 DEF MapMailboxes, Goto, Fails, Succeeds, Places, firmware
  <1>15. CASE sendEnableHCA
    BY <1>15, ExecEffect DEF sendEnableHCA, Places
  <1>16. CASE queryPages
    BY <1>16, ExecEffect DEF queryPages, Places
  <1>17. CASE queryHcaCap
    BY <1>17, ExecEffect DEF queryHcaCap, Places
  <1>18. CASE initHca
    BY <1>18, ExecEffect DEF initHca, Places
  <1>19. CASE Publish
    BY <1>19 DEF Publish, Goto, Places, firmware
  <1>20. CASE stop
    <2>1. ptr' \in [Objects -> BOOLEAN]
      BY <1>20, Zenon DEF stop
    <2>2. refs' \in [Objects -> Int]
      BY <1>20, SMT DEF stop
    <2> QED
      BY <1>20, <2>1, <2>2 DEF stop, Goto, Places, firmware
  <1>21. CASE FwBoots
    BY <1>21 DEF FwBoots
  <1> QED
    BY <1>1, <1>2, <1>3, <1>4, <1>5, <1>6, <1>7, <1>8, <1>9, <1>10, <1>11, <1>12, <1>13, <1>14, <1>15, <1>16, <1>17, <1>18, <1>19, <1>20, <1>21 DEF Next, StartStep

-----------------------------------------------------------------------------
(* The parts of the invariant, preserved by every step.                    *)

\* Pointers and reference counts stay in step with the place start() is at.
LEMMA OwnershipStep ==
  ASSUME TypeOK, RefsFollowPointers, PointersByPlace, EarlyReleaseEnds, [Next]_vars
  PROVE  RefsFollowPointers' /\ PointersByPlace' /\ EarlyReleaseEnds'
  <1> USE CommandNamesAre
      DEF TypeOK, RefsFollowPointers, PointersByPlace, EarlyReleaseEnds, RingReleasedEarly, Objects,
          FromDevice, FromBAR0, FromBoot, FromRing, FromMbox, FromMailboxes, FromCommands, FromPublish
  <1>1. CASE UNCHANGED vars
    BY <1>1 DEF vars, firmware
  <1>2. CASE Load
    BY <1>2 DEF Load, Goto
  <1>3. CASE SuperStart
    BY <1>3 DEF SuperStart, Goto, Fails, Succeeds, firmware
  <1>4. CASE TakeProvider
    BY <1>4 DEF TakeProvider, Goto, Fails, Succeeds, Acquire, firmware
  <1>5. CASE mapBAR0
    BY <1>5 DEF mapBAR0, Goto, Fails, Succeeds, Acquire, firmware
  <1>6. CASE readInitSegment
    BY <1>6 DEF readInitSegment, Goto, firmware
  <1>7. CASE WaitAgain
    BY <1>7 DEF WaitAgain, firmware
  <1>8. CASE WaitDone
    BY <1>8 DEF WaitDone, Goto, firmware
  <1>9. CASE WaitExpired
    BY <1>9 DEF WaitExpired, Goto, firmware
  <1>10. CASE AllocRing
    BY <1>10 DEF AllocRing, Goto, Fails, Succeeds, firmware
  <1>11. CASE MapRing
    BY <1>11 DEF MapRing, Goto, Fails, Succeeds, firmware
  <1>12. CASE RegisterRing
    BY <1>12 DEF RegisterRing, Goto, firmware
  <1>13. CASE AllocMailboxes
    <2>1. CASE pc' = "stop"
      BY <1>13, <2>1 DEF AllocMailboxes, Goto, Fails, Succeeds, Acquire, firmware
    <2>2. CASE pc' # "stop"
      BY <1>13, <2>2 DEF AllocMailboxes, Goto, Fails, Succeeds, Acquire, firmware
    <2> QED
      BY <2>1, <2>2
  <1>14. CASE MapMailboxes
    BY <1>14 DEF MapMailboxes, Goto, Fails, Succeeds, firmware
  <1>15. CASE sendEnableHCA
    BY <1>15, ExecEffect DEF sendEnableHCA
  <1>16. CASE queryPages
    BY <1>16, ExecEffect DEF queryPages
  <1>17. CASE queryHcaCap
    BY <1>17, ExecEffect DEF queryHcaCap
  <1>18. CASE initHca
    BY <1>18, ExecEffect DEF initHca
  <1>19. CASE Publish
    BY <1>19 DEF Publish, Goto, firmware
  <1>20. CASE stop
    BY <1>20 DEF stop, Goto, firmware
  <1>21. CASE FwBoots
    BY <1>21 DEF FwBoots
  <1> QED
    BY <1>1, <1>2, <1>3, <1>4, <1>5, <1>6, <1>7, <1>8, <1>9, <1>10, <1>11, <1>12, <1>13, <1>14, <1>15, <1>16, <1>17, <1>18, <1>19, <1>20, <1>21 DEF Next, StartStep

\* What the firmware was told, and has done, stays in step with the place too.
LEMMA FirmwareStep ==
  ASSUME TypeOK, FirmwareByPlace, AcceptedByPlace, [Next]_vars
  PROVE  FirmwareByPlace' /\ AcceptedByPlace'
  <1> USE CommandNamesAre
      DEF TypeOK, FirmwareByPlace, AcceptedByPlace,
          FromDevice, FromBAR0, FromBoot, FromRing, FromMbox, FromMailboxes, FromCommands, FromPublish
  <1>0. /\ UNCHANGED accepted => \A n \in 0..4 : FirstCommands(n)' <=> FirstCommands(n)
        /\ accepted' = << >> => FirstCommands(0)'
    BY DEF FirstCommands
  <1> USE <1>0
  <1>1. CASE UNCHANGED vars
    BY <1>1 DEF vars, firmware
  <1>2. CASE Load
    BY <1>2 DEF Load, Goto
  <1>3. CASE SuperStart
    BY <1>3 DEF SuperStart, Goto, Fails, Succeeds, firmware
  <1>4. CASE TakeProvider
    BY <1>4 DEF TakeProvider, Goto, Fails, Succeeds, Acquire, firmware
  <1>5. CASE mapBAR0
    BY <1>5 DEF mapBAR0, Goto, Fails, Succeeds, Acquire, firmware
  <1>6. CASE readInitSegment
    BY <1>6 DEF readInitSegment, Goto, firmware
  <1>7. CASE WaitAgain
    BY <1>7 DEF WaitAgain, firmware
  <1>8. CASE WaitDone
    BY <1>8 DEF WaitDone, Goto, firmware
  <1>9. CASE WaitExpired
    BY <1>9 DEF WaitExpired, Goto, firmware
  <1>10. CASE AllocRing
    BY <1>10 DEF AllocRing, Goto, Fails, Succeeds, firmware
  <1>11. CASE MapRing
    BY <1>11 DEF MapRing, Goto, Fails, Succeeds, firmware
  <1>12. CASE RegisterRing
    BY <1>12 DEF RegisterRing, Goto, firmware
  <1>13. CASE AllocMailboxes
    BY <1>13 DEF AllocMailboxes, Goto, Fails, Succeeds, Acquire, firmware
  <1>14. CASE MapMailboxes
    BY <1>14 DEF MapMailboxes, Goto, Fails, Succeeds, firmware
  <1>15. CASE sendEnableHCA
    <2>1. Commands[1] = "ENABLE_HCA"
      BY DEF Commands
    <2>2. accepted' = Append(accepted, "ENABLE_HCA") /\ FirstCommands(0) => FirstCommands(1)'
      BY <2>1, NextCommand
    <2> QED
      BY <1>15, <2>2, ExecEffect DEF sendEnableHCA
  <1>16. CASE queryPages
    <2>1. Commands[2] = "QUERY_PAGES"
      BY DEF Commands
    <2>2. accepted' = Append(accepted, "QUERY_PAGES") /\ FirstCommands(1) => FirstCommands(2)'
      BY <2>1, NextCommand
    <2> QED
      BY <1>16, <2>2, ExecEffect DEF queryPages
  <1>17. CASE queryHcaCap
    <2>1. Commands[3] = "QUERY_HCA_CAP"
      BY DEF Commands
    <2>2. accepted' = Append(accepted, "QUERY_HCA_CAP") /\ FirstCommands(2) => FirstCommands(3)'
      BY <2>1, NextCommand
    <2> QED
      BY <1>17, <2>2, ExecEffect DEF queryHcaCap
  <1>18. CASE initHca
    <2>1. Commands[4] = "INIT_HCA"
      BY DEF Commands
    <2>2. accepted' = Append(accepted, "INIT_HCA") /\ FirstCommands(3) => FirstCommands(4)'
      BY <2>1, NextCommand
    <2> QED
      BY <1>18, <2>2, ExecEffect DEF initHca
  <1>19. CASE Publish
    BY <1>19 DEF Publish, Goto, firmware
  <1>20. CASE stop
    BY <1>20 DEF stop, Goto, firmware
  <1>21. CASE FwBoots
    BY <1>21 DEF FwBoots
  <1> QED
    BY <1>1, <1>2, <1>3, <1>4, <1>5, <1>6, <1>7, <1>8, <1>9, <1>10, <1>11, <1>12, <1>13, <1>14, <1>15, <1>16, <1>17, <1>18, <1>19, <1>20, <1>21 DEF Next, StartStep

-----------------------------------------------------------------------------
(* The theorems.                                                           *)

\* Every reachable state of the service has its types, and waitForInitializing
\* reads the boot bit at most BootPolls times.
THEOREM TypeCorrect == Spec => []TypeOK
  BY InitTypes, TypeStep, PTL DEF Spec

\* At every place of start() the pointers, the reference counts, the firmware's view
\* and the commands carried out are what the statements before that place leave.
THEOREM BringupInvariant == Spec => []IInv
  <1>1. Init => IInv
    <2> SUFFICES ASSUME Init PROVE IInv
      OBVIOUS
    <2>1. pc = "unloaded" /\ ~published /\ failed = {} /\ TypeOK
      BY InitTypes DEF Init
    <2>2. RefsFollowPointers /\ EarlyReleaseEnds
      BY <2>1 DEF Init, RefsFollowPointers, EarlyReleaseEnds
    <2>3. PointersByPlace /\ FirmwareByPlace /\ AcceptedByPlace
      BY <2>1, CommandNamesAre
      DEF Init, PointersByPlace, FirmwareByPlace, AcceptedByPlace, Objects,
          FromDevice, FromBAR0, FromBoot, FromRing, FromMbox, FromMailboxes, FromCommands, FromPublish
    <2> QED
      BY <2>1, <2>2, <2>3 DEF IInv
  <1>2. IInv /\ [Next]_vars => IInv'
    BY TypeStep, OwnershipStep, FirmwareStep DEF IInv
  <1> QED
    BY <1>1, <1>2, PTL DEF Spec

\* registerService() is reached only after ENABLE_HCA, both queries and INIT_HCA were
\* carried out in that order, unless mapping the mailboxes failed unnoticed.
THEOREM ReadyIsInitialized == Spec => []ReadyMeansInitialized
  <1>1. IInv => ReadyMeansInitialized
    BY AllCommands DEF IInv, FirmwareByPlace, AcceptedByPlace, FromPublish, ReadyMeansInitialized
  <1> QED
    BY <1>1, BringupInvariant, PTL

\* Whichever statement of start() failed, and after every stop(), freeHardware and
\* mlx5_cmd_cleanup have released each object exactly once, the early ring aside.
THEOREM DownIsReleased == Spec => []ReleasedWhenDown
  <1>1. IInv => ReleasedWhenDown
    <2> SUFFICES ASSUME IInv, pc = "unloaded", NEW o \in Objects
                 PROVE  refs[o] = 0 \/ (o = "cmd_ring_md" /\ RingReleasedEarly)
      BY DEF ReleasedWhenDown
    <2>1. ~ptr[o]
      BY CommandNamesAre DEF IInv, PointersByPlace, Objects,
         FromDevice, FromBAR0, FromBoot, FromRing, FromMbox, FromMailboxes, FromCommands, FromPublish
    <2> QED
      BY <2>1 DEF IInv, RefsFollowPointers
  <1> QED
    BY <1>1, BringupInvariant, PTL

\* stop() may release whatever a pointer names: it holds its one reference.
THEOREM LivePointers == Spec => []PointersLive
  <1>1. IInv => PointersLive
    BY DEF IInv, RefsFollowPointers, PointersLive
  <1> QED
    BY <1>1, BringupInvariant, PTL

\* No mlx5_cmd_exec of start() runs before the firmware booted and was given a ring,
\* or with the ring or the mailboxes freed.
THEOREM CommandsReachQueue == Spec => []CommandsHaveQueue
  <1>1. IInv => CommandsHaveQueue
    <2> SUFFICES ASSUME IInv, pc \in CommandNames
                 PROVE  ~initializing /\ fwRing /\ refs["cmd_ring_md"] = 1 /\ refs["mbox_md"] = 1
      BY DEF CommandsHaveQueue
    <2>1. ptr["cmd_ring_md"] /\ ptr["mbox_md"] /\ ~RingReleasedEarly
      BY CommandNamesAre
      DEF IInv, PointersByPlace, EarlyReleaseEnds, FromRing, FromMbox, FromMailboxes, FromCommands
    <2> QED
      BY <2>1 DEF IInv, RefsFollowPointers, FirmwareByPlace, Objects,
         FromBoot, FromRing, FromMbox, FromMailboxes, FromCommands
  <1> QED
    BY <1>1, BringupInvariant, PTL

\* The over-release the run HcaBringup_release finds needs one of two faults: when
\* neither mapping the ring nor allocating the mailboxes fails, no path of start()
\* and stop() releases an object it does not hold.
THEOREM OverReleaseNeedsRingFault ==
  ASSUME Faults \cap {"ringdma", "mbox"} = {}
  PROVE  Spec => []NoOverRelease
  <1>1. IInv => NoOverRelease
    <2> SUFFICES ASSUME IInv, NEW o \in Objects
                 PROVE  refs[o] >= 0
      BY DEF NoOverRelease
    <2>1. ~RingReleasedEarly
      BY DEF IInv, TypeOK, RingReleasedEarly
    <2> QED
      BY <2>1 DEF IInv, RefsFollowPointers
  <1> QED
    BY <1>1, BringupInvariant, PTL

=============================================================================
