-------------------------- MODULE SlaveStateProofs --------------------------
(***************************************************************************)
(* Proofs about SlaveState: the types, and that a slave is asked for a     *)
(* state only when what it needs there has been configured.                *)
(***************************************************************************)
EXTENDS SlaveState, TLAPS

\* What the registers R hold when ec_slave_config has come to the stage st.
Mailbox(R) == "coe" \in ability => "mailbox" \in R /\ "boot_mailbox" \notin R
PdoAssigned(R) == {"coe", "pdo_assign"} \subseteq ability => "pdo" \in R
Complete(R) ==
  assigned => /\ "sm" \in R /\ "fmmu" \in R
              /\ PdoAssigned(R)
              /\ "dc" \in ability => "sync" \in R

Established(st, R) ==
  /\ st \in {"clear_dc", "boot_sm", "mailbox_sm"} => "boot_mailbox" \notin R
  /\ st = "boot" => "boot_mailbox" \in R
  /\ st \in {"preop", "pdo", "sm", "fmmu", "dc_time", "dc_diff", "sync",
             "safeop", "op"} => Mailbox(R)
  /\ st \in {"pdo", "sm", "fmmu", "dc_time", "dc_diff", "sync"} => assigned
  /\ st \in {"sm", "fmmu", "dc_time", "dc_diff", "sync"} => PdoAssigned(R)
  /\ st \in {"fmmu", "dc_time", "dc_diff", "sync"} => "sm" \in R
  /\ st \in {"dc_time", "dc_diff", "sync"} => "fmmu" \in R
  /\ st \in {"safeop", "op"} => Complete(R)

\* The types of what a step of the scan thread sets through At, and of the rest.
StageAt(l, st) ==
  /\ st \in Stages
  /\ l \in {"change", "poll", "read_code", "ack", "ack_poll"} => st \in ChangeStages
  /\ l = "write" => st \in WriteStages \cup {"dc_diff"}

ThreadOK ==
  /\ pc \in {"broadcast", "scan_lock", "look", "change", "poll", "read_code", "ack",
             "ack_poll", "write"}
  /\ StageAt(pc, stage)
  /\ old_state \in {{}} \cup {{s} : s \in Statuses}
  /\ caller \in {"rescan", "scan"}
  /\ acknowledging \in {"scan", "change"}
  /\ elapsed \in Nat
  /\ scan_done \in BOOLEAN
  /\ force_update \in BOOLEAN

OthersOK ==
  /\ requested_state \in States
  /\ current_state \in {{}} \cup {{s} : s \in Statuses}
  /\ slaves_preop \in BOOLEAN
  /\ rescan_request \in BOOLEAN
  /\ slave_count \in {0, 1}
  /\ assigned \in BOOLEAN
  /\ cycle \in {"stopped", "started", "stopping"}
  /\ ability \in Features
  /\ al \in Statuses
  /\ control \in {{}} \cup {{c} : c \in [state : States, ack : BOOLEAN]}
  /\ registers \subseteq Settings
  /\ calm \in BOOLEAN

LEMMA TypeSplits == TypeOK <=> ThreadOK /\ OthersOK
BY DEF TypeOK, ThreadOK, OthersOK, StageAt

\* The inductive invariant: how far the configuration has come says what is in the
\* registers; outside a configuration nothing is claimed of them.
InRound(l) == l \in {"broadcast", "scan_lock"}
Progress ==
  /\ InRound(pc) => stage = "init"
  /\ Established(stage, registers)

IInv == ThreadOK /\ OthersOK /\ Progress

-----------------------------------------------------------------------------
(***************************************************************************)
(* From one stage to the next.                                             *)
(***************************************************************************)
\* The work of the present stage is done and has left R.
Done(R) ==
  /\ Established(stage, registers)
  /\ R = IF stage \in WriteStages THEN Written(TRUE) ELSE registers

USE DEF Stages, ChangeStages, WriteStages

LEMMA StageInStages == ThreadOK => stage \in Stages
BY DEF ThreadOK, StageAt

LEMMA StageDone ==
  ASSUME stage \in Stages, NEW R, Done(R), NEW now
  PROVE  LET next == NextStage(now)
         IN next \in {"done", "failed"} \/ (next \in Stages /\ Established(next, R))
<1> DEFINE next == NextStage(now)
<1> USE DEF Done, Established, Written, NextStage
<1>1. CASE stage \in {"init", "clear_fmmu", "clear_sm"}
  BY <1>1
<1>2. CASE stage = "clear_dc"
  <2>1. R = registers \ {"sync"} /\ "boot_mailbox" \notin R
    BY <1>2
  <2>2. next \in {"done", "failed", "boot_sm", "mailbox_sm"}
        \/ (next = "preop" /\ "coe" \notin ability)
    BY <1>2
  <2>3. QED
    BY <2>1, <2>2 DEF Mailbox
<1>3. CASE stage = "boot_sm"
  BY <1>3
<1>4. CASE stage = "boot"
  BY <1>4
<1>5. CASE stage = "mailbox_sm"
  BY <1>5 DEF Mailbox
<1>6. CASE stage = "preop"
  <2>1. R = registers /\ Mailbox(R)
    BY <1>6
  <2>2. \/ next = "done"
        \/ next = "pdo" /\ assigned
        \/ next = "sm" /\ assigned /\ ~({"coe", "pdo_assign"} \subseteq ability)
        \/ next = "safeop" /\ ~assigned
    BY <1>6
  <2>3. QED
    BY <2>1, <2>2 DEF Complete, PdoAssigned
<1>7. CASE stage = "pdo"
  BY <1>7 DEF Mailbox, PdoAssigned
<1>8. CASE stage = "sm"
  BY <1>8 DEF Mailbox, PdoAssigned
<1>9. CASE stage = "fmmu"
  <2>1. R = registers \cup {"fmmu"} /\ Mailbox(R) /\ PdoAssigned(R) /\ "sm" \in R
    BY <1>9 DEF Mailbox, PdoAssigned
  <2>2. next = "dc_time" \/ (next = "safeop" /\ "dc" \notin ability)
    BY <1>9
  <2>3. QED
    BY <2>1, <2>2, <1>9 DEF Complete
<1>10. CASE stage \in {"dc_time", "dc_diff"}
  BY <1>10 DEF Mailbox, PdoAssigned
<1>11. CASE stage = "sync"
  BY <1>11 DEF Mailbox, PdoAssigned, Complete
<1>12. CASE stage \in {"safeop", "op"}
  BY <1>12
<1>13. QED
  BY <1>1, <1>2, <1>3, <1>4, <1>5, <1>6, <1>7, <1>8, <1>9, <1>10, <1>11, <1>12

\* Nothing is claimed at "init".
LEMMA InitEstablished == \A R : Established("init", R)
BY DEF Established

Reached == ThreadOK /\ (InRound(pc) => stage = "init") /\ Established(stage, registers)

LEMMA ReturnsKeeps ==
  ASSUME ThreadOK, NEW ok \in BOOLEAN, ConfigReturns(ok)
  PROVE  Reached'
<1>1. /\ pc' \in {"broadcast", "look"} /\ stage' = "init" /\ old_state' = {}
      /\ caller' = "scan" /\ acknowledging' = "scan" /\ elapsed' = 0
      /\ scan_done' \in BOOLEAN /\ force_update' \in BOOLEAN
  BY DEF ConfigReturns, At, ThreadOK
<1>2. QED
  BY <1>1 DEF Reached, ThreadOK, StageAt, Established

\* Any other step of the thread names where it goes on.
LEMMA GoesKeeps ==
  ASSUME ThreadOK, NEW l, NEW st, NEW old, NEW by, NEW ack, NEW time,
         At(l, st, old, by, ack, time), UNCHANGED Flags,
         l \in {"broadcast", "scan_lock", "look", "change", "poll", "read_code", "ack",
                "ack_poll", "write"},
         StageAt(l, st), InRound(l) => st = "init",
         old \in {{}} \cup {{s} : s \in Statuses},
         by \in {"rescan", "scan"}, ack \in {"scan", "change"}, time \in Nat,
         Established(st, registers)'
  PROVE  Reached'
<1>1. /\ pc' = l /\ stage' = st /\ old_state' = old /\ caller' = by
      /\ acknowledging' = ack /\ elapsed' = time
      /\ scan_done' = scan_done /\ force_update' = force_update
  BY DEF At, Flags
<1>2. QED
  BY <1>1 DEF Reached, ThreadOK, StageAt, Established

LEMMA ProceedKeeps ==
  ASSUME ThreadOK, NEW now, Done(registers'), Proceed(now), UNCHANGED <<assigned, ability>>
  PROVE  Reached'
<1> DEFINE next == NextStage(now)
<1>1. stage \in Stages
  BY StageInStages
<1>2. next \in {"done", "failed"} \/ (next \in Stages /\ Established(next, registers'))
  BY <1>1, StageDone
<1>3. CASE ConfigReturns(next = "done")
  BY <1>3, ReturnsKeeps
<1>4. CASE /\ next \notin {"done", "failed"}
           /\ At(IF next \in ChangeStages THEN "change" ELSE "write", next, {}, caller,
                 "scan", 0)
           /\ UNCHANGED Flags
  <2>1. Established(next, registers') /\ next \in Stages
    BY <1>2, <1>4
  <2>2. /\ pc' = (IF next \in ChangeStages THEN "change" ELSE "write")
        /\ stage' = next /\ old_state' = {} /\ caller' = caller
        /\ acknowledging' = "scan" /\ elapsed' = 0
        /\ scan_done' = scan_done /\ force_update' = force_update
    BY <1>4 DEF At, Flags
  <2>3. Established(stage, registers)'
    BY <2>1, <2>2 DEF Established, Mailbox, PdoAssigned, Complete
  <2>4. ThreadOK'
    BY <2>1, <2>2 DEF ThreadOK, StageAt
  <2>5. ~InRound(pc')
    BY <2>2 DEF InRound
  <2>6. QED
    BY <2>3, <2>4, <2>5 DEF Reached
<1>5. QED
  BY <1>3, <1>4 DEF Proceed

-----------------------------------------------------------------------------
(***************************************************************************)
(* The steps of the scan thread.                                           *)
(***************************************************************************)
LEMMA RoundKeeps == ASSUME ThreadOK, NextRound PROVE Reached'
BY GoesKeeps, InitEstablished DEF NextRound, StageAt, Established

LEMMA BeginKeeps ==
  ASSUME ThreadOK, NEW by \in {"rescan", "scan"}, BeginConfig(by), UNCHANGED Flags
  PROVE  Reached'
BY GoesKeeps DEF BeginConfig, StageAt, Established

LEMMA AckFailsKeeps == ASSUME ThreadOK, AckFails PROVE Reached'
BY ReturnsKeeps, RoundKeeps DEF AckFails

\* The writes of the scan thread to the variables that are not its control.
LEMMA ScanOthers ==
  ASSUME OthersOK, ThreadOK, ScanThread
  PROVE  OthersOK' /\ UNCHANGED <<assigned, ability>>
<1> USE DEF OthersOK, ThreadOK, StageAt, othersOfThread, scanVars
<1>2. CASE LookFails
  BY <1>2 DEF LookFails
<1>3. CASE Look
  BY <1>3 DEF Look
<1>4. CASE ChangeWrite
  <2>1. control' \in {{}} \cup {{c} : c \in [state : States, ack : BOOLEAN]}
    BY <1>4 DEF ChangeWrite, Control, Goal, States
  <2>2. QED
    BY <1>4, <2>1 DEF ChangeWrite
<1>5. CASE ChangePoll
  BY <1>5 DEF ChangePoll
<1>6. CASE ReadCode
  BY <1>6 DEF ReadCode, Statuses
<1>7. CASE AckWrite
  <2>1. control' \in {{}} \cup {{c} : c \in [state : States, ack : BOOLEAN]}
    BY <1>7 DEF AckWrite, Control, Statuses
  <2>2. QED
    BY <1>7, <2>1 DEF AckWrite
<1>8. CASE AckPoll
  BY <1>8 DEF AckPoll
<1>9. CASE ConfigWrite
  <2>1. registers' \subseteq Settings
    BY <1>9 DEF ConfigWrite, Written, Settings
  <2>2. QED
    BY <1>9, <2>1 DEF ConfigWrite
<1>10. CASE ConfigSync
  BY <1>10 DEF ConfigSync
<1>11. QED
  BY <1>2, <1>3, <1>4, <1>5, <1>6, <1>7, <1>8, <1>9, <1>10 DEF ScanThread

LEMMA ScanReaches ==
  ASSUME IInv, ScanThread
  PROVE  Reached'
<1> USE DEF IInv, Progress
<1>0. /\ OthersOK' /\ UNCHANGED <<assigned, ability>>
      /\ Established(stage, registers) /\ stage \in Stages
  BY ScanOthers, StageInStages
<1>2. CASE LookFails
  BY <1>2, RoundKeeps DEF LookFails
<1>3. CASE Look
  <2>1. CASE At("read_code", "init", {}, "scan", "scan", 0)
    BY <1>3, <2>1, GoesKeeps DEF Look, StageAt, Established
  <2>2. CASE BeginConfig("scan")
    BY <1>3, <2>2, BeginKeeps DEF Look
  <2>3. CASE At("broadcast", "init", {}, "scan", "scan", 0)
    BY <1>3, <2>3, GoesKeeps DEF Look, StageAt, Established
  <2>4. QED
    BY <1>3, <2>1, <2>2, <2>3 DEF Look
<1>4. CASE ChangeWrite
  <2>1. stage \in ChangeStages /\ UNCHANGED registers
    BY <1>4 DEF ChangeWrite, ThreadOK, StageAt
  <2>2. CASE At("poll", stage, current_state, caller, "scan", 0) /\ UNCHANGED Flags
    <3>1. Established(stage, registers)'
      BY <1>0, <2>1, <2>2 DEF At, Established, Mailbox, PdoAssigned, Complete
    <3>2. Established(stage, registers')
      BY <1>0, <2>1
    <3>3. ThreadOK'
      BY <2>1, <2>2 DEF At, Flags, ThreadOK, StageAt, OthersOK
    <3>4. QED
      BY <2>2, <3>1, <3>3 DEF Reached, At, InRound
  <2>3. CASE ConfigReturns(FALSE)
    BY <2>3, ReturnsKeeps
  <2>4. QED
    BY <1>4, <2>2, <2>3 DEF ChangeWrite
<1>5. CASE ChangePoll
  <2>1. stage \in ChangeStages /\ UNCHANGED registers
    BY <1>5 DEF ChangePoll, ThreadOK, StageAt
  <2>2. Done(registers')
    BY <1>0, <2>1 DEF Done
  <2>3. CASE ConfigReturns(FALSE)
    BY <2>3, ReturnsKeeps
  <2>4. CASE Proceed({al})
    BY <1>0, <2>2, <2>4, ProceedKeeps
  <2>5. CASE \/ At("read_code", stage, {}, caller, "change", 0) /\ UNCHANGED Flags
             \/ At("poll", stage, {al}, caller, "scan", elapsed) /\ UNCHANGED Flags
    <3>1. Established(stage, registers)'
      BY <1>0, <2>1, <2>5 DEF At, Established, Mailbox, PdoAssigned, Complete
    <3>2. ThreadOK'
      BY <2>1, <2>5 DEF At, Flags, ThreadOK, StageAt, OthersOK
    <3>3. ~InRound(pc')
      BY <2>5 DEF At, InRound
    <3>4. QED
      BY <3>1, <3>2, <3>3 DEF Reached
  <2>6. QED
    BY <1>5, <2>3, <2>4, <2>5 DEF ChangePoll
<1>6. CASE ReadCode
  <2>1. stage \in ChangeStages /\ UNCHANGED registers
    BY <1>6 DEF ReadCode, ThreadOK, StageAt
  <2>2. CASE AckFails
    BY <2>2, AckFailsKeeps
  <2>3. CASE At("ack", stage, {}, caller, acknowledging, 0) /\ UNCHANGED Flags
    <3>1. Established(stage, registers)'
      BY <1>0, <2>1, <2>3 DEF At, Established, Mailbox, PdoAssigned, Complete
    <3>2. ThreadOK'
      BY <2>1, <2>3 DEF At, Flags, ThreadOK, StageAt
    <3>3. QED
      BY <2>3, <3>1, <3>2 DEF Reached, At, InRound
  <2>4. QED
    BY <1>6, <2>2, <2>3 DEF ReadCode
<1>7. CASE AckWrite
  <2>1. stage \in ChangeStages /\ UNCHANGED registers
    BY <1>7 DEF AckWrite, ThreadOK, StageAt
  <2>2. CASE AckFails
    BY <2>2, AckFailsKeeps
  <2>3. CASE At("ack_poll", stage, {}, caller, acknowledging, 0) /\ UNCHANGED Flags
    <3>1. Established(stage, registers)'
      BY <1>0, <2>1, <2>3 DEF At, Established, Mailbox, PdoAssigned, Complete
    <3>2. ThreadOK'
      BY <2>1, <2>3 DEF At, Flags, ThreadOK, StageAt
    <3>3. QED
      BY <2>3, <3>1, <3>2 DEF Reached, At, InRound
  <2>4. QED
    BY <1>7, <2>2, <2>3 DEF AckWrite
<1>8. CASE AckPoll
  <2>1. stage \in ChangeStages /\ UNCHANGED registers
    BY <1>8 DEF AckPoll, ThreadOK, StageAt
  <2>2. Done(registers')
    BY <1>0, <2>1 DEF Done
  <2>3. CASE AckFails
    BY <2>3, AckFailsKeeps
  <2>4. CASE Proceed({al})
    BY <1>0, <2>2, <2>4, ProceedKeeps
  <2>5. CASE BeginConfig("scan") /\ UNCHANGED Flags
    BY <2>5, BeginKeeps
  <2>6. CASE NextRound
    BY <2>6, RoundKeeps
  <2>7. CASE Stay
    BY <1>0, <2>1, <2>7 DEF Stay, threadVars, Flags, Reached, ThreadOK, StageAt,
                            Established, Mailbox, PdoAssigned, Complete
  <2>8. QED
    BY <1>8, <2>3, <2>4, <2>5, <2>6, <2>7 DEF AckPoll
<1>9. CASE ConfigWrite
  <2>1. PICK a \in Access :
          /\ registers' = IF a.reached THEN Written(a.answered) ELSE registers
          /\ IF a.answered THEN Proceed(current_state) ELSE ConfigReturns(FALSE)
    BY <1>9 DEF ConfigWrite
  <2>2. CASE ConfigReturns(FALSE)
    BY <2>2, ReturnsKeeps
  <2>3. CASE a.answered
    <3>1. a.answered = TRUE /\ a.reached
      BY <2>3 DEF Access
    <3>2. Done(registers')
      BY <1>0, <1>9, <2>1, <3>1 DEF Done, ConfigWrite
    <3>3. QED
      BY <1>0, <2>1, <2>3, <3>2, ProceedKeeps
  <2>4. QED
    BY <2>1, <2>2, <2>3
<1>10. CASE ConfigSync
  <2>1. stage = "dc_diff" /\ pc = "write" /\ UNCHANGED registers
    BY <1>10 DEF ConfigSync
  <2>2. Done(registers')
    BY <1>0, <2>1 DEF Done
  <2>3. CASE ConfigReturns(FALSE)
    BY <2>3, ReturnsKeeps
  <2>4. CASE Proceed(current_state)
    BY <1>0, <2>2, <2>4, ProceedKeeps
  <2>5. CASE At(pc, stage, {}, caller, "scan", elapsed + 1) /\ UNCHANGED Flags
    <3>1. Established(stage, registers)'
      BY <1>0, <2>1, <2>5 DEF At, Established, Mailbox, PdoAssigned, Complete
    <3>2. ThreadOK'
      BY <2>1, <2>5 DEF At, Flags, ThreadOK, StageAt
    <3>3. QED
      BY <2>1, <2>5, <3>1, <3>2 DEF Reached, At, InRound
  <2>6. QED
    BY <1>10, <2>3, <2>4, <2>5 DEF ConfigSync
<1>11. QED
  BY <1>2, <1>3, <1>4, <1>5, <1>6, <1>7, <1>8, <1>9, <1>10 DEF ScanThread

-----------------------------------------------------------------------------
(***************************************************************************)
(* The invariant, and what follows from it.                                *)
(***************************************************************************)
LEMMA InitInv == Init => IInv
<1> SUFFICES ASSUME Init PROVE IInv
  OBVIOUS
<1>1. ThreadOK
  BY DEF Init, ThreadOK, StageAt
<1>2. Progress
  BY DEF Init, Progress, Established
<1>3. al \in Statuses
  <2>1. PICK s \in States : al = [state |-> s, error |-> FALSE]
    BY DEF Init, Al, States
  <2>2. QED
    BY <2>1 DEF Statuses
<1>4. OthersOK
  BY <1>3 DEF Init, OthersOK, States, Settings
<1>5. QED
  BY <1>1, <1>2, <1>4 DEF IInv

LEMMA SlaveAl ==
  ASSUME OthersOK, Slave
  PROVE  /\ al' \in Statuses
         /\ control' \in {control, {}}
         /\ UNCHANGED <<ability, registers, userVars, viewVars, scanVars, threadVars, calm>>
<1> USE DEF OthersOK, Statuses
<1>1. CASE SlaveObeys
  <2>1. PICK c \in control : al' = Al(c.state)
    BY <1>1 DEF SlaveObeys
  <2>2. c.state \in States
    OBVIOUS
  <2>3. QED
    BY <1>1, <2>1, <2>2 DEF SlaveObeys, Slave, Al
<1>2. CASE SlaveRefuses
  BY <1>2 DEF SlaveRefuses, Slave
<1>3. CASE SlaveIgnores
  BY <1>3 DEF SlaveIgnores, Slave
<1>4. CASE SlaveFalls
  BY <1>4 DEF SlaveFalls, Slave, States
<1>5. QED
  BY <1>1, <1>2, <1>3, <1>4 DEF Slave, SlaveAnswers

\* A round of the scan thread, and the rescan that it may lead to.
LEMMA RoundInv == ASSUME IInv, ScanRound PROVE IInv'
<1> USE DEF userVars, viewVars, scanVars, slaveVars
<1>1. CASE ScanAnew /\ UNCHANGED <<slaveVars, calm>> /\ slaves_preop' \in BOOLEAN
  <2>1. /\ pc' = "change" /\ stage' = "init" /\ old_state' = {} /\ caller' = "rescan"
        /\ acknowledging' = "scan" /\ elapsed' = 0
        /\ scan_done' = FALSE /\ force_update' = FALSE
    BY <1>1 DEF ScanAnew, BeginConfig, At
  <2>2. ThreadOK' /\ Progress'
    BY <2>1 DEF ThreadOK, StageAt, Progress, InRound, Established
  <2>3. OthersOK'
    BY <1>1 DEF ScanAnew, IInv, OthersOK, States
  <2>4. QED
    BY <2>2, <2>3 DEF IInv
<1>2. CASE /\ \E l \in {"broadcast", "look", "scan_lock"} :
                At(l, "init", {}, "scan", "scan", 0)
           /\ slaves_preop' \in BOOLEAN /\ rescan_request' \in BOOLEAN
           /\ UNCHANGED <<userVars, current_state, scan_done, slave_count, slaveVars, calm>>
  <2>1. /\ pc' \in {"broadcast", "look", "scan_lock"} /\ stage' = "init"
        /\ old_state' = {} /\ caller' = "scan" /\ acknowledging' = "scan" /\ elapsed' = 0
        /\ UNCHANGED <<scan_done, force_update>>
    BY <1>2 DEF At
  <2>2. ThreadOK' /\ Progress'
    BY <2>1 DEF IInv, ThreadOK, StageAt, Progress, InRound, Established
  <2>3. OthersOK'
    BY <1>2 DEF IInv, OthersOK
  <2>4. QED
    BY <2>2, <2>3 DEF IInv
<1>3. CASE Broadcast
  <2>1. rescan_request' \in BOOLEAN
    BY <1>3 DEF Broadcast, IInv, OthersOK
  <2>2. QED
    BY <1>2, <1>3, <2>1 DEF Broadcast
<1>4. CASE BroadcastRescans
  BY <1>1, <1>2, <1>4 DEF BroadcastRescans
<1>5. CASE Rescan
  BY <1>1, <1>5 DEF Rescan, IInv, OthersOK
<1>6. QED
  BY <1>3, <1>4, <1>5 DEF ScanRound

LEMMA StepInv == IInv /\ [Next]_vars => IInv'
<1> SUFFICES ASSUME IInv, [Next]_vars PROVE IInv'
  OBVIOUS
<1> USE DEF userVars, viewVars, scanVars, threadVars, slaveVars
<1>1. CASE ScanThread
  BY <1>1, ScanReaches, ScanOthers DEF IInv, Reached, Progress
<1>2. CASE ScanRound
  BY <1>2, RoundInv
<1>3. CASE AssignConfig
  <2>1. InRound(pc) /\ stage = "init" /\ stage' = "init" /\ pc' = pc
    BY <1>3 DEF AssignConfig, IInv, Progress, InRound
  <2>2. Progress'
    BY <2>1 DEF Progress, Established
  <2>3. ThreadOK' /\ OthersOK'
    BY <1>3 DEF AssignConfig, IInv, ThreadOK, StageAt, OthersOK
  <2>4. QED
    BY <2>2, <2>3 DEF IInv
<1>4. CASE \/ Start \/ Stop \/ StopReturns \/ ec_cmd_rescan
           \/ \E s \in Requests : ec_cmd_slave_state_request(s)
  <2>1. UNCHANGED <<pc, stage, old_state, caller, acknowledging, elapsed, scan_done,
                    slave_count, assigned, ability, registers, al, control, calm>>
    BY <1>4 DEF Start, Stop, StopReturns, ec_cmd_slave_state_request, ec_cmd_rescan
  <2>2. requested_state' \in States /\ force_update' \in BOOLEAN
    BY <1>4, SlaveAssumption
    DEF Start, Stop, StopReturns, ec_cmd_slave_state_request, ec_cmd_rescan, Ask, IInv,
        OthersOK, ThreadOK, States
  <2>3. /\ rescan_request' \in BOOLEAN /\ cycle' \in {"stopped", "started", "stopping"}
        /\ UNCHANGED <<current_state, slaves_preop>>
    BY <1>4 DEF Start, Stop, StopReturns, ec_cmd_slave_state_request, ec_cmd_rescan, Ask,
                IInv, OthersOK
  <2>4. Progress'
    BY <2>1 DEF IInv, Progress, Established, Mailbox, PdoAssigned, Complete
  <2>5. ThreadOK' /\ OthersOK'
    BY <2>1, <2>2, <2>3 DEF IInv, ThreadOK, StageAt, OthersOK
  <2>6. QED
    BY <2>4, <2>5 DEF IInv
<1>5. CASE Slave
  <2>1. /\ al' \in Statuses /\ control' \in {control, {}}
        /\ UNCHANGED <<ability, registers, userVars, viewVars, scanVars, threadVars, calm>>
    BY <1>5, SlaveAl DEF IInv
  <2>2. Progress'
    BY <2>1 DEF IInv, Progress, Established, Mailbox, PdoAssigned, Complete
  <2>3. ThreadOK' /\ OthersOK'
    BY <2>1 DEF IInv, ThreadOK, StageAt, OthersOK
  <2>4. QED
    BY <2>2, <2>3 DEF IInv
<1>6. CASE Tick \/ CalmDown \/ UNCHANGED vars
  <2>1. /\ elapsed' \in Nat /\ calm' \in BOOLEAN
        /\ UNCHANGED <<pc, stage, old_state, caller, acknowledging, userVars, viewVars,
                       scanVars, slaveVars>>
    <3>1. CASE Tick
      BY <3>1 DEF Tick, IInv, ThreadOK, OthersOK
    <3>2. CASE CalmDown
      BY <3>2 DEF CalmDown, IInv, ThreadOK, OthersOK
    <3>3. CASE UNCHANGED vars
      BY <3>3 DEF vars, IInv, ThreadOK, OthersOK
    <3>4. QED
      BY <1>6, <3>1, <3>2, <3>3
  <2>2. Progress'
    BY <2>1 DEF IInv, Progress, Established, Mailbox, PdoAssigned, Complete
  <2>3. ThreadOK' /\ OthersOK'
    BY <2>1 DEF IInv, ThreadOK, StageAt, OthersOK
  <2>4. QED
    BY <2>2, <2>3 DEF IInv
<1>7. QED
  BY <1>1, <1>2, <1>3, <1>4, <1>5, <1>6 DEF Next, Users

LEMMA Inductive == Spec => []IInv
BY InitInv, StepInv, PTL DEF Spec

\* Every variable keeps its type, whatever the slave does and whatever is lost
\* (ec_slave.c:278-402, 426-799, 912-953).
THEOREM TypeCorrect == Spec => []TypeOK
<1>1. IInv => TypeOK
  BY TypeSplits DEF IInv
<1>2. QED
  BY <1>1, Inductive, PTL

\* At a change of state the registers are as the goal needs them.
LEMMA ChangePrepared == IInv /\ pc = "change" => Prepared(Goal(stage))
<1> SUFFICES ASSUME IInv, pc = "change" PROVE Prepared(Goal(stage))
  OBVIOUS
<1>1. Established(stage, registers) /\ stage \in {"init", "boot", "preop", "safeop", "op"}
  BY DEF IInv, Progress, ThreadOK, StageAt
<1>2. CASE stage \in {"init", "boot", "preop"}
  BY <1>1, <1>2 DEF Prepared, Goal, Established, Mailbox
<1>3. CASE stage \in {"safeop", "op"}
  <2>1. Mailbox(registers) /\ Complete(registers)
    BY <1>1, <1>3 DEF Established
  <2>2. Goal(stage) \in {"SAFEOP", "OP"}
    BY <1>3 DEF Goal
  <2>3. QED
    BY <2>1, <2>2 DEF Prepared, Mailbox, Complete, PdoAssigned
<1>4. QED
  BY <1>1, <1>2, <1>3

LEMMA AskedStep ==
  ASSUME IInv, [Next]_vars, NEW s \in States, control' # control,
         control' = {[state |-> s, ack |-> FALSE]}, pc = "change"
  PROVE  Prepared(s)
<1>1. CASE ScanThread
  <2>1. ChangeWrite
    BY <1>1 DEF ScanThread, LookFails, Look, ChangeWrite, ChangePoll, ReadCode,
                AckWrite, AckPoll, ConfigWrite, ConfigSync
  <2>2. control' = {[state |-> Goal(stage), ack |-> FALSE]}
    BY <2>1 DEF ChangeWrite, Control
  <2>3. Goal(stage) = s
    <3>1. [state |-> Goal(stage), ack |-> FALSE] = [state |-> s, ack |-> FALSE]
      BY <2>2
    <3>2. [state |-> Goal(stage), ack |-> FALSE].state = [state |-> s, ack |-> FALSE].state
      BY <3>1
    <3>3. QED
      BY <3>2
  <2>4. QED
    BY <2>3, ChangePrepared
<1>2. CASE Slave
  <2>1. control' \in {control, {}}
    BY <1>2, SlaveAl DEF IInv
  <2>2. QED
    BY <2>1
<1>3. CASE ScanRound \/ Users \/ StopReturns \/ Tick \/ CalmDown \/ UNCHANGED vars
  <2>1. control' = control
    BY <1>3 DEF ScanRound, Broadcast, BroadcastRescans, Rescan, Users, AssignConfig,
                Start, Stop, StopReturns, ec_cmd_slave_state_request, ec_cmd_rescan, Tick,
                CalmDown, vars, slaveVars
  <2>2. QED
    BY <2>1
<1>4. QED
  BY <1>1, <1>2, <1>3 DEF Next

\* A slave is asked for a state only when what it needs there has been written and
\* answered since it was last taken to INIT, for every kind of slave and every request
\* of the shell (ec_slave_config, ec_slave.c:426-799).
THEOREM AlwaysPrepared == Spec => AskedWhenPrepared
<1>1. IInv /\ [Next]_vars
        => [\A s \in States :
              control' # control /\ control' = {[state |-> s, ack |-> FALSE]}
              /\ pc = "change" => Prepared(s)]_vars
  BY AskedStep
<1>2. QED
  BY <1>1, Inductive, PTL DEF Spec, AskedWhenPrepared
=============================================================================
