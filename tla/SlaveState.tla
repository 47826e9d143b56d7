----------------------------- MODULE SlaveState -----------------------------
(***************************************************************************)
(* One slave and its AL state machine (ec_slave.c:112-799, 912-1065): the  *)
(* scan thread looks at the state of the slave, acknowledges errors and    *)
(* configures the slave up to the state that start, stop and the shell     *)
(* request, without a lock, while the slave moves by itself.  It scans the *)
(* bus anew under scan_lock, which a stop that waits for PREOP holds.      *)
(*                                                                         *)
(* A step of the scan thread goes from the answer of one register access   *)
(* to the next access.  Users do not run between: the scan thread has the  *)
(* higher priority (CONFIG_EC_SCAN_PRIO).  The other slaves of the table   *)
(* are looked at in the same way, one after the other.                     *)
(*                                                                         *)
(* alstatus_code is left out: line 948 tests it with another state         *)
(* requested only after line 945 has cleared it, since an acknowledge that *)
(* returns 0 has seen the state requested.                                 *)
(***************************************************************************)
EXTENDS Integers, FiniteSets

CONSTANTS
  Features,     \* the kinds of slave considered: sets of what a slave supports
  Requests,     \* the states the shell asks for
  SyncWaitCount \* EC_DC_SYNC_WAIT_COUNT, scaled down

States == {"INIT", "PREOP", "BOOT", "SAFEOP", "OP"}
Abilities == {"coe", "pdo_assign", "foe", "dc"}

ASSUME SlaveAssumption ==
  /\ Features \subseteq SUBSET Abilities
  /\ Requests \subseteq States
  /\ SyncWaitCount \in Nat

\* The AL status register and current_state: a state, and the error bit.
Al(s) == [state |-> s, error |-> FALSE]
Statuses == [state : States, error : BOOLEAN]

VARIABLES
  requested_state, force_update,
  current_state,   \* {} or {the status read last}: a new table is zeroed
  slaves_preop,    \* slaves_preop, read by the last broadcast, is PREOP
  scan_done,
  rescan_request,
  slave_count,     \* 1 from the first scan on
  assigned,        \* slave->config is not NULL
  cycle,           \* "stopped", "started", "stopping": ec_master_start and _stop
  pc,              \* what the scan thread does next
  stage,           \* how far ec_slave_config has come
  old_state,       \* ec_slave_state_change's, {} outside its polls
  caller,          \* who called ec_slave_config: "rescan" or "scan"
  acknowledging,   \* who called ec_slave_state_clear_ack_error: "scan" or "change"
  elapsed,         \* time since start_time, in the ranks of the timeouts
  ability,         \* what this slave supports
  al,              \* the slave's AL status register
  control,         \* what was written to its AL control register, until it looks
  registers,       \* what the master has configured in the slave
  calm             \* from now on nothing is lost and nobody interferes

userVars == <<requested_state, force_update, assigned, cycle>>
viewVars == <<current_state, slaves_preop, scan_done>>
scanVars == <<rescan_request, slave_count>>
threadVars == <<pc, stage, old_state, caller, acknowledging, elapsed>>
slaveVars == <<ability, al, control, registers>>
vars == <<userVars, viewVars, scanVars, threadVars, slaveVars, calm>>

\* Configured by ec_slave_config, in the order of the writes.
Settings == {"boot_mailbox", "mailbox", "pdo", "sm", "fmmu", "sync"}
ChangeStages == {"init", "boot", "preop", "safeop", "op"}
WriteStages == {"clear_fmmu", "clear_sm", "clear_dc", "boot_sm", "mailbox_sm",
                "pdo", "sm", "fmmu", "dc_time", "sync"}
Stages == ChangeStages \cup WriteStages \cup {"dc_diff"}
Goal(s) == CASE s = "init" -> "INIT" [] s = "boot" -> "BOOT" [] s = "preop" -> "PREOP"
             [] s = "safeop" -> "SAFEOP" [] s = "op" -> "OP" [] OTHER -> "OP"

Init ==
  /\ requested_state = "PREOP"
  /\ force_update = FALSE
  /\ current_state = {}
  /\ slaves_preop = FALSE
  /\ scan_done = FALSE
  /\ rescan_request = FALSE
  /\ slave_count = 0
  /\ assigned = FALSE
  /\ cycle = "stopped"
  /\ pc = "broadcast"
  /\ stage = "init"
  /\ old_state = {}
  /\ caller = "scan"
  /\ acknowledging = "scan"
  /\ elapsed = 0
  /\ ability \in Features
  /\ al \in {Al("INIT"), Al("OP")}
  /\ control = {}
  /\ registers = {}
  /\ calm = FALSE

\* A register access reaches the slave or not, and its answer comes back or not.
Access == {a \in [reached : BOOLEAN, answered : BOOLEAN] :
             /\ a.answered => a.reached
             /\ calm => a.answered}

-----------------------------------------------------------------------------
(***************************************************************************)
(* The scan thread, from one register access to the next.  Each of these   *)
(* operators says where it goes on: threadVars, scan_done, force_update.   *)
(***************************************************************************)
At(label, st, old, by, ack, time) ==
  /\ pc' = label
  /\ stage' = st
  /\ old_state' = old
  /\ caller' = by
  /\ acknowledging' = ack
  /\ elapsed' = time

Flags == <<scan_done, force_update>>
Stay == UNCHANGED <<threadVars, Flags>>
NextRound == At("broadcast", "init", {}, "scan", "scan", 0) /\ UNCHANGED Flags

BeginConfig(by) == At("change", "init", {}, by, "scan", 0)

\* ec_slave_config returns: to the scan, which has now seen the bus and goes on to the
\* look, or gives up; or to the look, which takes the forced update as made.
ConfigReturns(ok) ==
  /\ At(IF caller = "rescan" /\ ok THEN "look" ELSE "broadcast", "init", {}, "scan",
        "scan", 0)
  /\ scan_done' = IF caller = "rescan" THEN ok ELSE scan_done
  /\ force_update' = IF caller = "scan" THEN FALSE ELSE force_update

\* ec_slave_config reads slave->config and the requested state anew at each stage;
\* `now` is the status that is known of the slave.
NextStage(now) ==
  CASE stage = "init" -> "clear_fmmu"
    [] stage = "clear_fmmu" -> "clear_sm"
    [] stage = "clear_sm" -> "clear_dc"
    [] stage = "clear_dc" ->
         CASE now = {Al(requested_state)} -> "done"
           [] now # {Al(requested_state)} /\ requested_state = "BOOT" ->
                IF "foe" \in ability THEN "boot_sm" ELSE "failed"
           [] OTHER -> IF "coe" \in ability THEN "mailbox_sm" ELSE "preop"
    [] stage = "boot_sm" -> "boot"
    [] stage = "boot" -> "done"
    [] stage = "mailbox_sm" -> "preop"
    [] stage = "preop" ->
         CASE now = {Al(requested_state)} -> "done"
           [] now # {Al(requested_state)} /\ assigned
              /\ {"coe", "pdo_assign"} \subseteq ability -> "pdo"
           [] OTHER -> IF assigned THEN "sm" ELSE "safeop"
    [] stage = "pdo" -> "sm"
    [] stage = "sm" -> "fmmu"
    [] stage = "fmmu" -> IF "dc" \in ability THEN "dc_time" ELSE "safeop"
    [] stage = "dc_time" -> "dc_diff"
    [] stage = "dc_diff" -> "sync"
    [] stage = "sync" -> "safeop"
    [] stage = "safeop" -> IF now = {Al(requested_state)} THEN "done" ELSE "op"
    [] stage = "op" -> "done"

\* Mutant: the writes between two changes of state are passed over.
ProceedToChange(now) ==
  LET next == NextStage(now)
  IN \/ next \in {"done", "failed"} /\ ConfigReturns(next = "done")
     \/ /\ next \notin {"done", "failed"}
        /\ At("change", next, {}, caller, "scan", 0)
        /\ UNCHANGED Flags

Proceed(now) ==
  LET next == NextStage(now)
  IN \/ next \in {"done", "failed"} /\ ConfigReturns(next = "done")
     \/ /\ next \notin {"done", "failed"}
        /\ At(IF next \in ChangeStages THEN "change" ELSE "write", next, {}, caller,
              "scan", 0)
        /\ UNCHANGED Flags

-----------------------------------------------------------------------------
(***************************************************************************)
(* ec_slave_config: the writes between two changes of state.               *)
(***************************************************************************)
othersOfThread ==
  <<requested_state, assigned, cycle, slaves_preop, scanVars, ability, al, calm>>

\* What the write of a stage leaves configured.  The assignment of PDOs is many
\* mailbox requests: one that fails leaves a part of it.
Written(answered) ==
  CASE stage = "clear_fmmu" -> registers \ {"fmmu"}
    [] stage = "clear_sm" -> registers \ {"boot_mailbox", "mailbox", "sm"}
    [] stage = "clear_dc" -> registers \ {"sync"}
    [] stage = "boot_sm" -> registers \cup {"boot_mailbox"}
    [] stage = "mailbox_sm" -> registers \cup {"mailbox"}
    [] stage = "pdo" -> IF answered THEN registers \cup {"pdo"} ELSE registers \ {"pdo"}
    [] stage \in {"sm", "fmmu", "sync"} -> registers \cup {stage}
    [] OTHER -> registers

\* Mutant: a write that is not answered is taken as made.
ConfigWriteUnchecked ==
  /\ pc = "write"
  /\ stage \in WriteStages
  /\ \E a \in Access :
       /\ registers' = IF a.reached THEN Written(a.answered) ELSE registers
       /\ Proceed(current_state)
  /\ UNCHANGED <<othersOfThread, current_state, control>>

ConfigWrite ==
  /\ pc = "write"
  /\ stage \in WriteStages
  /\ \E a \in Access :
       /\ registers' = IF a.reached THEN Written(a.answered) ELSE registers
       /\ IF a.answered THEN Proceed(current_state) ELSE ConfigReturns(FALSE)
  /\ UNCHANGED <<othersOfThread, current_state, control>>

\* The wait for the slave's clock counts its reads (in start_time).
ConfigSync ==
  /\ pc = "write"
  /\ stage = "dc_diff"
  /\ \/ Proceed(current_state)
     \/ ~calm /\ ConfigReturns(FALSE)
     \/ /\ ~calm
        /\ elapsed < SyncWaitCount
        /\ At(pc, stage, {}, caller, "scan", elapsed + 1)
        /\ UNCHANGED Flags
  /\ UNCHANGED <<othersOfThread, current_state, control, registers>>

-----------------------------------------------------------------------------
(***************************************************************************)
(* ec_slave_state_change and ec_slave_state_clear_ack_error.               *)
(***************************************************************************)
\* Timeouts by rank: 200 ms, 3 s, 5 s, 10 s.  A status with the error bit is none
\* of the states that have a timeout of their own.
ec_slave_state_change_timeout_ns(from, to) ==
  CASE from = Al("INIT") /\ to \in {"PREOP", "BOOT"} -> 1
    [] from = Al("PREOP") /\ to = "SAFEOP" -> 3
    [] from = Al("SAFEOP") /\ to = "OP" -> 3
    [] to = "INIT" -> 2
    [] from \in {Al("OP"), Al("SAFEOP")} /\ to = "PREOP" -> 2
    [] from = Al("OP") /\ to = "SAFEOP" -> 0
    [] OTHER -> 3

TimedOut(to) == elapsed > ec_slave_state_change_timeout_ns(al, to)

\* A request enters the AL control register.
Control(s, acknowledge, a) ==
  control' = IF a.reached THEN {[state |-> s, ack |-> acknowledge]} ELSE control

ChangeWrite ==
  /\ pc = "change"
  /\ \E a \in Access :
       /\ Control(Goal(stage), FALSE, a)
       /\ IF a.answered
            THEN At("poll", stage, current_state, caller, "scan", 0) /\ UNCHANGED Flags
            ELSE ConfigReturns(FALSE)
  /\ UNCHANGED <<othersOfThread, current_state, registers>>

\* The same state with another error bit.
SameState == \E old \in old_state : old.state = al.state /\ old # al

\* Mutant: a slave that moves on is waited for without a timeout.
ChangePollPatient ==
  /\ pc = "poll"
  /\ \/ ~calm /\ ConfigReturns(FALSE) /\ UNCHANGED current_state
     \/ /\ current_state' = {al}
        /\ CASE al = Al(Goal(stage)) -> Proceed({al})
             [] al # Al(Goal(stage)) /\ SameState ->
                  At("read_code", stage, {}, caller, "change", 0) /\ UNCHANGED Flags
             [] OTHER ->
                  At("poll", stage, {al}, caller, "scan", elapsed) /\ UNCHANGED Flags
  /\ UNCHANGED <<othersOfThread, control, registers>>

\* The goal is reached; or the slave has set (or cleared) the error bit; or the poll
\* goes on, from the state that the slave is in now, until it times out.
ChangePoll ==
  /\ pc = "poll"
  /\ \/ ~calm /\ ConfigReturns(FALSE) /\ UNCHANGED current_state
     \/ /\ current_state' = {al}
        /\ CASE al = Al(Goal(stage)) -> Proceed({al})
             [] al # Al(Goal(stage)) /\ SameState ->
                  At("read_code", stage, {}, caller, "change", 0) /\ UNCHANGED Flags
             [] OTHER ->
                  IF TimedOut(Goal(stage))
                    THEN ConfigReturns(FALSE)
                    ELSE At("poll", stage, {al}, caller, "scan", elapsed)
                         /\ UNCHANGED Flags
  /\ UNCHANGED <<othersOfThread, control, registers>>

\* ec_slave_state_clear_ack_error fails: so does the configuration that called it;
\* the look at the slaves goes on.
AckFails == IF acknowledging = "change" THEN ConfigReturns(FALSE) ELSE NextRound

ReadCode ==
  /\ pc = "read_code"
  /\ \/ At("ack", stage, {}, caller, acknowledging, 0) /\ UNCHANGED Flags
     \/ ~calm /\ AckFails
  /\ UNCHANGED <<othersOfThread, current_state, control, registers>>

\* The status that was read is written back, error bit and all.
AckWrite ==
  /\ pc = "ack"
  /\ \E a \in Access, s \in current_state :
       /\ Control(s.state, s.error, a)
       /\ IF a.answered
            THEN At("ack_poll", stage, {}, caller, acknowledging, 0) /\ UNCHANGED Flags
            ELSE AckFails
  /\ UNCHANGED <<othersOfThread, current_state, registers>>

\* Without the error, a slave that is in the state requested of it, which need not be
\* the one a change was to reach, has been acknowledged with success.
AckPoll ==
  LET to == IF acknowledging = "change" THEN Goal(stage) ELSE requested_state
  IN /\ pc = "ack_poll"
     /\ \/ ~calm /\ AckFails /\ UNCHANGED current_state
        \/ /\ current_state' = {al}
           /\ CASE al = Al(requested_state) /\ acknowledging = "change" -> Proceed({al})
                [] al = Al(requested_state) /\ acknowledging = "scan" ->
                     IF force_update THEN BeginConfig("scan") /\ UNCHANGED Flags
                                     ELSE NextRound
                [] al # Al(requested_state) /\ ~al.error -> AckFails
                [] OTHER -> IF TimedOut(to) THEN AckFails ELSE Stay
     /\ UNCHANGED <<othersOfThread, control, registers>>

-----------------------------------------------------------------------------
(***************************************************************************)
(* The scan thread's round: the broadcast, a rescan, and the look at the   *)
(* state of the slave (ec_slaves_scanning, ec_master_scan_slaves_state).   *)
(***************************************************************************)
\* With scan_lock, which it keeps up to the end of the configuration, a rescan forgets
\* the slave and configures it anew, after a stop that does not wait for PREOP.
ScanAnew ==
  /\ cycle' = "stopped"
  /\ rescan_request' = FALSE
  /\ scan_done' = FALSE
  /\ slave_count' = 1
  /\ requested_state' = "PREOP"
  /\ force_update' = FALSE
  /\ current_state' = {}
  /\ assigned' = FALSE
  /\ BeginConfig("rescan")

Broadcast ==
  /\ pc = "broadcast"
  /\ ~rescan_request
  /\ slaves_preop' = (al.state = "PREOP")
  /\ At(IF scan_done THEN "look" ELSE "broadcast", "init", {}, "scan", "scan", 0)
  /\ UNCHANGED <<userVars, current_state, scan_done, scanVars, slaveVars,
                 calm>>

\* The shell has asked for a rescan, or another count of answers than before does.  A
\* stop that waits has scan_lock, and the scan thread waits for the lock.
BroadcastRescans ==
  /\ pc = "broadcast"
  /\ rescan_request \/ ~calm
  /\ slaves_preop' = (al.state = "PREOP")
  /\ \/ cycle # "stopping" /\ ScanAnew
     \/ /\ cycle = "stopping"
        /\ rescan_request' = TRUE
        /\ At("scan_lock", "init", {}, "scan", "scan", 0)
        /\ UNCHANGED <<userVars, current_state, scan_done, slave_count>>
  /\ UNCHANGED <<slaveVars, calm>>

Rescan ==
  /\ pc = "scan_lock"
  /\ cycle # "stopping"
  /\ ScanAnew
  /\ UNCHANGED <<slaves_preop, slaveVars, calm>>

\* Mutant: only a forced update configures the slave.
LookOnlyForced ==
  /\ pc = "look"
  /\ current_state' = {al}
  /\ CASE al.error -> At("read_code", "init", {}, "scan", "scan", 0)
       [] ~al.error /\ force_update -> BeginConfig("scan")
       [] OTHER -> At("broadcast", "init", {}, "scan", "scan", 0)
  /\ UNCHANGED <<othersOfThread, Flags, control, registers>>

\* An error is acknowledged first; when it is gone, the slave is configured.
Look ==
  /\ pc = "look"
  /\ current_state' = {al}
  /\ CASE al.error -> At("read_code", "init", {}, "scan", "scan", 0)
       [] ~al.error /\ (force_update \/ al # Al(requested_state)) -> BeginConfig("scan")
       [] OTHER -> At("broadcast", "init", {}, "scan", "scan", 0)
  /\ UNCHANGED <<othersOfThread, Flags, control, registers>>

LookFails ==
  /\ pc = "look"
  /\ ~calm
  /\ NextRound
  /\ UNCHANGED <<othersOfThread, current_state, control, registers>>

ScanThread ==
  \/ LookFails \/ Look
  \/ ChangeWrite \/ ChangePoll
  \/ ReadCode \/ AckWrite \/ AckPoll
  \/ ConfigWrite \/ ConfigSync

ScanRound == Broadcast \/ BroadcastRescans \/ Rescan

-----------------------------------------------------------------------------
(***************************************************************************)
(* Start, stop, the shell and the application.                             *)
(***************************************************************************)
\* The application assigns a configuration while the slave is not being configured.
AssignConfig ==
  /\ pc \in {"broadcast", "scan_lock"} /\ scan_done
  /\ ~assigned /\ ~calm
  /\ assigned' = TRUE
  /\ UNCHANGED <<requested_state, force_update, cycle, viewVars, scanVars, threadVars,
                 slaveVars, calm>>

\* What start and stop write to every slave.
Ask(s) ==
  /\ requested_state' = s
  /\ force_update' = TRUE

\* A slave without config is an assertion.  A scan thread that waits for scan_lock gets
\* it first.
Start ==
  /\ cycle = "stopped" /\ pc # "scan_lock"
  /\ scan_done /\ assigned /\ ~calm
  /\ Ask("OP")
  /\ cycle' = "started"
  /\ UNCHANGED <<assigned, current_state, slaves_preop, scan_done, scanVars, threadVars,
                 slaveVars, calm>>

\* It waits for PREOP, with scan_lock, unless a rescan has been asked for.
Stop ==
  /\ cycle = "started"
  /\ ~calm
  /\ Ask("PREOP")
  /\ cycle' = IF rescan_request THEN "stopped" ELSE "stopping"
  /\ UNCHANGED <<assigned, current_state, slaves_preop, scan_done, scanVars, threadVars,
                 slaveVars, calm>>

\* The stop returns on the state the last broadcast read, however old.
StopReturns ==
  /\ cycle = "stopping"
  /\ slaves_preop
  /\ cycle' = "stopped"
  /\ UNCHANGED <<requested_state, force_update, assigned, viewVars, scanVars, threadVars,
                 slaveVars, calm>>

\* The shell tests only that there is a slave: a scan may be under way.
ec_cmd_slave_state_request(s) ==
  /\ slave_count # 0 /\ ~calm
  /\ requested_state' = s
  /\ UNCHANGED <<force_update, assigned, cycle, viewVars, scanVars, threadVars,
                 slaveVars, calm>>

ec_cmd_rescan ==
  /\ ~calm
  /\ rescan_request' = TRUE
  /\ UNCHANGED <<userVars, viewVars, slave_count, threadVars, slaveVars, calm>>

Users ==
  \/ AssignConfig \/ Start \/ Stop
  \/ \E s \in Requests : ec_cmd_slave_state_request(s)
  \/ ec_cmd_rescan

-----------------------------------------------------------------------------
(***************************************************************************)
(* The slave, and time.                                                    *)
(***************************************************************************)
Successors(s) ==
  CASE s = "INIT" -> {"INIT", "PREOP", "BOOT"}
    [] s = "PREOP" -> {"INIT", "PREOP", "SAFEOP"}
    [] s = "BOOT" -> {"INIT", "BOOT"}
    [] s \in {"SAFEOP", "OP"} -> {"INIT", "PREOP", "SAFEOP", "OP"}

\* With an error a slave obeys only an acknowledge and the way back to INIT.
Obeys(c) == ~al.error \/ c.ack \/ c.state = "INIT"

SlaveObeys ==
  /\ \E c \in control : /\ Obeys(c)
                        /\ c.state \in Successors(al.state)
                        /\ al' = Al(c.state)
  /\ control' = {}
  /\ UNCHANGED <<ability, registers>>

SlaveRefuses ==
  /\ \E c \in control : /\ Obeys(c)
                        /\ c.state # "INIT"
                        /\ calm => c.state \notin Successors(al.state)
  /\ al' = [al EXCEPT !.error = TRUE]
  /\ control' = {}
  /\ UNCHANGED <<ability, registers>>

SlaveIgnores ==
  /\ \E c \in control : ~Obeys(c)
  /\ control' = {}
  /\ UNCHANGED <<ability, al, registers>>

\* A watchdog, a lost synchronisation or a changed sync manager.
SlaveFalls ==
  /\ ~calm
  /\ al' = [state |-> IF al.state = "OP" THEN "SAFEOP" ELSE al.state, error |-> TRUE]
  /\ UNCHANGED <<ability, control, registers>>

SlaveAnswers == SlaveObeys \/ SlaveRefuses \/ SlaveIgnores

Slave ==
  /\ SlaveAnswers \/ SlaveFalls
  /\ UNCHANGED <<userVars, viewVars, scanVars, threadVars, calm>>

\* Time matters to the polls only.  In a calm bus a slave answers in time.
Tick ==
  /\ pc \in {"poll", "ack_poll"}
  /\ calm => control = {}
  /\ elapsed < 4
  /\ elapsed' = elapsed + 1
  /\ UNCHANGED <<userVars, viewVars, scanVars, pc, stage, old_state, caller,
                 acknowledging, slaveVars, calm>>

CalmDown ==
  /\ ~calm
  /\ calm' = TRUE
  /\ UNCHANGED <<userVars, viewVars, scanVars, threadVars, slaveVars>>

Next ==
  \/ ScanThread \/ ScanRound
  \/ Users \/ StopReturns
  \/ Slave \/ Tick \/ CalmDown

Spec == Init /\ [][Next]_vars

Fairness ==
  /\ WF_vars(ScanThread \/ ScanRound)
  /\ WF_vars(SlaveAnswers /\ UNCHANGED <<userVars, viewVars, scanVars, threadVars, calm>>)
  /\ WF_vars(Tick)
  /\ WF_vars(StopReturns)

FairSpec == Spec /\ Fairness

-----------------------------------------------------------------------------
\* The values of the variables (ec_slave_t, ec_def.h:113-127).
TypeOK ==
  /\ requested_state \in States
  /\ force_update \in BOOLEAN
  /\ current_state \in {{}} \cup {{s} : s \in Statuses}
  /\ slaves_preop \in BOOLEAN
  /\ scan_done \in BOOLEAN
  /\ rescan_request \in BOOLEAN
  /\ slave_count \in {0, 1}
  /\ assigned \in BOOLEAN
  /\ cycle \in {"stopped", "started", "stopping"}
  /\ pc \in {"broadcast", "scan_lock", "look", "change", "poll", "read_code", "ack",
             "ack_poll", "write"}
  /\ stage \in Stages
  /\ pc \in {"change", "poll", "read_code", "ack", "ack_poll"} => stage \in ChangeStages
  /\ pc = "write" => stage \in WriteStages \cup {"dc_diff"}
  /\ old_state \in {{}} \cup {{s} : s \in Statuses}
  /\ caller \in {"rescan", "scan"}
  /\ acknowledging \in {"scan", "change"}
  /\ elapsed \in Nat
  /\ ability \in Features
  /\ al \in Statuses
  /\ control \in {{}} \cup {{c} : c \in [state : States, ack : BOOLEAN]}
  /\ registers \subseteq Settings
  /\ calm \in BOOLEAN

\* What must be in the slave before it is asked for a state: mailbox, process data
\* windows and clock, none of them lost to a write that failed, whatever is requested
\* and refused meanwhile.
Prepared(s) ==
  /\ s = "BOOT" => "boot_mailbox" \in registers
  /\ s \in {"PREOP", "SAFEOP", "OP"} /\ "coe" \in ability =>
       "mailbox" \in registers /\ "boot_mailbox" \notin registers
  /\ s \in {"SAFEOP", "OP"} /\ assigned =>
       /\ {"sm", "fmmu"} \subseteq registers
       /\ {"coe", "pdo_assign"} \subseteq ability => "pdo" \in registers
       /\ "dc" \in ability => "sync" \in registers

\* A slave is asked for a state only when all it needs there has been configured since
\* it was last in INIT (ec_slave_config).  Acknowledging is not asking.
AskedWhenPrepared ==
  [][\A s \in States :
       control' # control /\ control' = {[state |-> s, ack |-> FALSE]} /\ pc = "change"
         => Prepared(s)]_vars

\* However the slave behaves, and whatever is lost, the scan thread comes back to its
\* round: every wait for a state, an acknowledge or a clock ends (ec_slave.c:309-337,
\* 369-401, 724-743).
ConfigEnds == pc \notin {"broadcast", "scan_lock"} ~> pc = "broadcast"

\* A stop waits for PREOP with scan_lock and a rescan has been asked for: the scan
\* thread waits for the lock, at once or from its next round on, and brings no slave to
\* PREOP any more (ec_master.c:598-611, ec_slave.c:1027).
RescanBehindStop == cycle = "stopping" /\ rescan_request

\* Once nothing is lost and nobody interferes, a slave that was scanned goes to the
\* state requested last, without an error, and stays there, whatever happened to it,
\* and to force_update before, and whether or not a rescan is still to come
\* (ec_slave.c:912-953, 1021-1065); but for a rescan behind a stop that waits.
Attainable == requested_state = "BOOT" => "foe" \in ability
Converges ==
  (calm /\ scan_done /\ Attainable /\ ~RescanBehindStop)
    ~> [](al = Al(requested_state))

\* ... and a stop that waits for PREOP returns (ec_master.c:598-611), when no rescan is
\* behind it.
StopEnds ==
  (calm /\ cycle = "stopping" /\ requested_state = "PREOP" /\ ~RescanBehindStop)
    ~> cycle = "stopped"
=============================================================================
