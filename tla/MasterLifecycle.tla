-------------------------- MODULE MasterLifecycle --------------------------
(***************************************************************************)
(* Starting, stopping and scanning: ec_master_start and ec_master_stop,    *)
(* called by application threads, the bus scan thread, which also calls    *)
(* ec_master_stop, and the nonperiod thread, which a start suspends and a  *)
(* stop resumes (ec_master.c, ec_slave.c).                                 *)
(*                                                                         *)
(* A thread runs from one blocking call (lock, sleep, bus request) or one  *)
(* read of a flag that another thread writes without a lock to the next in *)
(* one step.  The nonperiod thread has the highest priority: no thread     *)
(* runs between two of its statements.  One netdev, EC_NETDEV_MAIN, as in  *)
(* every demo.                                                             *)
(***************************************************************************)
EXTENDS Integers, FiniteSets

CONSTANTS
  Users,    \* application threads that start, stop and rescan
  Scan,     \* the scan thread
  Nobody,   \* the owner of a free lock
  MaxSlaves \* bound on the slaves connected to the bus

Threads == Users \cup {Scan}
Positions == 1 .. MaxSlaves

ASSUME ThreadAssumption ==
  /\ Scan \notin Users
  /\ Nobody \notin Threads
  /\ MaxSlaves \in Nat

VARIABLES
  started, scan_done, rescan_request, phase,
  nonperiod_suspend,
  nonperiod_thread,       \* "running" or "suspended"
  timer,                  \* the cycle timer runs
  scan_lock,              \* the thread that holds it
  link_up,                \* netdev->link_state
  link_state,             \* the link state the scan thread saw last
  slaves_working_counter, \* the slaves that answered the last broadcast
  slaves_state,           \* the AL states they answered with
  slave_count,
  requested_state,        \* of every slave: all are requested alike
  force_update,           \* positions whose configuration is forced
  connected,              \* slaves on the bus, at the positions 1 .. connected
  al_state,               \* position |-> the AL state of the slave there
  pc,
  back,                   \* where a thread goes on after ec_master_stop
  cursor                  \* the slave the scan thread looks at

masterVars == <<started, scan_done, rescan_request, phase>>
senderVars == <<nonperiod_suspend, nonperiod_thread, timer>>
seenVars == <<link_state, slaves_working_counter, slaves_state>>
slaveVars == <<slave_count, requested_state, force_update>>
busVars == <<link_up, connected, al_state>>
vars == <<masterVars, senderVars, scan_lock, seenVars, slaveVars, busVars, pc, back,
          cursor>>

Init ==
  /\ started = FALSE
  /\ scan_done = FALSE
  /\ rescan_request = FALSE
  /\ phase = "IDLE"
  /\ nonperiod_suspend = FALSE
  /\ nonperiod_thread = "running"
  /\ timer = FALSE
  /\ scan_lock = Nobody
  /\ link_up = FALSE
  /\ link_state = FALSE
  /\ slaves_working_counter = 0
  /\ slaves_state = {}
  /\ slave_count = 0
  /\ requested_state = "PREOP"
  /\ force_update = {}
  /\ connected = 0
  /\ al_state = [i \in Positions |-> "INIT"]
  /\ pc = [p \in Threads |-> IF p = Scan THEN "link" ELSE "idle"]
  /\ back = [p \in Threads |-> "idle"]
  /\ cursor = 0

Goto(p, l) == pc' = [pc EXCEPT ![p] = l]
Take(p) == scan_lock = Nobody /\ scan_lock' = p
Give(p) == scan_lock = p /\ scan_lock' = Nobody

-----------------------------------------------------------------------------
(***************************************************************************)
(* ec_master_start.                                                        *)
(***************************************************************************)
CallStart(u) ==
  /\ pc[u] = "idle"
  /\ ~started
  /\ Goto(u, "start_scan")
  /\ UNCHANGED <<masterVars, senderVars, scan_lock, seenVars, slaveVars, busVars,
                 back, cursor>>

\* The wait for the scan does not hold the lock.
StartSeesScan(u) ==
  /\ pc[u] = "start_scan"
  /\ scan_done
  /\ Goto(u, "start_lock")
  /\ UNCHANGED <<masterVars, senderVars, scan_lock, seenVars, slaveVars, busVars,
                 back, cursor>>

\* Mutant: a thread that is suspended already is not asked to suspend.
StartLockAsksOnce(u) ==
  /\ pc[u] = "start_lock"
  /\ Take(u)
  /\ phase' = "OPERATION"
  /\ nonperiod_suspend' = (nonperiod_thread = "running")
  /\ Goto(u, "start_suspend")
  /\ UNCHANGED <<started, scan_done, rescan_request, nonperiod_thread, timer,
                 seenVars, slaveVars, busVars, back, cursor>>

StartLock(u) ==
  /\ pc[u] = "start_lock"
  /\ Take(u)
  /\ phase' = "OPERATION"
  /\ nonperiod_suspend' = TRUE
  /\ Goto(u, "start_suspend")
  /\ UNCHANGED <<started, scan_done, rescan_request, nonperiod_thread, timer,
                 seenVars, slaveVars, busVars, back, cursor>>

\* Mutant: the start does not wait for the nonperiod thread.
StartTimerAtOnce(u) ==
  /\ pc[u] = "start_suspend"
  /\ timer' = TRUE
  /\ Goto(u, "start_request")
  /\ UNCHANGED <<masterVars, nonperiod_suspend, nonperiod_thread, scan_lock, seenVars,
                 slaveVars, busVars, back, cursor>>

\* The nonperiod thread has gone; the PDO layout is computed and the timer started.
StartTimer(u) ==
  /\ pc[u] = "start_suspend"
  /\ ~nonperiod_suspend
  /\ timer' = TRUE
  /\ Goto(u, "start_request")
  /\ UNCHANGED <<masterVars, nonperiod_suspend, nonperiod_thread, scan_lock, seenVars,
                 slaveVars, busVars, back, cursor>>

StartRequest(u) ==
  /\ pc[u] = "start_request"
  /\ requested_state' = "OP"
  /\ force_update' = 1 .. slave_count
  /\ started' = TRUE
  /\ Give(u)
  /\ Goto(u, "idle")
  /\ UNCHANGED <<scan_done, rescan_request, phase, senderVars, seenVars, slave_count,
                 busVars, back, cursor>>

-----------------------------------------------------------------------------
(***************************************************************************)
(* ec_master_stop, by an application thread or by the scan thread.         *)
(***************************************************************************)
CallStop(u) ==
  /\ pc[u] = "idle"
  /\ started
  /\ back' = [back EXCEPT ![u] = "idle"]
  /\ Goto(u, "stop_lock")
  /\ UNCHANGED <<masterVars, senderVars, scan_lock, seenVars, slaveVars, busVars,
                 cursor>>

\* The scan thread reads `started` some time after it decided to stop.
ScanCallsStop ==
  /\ pc[Scan] = "stop"
  /\ Goto(Scan, IF started THEN "stop_lock" ELSE back[Scan])
  /\ UNCHANGED <<masterVars, senderVars, scan_lock, seenVars, slaveVars, busVars,
                 back, cursor>>

StopLock(p) ==
  /\ pc[p] = "stop_lock"
  /\ Take(p)
  /\ started' = FALSE
  /\ requested_state' = "PREOP"
  /\ force_update' = 1 .. slave_count
  /\ Goto(p, IF rescan_request THEN "stop_timer" ELSE "stop_wait")
  /\ UNCHANGED <<scan_done, rescan_request, phase, senderVars, seenVars, slave_count,
                 busVars, back, cursor>>

\* The wait for the slaves holds the lock.
StopSeesPreop(p) ==
  /\ pc[p] = "stop_wait"
  /\ ~link_up \/ slaves_state = {"PREOP"}
  /\ Goto(p, "stop_timer")
  /\ UNCHANGED <<masterVars, senderVars, scan_lock, seenVars, slaveVars, busVars,
                 back, cursor>>

\* Mutants: the nonperiod thread is not resumed; the phase is not reset.
EnterIdleNoResume ==
  /\ phase' = "IDLE"
  /\ nonperiod_suspend' = FALSE
  /\ UNCHANGED nonperiod_thread

EnterIdleKeepsPhase ==
  /\ UNCHANGED phase
  /\ nonperiod_suspend' = FALSE
  /\ nonperiod_thread' = "running"

ec_master_enter_idle ==
  /\ phase' = "IDLE"
  /\ nonperiod_suspend' = FALSE
  /\ nonperiod_thread' = "running"

StopTimer(p) ==
  /\ pc[p] = "stop_timer"
  /\ timer' = FALSE
  /\ ec_master_enter_idle
  /\ Give(p)
  /\ Goto(p, back[p])
  /\ UNCHANGED <<started, scan_done, rescan_request, seenVars, slaveVars, busVars,
                 back, cursor>>

\* The shell command "rescan".
Rescan(u) ==
  /\ pc[u] = "idle"
  /\ rescan_request' = TRUE
  /\ UNCHANGED <<started, scan_done, phase, senderVars, scan_lock, seenVars, slaveVars,
                 busVars, pc, back, cursor>>

\* Mutant: the thread goes without a word.
NonperiodSuspendsSilently ==
  /\ nonperiod_thread = "running"
  /\ nonperiod_suspend
  /\ nonperiod_thread' = "suspended"
  /\ UNCHANGED <<masterVars, nonperiod_suspend, timer, scan_lock, seenVars, slaveVars,
                 busVars, pc, back, cursor>>

\* The nonperiod thread obeys the request to suspend after it has sent.
NonperiodSuspends ==
  /\ nonperiod_thread = "running"
  /\ nonperiod_suspend
  /\ nonperiod_suspend' = FALSE
  /\ nonperiod_thread' = "suspended"
  /\ UNCHANGED <<masterVars, timer, scan_lock, seenVars, slaveVars, busVars, pc, back,
                 cursor>>

-----------------------------------------------------------------------------
(***************************************************************************)
(* The scan thread: ec_slaves_scanning, over and over.  Its requests are   *)
(* answered, or time out, only while something sends.                      *)
(***************************************************************************)
Sending == nonperiod_thread = "running" \/ timer

\* A link that went down stops the master first.
CheckLink ==
  LET down == link_state /\ ~link_up
  IN /\ pc[Scan] = "link"
     /\ link_state' = IF down THEN link_state ELSE link_up
     /\ back' = IF down THEN [back EXCEPT ![Scan] = "link_down"] ELSE back
     /\ Goto(Scan, IF down THEN "stop" ELSE "broadcast")
     /\ UNCHANGED <<masterVars, senderVars, scan_lock, slaves_working_counter,
                    slaves_state, slaveVars, busVars, cursor>>

LinkDown ==
  /\ pc[Scan] = "link_down"
  /\ scan_lock = Nobody
  /\ slave_count' = 0
  /\ force_update' = {}
  /\ slaves_state' = {}
  /\ slaves_working_counter' = 0
  /\ scan_done' = FALSE
  /\ link_state' = link_up
  /\ Goto(Scan, "broadcast")
  /\ UNCHANGED <<started, rescan_request, phase, senderVars, scan_lock,
                 requested_state, busVars, back, cursor>>

\* The broadcast read is lost, the link is down, or no slave answers (-EC_ERR_WC).
BroadcastFails ==
  /\ pc[Scan] = "broadcast"
  /\ Sending
  /\ Goto(Scan, "link")
  /\ UNCHANGED <<masterVars, senderVars, scan_lock, seenVars, slaveVars, busVars,
                 back, cursor>>

\* Mutant: a slave that is gone is not noticed.
BusGrew == connected > slaves_working_counter

\* Another number of slaves has answered than the last time.
BusChanged == connected # slaves_working_counter

\* From the slaves on, or straight back to the link if there are none to look at.
Broadcast ==
  /\ pc[Scan] = "broadcast"
  /\ Sending
  /\ link_up /\ connected > 0
  /\ rescan_request' = (rescan_request \/ BusChanged)
  /\ slaves_working_counter' = connected
  /\ slaves_state' = {al_state[i] : i \in 1 .. connected}
  /\ back' = [back EXCEPT ![Scan] = "rescan"]
  /\ cursor' = 1
  /\ Goto(Scan, CASE rescan_request' -> "stop"
                  [] ~rescan_request' /\ slave_count > 0 /\ scan_done -> "slave"
                  [] OTHER -> "link")
  /\ UNCHANGED <<started, scan_done, phase, senderVars, scan_lock, link_state,
                 slaveVars, busVars>>

RescanLock ==
  /\ pc[Scan] = "rescan"
  /\ Take(Scan)
  /\ rescan_request' = FALSE
  /\ scan_done' = FALSE
  /\ slave_count' = slaves_working_counter
  /\ requested_state' = "PREOP"
  /\ force_update' = {}
  /\ Goto(Scan, "scan")
  /\ UNCHANGED <<started, phase, senderVars, seenVars, busVars, back, cursor>>

\* No memory for the slaves: the bus stays unscanned.
RescanNoMemory ==
  /\ pc[Scan] = "rescan"
  /\ scan_lock = Nobody
  /\ rescan_request' = FALSE
  /\ scan_done' = FALSE
  /\ slave_count' = 0
  /\ force_update' = {}
  /\ Goto(Scan, "link")
  /\ UNCHANGED <<started, phase, senderVars, scan_lock, seenVars, requested_state,
                 busVars, back, cursor>>

\* One of the many requests of a scan fails; the slaves stay where they are.
ScanFails ==
  /\ pc[Scan] = "scan"
  /\ Sending
  /\ \E al \in [1 .. connected -> {"INIT", "PREOP"}] :
       al_state' = [i \in Positions |-> IF i <= connected THEN al[i] ELSE al_state[i]]
  /\ Give(Scan)
  /\ Goto(Scan, "link")
  /\ UNCHANGED <<masterVars, senderVars, seenVars, slaveVars, link_up, connected,
                 back, cursor>>

ScanSucceeds ==
  /\ pc[Scan] = "scan"
  /\ Sending
  /\ link_up /\ slave_count <= connected
  /\ al_state' = [i \in Positions |-> IF i <= slave_count THEN "PREOP" ELSE al_state[i]]
  /\ scan_done' = TRUE
  /\ cursor' = 1
  /\ Give(Scan)
  /\ Goto(Scan, "slave")
  /\ UNCHANGED <<started, rescan_request, phase, senderVars, seenVars, slaveVars,
                 link_up, connected, back>>

-----------------------------------------------------------------------------
(***************************************************************************)
(* ec_master_scan_slaves_state: one slave after the other is read and,     *)
(* where it is not in the requested state, configured; without the lock.   *)
(***************************************************************************)
\* Mutant: one slave too many.
NextSlavePastEnd ==
  /\ cursor' = cursor + 1
  /\ Goto(Scan, IF cursor <= slave_count THEN "slave" ELSE "link")

NextSlave ==
  /\ cursor' = cursor + 1
  /\ Goto(Scan, IF cursor < slave_count THEN "slave" ELSE "link")

\* The read fails, or the slave reports an error that it was asked to clear.
SkipSlave ==
  /\ pc[Scan] = "slave"
  /\ Sending
  /\ NextSlave
  /\ UNCHANGED <<masterVars, senderVars, scan_lock, seenVars, slaveVars, busVars, back>>

ReadSlave ==
  /\ pc[Scan] = "slave"
  /\ Sending
  /\ link_up /\ cursor <= connected
  /\ IF al_state[cursor] # requested_state \/ cursor \in force_update
     THEN Goto(Scan, "config") /\ UNCHANGED cursor
     ELSE NextSlave
  /\ UNCHANGED <<masterVars, senderVars, scan_lock, seenVars, slaveVars, busVars, back>>

\* ec_slave_config goes through INIT to PREOP and reads requested_state there.
ConfigPreop ==
  /\ pc[Scan] = "config"
  /\ Sending
  /\ link_up /\ cursor <= connected
  /\ al_state' = [al_state EXCEPT ![cursor] = "PREOP"]
  /\ Goto(Scan, "config_op")
  /\ UNCHANGED <<masterVars, senderVars, scan_lock, seenVars, slaveVars, link_up,
                 connected, back, cursor>>

ConfigEnds ==
  /\ force_update' = force_update \ {cursor}
  /\ NextSlave
  /\ UNCHANGED <<masterVars, senderVars, scan_lock, seenVars, slave_count,
                 requested_state, link_up, connected, back>>

ConfigFails ==
  /\ pc[Scan] = "config"
  /\ Sending
  /\ \E al \in {al_state[cursor], "INIT"} : al_state' = [al_state EXCEPT ![cursor] = al]
  /\ ConfigEnds

ConfigStaysPreop ==
  /\ pc[Scan] = "config_op"
  /\ requested_state = "PREOP"
  /\ UNCHANGED al_state
  /\ ConfigEnds

ConfigOp ==
  /\ pc[Scan] = "config_op"
  /\ Sending
  /\ requested_state = "OP"
  /\ \/ UNCHANGED al_state
     \/ /\ link_up /\ cursor <= connected
        /\ \E al \in {"SAFEOP", "OP"} : al_state' = [al_state EXCEPT ![cursor] = al]
  /\ ConfigEnds

-----------------------------------------------------------------------------
\* What the link timer reports; the slaves keep their state.
LinkChange ==
  /\ link_up' = ~link_up
  /\ UNCHANGED <<masterVars, senderVars, scan_lock, seenVars, slaveVars, connected,
                 al_state, pc, back, cursor>>

\* Slaves are plugged in or unplugged at the end of the line.
Connect(n) ==
  /\ n # connected
  /\ connected' = n
  /\ al_state' = [i \in Positions |-> IF i <= n /\ i <= connected THEN al_state[i]
                                     ELSE "INIT"]
  /\ UNCHANGED <<masterVars, senderVars, scan_lock, seenVars, slaveVars, link_up,
                 pc, back, cursor>>

ScanThread ==
  \/ ScanCallsStop \/ StopLock(Scan) \/ StopSeesPreop(Scan) \/ StopTimer(Scan)
  \/ CheckLink \/ LinkDown \/ BroadcastFails \/ Broadcast
  \/ RescanLock \/ RescanNoMemory \/ ScanFails \/ ScanSucceeds
  \/ SkipSlave \/ ReadSlave
  \/ ConfigPreop \/ ConfigFails \/ ConfigStaysPreop \/ ConfigOp

\* What a thread that has entered start or stop does next.
Proceed(u) ==
  \/ StartSeesScan(u) \/ StartLock(u) \/ StartTimer(u) \/ StartRequest(u)
  \/ StopLock(u) \/ StopSeesPreop(u) \/ StopTimer(u)

Next ==
  \/ \E u \in Users : CallStart(u) \/ CallStop(u) \/ Rescan(u) \/ Proceed(u)
  \/ NonperiodSuspends
  \/ ScanThread
  \/ LinkChange
  \/ \E n \in 0 .. MaxSlaves : Connect(n)

(***************************************************************************)
(* The threads are scheduled.  What the threads wait for is not: nothing   *)
(* is assumed of the link, the slaves and the answers.                     *)
(***************************************************************************)
Fairness ==
  /\ WF_vars(ScanThread)
  /\ WF_vars(NonperiodSuspends)
  /\ \A u \in Users : WF_vars(Proceed(u))

Spec == Init /\ [][Next]_vars
FairSpec == Spec /\ Fairness

-----------------------------------------------------------------------------
(***************************************************************************)
(* Properties.                                                             *)
(***************************************************************************)
AlStates == {"INIT", "PREOP", "SAFEOP", "OP"}
StopLabels == {"stop_lock", "stop_wait", "stop_timer"}
UserLabels ==
  {"idle", "start_scan", "start_lock", "start_suspend", "start_request"} \cup StopLabels
ScanLabels ==
  {"link", "stop", "link_down", "broadcast", "rescan", "scan", "slave", "config",
   "config_op"} \cup StopLabels

Labels(p) == IF p = Scan THEN ScanLabels ELSE UserLabels
Returns(p) == IF p = Scan THEN {"idle", "link_down", "rescan"} ELSE {"idle"}

ControlOK ==
  /\ pc \in [Threads -> UserLabels \cup ScanLabels]
  /\ \A p \in Threads : pc[p] \in Labels(p)
  /\ back \in [Threads -> {"idle", "link_down", "rescan"}]
  /\ \A p \in Threads : back[p] \in Returns(p)
  /\ pc[Scan] \in {"stop"} \cup StopLabels => back[Scan] # "idle"

DataOK ==
  /\ started \in BOOLEAN
  /\ scan_done \in BOOLEAN
  /\ rescan_request \in BOOLEAN
  /\ phase \in {"IDLE", "OPERATION"}
  /\ nonperiod_suspend \in BOOLEAN
  /\ nonperiod_thread \in {"running", "suspended"}
  /\ timer \in BOOLEAN
  /\ scan_lock \in Threads \cup {Nobody}
  /\ link_up \in BOOLEAN
  /\ link_state \in BOOLEAN
  /\ slaves_working_counter \in 0 .. MaxSlaves
  /\ slaves_state \subseteq AlStates
  /\ slave_count \in 0 .. MaxSlaves
  /\ requested_state \in {"PREOP", "OP"}
  /\ force_update \subseteq Positions
  /\ connected \in 0 .. MaxSlaves
  /\ al_state \in [Positions -> AlStates]
  /\ cursor \in 0 .. MaxSlaves + 1

TypeOK == ControlOK /\ DataOK

(***************************************************************************)
(* The interrupt and the nonperiod thread never both send: whenever the    *)
(* cycle timer runs the nonperiod thread is suspended, whichever threads   *)
(* start and stop the master, and however their calls overlap.             *)
(***************************************************************************)
OneSender == timer => nonperiod_thread = "suspended"

(***************************************************************************)
(* A start initialises the list node of the PDO datagram, which the timer  *)
(* may have queued: no start gets past its wait while the timer runs.      *)
(* `started` does not see to that, for it is read before the lock is taken *)
(* and two threads may both find it FALSE.                                 *)
(***************************************************************************)
TimerStartsOnce ==
  \A u \in Users : pc[u] = "start_suspend" /\ ~nonperiod_suspend => ~timer

(***************************************************************************)
(* Nor do they both rest, except inside a start: a datagram queued at any  *)
(* other time is sent, and its owner woken.                                *)
(***************************************************************************)
SomeSender ==
  ~Sending => \E u \in Users : scan_lock = u /\ pc[u] = "start_suspend"

(***************************************************************************)
(* Whenever no thread holds the lock, the flag that callers test, the      *)
(* timer, and the phase that the receive interrupt tests agree.            *)
(***************************************************************************)
Settled ==
  scan_lock = Nobody => (started <=> timer) /\ (timer <=> phase = "OPERATION")

(***************************************************************************)
(* A change of the number of slaves is not forgotten: the table of a       *)
(* scanned bus has as many slaves as last answered, or a rescan is asked   *)
(* for.                                                                    *)
(***************************************************************************)
TableMatchesBus ==
  scan_done => slave_count = slaves_working_counter \/ rescan_request

(***************************************************************************)
(* A start that has the lock gets through: the nonperiod thread answers    *)
(* its request to suspend.                                                 *)
(***************************************************************************)
StartProceeds == \A u \in Users : pc[u] = "start_suspend" ~> started

(***************************************************************************)
(* A scan ends and gives the lock back, whatever the bus does: there is    *)
(* always a sender that times its requests out.                            *)
(***************************************************************************)
ScanEnds == pc[Scan] = "scan" ~> scan_lock = Nobody

(***************************************************************************)
(* api.rst:39 says that a start waits, inside the call, for the scan of    *)
(* the slaves to be done: the cycle runs on a scanned bus only.            *)
(***************************************************************************)
StartAfterScan == timer => scan_done

(***************************************************************************)
(* api.rst:58 says that a stop takes the slaves back to PREOP: while it    *)
(* waits for that, the thread that does it is not waiting for the lock     *)
(* that the stop holds.                                                    *)
(***************************************************************************)
StopLetsScanRun ==
  \A u \in Users :
    pc[u] = "stop_wait" /\ link_up /\ slaves_state # {"PREOP"}
      => pc[Scan] \notin {"stop_lock", "link_down", "rescan"}
=============================================================================
