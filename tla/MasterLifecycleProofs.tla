----------------------- MODULE MasterLifecycleProofs -----------------------
(***************************************************************************)
(* Proofs about MasterLifecycle, for any number of threads that start and  *)
(* stop the master and any number of slaves.                               *)
(***************************************************************************)
EXTENDS MasterLifecycle, TLAPS

LEMMA ScanNotUser == Scan \in Threads /\ \A u \in Users : u \in Threads /\ u # Scan
BY ThreadAssumption DEF Threads

(***************************************************************************)
(* Control: a thread is at a label of its own, and a label only changes by *)
(* a step of its thread.                                                   *)
(***************************************************************************)
LEMMA GotoLabel ==
  ASSUME ControlOK, NEW p \in Threads, NEW l \in Labels(p), Goto(p, l),
         UNCHANGED back, p = Scan /\ l \in {"stop"} \cup StopLabels => back[Scan] # "idle"
  PROVE  /\ ControlOK'
         /\ pc'[p] = l
         /\ \A q \in Threads \ {p} : pc'[q] = pc[q]
<1>1. Labels(p) \subseteq UserLabels \cup ScanLabels
  BY DEF Labels
<1>2. pc' \in [Threads -> UserLabels \cup ScanLabels]
  BY <1>1 DEF ControlOK, Goto
<1>3. pc'[p] = l /\ \A q \in Threads \ {p} : pc'[q] = pc[q]
  BY DEF ControlOK, Goto
<1>4. \A q \in Threads : pc'[q] \in Labels(q)
  BY <1>3 DEF ControlOK
<1>5. pc'[Scan] \in {"stop"} \cup StopLabels => back'[Scan] # "idle"
  BY <1>3, ScanNotUser DEF ControlOK
<1>6. QED
  BY <1>2, <1>3, <1>4, <1>5 DEF ControlOK

LEMMA UserGoes ==
  ASSUME ControlOK, NEW u \in Users, NEW l \in UserLabels, Goto(u, l), UNCHANGED back
  PROVE  /\ ControlOK'
         /\ pc'[u] = l
         /\ \A q \in Threads \ {u} : pc'[q] = pc[q]
BY GotoLabel, ScanNotUser DEF Labels

LEMMA ScanGoes ==
  ASSUME ControlOK, NEW l \in ScanLabels, Goto(Scan, l), UNCHANGED back,
         l \in {"stop"} \cup StopLabels => back[Scan] # "idle"
  PROVE  /\ ControlOK'
         /\ pc'[Scan] = l
         /\ \A u \in Users : pc'[u] = pc[u]
BY GotoLabel, ScanNotUser DEF Labels

USE DEF masterVars, senderVars, seenVars, slaveVars, busVars

LEMMA ControlInit == Init => ControlOK
BY ScanNotUser DEF Init, ControlOK, Labels, Returns, UserLabels, ScanLabels, StopLabels

LEMMA ControlUnchanged == ControlOK /\ UNCHANGED <<pc, back>> => ControlOK'
BY DEF ControlOK

LEMMA ControlUser ==
  ASSUME ControlOK, NEW u \in Users,
         CallStart(u) \/ CallStop(u) \/ Rescan(u) \/ Proceed(u)
  PROVE  ControlOK'
<1>1. CASE CallStart(u)
  BY <1>1, UserGoes DEF CallStart, UserLabels
<1>2. CASE CallStop(u)
  <2>1. back' = [back EXCEPT ![u] = "idle"] /\ pc' = [pc EXCEPT ![u] = "stop_lock"]
    BY <1>2 DEF CallStop, Goto
  <2>2. u \in Threads /\ u # Scan /\ Scan \in Threads
    BY ScanNotUser
  <2>3. pc' \in [Threads -> UserLabels \cup ScanLabels]
        /\ \A q \in Threads : pc'[q] \in Labels(q)
    BY <2>1, <2>2 DEF ControlOK, Labels, UserLabels, StopLabels
  <2>4. back' \in [Threads -> {"idle", "link_down", "rescan"}]
        /\ \A q \in Threads : back'[q] \in Returns(q)
    BY <2>1, <2>2 DEF ControlOK, Returns
  <2>5. pc'[Scan] = pc[Scan] /\ back'[Scan] = back[Scan]
    BY <2>1, <2>2 DEF ControlOK
  <2>6. QED
    BY <2>3, <2>4, <2>5 DEF ControlOK
<1>3. CASE Rescan(u)
  BY <1>3, ControlUnchanged DEF Rescan
<1>4. CASE StartSeesScan(u)
  BY <1>4, UserGoes DEF StartSeesScan, UserLabels
<1>5. CASE StartLock(u)
  BY <1>5, UserGoes DEF StartLock, UserLabels
<1>6. CASE StartTimer(u)
  BY <1>6, UserGoes DEF StartTimer, UserLabels
<1>7. CASE StartRequest(u)
  BY <1>7, UserGoes DEF StartRequest, UserLabels
<1>8. CASE StopLock(u)
  BY <1>8, UserGoes DEF StopLock, UserLabels, StopLabels
<1>9. CASE StopSeesPreop(u)
  BY <1>9, UserGoes DEF StopSeesPreop, UserLabels, StopLabels
<1>10. CASE StopTimer(u)
  <2>1. back[u] = "idle"
    BY ScanNotUser DEF ControlOK, Returns
  <2>2. QED
    BY <1>10, <2>1, UserGoes DEF StopTimer, UserLabels
<1>11. QED
  BY <1>1, <1>2, <1>3, <1>4, <1>5, <1>6, <1>7, <1>8, <1>9, <1>10 DEF Proceed

LEMMA ScanTurns ==
  ASSUME ControlOK, NEW l \in ScanLabels, NEW b \in {"link_down", "rescan"},
         Goto(Scan, l), back' = [back EXCEPT ![Scan] = b]
  PROVE  /\ ControlOK'
         /\ pc'[Scan] = l
         /\ \A u \in Users : pc'[u] = pc[u]
<1>1. pc' = [pc EXCEPT ![Scan] = l]
  BY DEF Goto
<1>2. pc' \in [Threads -> UserLabels \cup ScanLabels]
      /\ \A q \in Threads : pc'[q] \in Labels(q)
  BY <1>1, ScanNotUser DEF ControlOK, Labels
<1>3. back' \in [Threads -> {"idle", "link_down", "rescan"}]
      /\ \A q \in Threads : back'[q] \in Returns(q)
  BY ScanNotUser DEF ControlOK, Returns
<1>4. back'[Scan] # "idle"
  BY ScanNotUser DEF ControlOK
<1>5. pc'[Scan] = l /\ \A u \in Users : pc'[u] = pc[u]
  BY <1>1, ScanNotUser DEF ControlOK
<1>6. QED
  BY <1>2, <1>3, <1>4, <1>5 DEF ControlOK

LEMMA ControlScan ==
  ASSUME ControlOK, ScanThread
  PROVE  ControlOK'
<1> USE DEF ScanLabels, StopLabels
<1>1. CASE ScanCallsStop
  BY <1>1, ScanGoes, ScanNotUser DEF ScanCallsStop, ControlOK, Returns
<1>2. CASE StopLock(Scan)
  BY <1>2, ScanGoes DEF StopLock, ControlOK
<1>3. CASE StopSeesPreop(Scan)
  BY <1>3, ScanGoes DEF StopSeesPreop, ControlOK
<1>4. CASE StopTimer(Scan)
  BY <1>4, ScanGoes, ScanNotUser DEF StopTimer, ControlOK, Returns
<1>5. CASE CheckLink
  <2>1. CASE link_state /\ ~link_up
    BY <1>5, <2>1, ScanTurns DEF CheckLink
  <2>2. CASE ~(link_state /\ ~link_up)
    BY <1>5, <2>2, ScanGoes DEF CheckLink
  <2>3. QED
    BY <2>1, <2>2
<1>6. CASE LinkDown
  BY <1>6, ScanGoes DEF LinkDown
<1>7. CASE BroadcastFails
  BY <1>7, ScanGoes DEF BroadcastFails
<1>8. CASE Broadcast
  <2>1. PICK l \in {"stop", "slave", "link"} : Goto(Scan, l)
    BY <1>8 DEF Broadcast
  <2>2. QED
    BY <1>8, <2>1, ScanTurns DEF Broadcast
<1>9. CASE RescanLock
  BY <1>9, ScanGoes DEF RescanLock
<1>10. CASE RescanNoMemory
  BY <1>10, ScanGoes DEF RescanNoMemory
<1>11. CASE ScanFails
  BY <1>11, ScanGoes DEF ScanFails
<1>12. CASE ScanSucceeds
  BY <1>12, ScanGoes DEF ScanSucceeds
<1>13. CASE SkipSlave
  BY <1>13, ScanGoes DEF SkipSlave, NextSlave
<1>14. CASE ReadSlave
  BY <1>14, ScanGoes DEF ReadSlave, NextSlave
<1>15. CASE ConfigPreop
  BY <1>15, ScanGoes DEF ConfigPreop
<1>16. CASE ConfigFails
  BY <1>16, ScanGoes DEF ConfigFails, ConfigEnds, NextSlave
<1>17. CASE ConfigStaysPreop
  BY <1>17, ScanGoes DEF ConfigStaysPreop, ConfigEnds, NextSlave
<1>18. CASE ConfigOp
  BY <1>18, ScanGoes DEF ConfigOp, ConfigEnds, NextSlave
<1>19. QED
  BY <1>1, <1>2, <1>3, <1>4, <1>5, <1>6, <1>7, <1>8, <1>9, <1>10, <1>11, <1>12, <1>13,
     <1>14, <1>15, <1>16, <1>17, <1>18 DEF ScanThread

LEMMA ControlStep == ControlOK /\ [Next]_vars => ControlOK'
<1> SUFFICES ASSUME ControlOK, [Next]_vars PROVE ControlOK'
  OBVIOUS
<1>1. CASE UNCHANGED vars
  BY <1>1, ControlUnchanged DEF vars
<1>2. CASE \E u \in Users : CallStart(u) \/ CallStop(u) \/ Rescan(u) \/ Proceed(u)
  BY <1>2, ControlUser
<1>3. CASE NonperiodSuspends \/ LinkChange \/ \E n \in 0 .. MaxSlaves : Connect(n)
  BY <1>3, ControlUnchanged DEF NonperiodSuspends, LinkChange, Connect
<1>4. CASE ScanThread
  BY <1>4, ControlScan
<1>5. QED
  BY <1>1, <1>2, <1>3, <1>4 DEF Next

-----------------------------------------------------------------------------
(***************************************************************************)
(* The lock and the two senders.  The lock is held at the labels below and *)
(* nowhere else.  A start that waits has asked the nonperiod thread to go, *)
(* or it has gone; one that has started the timer has not told so yet; a   *)
(* stop has told so before it stops the timer.                             *)
(***************************************************************************)
LockLabels == {"start_suspend", "start_request", "stop_wait", "stop_timer", "scan"}

LockInv == \A p \in Threads : pc[p] \in LockLabels <=> scan_lock = p

SuspendInv ==
  nonperiod_suspend => \E u \in Users : scan_lock = u /\ pc[u] = "start_suspend"

StartInv ==
  \A u \in Users :
    /\ pc[u] = "start_suspend" =>
         /\ phase = "OPERATION"
         /\ nonperiod_suspend \/ (nonperiod_thread = "suspended" /\ ~timer)
    /\ pc[u] = "start_request" => phase = "OPERATION" /\ timer

StopInv == \A p \in Threads : pc[p] \in {"stop_wait", "stop_timer"} => ~started

\* Settled, also while the scan thread holds the lock to scan.
SettledInv ==
  scan_lock = Nobody \/ pc[Scan] = "scan" =>
    (started <=> timer) /\ (timer <=> phase = "OPERATION")

SenderInv ==
  /\ LockInv /\ SuspendInv /\ StartInv /\ StopInv /\ SettledInv
  /\ OneSender /\ SomeSender

SenderTypes ==
  /\ started \in BOOLEAN /\ timer \in BOOLEAN /\ nonperiod_suspend \in BOOLEAN
  /\ phase \in {"IDLE", "OPERATION"}
  /\ nonperiod_thread \in {"running", "suspended"}
  /\ scan_lock \in Threads \cup {Nobody}

LEMMA SenderInit == Init => SenderInv
BY ScanNotUser, ThreadAssumption
   DEF Init, SenderInv, LockInv, LockLabels, SuspendInv, StartInv, StopInv, SettledInv,
       OneSender, SomeSender, Sending

(***************************************************************************)
(* A step that touches none of the flags, by a thread that holds the lock  *)
(* neither before nor after.                                               *)
(***************************************************************************)
LEMMA SenderUntouched ==
  ASSUME SenderInv, NEW p \in Threads,
         UNCHANGED <<started, phase, senderVars, scan_lock>>,
         pc[p] \notin LockLabels, pc'[p] \notin LockLabels,
         \A q \in Threads \ {p} : pc'[q] = pc[q]
  PROVE  SenderInv'
<1>1. \A q \in Threads : pc'[q] \in LockLabels \/ pc[q] \in LockLabels => pc'[q] = pc[q]
  OBVIOUS
<1> USE DEF LockLabels
<1>2. LockInv'
  BY <1>1 DEF SenderInv, LockInv
<1>3. SuspendInv' /\ SomeSender'
  BY <1>1, ScanNotUser DEF SenderInv, SuspendInv, SomeSender, Sending
<1>4. StartInv' /\ StopInv' /\ SettledInv'
  BY <1>1, ScanNotUser DEF SenderInv, StartInv, StopInv, SettledInv
<1>5. QED
  BY <1>2, <1>3, <1>4 DEF SenderInv, OneSender

LEMMA SenderStop ==
  ASSUME ControlOK, SenderInv, SenderTypes, NEW p \in Threads,
         StopLock(p) \/ StopSeesPreop(p) \/ StopTimer(p)
  PROVE  SenderInv'
<1>0. Scan \in Threads /\ Scan \notin Users /\ Users \subseteq Threads
      /\ Nobody \notin Threads
  BY ScanNotUser, ThreadAssumption DEF Threads
<1> USE DEF SenderInv, LockLabels
<1>1. CASE StopLock(p)
  <2>1. /\ pc[p] = "stop_lock" /\ pc'[p] \in {"stop_wait", "stop_timer"}
        /\ \A q \in Threads \ {p} : pc'[q] = pc[q]
        /\ scan_lock = Nobody /\ scan_lock' = p /\ ~started'
        /\ UNCHANGED <<phase, nonperiod_suspend, nonperiod_thread, timer>>
    BY <1>1 DEF StopLock, Goto, Take, ControlOK
  <2>2. \A q \in Threads \ {p} : pc'[q] \notin LockLabels
    BY <2>1, <1>0 DEF LockInv
  <2>3. ~nonperiod_suspend /\ Sending
    BY <2>1, <1>0 DEF SuspendInv, SomeSender
  <2>4. LockInv' /\ SuspendInv' /\ SomeSender' /\ OneSender'
    BY <2>1, <2>2, <2>3, <1>0 DEF LockInv, SuspendInv, SomeSender, Sending, OneSender
  <2>5. StartInv' /\ StopInv' /\ SettledInv'
    BY <2>1, <2>2, <1>0 DEF StartInv, StopInv, SettledInv
  <2>6. QED
    BY <2>4, <2>5
<1>2. CASE StopSeesPreop(p)
  <2>1. /\ pc[p] = "stop_wait" /\ pc'[p] = "stop_timer"
        /\ \A q \in Threads \ {p} : pc'[q] = pc[q]
        /\ UNCHANGED <<started, phase, nonperiod_suspend, nonperiod_thread, timer, scan_lock>>
    BY <1>2 DEF StopSeesPreop, Goto, ControlOK
  <2>2. LockInv' /\ SuspendInv' /\ SomeSender' /\ OneSender'
    BY <2>1, <1>0 DEF LockInv, SuspendInv, SomeSender, Sending, OneSender
  <2>3. StartInv' /\ StopInv' /\ SettledInv'
    BY <2>1, <1>0 DEF StartInv, StopInv, SettledInv
  <2>4. QED
    BY <2>2, <2>3
<1>3. CASE StopTimer(p)
  <2>1. /\ pc[p] = "stop_timer" /\ pc'[p] = back[p]
        /\ \A q \in Threads \ {p} : pc'[q] = pc[q]
        /\ scan_lock = p /\ scan_lock' = Nobody /\ UNCHANGED started
        /\ phase' = "IDLE" /\ ~nonperiod_suspend' /\ nonperiod_thread' = "running"
        /\ ~timer'
    BY <1>3 DEF StopTimer, ec_master_enter_idle, Goto, Give, ControlOK
  <2>2. back[p] \in {"idle", "link_down", "rescan"}
    BY DEF ControlOK
  <2>3. \A q \in Threads : pc'[q] \notin LockLabels
    BY <2>1, <2>2, <1>0 DEF LockInv
  <2>4. ~started
    BY <2>1 DEF StopInv
  <2>5. LockInv' /\ SuspendInv' /\ SomeSender' /\ OneSender'
    BY <2>1, <2>3, <1>0 DEF LockInv, SuspendInv, SomeSender, Sending, OneSender
  <2>6. StartInv' /\ StopInv' /\ SettledInv'
    BY <2>1, <2>3, <2>4, <1>0 DEF StartInv, StopInv, SettledInv
  <2>7. QED
    BY <2>5, <2>6
<1>4. QED
  BY <1>1, <1>2, <1>3

LEMMA SenderUser ==
  ASSUME ControlOK, SenderInv, SenderTypes, NEW u \in Users,
         CallStart(u) \/ CallStop(u) \/ Rescan(u) \/ Proceed(u)
  PROVE  SenderInv'
<1>0. Scan \in Threads /\ u \in Threads /\ u # Scan /\ Users \subseteq Threads
      /\ Nobody \notin Threads
  BY ScanNotUser, ThreadAssumption DEF Threads
<1>a. CASE CallStart(u)
  BY <1>a, <1>0, SenderUntouched DEF CallStart, Goto, ControlOK, LockLabels
<1>b. CASE CallStop(u)
  BY <1>b, <1>0, SenderUntouched DEF CallStop, Goto, ControlOK, LockLabels
<1>c. CASE Rescan(u)
  BY <1>c, <1>0, SenderUntouched DEF Rescan, LockLabels
<1>d. CASE StartSeesScan(u)
  BY <1>d, <1>0, SenderUntouched DEF StartSeesScan, Goto, ControlOK, LockLabels
<1> USE DEF SenderInv, LockLabels
<1>1. CASE StartLock(u)
  <2>1. /\ scan_lock = Nobody /\ scan_lock' = u
        /\ pc[u] = "start_lock" /\ pc'[u] = "start_suspend"
        /\ \A q \in Threads \ {u} : pc'[q] = pc[q]
        /\ phase' = "OPERATION" /\ nonperiod_suspend'
        /\ UNCHANGED <<started, nonperiod_thread, timer>>
    BY <1>1, <1>0 DEF StartLock, Take, Goto, ControlOK
  <2>2. \A q \in Threads \ {u} : pc'[q] \notin LockLabels
    BY <2>1, <1>0 DEF LockInv
  <2>3. LockInv' /\ SuspendInv' /\ SomeSender'
    BY <2>1, <2>2, <1>0 DEF LockInv, SuspendInv, SomeSender, Sending
  <2>4. StartInv' /\ StopInv' /\ SettledInv'
    BY <2>1, <2>2, <1>0 DEF StartInv, StopInv, SettledInv
  <2>5. QED
    BY <2>1, <2>3, <2>4 DEF OneSender
<1>2. CASE StartTimer(u)
  <2>1. /\ pc[u] = "start_suspend" /\ pc'[u] = "start_request"
        /\ \A q \in Threads \ {u} : pc'[q] = pc[q]
        /\ timer' /\ ~nonperiod_suspend
        /\ UNCHANGED <<started, phase, nonperiod_suspend, nonperiod_thread, scan_lock>>
    BY <1>2, <1>0 DEF StartTimer, Goto, ControlOK
  <2>2. scan_lock = u /\ \A q \in Threads \ {u} : pc'[q] \notin LockLabels
    BY <2>1, <1>0 DEF LockInv
  <2>3. phase = "OPERATION" /\ nonperiod_thread = "suspended"
    BY <2>1 DEF StartInv
  <2>4. LockInv' /\ SuspendInv' /\ SomeSender' /\ OneSender'
    BY <2>1, <2>2, <2>3, <1>0 DEF LockInv, SuspendInv, SomeSender, Sending, OneSender
  <2>5. StartInv' /\ StopInv' /\ SettledInv'
    BY <2>1, <2>2, <2>3, <1>0 DEF StartInv, StopInv, SettledInv
  <2>6. QED
    BY <2>4, <2>5
<1>3. CASE StartRequest(u)
  <2>1. /\ pc[u] = "start_request" /\ pc'[u] = "idle"
        /\ \A q \in Threads \ {u} : pc'[q] = pc[q]
        /\ scan_lock = u /\ scan_lock' = Nobody /\ started'
        /\ UNCHANGED <<phase, nonperiod_suspend, nonperiod_thread, timer>>
    BY <1>3, <1>0 DEF StartRequest, Goto, Give, ControlOK
  <2>2. \A q \in Threads : pc'[q] \notin LockLabels
    BY <2>1, <1>0 DEF LockInv
  <2>3. phase = "OPERATION" /\ timer /\ ~nonperiod_suspend
    BY <2>1, <1>0 DEF StartInv, SuspendInv
  <2>4. LockInv' /\ SuspendInv' /\ SomeSender' /\ OneSender'
    BY <2>1, <2>2, <2>3, <1>0 DEF LockInv, SuspendInv, SomeSender, Sending, OneSender
  <2>5. StartInv' /\ StopInv' /\ SettledInv'
    BY <2>1, <2>2, <2>3, <1>0 DEF StartInv, StopInv, SettledInv
  <2>6. QED
    BY <2>4, <2>5
<1>4. CASE StopLock(u) \/ StopSeesPreop(u) \/ StopTimer(u)
  BY <1>4, <1>0, SenderStop
<1>5. QED
  BY <1>a, <1>b, <1>c, <1>d, <1>1, <1>2, <1>3, <1>4 DEF Proceed

\* The steps of the scan thread outside the lock, but for those that take it.
LEMMA ScanOutside ==
  ASSUME ControlOK,
         \/ ScanCallsStop \/ CheckLink \/ LinkDown \/ BroadcastFails \/ Broadcast
         \/ RescanNoMemory \/ SkipSlave \/ ReadSlave
         \/ ConfigPreop \/ ConfigFails \/ ConfigStaysPreop \/ ConfigOp
  PROVE  /\ UNCHANGED <<started, phase, senderVars, scan_lock>>
         /\ pc[Scan] \notin LockLabels
         /\ \E l \in {"stop", "stop_lock", "link_down", "broadcast", "rescan", "slave",
                     "config", "config_op", "link"} : Goto(Scan, l)
<1> USE DEF LockLabels
<1>1. CASE ScanCallsStop
  BY <1>1, ScanNotUser DEF ScanCallsStop, ControlOK, Returns, StopLabels
<1>2. CASE CheckLink
  BY <1>2 DEF CheckLink
<1>3. CASE LinkDown \/ BroadcastFails \/ RescanNoMemory
  BY <1>3 DEF LinkDown, BroadcastFails, RescanNoMemory
<1>4. CASE Broadcast
  BY <1>4 DEF Broadcast
<1>5. CASE SkipSlave
  BY <1>5 DEF SkipSlave, NextSlave
<1>6. CASE ReadSlave
  BY <1>6 DEF ReadSlave, NextSlave
<1>7. CASE ConfigPreop
  BY <1>7 DEF ConfigPreop
<1>8. CASE ConfigFails
  BY <1>8 DEF ConfigFails, ConfigEnds, NextSlave
<1>9. CASE ConfigStaysPreop
  BY <1>9 DEF ConfigStaysPreop, ConfigEnds, NextSlave
<1>10. CASE ConfigOp
  BY <1>10 DEF ConfigOp, ConfigEnds, NextSlave
<1>11. QED
  BY <1>1, <1>2, <1>3, <1>4, <1>5, <1>6, <1>7, <1>8, <1>9, <1>10

LEMMA SenderScan ==
  ASSUME ControlOK, SenderInv, SenderTypes, ScanThread
  PROVE  SenderInv'
<1>0. Scan \in Threads /\ Scan \notin Users /\ Users \subseteq Threads
      /\ Nobody \notin Threads
  BY ScanNotUser, ThreadAssumption DEF Threads
<1> USE DEF LockLabels
<1>1. CASE \/ ScanCallsStop \/ CheckLink \/ LinkDown \/ BroadcastFails \/ Broadcast
           \/ RescanNoMemory \/ SkipSlave \/ ReadSlave
           \/ ConfigPreop \/ ConfigFails \/ ConfigStaysPreop \/ ConfigOp
  <2>1. /\ UNCHANGED <<started, phase, senderVars, scan_lock>>
        /\ pc[Scan] \notin LockLabels
        /\ \E l \in {"stop", "stop_lock", "link_down", "broadcast", "rescan", "slave",
                    "config", "config_op", "link"} : Goto(Scan, l)
    BY <1>1, ScanOutside
  <2>2. pc'[Scan] \notin LockLabels /\ \A q \in Threads \ {Scan} : pc'[q] = pc[q]
    BY <2>1, <1>0 DEF Goto, ControlOK
  <2>3. QED
    BY <2>1, <2>2, <1>0, SenderUntouched
<1>2. CASE StopLock(Scan) \/ StopSeesPreop(Scan) \/ StopTimer(Scan)
  BY <1>2, <1>0, SenderStop
<1> USE DEF SenderInv
<1>3. CASE RescanLock
  <2>1. /\ pc[Scan] = "rescan" /\ pc'[Scan] = "scan"
        /\ \A q \in Threads \ {Scan} : pc'[q] = pc[q]
        /\ scan_lock = Nobody /\ scan_lock' = Scan
        /\ UNCHANGED <<started, phase, nonperiod_suspend, nonperiod_thread, timer>>
    BY <1>3, <1>0 DEF RescanLock, Goto, Take, ControlOK
  <2>2. \A q \in Threads \ {Scan} : pc'[q] \notin LockLabels
    BY <2>1, <1>0 DEF LockInv
  <2>3. ~nonperiod_suspend /\ Sending
    BY <2>1, <1>0 DEF SuspendInv, SomeSender
  <2>4. LockInv' /\ SuspendInv' /\ SomeSender' /\ OneSender'
    BY <2>1, <2>2, <2>3, <1>0 DEF LockInv, SuspendInv, SomeSender, Sending, OneSender
  <2>5. StartInv' /\ StopInv' /\ SettledInv'
    BY <2>1, <2>2, <1>0 DEF StartInv, StopInv, SettledInv
  <2>6. QED
    BY <2>4, <2>5
<1>4. CASE ScanFails \/ ScanSucceeds
  <2>1. /\ pc[Scan] = "scan" /\ pc'[Scan] \in {"link", "slave"}
        /\ \A q \in Threads \ {Scan} : pc'[q] = pc[q]
        /\ scan_lock = Scan /\ scan_lock' = Nobody
        /\ UNCHANGED <<started, phase, nonperiod_suspend, nonperiod_thread, timer>>
    BY <1>4, <1>0 DEF ScanFails, ScanSucceeds, Goto, Give, ControlOK
  <2>2. \A q \in Threads : pc'[q] \notin LockLabels
    BY <2>1, <1>0 DEF LockInv
  <2>3. ~nonperiod_suspend /\ Sending
    BY <2>1, <1>0 DEF SuspendInv, SomeSender
  <2>4. LockInv' /\ SuspendInv' /\ SomeSender' /\ OneSender'
    BY <2>1, <2>2, <2>3, <1>0 DEF LockInv, SuspendInv, SomeSender, Sending, OneSender
  <2>5. StartInv' /\ StopInv' /\ SettledInv'
    BY <2>1, <2>2, <1>0 DEF StartInv, StopInv, SettledInv
  <2>6. QED
    BY <2>4, <2>5
<1>5. QED
  BY <1>1, <1>2, <1>3, <1>4 DEF ScanThread

LEMMA SenderStep ==
  ControlOK /\ SenderTypes /\ SenderInv /\ [Next]_vars => SenderInv'
<1> SUFFICES ASSUME ControlOK, SenderTypes, SenderInv, [Next]_vars PROVE SenderInv'
  OBVIOUS
<1> USE DEF SenderInv, LockInv, SuspendInv, StartInv, StopInv, SettledInv, OneSender,
            SomeSender, Sending
<1>1. CASE UNCHANGED vars
  BY <1>1 DEF vars
<1>2. CASE LinkChange \/ \E n \in 0 .. MaxSlaves : Connect(n)
  BY <1>2 DEF LinkChange, Connect
<1>3. CASE NonperiodSuspends
  <2>1. /\ nonperiod_suspend /\ ~nonperiod_suspend' /\ nonperiod_thread' = "suspended"
        /\ UNCHANGED <<started, phase, timer, scan_lock, pc>>
    BY <1>3 DEF NonperiodSuspends
  <2>2. nonperiod_thread = "running"
    BY <1>3 DEF NonperiodSuspends
  <2>3. ~timer
    BY <2>2
  <2>4. LockInv' /\ SuspendInv' /\ StartInv' /\ StopInv' /\ SettledInv'
    BY <2>1, <2>3
  <2>5. OneSender' /\ SomeSender'
    BY <2>1
  <2>6. QED
    BY <2>4, <2>5
<1>4. CASE \E u \in Users : CallStart(u) \/ CallStop(u) \/ Rescan(u) \/ Proceed(u)
  BY <1>4, SenderUser
<1>5. CASE ScanThread
  BY <1>5, SenderScan
<1>6. QED
  BY <1>1, <1>2, <1>3, <1>4, <1>5 DEF Next

-----------------------------------------------------------------------------
(***************************************************************************)
(* The slave table.  The cursor stays in the table, a scan is under way    *)
(* only with slaves that answered, and the table it builds has one entry   *)
(* for each of them.                                                       *)
(***************************************************************************)
CursorInv == pc[Scan] \in {"slave", "config", "config_op"} => cursor \in 1 .. slave_count

RescanInv ==
  /\ pc[Scan] \in {"stop"} \cup StopLabels /\ back[Scan] = "rescan" =>
       slaves_working_counter > 0
  /\ pc[Scan] = "rescan" => slaves_working_counter > 0
  /\ pc[Scan] = "scan" => slave_count = slaves_working_counter /\ slave_count > 0

TableInv == CursorInv /\ RescanInv /\ TableMatchesBus

LEMMA DataInit == Init => DataOK /\ TableInv
<1> SUFFICES ASSUME Init PROVE DataOK /\ TableInv
  OBVIOUS
<1>1. {} \subseteq Positions /\ 0 \in 0 .. MaxSlaves /\ 0 \in 0 .. MaxSlaves + 1
  BY ThreadAssumption
<1>2. al_state \in [Positions -> AlStates] /\ slaves_state \subseteq AlStates
  BY DEF Init, AlStates
<1>3. DataOK
  BY <1>1, <1>2 DEF Init, DataOK
<1>4. pc[Scan] = "link" /\ ~scan_done
  BY ScanNotUser DEF Init
<1>5. QED
  BY <1>3, <1>4 DEF TableInv, CursorInv, RescanInv, TableMatchesBus, StopLabels

LEMMA DataUser ==
  ASSUME DataOK, NEW u \in Users,
         CallStart(u) \/ CallStop(u) \/ Rescan(u) \/ Proceed(u)
  PROVE  DataOK'
<1>0. u \in Threads
  BY ScanNotUser
<1> USE DEF DataOK
<1>1. CASE CallStart(u) \/ CallStop(u) \/ Rescan(u)
  BY <1>1 DEF CallStart, CallStop, Rescan
<1>2. CASE StartSeesScan(u) \/ StartTimer(u)
  BY <1>2 DEF StartSeesScan, StartTimer
<1>3. CASE StartLock(u)
  BY <1>3, <1>0 DEF StartLock, Take
<1>4. CASE StartRequest(u)
  <2>1. 1 .. slave_count \subseteq Positions
    BY ThreadAssumption DEF Positions
  <2>2. QED
    BY <1>4, <2>1 DEF StartRequest, Give
<1>5. CASE StopLock(u)
  <2>1. 1 .. slave_count \subseteq Positions
    BY ThreadAssumption DEF Positions
  <2>2. QED
    BY <1>5, <2>1, <1>0 DEF StopLock, Take
<1>6. CASE StopSeesPreop(u)
  BY <1>6 DEF StopSeesPreop
<1>7. CASE StopTimer(u)
  BY <1>7 DEF StopTimer, ec_master_enter_idle, Give
<1>8. QED
  BY <1>1, <1>2, <1>3, <1>4, <1>5, <1>6, <1>7 DEF Proceed

\* Steps of others than the scan thread, and what they leave alone.
LEMMA TableUser ==
  ASSUME ControlOK, TableInv, NEW u \in Users,
         CallStart(u) \/ CallStop(u) \/ Rescan(u) \/ Proceed(u)
  PROVE  TableInv'
<1>1. UNCHANGED <<scan_done, slaves_working_counter, slave_count, cursor>>
      /\ (rescan_request => rescan_request')
  BY DEF CallStart, CallStop, Rescan, Proceed, StartSeesScan, StartLock, StartTimer,
         StartRequest, StopLock, StopSeesPreop, StopTimer
<1>2. pc'[Scan] = pc[Scan]
  <2>1. u \in Threads /\ u # Scan /\ Scan \in Threads
    BY ScanNotUser
  <2>2. UNCHANGED pc \/ \E l \in UserLabels \cup {back[u]} \cup StopLabels : Goto(u, l)
    BY DEF CallStart, CallStop, Rescan, Proceed, StartSeesScan, StartLock, StartTimer,
           StartRequest, StopLock, StopSeesPreop, StopTimer, UserLabels, StopLabels
  <2>3. QED
    BY <2>1, <2>2 DEF Goto, ControlOK
<1>3. back'[Scan] = back[Scan]
  <2>1. u \in Threads /\ u # Scan /\ Scan \in Threads
    BY ScanNotUser
  <2>2. UNCHANGED back \/ back' = [back EXCEPT ![u] = "idle"]
    BY DEF CallStart, CallStop, Rescan, Proceed, StartSeesScan, StartLock, StartTimer,
           StartRequest, StopLock, StopSeesPreop, StopTimer
  <2>3. QED
    BY <2>1, <2>2 DEF ControlOK
<1>4. QED
  BY <1>1, <1>2, <1>3 DEF TableInv, CursorInv, RescanInv, TableMatchesBus

(***************************************************************************)
(* The scan thread's part of ec_master_stop, and the link.                 *)
(***************************************************************************)
LEMMA TableStop ==
  ASSUME ControlOK, DataOK, TableInv,
         \/ ScanCallsStop \/ StopLock(Scan) \/ StopSeesPreop(Scan) \/ StopTimer(Scan)
         \/ CheckLink \/ LinkDown \/ BroadcastFails
  PROVE  DataOK' /\ TableInv'
<1>0. Scan \in Threads
  BY ScanNotUser
<1> USE DEF TableInv, CursorInv, RescanInv, TableMatchesBus, StopLabels
<1>1. CASE ScanCallsStop
  <2>1. pc'[Scan] = IF started THEN "stop_lock" ELSE back[Scan]
    BY <1>1, <1>0 DEF ScanCallsStop, Goto, ControlOK
  <2>2. back[Scan] \in {"link_down", "rescan"}
    BY <1>1, <1>0 DEF ScanCallsStop, ControlOK
  <2>3. TableInv'
    BY <1>1, <2>1, <2>2 DEF ScanCallsStop
  <2>4. QED
    BY <1>1, <2>3 DEF ScanCallsStop, DataOK
<1>2. CASE StopLock(Scan)
  <2>1. 1 .. slave_count \subseteq Positions
    BY ThreadAssumption DEF Positions, DataOK
  <2>2. DataOK'
    BY <1>2, <2>1, <1>0 DEF StopLock, Take, DataOK
  <2>3. pc[Scan] = "stop_lock" /\ pc'[Scan] \in {"stop_timer", "stop_wait"}
    BY <1>2, <1>0 DEF StopLock, Goto, ControlOK
  <2>4. QED
    BY <1>2, <2>2, <2>3 DEF StopLock
<1>3. CASE StopSeesPreop(Scan)
  <2>1. pc[Scan] = "stop_wait" /\ pc'[Scan] = "stop_timer"
    BY <1>3, <1>0 DEF StopSeesPreop, Goto, ControlOK
  <2>2. TableInv'
    BY <1>3, <2>1 DEF StopSeesPreop
  <2>3. QED
    BY <1>3, <2>2 DEF StopSeesPreop, DataOK
<1>4. CASE StopTimer(Scan)
  <2>1. pc[Scan] = "stop_timer" /\ pc'[Scan] = back[Scan]
    BY <1>4, <1>0 DEF StopTimer, Goto, ControlOK
  <2>2. back[Scan] \in {"link_down", "rescan"}
    BY <2>1, <1>0 DEF ControlOK
  <2>3. TableInv'
    BY <1>4, <2>1, <2>2 DEF StopTimer
  <2>4. QED
    BY <1>4, <2>3 DEF StopTimer, ec_master_enter_idle, Give, DataOK
<1>5. CASE CheckLink
  <2>1. DataOK'
    BY <1>5 DEF CheckLink, DataOK
  <2>2. pc'[Scan] = "broadcast" \/ (pc'[Scan] = "stop" /\ back'[Scan] = "link_down")
    BY <1>5, <1>0 DEF CheckLink, Goto, ControlOK
  <2>3. QED
    BY <1>5, <2>1, <2>2 DEF CheckLink
<1>6. CASE LinkDown
  <2>0. {} \subseteq Positions /\ 0 \in 0 .. MaxSlaves
    BY ThreadAssumption
  <2>1. DataOK'
    BY <1>6, <2>0 DEF LinkDown, DataOK
  <2>2. pc'[Scan] = "broadcast"
    BY <1>6, <1>0 DEF LinkDown, Goto, ControlOK
  <2>3. QED
    BY <1>6, <2>1, <2>2 DEF LinkDown
<1>7. CASE BroadcastFails
  <2>1. pc'[Scan] = "link"
    BY <1>7, <1>0 DEF BroadcastFails, Goto, ControlOK
  <2>2. TableInv'
    BY <1>7, <2>1 DEF BroadcastFails
  <2>3. QED
    BY <1>7, <2>2 DEF BroadcastFails, DataOK
<1>8. QED
  BY <1>1, <1>2, <1>3, <1>4, <1>5, <1>6, <1>7

LEMMA TableScan ==
  ASSUME ControlOK, DataOK, TableInv,
         Broadcast \/ RescanLock \/ RescanNoMemory \/ ScanFails \/ ScanSucceeds
  PROVE  DataOK' /\ TableInv'
<1>0. Scan \in Threads
  BY ScanNotUser
<1> USE DEF TableInv, CursorInv, RescanInv, TableMatchesBus, StopLabels
<1>1. CASE Broadcast
  <2>1. {al_state[i] : i \in 1 .. connected} \subseteq AlStates
    BY ThreadAssumption DEF DataOK, Positions
  <2>2. rescan_request' \in BOOLEAN /\ connected \in Nat
    BY <1>1, ThreadAssumption DEF Broadcast, BusChanged, DataOK
  <2>3. DataOK'
    BY <1>1, <2>1, <2>2, ThreadAssumption DEF Broadcast, BusChanged, DataOK
  <2>4. pc'[Scan] \in {"stop", "slave", "link"}
        /\ (pc'[Scan] = "slave" => slave_count > 0)
    <3>1. PICK l : /\ Goto(Scan, l) /\ l \in {"stop", "slave", "link"}
                   /\ l = "slave" => slave_count > 0
      BY <1>1, <2>2 DEF Broadcast, BusChanged
    <3>2. QED
      BY <3>1, <1>0 DEF Goto, ControlOK
  <2>5. slaves_working_counter' > 0 /\ cursor' = 1
        /\ (scan_done' => slave_count' = slaves_working_counter' \/ rescan_request')
    BY <1>1 DEF Broadcast, BusChanged, DataOK
  <2>6. QED
    BY <1>1, <2>3, <2>4, <2>5, ThreadAssumption DEF Broadcast, BusChanged, DataOK
<1>2. CASE RescanLock
  <2>1. DataOK'
    BY <1>2, <1>0 DEF RescanLock, Take, DataOK
  <2>2. pc[Scan] = "rescan" /\ pc'[Scan] = "scan"
    BY <1>2, <1>0 DEF RescanLock, Goto, ControlOK
  <2>3. QED
    BY <1>2, <2>1, <2>2 DEF RescanLock
<1>3. CASE RescanNoMemory
  <2>0. {} \subseteq Positions /\ 0 \in 0 .. MaxSlaves
    BY ThreadAssumption
  <2>1. DataOK'
    BY <1>3, <2>0 DEF RescanNoMemory, DataOK
  <2>2. pc'[Scan] = "link"
    BY <1>3, <1>0 DEF RescanNoMemory, Goto, ControlOK
  <2>3. QED
    BY <1>3, <2>1, <2>2 DEF RescanNoMemory
<1>4. CASE ScanFails
  <2>1. al_state' \in [Positions -> AlStates]
    BY <1>4, ThreadAssumption DEF ScanFails, DataOK, AlStates, Positions
  <2>2. DataOK'
    BY <1>4, <2>1 DEF ScanFails, Give, DataOK
  <2>3. pc'[Scan] = "link"
    BY <1>4, <1>0 DEF ScanFails, Goto, ControlOK
  <2>4. QED
    BY <1>4, <2>2, <2>3 DEF ScanFails
<1>5. CASE ScanSucceeds
  <2>1. al_state' \in [Positions -> AlStates]
    BY <1>5 DEF ScanSucceeds, DataOK, AlStates
  <2>2. DataOK'
    BY <1>5, <2>1, ThreadAssumption DEF ScanSucceeds, Give, DataOK
  <2>3. pc[Scan] = "scan" /\ pc'[Scan] = "slave"
    BY <1>5, <1>0 DEF ScanSucceeds, Goto, ControlOK
  <2>4. QED
    BY <1>5, <2>2, <2>3, ThreadAssumption DEF ScanSucceeds, DataOK
<1>6. QED
  BY <1>1, <1>2, <1>3, <1>4, <1>5

(***************************************************************************)
(* The slaves one by one.  The cursor is in the table, hence a position.   *)
(***************************************************************************)
LEMMA TableSlaves ==
  ASSUME ControlOK, DataOK, TableInv,
         \/ SkipSlave \/ ReadSlave
         \/ ConfigPreop \/ ConfigFails \/ ConfigStaysPreop \/ ConfigOp
  PROVE  DataOK' /\ TableInv'
<1>0. Scan \in Threads
  BY ScanNotUser
<1>1. /\ slave_count \in 0 .. MaxSlaves /\ cursor \in 1 .. slave_count
      /\ cursor \in Positions /\ cursor + 1 \in 0 .. MaxSlaves + 1
  <2>1. cursor \in 1 .. slave_count
    BY DEF TableInv, CursorInv, SkipSlave, ReadSlave, ConfigPreop, ConfigFails,
           ConfigStaysPreop, ConfigOp
  <2>2. QED
    BY <2>1, ThreadAssumption DEF DataOK, Positions
<1>2. UNCHANGED <<slave_count, slaves_working_counter, scan_done, rescan_request>>
  BY DEF SkipSlave, ReadSlave, ConfigPreop, ConfigFails, ConfigStaysPreop, ConfigOp,
         ConfigEnds
<1>3. \/ NextSlave
      \/ UNCHANGED cursor /\ \E l \in {"config", "config_op"} : Goto(Scan, l)
  BY DEF SkipSlave, ReadSlave, ConfigPreop, ConfigFails, ConfigStaysPreop, ConfigOp,
         ConfigEnds
<1>4. TableInv'
  <2>1. CASE NextSlave
    <3>1. cursor' = cursor + 1 /\ pc'[Scan] = IF cursor < slave_count THEN "slave" ELSE "link"
      BY <2>1, <1>0 DEF NextSlave, Goto, ControlOK
    <3>2. CursorInv'
      BY <3>1, <1>1, <1>2 DEF CursorInv
    <3>3. RescanInv' /\ TableMatchesBus'
      BY <3>1, <1>2 DEF RescanInv, TableMatchesBus, TableInv, StopLabels
    <3>4. QED
      BY <3>2, <3>3 DEF TableInv
  <2>2. CASE UNCHANGED cursor /\ \E l \in {"config", "config_op"} : Goto(Scan, l)
    <3>1. pc'[Scan] \in {"config", "config_op"}
      BY <2>2, <1>0 DEF Goto, ControlOK
    <3>2. QED
      BY <2>2, <3>1, <1>1, <1>2
         DEF TableInv, CursorInv, RescanInv, TableMatchesBus, StopLabels
  <2>3. QED
    BY <1>3, <2>1, <2>2
<1>5. cursor' \in 0 .. MaxSlaves + 1
  BY <1>1, <1>3 DEF NextSlave, DataOK
<1>6. al_state' \in [Positions -> AlStates]
  <2>1. \/ UNCHANGED al_state
        \/ \E al \in AlStates \cup {al_state[cursor]} :
             al_state' = [al_state EXCEPT ![cursor] = al]
    BY DEF SkipSlave, ReadSlave, ConfigPreop, ConfigFails, ConfigStaysPreop, ConfigOp,
           AlStates
  <2>2. QED
    BY <2>1, <1>1 DEF DataOK
<1>7. force_update' \subseteq force_update
  BY DEF SkipSlave, ReadSlave, ConfigPreop, ConfigFails, ConfigStaysPreop, ConfigOp,
         ConfigEnds
<1>8. UNCHANGED <<masterVars, senderVars, scan_lock, seenVars, requested_state, link_up,
                  connected>>
  BY DEF SkipSlave, ReadSlave, ConfigPreop, ConfigFails, ConfigStaysPreop, ConfigOp,
         ConfigEnds
<1>9. DataOK'
  BY <1>2, <1>5, <1>6, <1>7, <1>8 DEF DataOK
<1>10. QED
  BY <1>4, <1>9

LEMMA TableStep ==
  ControlOK /\ DataOK /\ TableInv /\ [Next]_vars => DataOK' /\ TableInv'
<1> SUFFICES ASSUME ControlOK, DataOK, TableInv, [Next]_vars
             PROVE  DataOK' /\ TableInv'
  OBVIOUS
<1>1. CASE UNCHANGED vars
  BY <1>1 DEF vars, DataOK, TableInv, CursorInv, RescanInv, TableMatchesBus
<1>2. CASE \E u \in Users : CallStart(u) \/ CallStop(u) \/ Rescan(u) \/ Proceed(u)
  BY <1>2, DataUser, TableUser
<1>3. CASE ScanThread
  BY <1>3, TableStop, TableScan, TableSlaves DEF ScanThread
<1>4. CASE NonperiodSuspends \/ LinkChange \/ \E n \in 0 .. MaxSlaves : Connect(n)
  <2>1. TableInv'
    BY <1>4 DEF NonperiodSuspends, LinkChange, Connect, TableInv, CursorInv, RescanInv,
                TableMatchesBus
  <2>2. CASE NonperiodSuspends \/ LinkChange
    BY <2>1, <2>2 DEF NonperiodSuspends, LinkChange, DataOK
  <2>3. CASE \E n \in 0 .. MaxSlaves : Connect(n)
    <3>1. al_state' \in [Positions -> AlStates]
      BY <2>3 DEF Connect, DataOK, AlStates
    <3>2. DataOK'
      BY <2>3, <3>1 DEF Connect, DataOK
    <3>3. QED
      BY <2>1, <3>2
  <2>4. QED
    BY <1>4, <2>2, <2>3
<1>5. QED
  BY <1>1, <1>2, <1>3, <1>4 DEF Next

-----------------------------------------------------------------------------
(***************************************************************************)
(* The theorems.                                                           *)
(***************************************************************************)
IndInv == ControlOK /\ DataOK /\ SenderInv /\ TableInv

LEMMA Inductive == Spec => []IndInv
<1>1. Init => IndInv
  BY ControlInit, DataInit, SenderInit DEF IndInv
<1>2. IndInv /\ [Next]_vars => IndInv'
  <2>1. DataOK => SenderTypes
    BY DEF DataOK, SenderTypes
  <2>2. QED
    BY <2>1, ControlStep, SenderStep, TableStep DEF IndInv
<1>3. QED
  BY <1>1, <1>2, PTL DEF Spec

(***************************************************************************)
(* Every thread is in its own code, every variable keeps its type, and the *)
(* scan thread's cursor never leaves the slave array.                      *)
(***************************************************************************)
THEOREM TypeCorrect == Spec => []TypeOK
<1>1. IndInv => TypeOK
  BY DEF IndInv, TypeOK
<1>2. QED
  BY <1>1, Inductive, PTL

(***************************************************************************)
(* The cycle timer and the nonperiod thread never both send, however many  *)
(* threads start and stop the master at the same time.                     *)
(***************************************************************************)
THEOREM NeverTwoSenders == Spec => []OneSender
<1>1. IndInv => OneSender
  BY DEF IndInv, SenderInv
<1>2. QED
  BY <1>1, Inductive, PTL

(***************************************************************************)
(* No start gets as far as initialising the PDO datagram while the timer   *)
(* runs, however many threads start the master at once.                    *)
(***************************************************************************)
THEOREM NeverStartedTwice == Spec => []TimerStartsOnce
<1>1. IndInv => TimerStartsOnce
  BY DEF IndInv, SenderInv, StartInv, TimerStartsOnce
<1>2. QED
  BY <1>1, Inductive, PTL

(***************************************************************************)
(* Outside the wait of a start one of them does.                           *)
(***************************************************************************)
THEOREM NeverWithoutSender == Spec => []SomeSender
<1>1. IndInv => SomeSender
  BY DEF IndInv, SenderInv
<1>2. QED
  BY <1>1, Inductive, PTL

(***************************************************************************)
(* started, the timer and the phase agree whenever the lock is free.       *)
(***************************************************************************)
THEOREM FlagsAgree == Spec => []Settled
<1>1. IndInv => Settled
  BY DEF IndInv, SenderInv, SettledInv, Settled
<1>2. QED
  BY <1>1, Inductive, PTL

(***************************************************************************)
(* A scanned table that differs from the bus is going to be rescanned.     *)
(***************************************************************************)
THEOREM ChangesAreSeen == Spec => []TableMatchesBus
<1>1. IndInv => TableMatchesBus
  BY DEF IndInv, TableInv
<1>2. QED
  BY <1>1, Inductive, PTL
=============================================================================
