----------------------------- MODULE PdoLayout -----------------------------
(***************************************************************************)
(* How ec_master_start lays the process data of the slaves out in one      *)
(* buffer (ec_master.c:466-567), where applications find it                *)
(* (ec_master.c:667-752), and the logical windows that the FMMUs of the    *)
(* slaves are given (ec_slave.c:413-424, 681-696).                         *)
(*                                                                         *)
(* An application, or the shell, gives each slave a configuration: a       *)
(* sequence of syncs, each for one sync manager, with a direction and a    *)
(* number of bits (the sum of its PDO entries).  Until it does, the        *)
(* configuration counts as empty (a start asserts that there is one,       *)
(* ec_master.c:490).  It may do so again while the master runs             *)
(* (ec_cmd.c:464-494): the layout stays what it was.                       *)
(***************************************************************************)
EXTENDS Integers, Sequences

CONSTANTS
  PdoSlaves,   \* the number of slaves
  PdoSms,      \* the sync managers of a slave
  PdoConfigs   \* the configurations an application may give to a slave

PdoSlaveIds == 1 .. PdoSlaves
PdoSyncType == [sm : PdoSms, dir : {"output", "input"}, bits : Nat]

\* No configuration names a sync manager twice.
ASSUME PdoAssumption ==
  /\ PdoSlaves \in Nat \ {0}
  /\ PdoConfigs \subseteq Seq(PdoSyncType)
  /\ <<>> \in PdoConfigs
  /\ \A c \in PdoConfigs : \A i, j \in DOMAIN c : c[i].sm = c[j].sm => i = j

VARIABLES
  pdo_pc,       \* "stopped", "slave" or "sync" in the loops of a start, "running", or
                \* "rescanned": running, but with a new slave table
  pdo_slave,    \* the slave a start has come to,
  pdo_sync,     \* and its sync
  pdo_config,   \* slave->config
  pdo_used,     \* the configuration that the last start has read
  pdo_size,     \* actual_pdo_size
  pdo_first,    \* logical_start_address of each slave
  pdo_odata,    \* odata_size
  pdo_idata,    \* idata_size
  pdo_window    \* sm_info[].fmmu of each slave and sync manager

pdoVars == <<pdo_pc, pdo_slave, pdo_sync, pdo_config, pdo_used, pdo_size, pdo_first, pdo_odata,
             pdo_idata, pdo_window>>

PdoNoWindow == [first |-> 0, size |-> 0]

PdoInit ==
  /\ pdo_pc = "stopped"
  /\ pdo_slave = 1
  /\ pdo_sync = 1
  /\ pdo_config = [s \in PdoSlaveIds |-> <<>>]
  /\ pdo_used = [s \in PdoSlaveIds |-> <<>>]
  /\ pdo_size = 0
  /\ pdo_first = [s \in PdoSlaveIds |-> 0]
  /\ pdo_odata = [s \in PdoSlaveIds |-> 0]
  /\ pdo_idata = [s \in PdoSlaveIds |-> 0]
  /\ pdo_window = [s \in PdoSlaveIds |-> [m \in PdoSms |-> PdoNoWindow]]

-----------------------------------------------------------------------------
\* The application gives one slave another configuration.
PdoAssign ==
  /\ pdo_pc \in {"stopped", "running", "rescanned"}
  /\ \E s \in PdoSlaveIds, c \in PdoConfigs : pdo_config' = [pdo_config EXCEPT ![s] = c]
  /\ UNCHANGED <<pdo_pc, pdo_slave, pdo_sync, pdo_used, pdo_size, pdo_first, pdo_odata,
                 pdo_idata, pdo_window>>

\* Mutant: the size of the last layout is kept.
PdoStartKeepsSize ==
  /\ pdo_pc = "stopped"
  /\ pdo_pc' = "slave"
  /\ pdo_slave' = 1
  /\ UNCHANGED <<pdo_size, pdo_sync, pdo_config, pdo_used, pdo_first, pdo_odata, pdo_idata,
                 pdo_window>>

PdoStart ==
  /\ pdo_pc = "stopped"
  /\ pdo_pc' = "slave"
  /\ pdo_slave' = 1
  /\ pdo_size' = 0
  /\ UNCHANGED <<pdo_sync, pdo_config, pdo_used, pdo_first, pdo_odata, pdo_idata, pdo_window>>

PdoSlave ==
  /\ pdo_pc = "slave"
  /\ pdo_pc' = "sync"
  /\ pdo_sync' = 1
  /\ pdo_used' = [pdo_used EXCEPT ![pdo_slave] = pdo_config[pdo_slave]]
  /\ pdo_first' = [pdo_first EXCEPT ![pdo_slave] = pdo_size]
  /\ pdo_odata' = [pdo_odata EXCEPT ![pdo_slave] = 0]
  /\ pdo_idata' = [pdo_idata EXCEPT ![pdo_slave] = 0]
  /\ UNCHANGED <<pdo_slave, pdo_config, pdo_size, pdo_window>>

PdoBytes(bits) == (bits + 7) \div 8

\* Mutant: the next window begins behind the whole bytes.
PdoSyncRoundsDown ==
  /\ pdo_pc = "sync"
  /\ pdo_sync <= Len(pdo_used[pdo_slave])
  /\ LET sync == pdo_used[pdo_slave][pdo_sync]
         bytes == PdoBytes(sync.bits)
     IN /\ pdo_window' = [pdo_window EXCEPT ![pdo_slave][sync.sm] =
                            [first |-> pdo_size, size |-> bytes]]
        /\ pdo_size' = pdo_size + sync.bits \div 8
        /\ pdo_odata' = [pdo_odata EXCEPT ![pdo_slave] =
                           IF sync.dir = "output" THEN @ + bytes ELSE @]
        /\ pdo_idata' = [pdo_idata EXCEPT ![pdo_slave] =
                           IF sync.dir = "input" THEN @ + bytes ELSE @]
  /\ pdo_sync' = pdo_sync + 1
  /\ UNCHANGED <<pdo_pc, pdo_slave, pdo_config, pdo_used, pdo_first>>

PdoSync ==
  /\ pdo_pc = "sync"
  /\ pdo_sync <= Len(pdo_used[pdo_slave])
  /\ LET sync == pdo_used[pdo_slave][pdo_sync]
         bytes == PdoBytes(sync.bits)
     IN /\ pdo_window' = [pdo_window EXCEPT ![pdo_slave][sync.sm] =
                            [first |-> pdo_size, size |-> bytes]]
        /\ pdo_size' = pdo_size + bytes
        /\ pdo_odata' = [pdo_odata EXCEPT ![pdo_slave] =
                           IF sync.dir = "output" THEN @ + bytes ELSE @]
        /\ pdo_idata' = [pdo_idata EXCEPT ![pdo_slave] =
                           IF sync.dir = "input" THEN @ + bytes ELSE @]
  /\ pdo_sync' = pdo_sync + 1
  /\ UNCHANGED <<pdo_pc, pdo_slave, pdo_config, pdo_used, pdo_first>>

\* The next slave, or the PDO datagram over the whole and the cyclic timer.
PdoNextSlave ==
  /\ pdo_pc = "sync"
  /\ pdo_sync > Len(pdo_used[pdo_slave])
  /\ IF pdo_slave < PdoSlaves THEN pdo_pc' = "slave" /\ pdo_slave' = pdo_slave + 1
                              ELSE pdo_pc' = "running" /\ UNCHANGED pdo_slave
  /\ UNCHANGED <<pdo_sync, pdo_config, pdo_used, pdo_size, pdo_first, pdo_odata, pdo_idata,
                 pdo_window>>

PdoStop ==
  /\ pdo_pc \in {"running", "rescanned"}
  /\ pdo_pc' = "stopped"
  /\ UNCHANGED <<pdo_slave, pdo_sync, pdo_config, pdo_used, pdo_size, pdo_first, pdo_odata,
                 pdo_idata, pdo_window>>

\* A scan makes a new slave table, in which every slave waits for a configuration.  It stops
\* the master first, but a start can get in between (ec_slave.c:1025-1027).
PdoRescan ==
  /\ pdo_pc \in {"stopped", "running", "rescanned"}
  /\ pdo_pc' = IF pdo_pc = "running" THEN "rescanned" ELSE pdo_pc
  /\ pdo_config' = [s \in PdoSlaveIds |-> <<>>]
  /\ pdo_used' = [s \in PdoSlaveIds |-> <<>>]
  /\ pdo_first' = [s \in PdoSlaveIds |-> 0]
  /\ pdo_odata' = [s \in PdoSlaveIds |-> 0]
  /\ pdo_idata' = [s \in PdoSlaveIds |-> 0]
  /\ pdo_window' = [s \in PdoSlaveIds |-> [m \in PdoSms |-> PdoNoWindow]]
  /\ UNCHANGED <<pdo_slave, pdo_sync, pdo_size>>

PdoNext ==
  \/ PdoAssign \/ PdoStart \/ PdoSlave \/ PdoSync \/ PdoNextSlave \/ PdoStop \/ PdoRescan

PdoSpec == PdoInit /\ [][PdoNext]_pdoVars

-----------------------------------------------------------------------------
(***************************************************************************)
(* Where an application finds the process data of a slave: the first byte  *)
(* and the byte behind the last.                                           *)
(***************************************************************************)
ec_master_get_slave_domain(s) ==
  [first |-> pdo_first[s], end |-> pdo_first[s] + pdo_odata[s] + pdo_idata[s]]

ec_master_get_slave_domain_output(s) ==
  [first |-> pdo_first[s], end |-> pdo_first[s] + pdo_odata[s]]

\* Mutant: the inputs are looked for at the beginning of the domain.
PdoInputFirst(s) == [first |-> pdo_first[s], end |-> pdo_first[s] + pdo_idata[s]]

ec_master_get_slave_domain_input(s) ==
  [first |-> pdo_first[s] + pdo_odata[s],
   end |-> pdo_first[s] + pdo_odata[s] + pdo_idata[s]]

\* The window of the k-th sync of a slave.
PdoWindow(s, k) ==
  LET w == pdo_window[s][pdo_used[s][k].sm] IN [first |-> w.first, end |-> w.first + w.size]

PdoInside(w, area) == area.first <= w.first /\ w.end <= area.end

-----------------------------------------------------------------------------
\* The values of the variables.
PdoTypeOK ==
  /\ pdo_pc \in {"stopped", "slave", "sync", "running", "rescanned"}
  /\ pdo_slave \in PdoSlaveIds
  /\ pdo_sync \in Nat \ {0}
  /\ pdo_config \in [PdoSlaveIds -> PdoConfigs]
  /\ pdo_used \in [PdoSlaveIds -> PdoConfigs]
  /\ pdo_size \in Nat
  /\ pdo_first \in [PdoSlaveIds -> Nat]
  /\ pdo_odata \in [PdoSlaveIds -> Nat]
  /\ pdo_idata \in [PdoSlaveIds -> Nat]
  /\ pdo_window \in [PdoSlaveIds -> [PdoSms -> [first : Nat, size : Nat]]]

\* While the master runs, the domains of the slaves follow each other without a gap and
\* fill the buffer that the PDO datagram sends, also after a start with other
\* configurations (ec_master.c:476, 492-494, 537-544, 562-565).
PdoDomains ==
  pdo_pc = "running" =>
    /\ pdo_first[1] = 0
    /\ \A s \in PdoSlaveIds :
         ec_master_get_slave_domain(s).end =
           IF s = PdoSlaves THEN pdo_size ELSE pdo_first[s + 1]

\* While the master runs, no byte belongs to two syncs, of one slave or of two, and each
\* window lies in the domain of its slave and holds every bit of its sync, so that one
\* slave never reads or overwrites the data of another (ec_master.c:528-537).
PdoWindows ==
  pdo_pc = "running" =>
    /\ \A s \in PdoSlaveIds : \A k \in DOMAIN pdo_used[s] :
         /\ PdoInside(PdoWindow(s, k), ec_master_get_slave_domain(s))
         /\ pdo_used[s][k].bits <= 8 * pdo_window[s][pdo_used[s][k].sm].size
    /\ \A s, t \in PdoSlaveIds : \A k \in DOMAIN pdo_used[s], l \in DOMAIN pdo_used[t] :
         s < t \/ (s = t /\ k < l) => PdoWindow(s, k).end <= PdoWindow(t, l).first

\* A configuration whose outputs come first.
PdoOutputsFirst(c) ==
  \A i, j \in DOMAIN c : c[i].dir = "input" /\ c[j].dir = "output" => j < i

\* What the getters hand out as outputs and as inputs is where the slave takes its outputs
\* from and puts its inputs, if the configuration has its outputs first
\* (ec_master.c:694, 712).
PdoGetters ==
  pdo_pc = "running" =>
    \A s \in PdoSlaveIds : PdoOutputsFirst(pdo_used[s]) =>
      \A k \in DOMAIN pdo_used[s] :
        PdoInside(PdoWindow(s, k),
                  IF pdo_used[s][k].dir = "output" THEN ec_master_get_slave_domain_output(s)
                                                   ELSE ec_master_get_slave_domain_input(s))
=============================================================================
