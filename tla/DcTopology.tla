----------------------------- MODULE DcTopology -----------------------------
(***************************************************************************)
(* How the slaves are wired, and how the master finds out at the end of a  *)
(* scan (ec_slave.c:818-851, 897-910).                                     *)
(*                                                                         *)
(* A slave takes a frame in at port 0 and passes it on through its ports   *)
(* 3, 1 and 2, in this order, as far as something is connected there; the  *)
(* slaves are numbered in the order in which the frame comes to them.  The *)
(* master knows how many slaves there are and which ports of each one are  *)
(* open.                                                                   *)
(*                                                                         *)
(* ec_master_calc_topology calls itself, once for each slave: its frame is *)
(* known by that slave, and returns to the frame of port0_slave.           *)
(***************************************************************************)
EXTENDS Integers

CONSTANT DcSlaves    \* the number of slaves

ASSUME DcAssumption == DcSlaves \in Nat \ {0}

DcIds == 0 .. DcSlaves - 1
DcPorts == 0 .. 3
DcNone == -1    \* no slave

VARIABLES
  dc_pc,
  dc_parent,     \* the wiring: each slave's neighbour towards the master,
  dc_port,       \* and the port of that neighbour
  dc_next,       \* ports[].next_slave
  dc_position,   \* *slave_position
  dc_at,         \* the slave of the innermost call
  dc_index       \* port_index in the call for each slave; 0 outside it

dcWiring == <<dc_parent, dc_port>>
dcWiringVars == <<dc_pc, dcWiring, dc_next, dc_position, dc_at, dc_index>>

-----------------------------------------------------------------------------
(***************************************************************************)
(* The wiring.                                                             *)
(***************************************************************************)
\* The place of a port in the order in which a slave uses them.
DcRank == [p \in DcPorts |-> CASE p = 0 -> 0 [] p = 3 -> 1 [] p = 1 -> 2 [] p = 2 -> 3]

\* The frame comes to the slaves in the order of their numbers: to all that is behind a
\* slave before it comes to anything else.
DcWired(parent, port) ==
  \A s \in DcIds \ {0} :
    /\ parent[s] < s
    /\ \A t \in DcIds \ {0} :
         /\ parent[s] < t /\ t < s => parent[t] >= parent[s]
         /\ t < s /\ parent[t] = parent[s] => DcRank[port[t]] < DcRank[port[s]]

DcWiringInit ==
  /\ dc_pc = "idle"
  /\ dc_parent = [s \in DcIds \ {0} |-> 0]
  /\ dc_port = [s \in DcIds \ {0} |-> 3]
  /\ dc_next = [s \in DcIds |-> [p \in DcPorts |-> DcNone]]
  /\ dc_position = 0
  /\ dc_at = 0
  /\ dc_index = [s \in DcIds |-> 0]

\* The slaves are connected, in some way; the scan has counted them.
DcConnect ==
  /\ dc_pc = "idle"
  /\ dc_pc' = "connected"
  /\ dc_parent' \in [DcIds \ {0} -> DcIds]
  /\ \A s \in DcIds \ {0} : dc_parent'[s] < s
  /\ dc_port' \in [DcIds \ {0} -> DcPorts \ {0}]
  /\ DcWired(dc_parent', dc_port')
  /\ UNCHANGED <<dc_next, dc_position, dc_at, dc_index>>

\* The neighbours behind a slave, as far as a port in the order.
DcBehind(s, rank) ==
  {t \in DcIds \ {0} : dc_parent[t] = s /\ DcRank[dc_port[t]] <= rank}

DcOpen(s) == {dc_port[t] : t \in DcBehind(s, 3)}

-----------------------------------------------------------------------------
(***************************************************************************)
(* ec_master_calc_topology.                                                *)
(***************************************************************************)
\* Mutant: the ports in the order of their numbers.
DcNextTableByNumber == [p \in DcPorts |-> (p + 1) % 4]

DcNextTable == [p \in DcPorts |-> CASE p = 0 -> 3 [] p = 3 -> 1 [] p = 1 -> 2 [] p = 2 -> 0]

\* The call for slave t, up to its loop, with the table next.
DcCall(next, t, port0_slave) ==
  /\ dc_position' = t
  /\ dc_at' = t
  /\ dc_next' = [next EXCEPT ![t][0] = port0_slave]
  /\ dc_index' = [dc_index EXCEPT ![t] = 3]

DcCalcTopology ==
  /\ dc_pc = "connected"
  /\ dc_pc' = "topology"
  /\ DcCall(dc_next, 0, DcNone)
  /\ UNCHANGED dcWiring

DcClosedPort ==
  /\ dc_pc = "topology"
  /\ dc_index[dc_at] # 0 /\ dc_index[dc_at] \notin DcOpen(dc_at)
  /\ dc_index' = [dc_index EXCEPT ![dc_at] = DcNextTable[@]]
  /\ UNCHANGED <<dc_pc, dcWiring, dc_next, dc_position, dc_at>>

\* The next slave must be there: otherwise all calls return -1 and the assertion fails.
DcOpenPort ==
  LET p == dc_index[dc_at]
      t == dc_position + 1
  IN /\ dc_pc = "topology"
     /\ p # 0 /\ p \in DcOpen(dc_at)
     /\ IF t < DcSlaves
          THEN DcCall([dc_next EXCEPT ![dc_at][p] = t], t, dc_at) /\ UNCHANGED dc_pc
          ELSE /\ dc_pc' = "failed"
               /\ dc_position' = t
               /\ UNCHANGED <<dc_next, dc_at, dc_index>>
     /\ UNCHANGED dcWiring

\* A call returns to the loop of the call that made it.
DcReturn ==
  LET port0_slave == dc_next[dc_at][0]
  IN /\ dc_pc = "topology"
     /\ dc_index[dc_at] = 0 /\ port0_slave # DcNone
     /\ dc_at' = port0_slave
     /\ dc_index' = [dc_index EXCEPT ![port0_slave] = DcNextTable[@]]
     /\ UNCHANGED <<dc_pc, dcWiring, dc_next, dc_position>>

DcReturnLast ==
  /\ dc_pc = "topology"
  /\ dc_index[dc_at] = 0 /\ dc_next[dc_at][0] = DcNone
  /\ dc_pc' = "found"
  /\ UNCHANGED <<dcWiring, dc_next, dc_position, dc_at, dc_index>>

DcTraverse == DcCalcTopology \/ DcClosedPort \/ DcOpenPort \/ DcReturn \/ DcReturnLast

DcWiringNext == DcConnect \/ DcTraverse

DcWiringSpec == DcWiringInit /\ [][DcWiringNext]_dcWiringVars

-----------------------------------------------------------------------------
\* The neighbours that the master finds are those that are there: next_slave of each port
\* is the slave connected to it, and the assertion on the way (ec_slave.c:905) holds, for
\* every wiring of the slaves, although the master sees no more of it than which ports of
\* each slave are open.
DcTopologyFound ==
  /\ dc_pc # "failed"
  /\ dc_pc = "found" =>
       /\ dc_next[0][0] = DcNone
       /\ \A t \in DcIds \ {0} : /\ dc_next[t][0] = dc_parent[t]
                                 /\ dc_next[dc_parent[t]][dc_port[t]] = t
       /\ \A s \in DcIds, p \in DcPorts \ {0} : p \notin DcOpen(s) => dc_next[s][p] = DcNone
=============================================================================
