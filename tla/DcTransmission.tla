--------------------------- MODULE DcTransmission ---------------------------
(***************************************************************************)
(* The end of a bus scan: from the ports on which each slave saw the frame *)
(* that latched its port receive times, the master finds out how long a    *)
(* frame takes from the reference clock to each of them                    *)
(* (ec_slave.c:136-276, 853-895, 1165-1175).                               *)
(*                                                                         *)
(* The wiring is that of DcTopology.  The delays of the links (the same    *)
(* both ways) and what each slave's free running clock shows are given;    *)
(* receive times are below DcModulus.  A slave without distributed clocks  *)
(* has no receive times.                                                   *)
(***************************************************************************)
EXTENDS DcTopology

CONSTANTS
  DcModulus,   \* the range of a receive time: 2^32
  DcDelays,    \* possible delays of a link
  DcClocks     \* possible functions from slaves to what their clocks show at time 0

ASSUME DcTimesAssumption ==
  /\ DcModulus \in Nat \ {0}
  /\ DcDelays \subseteq Nat
  /\ DcClocks \subseteq [DcIds -> Nat]

VARIABLES
  dc_stage,      \* how far the scan has come
  dc_support,    \* base_dc_supported
  dc_link,       \* the delay of the link at port 0 of each slave
  dc_clock,
  dc_receive,    \* ports[].receive_time
  dc_ref,        \* dc_ref_clock
  dc_port_delay, \* ports[].delay_to_next_dc
  dc_delay       \* transmission_delay

dcBus == <<dc_support, dc_link, dc_clock>>
dcTimes == <<dc_receive, dc_ref, dc_port_delay, dc_delay>>
dcVars == <<dcWiringVars, dc_stage, dcBus, dcTimes>>

DcZero == [s \in DcIds |-> [p \in DcPorts |-> 0]]

-----------------------------------------------------------------------------
(***************************************************************************)
(* The bus.                                                                *)
(***************************************************************************)
DcInit ==
  /\ DcWiringInit
  /\ dc_stage = "bus"
  /\ dc_support = [s \in DcIds |-> FALSE]
  /\ dc_link = [s \in DcIds \ {0} |-> 0]
  /\ dc_clock = [s \in DcIds |-> 0]
  /\ dc_receive = DcZero
  /\ dc_ref = DcNone
  /\ dc_port_delay = DcZero
  /\ dc_delay = [s \in DcIds |-> 0]

DcBus ==
  /\ dc_stage = "bus"
  /\ dc_stage' = "latch"
  /\ DcConnect
  /\ dc_support' \in [DcIds -> BOOLEAN]
  /\ dc_link' \in [DcIds \ {0} -> DcDelays]
  /\ dc_clock' \in DcClocks
  /\ UNCHANGED dcTimes

\* The neighbour behind a port.
DcAt(s, p) == CHOOSE t \in DcIds \ {0} : dc_parent[t] = s /\ dc_port[t] = p

\* The time a frame spends on the link to a slave and behind it.
DcRoundTrip[s \in DcIds \ {0}] ==
  LET through(p) == IF p \in DcOpen(s) THEN DcRoundTrip[DcAt(s, p)] ELSE 0
  IN 2 * dc_link[s] + through(3) + through(1) + through(2)

\* The time it spends behind the ports of a slave, as far as a port in the order.
DcUntil(s, rank) ==
  LET through(p) ==
        IF p \in DcOpen(s) /\ DcRank[p] <= rank THEN DcRoundTrip[DcAt(s, p)] ELSE 0
  IN through(3) + through(1) + through(2)

\* The time at which the frame arrives at a slave, counted from the first one.
DcArrival[s \in DcIds] ==
  IF s = 0 THEN 0
  ELSE DcArrival[dc_parent[s]] + DcUntil(dc_parent[s], DcRank[dc_port[s]] - 1) + dc_link[s]

-----------------------------------------------------------------------------
(***************************************************************************)
(* The scan.                                                               *)
(***************************************************************************)
\* The receive times are latched by one frame and read.
DcLatch ==
  /\ dc_stage = "latch"
  /\ dc_stage' = "ref_clock"
  /\ dc_receive' =
       [s \in DcIds |-> [p \in DcPorts |->
          IF dc_support[s] /\ p \in {0} \cup DcOpen(s)
          THEN (dc_clock[s] + DcArrival[s] + DcUntil(s, DcRank[p])) % DcModulus
          ELSE 0]]
  /\ UNCHANGED <<dcWiringVars, dcBus, dc_ref, dc_port_delay, dc_delay>>

ec_master_find_dc_ref_clock ==
  /\ dc_stage = "ref_clock"
  /\ dc_stage' = "topology"
  /\ dc_ref' = IF \E s \in DcIds : dc_support[s]
               THEN CHOOSE s \in DcIds : dc_support[s] /\ \A t \in 0 .. s - 1 : ~dc_support[t]
               ELSE DcNone
  /\ UNCHANGED <<dcWiringVars, dcBus, dc_receive, dc_port_delay, dc_delay>>

ec_master_calc_topology ==
  /\ dc_stage = "topology"
  /\ DcTraverse
  /\ UNCHANGED <<dc_stage, dcBus, dcTimes>>

-----------------------------------------------------------------------------
\* A loop over the connected ports of a slave, as ec_slave_get_next_port finds them.
DcOverPorts(s, op(_, _), start) ==
  LET visit(result, p) == IF dc_next[s][p] = DcNone THEN result ELSE op(result, p)
      first == DcNextTable[0]
      second == DcNextTable[first]
  IN visit(visit(visit(start, first), second), DcNextTable[second])

DcPrevTable == [p \in DcPorts |-> CASE p = 0 -> 2 [] p = 1 -> 3 [] p = 2 -> 1 [] p = 3 -> 0]

\* From a port other than 0, which is at most three places from the end of the loop.
ec_slave_get_previous_port(s, p) ==
  LET q == DcPrevTable[p]
      r == DcPrevTable[q]
      Ends(port) == port = 0 \/ dc_next[s][port] # DcNone
  IN IF Ends(q) THEN q ELSE IF Ends(r) THEN r ELSE DcPrevTable[r]

\* Mutant: a clock that wraps around between two receive times.
DcMinusSaturated(a, b) == IF a < b THEN 0 ELSE a - b

DcMinus(a, b) == (a - b) % DcModulus

\* The round trip through a port.
DcRtt(s, p) == DcMinus(dc_receive[s][p], dc_receive[s][ec_slave_get_previous_port(s, p)])

ec_slave_calc_rtt_sum(s) ==
  DcOverPorts(s, LAMBDA sum, p : (sum + DcRtt(s, p)) % DcModulus, 0)

ec_slave_find_next_dc_slave[s \in DcIds] ==
  IF dc_support[s] THEN s
  ELSE DcOverPorts(s, LAMBDA dc, p : IF dc # DcNone THEN dc
                                     ELSE ec_slave_find_next_dc_slave[dc_next[s][p]], DcNone)

\* The slave to which the delay behind a port is measured.
DcNextDc(s, p) ==
  IF dc_support[s] /\ p # 0 /\ dc_next[s][p] # DcNone
  THEN ec_slave_find_next_dc_slave[dc_next[s][p]] ELSE DcNone

DcPortDelay(s, p) == DcMinus(DcRtt(s, p), ec_slave_calc_rtt_sum(DcNextDc(s, p))) \div 2

\* ec_slave_calc_port_delays of all slaves.  The delay is written at both ends.
DcCalcPortDelays ==
  LET MeasuredFrom(s) == {m \in DcIds \X DcPorts : DcNextDc(m[1], m[2]) = s}
  IN /\ dc_stage = "topology" /\ dc_pc = "found"
     /\ dc_stage' = "delays"
     /\ dc_port_delay' =
          [s \in DcIds |-> [p \in DcPorts |->
             IF DcNextDc(s, p) # DcNone THEN DcPortDelay(s, p)
             ELSE IF p = 0 /\ MeasuredFrom(s) # {}
               THEN LET m == CHOOSE m \in MeasuredFrom(s) : TRUE IN DcPortDelay(m[1], m[2])
             ELSE dc_port_delay[s][p]]]
     /\ UNCHANGED <<dcWiringVars, dcBus, dc_receive, dc_ref, dc_delay>>

\* *delay, and the delay of each slave.
DcSums == [delay : 0 .. DcModulus - 1, of : [DcIds -> 0 .. DcModulus - 1]]

DcAdd(sum, delay) == [sum EXCEPT !.delay = (@ + delay) % DcModulus]

ec_slave_calc_transmission_delays[s \in DcIds] == [sum \in DcSums |->
  LET behind == DcOverPorts(s,
        LAMBDA result, p :
          LET next_dc == ec_slave_find_next_dc_slave[dc_next[s][p]]
          IN IF next_dc = DcNone THEN result
             ELSE ec_slave_calc_transmission_delays[next_dc][DcAdd(result, dc_port_delay[s][p])],
        [sum EXCEPT !.of[s] = sum.delay])
  IN DcAdd(behind, dc_port_delay[s][0])]

ec_master_calc_transmission_delays ==
  /\ dc_stage = "delays"
  /\ dc_stage' = "done"
  /\ dc_delay' =
       IF dc_ref = DcNone THEN dc_delay
       ELSE ec_slave_calc_transmission_delays[dc_ref][[delay |-> 0, of |-> dc_delay]].of
  /\ UNCHANGED <<dcWiringVars, dcBus, dc_receive, dc_ref, dc_port_delay>>

DcNext ==
  \/ DcBus \/ DcLatch \/ ec_master_find_dc_ref_clock \/ ec_master_calc_topology
  \/ DcCalcPortDelays \/ ec_master_calc_transmission_delays

DcSpec == DcInit /\ [][DcNext]_dcVars

-----------------------------------------------------------------------------
\* A slave and all that is behind it: these follow one another in number.
DcSubtree(s) == {u \in DcIds : s <= u /\ \A t \in s + 1 .. u : dc_parent[t] >= s}

\* A slave that passes the frame on to one neighbour, or to none if no slave behind the
\* reference clock comes after it.
DcInLine(s) ==
  (\E t \in DcIds : DcBehind(s, 3) = {t}) \/ \A t \in DcSubtree(dc_ref) : t <= s

\* The transmission delay of each slave with distributed clocks behind the reference clock
\* is the time that the frame takes from there to it, whatever the clocks show and where
\* they wrap around, if the slaves without distributed clocks in between stand in a line and
\* the frame is back within one round of the clocks.
\* Behind a port the master measures up to the first slave with distributed clocks; the
\* time that the frame spends in a branch without any is in no delay
\* (ec_slave.c:194-219, 261-273).
DcDelaysRight ==
  (/\ dc_stage = "done" /\ dc_ref # DcNone
   /\ DcUntil(0, 3) < DcModulus
   /\ \A s \in DcSubtree(dc_ref) : dc_support[s] \/ DcInLine(s))
    => \A s \in DcSubtree(dc_ref) :
         dc_support[s] => dc_delay[s] = DcArrival[s] - DcArrival[dc_ref]
=============================================================================
