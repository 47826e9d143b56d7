-------------------------- MODULE PdoLayoutProofs --------------------------
(***************************************************************************)
(* Proofs about PdoLayout, for any number of slaves and any configurations *)
(* that name no sync manager twice.                                        *)
(***************************************************************************)
EXTENDS PdoLayout, TLAPS

End(s) == pdo_first[s] + pdo_odata[s] + pdo_idata[s]

\* The slaves that the start has done with, those it has come to, and its syncs.
Done(s) == (pdo_pc \in {"slave", "sync"} /\ s < pdo_slave) \/ pdo_pc = "running"
Reached(s) == Done(s) \/ (pdo_pc = "sync" /\ s = pdo_slave)
Visited(s, k) == Done(s) \/ (pdo_pc = "sync" /\ s = pdo_slave /\ k < pdo_sync)

\* The buffer ends with the domain of the last slave that has been reached.
Filled ==
  /\ pdo_pc = "slave" => pdo_size = IF pdo_slave = 1 THEN 0 ELSE End(pdo_slave - 1)
  /\ pdo_pc = "sync" => pdo_size = End(pdo_slave)
  /\ pdo_pc = "running" => pdo_size = End(PdoSlaves)
  /\ Reached(1) => pdo_first[1] = 0
  /\ \A s \in PdoSlaveIds : Reached(s) /\ s # 1 => pdo_first[s] = End(s - 1)

\* The domains are in order.
Ordered ==
  /\ \A s \in PdoSlaveIds : Done(s) => End(s) <= pdo_size
  /\ \A s, t \in PdoSlaveIds : s < t /\ Reached(t) => End(s) <= pdo_first[t]

\* The windows of a slave are in its domain, large enough and in order.
Placed ==
  \A s \in PdoSlaveIds : \A k \in DOMAIN pdo_used[s] : Visited(s, k) =>
    /\ pdo_first[s] <= PdoWindow(s, k).first /\ PdoWindow(s, k).end <= End(s)
    /\ pdo_used[s][k].bits <= 8 * pdo_window[s][pdo_used[s][k].sm].size
    /\ \A l \in DOMAIN pdo_used[s] :
         l < k => PdoWindow(s, l).end <= PdoWindow(s, k).first

\* With the outputs first, the outputs of a slave end where its inputs begin.
Separated ==
  /\ pdo_pc = "sync" /\ pdo_idata[pdo_slave] # 0
       => \E k \in DOMAIN pdo_used[pdo_slave] :
            k < pdo_sync /\ pdo_used[pdo_slave][k].dir = "input"
  /\ \A s \in PdoSlaveIds : PdoOutputsFirst(pdo_used[s]) =>
       \A k \in DOMAIN pdo_used[s] : Visited(s, k) =>
         IF pdo_used[s][k].dir = "output"
         THEN PdoWindow(s, k).end <= pdo_first[s] + pdo_odata[s]
         ELSE pdo_first[s] + pdo_odata[s] <= PdoWindow(s, k).first

PdoInv == PdoTypeOK /\ Filled /\ Ordered /\ Placed /\ Separated

\* The slaves are numbered from 1.
LEMMA Numbers ==
  /\ PdoSlaves \in Nat \ {0} /\ 1 \in PdoSlaveIds /\ PdoSlaves \in PdoSlaveIds
  /\ \A s \in PdoSlaveIds : /\ s \in Nat \ {0} /\ s <= PdoSlaves
                            /\ s # 1 => s - 1 \in PdoSlaveIds /\ s - 1 < s
                            /\ s < PdoSlaves => s + 1 \in PdoSlaveIds
BY PdoAssumption DEF PdoSlaveIds

\* What the configurations are made of.
LEMMA ConfigTypes ==
  ASSUME NEW c \in PdoConfigs
  PROVE  /\ c \in Seq(PdoSyncType)
         /\ DOMAIN c = 1 .. Len(c) /\ Len(c) \in Nat
         /\ \A k \in DOMAIN c : /\ c[k].sm \in PdoSms /\ c[k].bits \in Nat
                                /\ c[k].dir \in {"output", "input"}
         /\ \A i, j \in DOMAIN c : c[i].sm = c[j].sm => i = j
<1>1. c \in Seq(PdoSyncType) /\ \A i, j \in DOMAIN c : c[i].sm = c[j].sm => i = j
  BY PdoAssumption
<1>2. DOMAIN c = 1 .. Len(c) /\ Len(c) \in Nat /\ \A k \in 1 .. Len(c) : c[k] \in PdoSyncType
  BY <1>1
<1>3. QED
  BY <1>1, <1>2 DEF PdoSyncType

\* The bytes of a window are enough for its bits.
LEMMA BytesEnough ==
  ASSUME NEW bits \in Nat
  PROVE  PdoBytes(bits) \in Nat /\ bits <= 8 * PdoBytes(bits)
BY DEF PdoBytes

LEMMA InitInv == PdoInit => PdoInv
<1> SUFFICES ASSUME PdoInit PROVE PdoInv
  OBVIOUS
<1>1. 1 \in PdoSlaveIds /\ <<>> \in PdoConfigs
  BY PdoAssumption DEF PdoSlaveIds
<1>2. PdoTypeOK
  BY <1>1 DEF PdoInit, PdoTypeOK, PdoNoWindow
<1>3. QED
  BY <1>2 DEF PdoInit, PdoInv, Filled, Ordered, Placed, Separated, Done, Reached, Visited

-----------------------------------------------------------------------------
(***************************************************************************)
(* Types.                                                                  *)
(***************************************************************************)
LEMMA TypesStep ==
  ASSUME PdoTypeOK, PdoNext
  PROVE  PdoTypeOK'
<1> USE DEF PdoTypeOK
<1>0. 1 \in PdoSlaveIds /\ <<>> \in PdoConfigs /\ PdoSlaves \in Nat
  BY PdoAssumption DEF PdoSlaveIds
<1>1. CASE PdoAssign
  BY <1>1 DEF PdoAssign
<1>2. CASE PdoStart
  BY <1>0, <1>2 DEF PdoStart
<1>3. CASE PdoSlave
  BY <1>3 DEF PdoSlave
<1>4. CASE PdoSync
  <2> DEFINE sync == pdo_used[pdo_slave][pdo_sync]
             bytes == PdoBytes(sync.bits)
  <2>1. pdo_used[pdo_slave] \in PdoConfigs
    OBVIOUS
  <2>2. pdo_sync \in DOMAIN pdo_used[pdo_slave]
    BY <1>4, <2>1, ConfigTypes DEF PdoSync
  <2>3. sync.sm \in PdoSms /\ sync.bits \in Nat
    BY <2>1, <2>2, ConfigTypes
  <2>4. bytes \in Nat
    BY <2>3, BytesEnough
  <2> HIDE DEF sync, bytes
  <2>5. /\ pdo_window' = [pdo_window EXCEPT ![pdo_slave][sync.sm] =
                            [first |-> pdo_size, size |-> bytes]]
        /\ pdo_size' = pdo_size + bytes
        /\ pdo_odata' = [pdo_odata EXCEPT ![pdo_slave] =
                           IF sync.dir = "output" THEN @ + bytes ELSE @]
        /\ pdo_idata' = [pdo_idata EXCEPT ![pdo_slave] =
                           IF sync.dir = "input" THEN @ + bytes ELSE @]
        /\ pdo_sync' = pdo_sync + 1
        /\ UNCHANGED <<pdo_pc, pdo_slave, pdo_config, pdo_used, pdo_first>>
    BY <1>4 DEF PdoSync, sync, bytes
  <2>6. pdo_window' \in [PdoSlaveIds -> [PdoSms -> [first : Nat, size : Nat]]]
    <3>1. [first |-> pdo_size, size |-> bytes] \in [first : Nat, size : Nat]
      BY <2>4
    <3>2. QED
      BY <2>3, <2>5, <3>1
  <2>7. pdo_size' \in Nat /\ pdo_sync' \in Nat \ {0}
    BY <2>4, <2>5
  <2>8. pdo_odata' \in [PdoSlaveIds -> Nat] /\ pdo_idata' \in [PdoSlaveIds -> Nat]
    BY <2>4, <2>5
  <2>9. QED
    BY <2>5, <2>6, <2>7, <2>8
<1>5. CASE PdoNextSlave
  BY <1>5, Numbers DEF PdoNextSlave
<1>6. CASE PdoStop
  BY <1>6 DEF PdoStop
<1>7. CASE PdoRescan
  BY <1>0, <1>7 DEF PdoRescan, PdoNoWindow
<1>8. QED
  BY <1>1, <1>2, <1>3, <1>4, <1>5, <1>6, <1>7 DEF PdoNext

-----------------------------------------------------------------------------
(***************************************************************************)
(* The actions that do not place a window.                                 *)
(***************************************************************************)
\* Where no slave has been reached, there is nothing to show.
LEMMA NothingReached ==
  ASSUME pdo_pc \in {"stopped", "rescanned"} \/ (pdo_pc = "slave" /\ pdo_slave = 1 /\ pdo_size = 0)
  PROVE  Filled /\ Ordered /\ Placed /\ Separated
<1>1. \A s \in PdoSlaveIds : ~Done(s) /\ ~Reached(s) /\ \A k : ~Visited(s, k)
  BY DEF Done, Reached, Visited, PdoSlaveIds
<1>2. 1 \in PdoSlaveIds
  BY PdoAssumption DEF PdoSlaveIds
<1>3. QED
  BY <1>1, <1>2 DEF Filled, Ordered, Placed, Separated

LEMMA AssignStep ==
  ASSUME PdoInv, PdoAssign
  PROVE  Filled' /\ Ordered' /\ Placed' /\ Separated'
<1>1. UNCHANGED <<pdo_pc, pdo_slave, pdo_sync, pdo_used, pdo_size, pdo_first, pdo_odata,
                  pdo_idata, pdo_window>>
  BY DEF PdoAssign
<1>2. Filled' /\ Ordered'
  BY <1>1 DEF PdoInv, Filled, Ordered, Done, Reached, End
<1>3. Placed'
  BY <1>1 DEF PdoInv, Placed, Visited, Done, PdoWindow, End
<1>4. Separated'
  BY <1>1 DEF PdoInv, Separated, Visited, Done, PdoWindow, PdoOutputsFirst
<1>5. QED
  BY <1>2, <1>3, <1>4

\* A start comes to the next slave: its domain begins where the last one ends.
LEMMA SlaveStep ==
  ASSUME PdoInv, PdoSlave
  PROVE  Filled' /\ Ordered' /\ Placed' /\ Separated'
<1> DEFINE cur == pdo_slave
<1>1. /\ pdo_pc = "slave" /\ pdo_pc' = "sync" /\ pdo_slave' = pdo_slave /\ pdo_sync' = 1
      /\ pdo_size' = pdo_size /\ pdo_window' = pdo_window
      /\ cur \in PdoSlaveIds
  BY DEF PdoSlave, PdoInv, PdoTypeOK
<1>2. /\ pdo_first'[cur] = pdo_size /\ pdo_odata'[cur] = 0 /\ pdo_idata'[cur] = 0
      /\ \A s \in PdoSlaveIds : s # cur =>
           /\ pdo_first'[s] = pdo_first[s] /\ pdo_odata'[s] = pdo_odata[s]
           /\ pdo_idata'[s] = pdo_idata[s] /\ pdo_used'[s] = pdo_used[s]
  BY DEF PdoSlave, PdoInv, PdoTypeOK
<1>3. pdo_size \in Nat
  BY DEF PdoInv, PdoTypeOK
<1>4. /\ End(cur)' = pdo_size
      /\ \A s \in PdoSlaveIds : s # cur => End(s)' = End(s)
  BY <1>1, <1>2, <1>3 DEF End
<1>5. \A s \in PdoSlaveIds :
        /\ Done(s)' <=> Done(s)
        /\ Done(s) => s # cur
        /\ Reached(s)' <=> Done(s) \/ s = cur
        /\ \A k \in DOMAIN pdo_used'[s] : Visited(s, k)' => Done(s)
  <2> SUFFICES ASSUME NEW s \in PdoSlaveIds
               PROVE  /\ Done(s)' <=> Done(s)
                      /\ Done(s) => s # cur
                      /\ Reached(s)' <=> Done(s) \/ s = cur
                      /\ \A k \in DOMAIN pdo_used'[s] : Visited(s, k)' => Done(s)
    OBVIOUS
  <2>1. Done(s)' <=> Done(s)
    BY <1>1 DEF Done
  <2>2. Done(s) => s # cur
    BY <1>1 DEF Done, PdoSlaveIds
  <2>3. Reached(s)' <=> Done(s) \/ s = cur
    BY <1>1, <2>1 DEF Reached
  <2>4. DOMAIN pdo_used'[s] \subseteq Nat \ {0}
    <3>1. pdo_used'[s] \in PdoConfigs
      BY TypesStep DEF PdoInv, PdoNext, PdoTypeOK
    <3>2. QED
      BY <3>1, ConfigTypes
  <2>5. \A k \in DOMAIN pdo_used'[s] : Visited(s, k)' => Done(s)
    BY <1>1, <2>1, <2>4 DEF Visited
  <2>6. QED
    BY <2>1, <2>2, <2>3, <2>5
<1> HIDE DEF cur
<1>6. Filled'
  <2>1. pdo_size' = End(cur)'
    BY <1>1, <1>4
  <2>2. cur = 1 => pdo_size = 0
    BY <1>1 DEF PdoInv, Filled, cur
  <2>3. cur # 1 => pdo_size = End(cur - 1) /\ cur - 1 \in PdoSlaveIds /\ cur - 1 # cur
    BY <1>1, Numbers DEF PdoInv, Filled, cur
  <2>4. Reached(1)' => pdo_first'[1] = 0
    <3>1. 1 \in PdoSlaveIds
      BY PdoAssumption DEF PdoSlaveIds
    <3>2. QED
      BY <1>2, <1>5, <2>2, <3>1 DEF PdoInv, Filled, Reached
  <2>5. ASSUME NEW s \in PdoSlaveIds, Reached(s)', s # 1
        PROVE  pdo_first'[s] = End(s - 1)'
    <3>1. CASE s = cur
      BY <1>2, <1>4, <2>3, <2>5, <3>1
    <3>2. CASE s # cur
      <4>1. Done(s) /\ s < cur
        BY <1>1, <1>5, <2>5, <3>2 DEF Done, cur
      <4>2. s - 1 \in PdoSlaveIds /\ s - 1 # cur
        BY <1>1, <2>5, <4>1, Numbers
      <4>3. pdo_first[s] = End(s - 1)
        BY <2>5, <4>1 DEF PdoInv, Filled, Reached
      <4>4. QED
        BY <1>2, <1>4, <3>2, <4>2, <4>3
    <3>3. QED
      BY <3>1, <3>2
  <2>6. QED
    BY <1>1, <2>1, <2>4, <2>5 DEF Filled, cur
<1>7. Ordered'
  <2>1. \A s \in PdoSlaveIds : Done(s)' => End(s)' <= pdo_size'
    BY <1>1, <1>4, <1>5 DEF PdoInv, Ordered
  <2>2. ASSUME NEW s \in PdoSlaveIds, NEW t \in PdoSlaveIds, s < t, Reached(t)'
        PROVE  End(s)' <= pdo_first'[t]
    <3>1. t <= cur
      BY <1>1, <1>5, <2>2 DEF Done, PdoSlaveIds, cur
    <3>2. s # cur
      BY <1>1, <2>2, <3>1 DEF PdoSlaveIds
    <3>3. CASE t = cur
      <4>1. Done(s)
        BY <1>1, <2>2, <3>3 DEF Done, cur
      <4>2. QED
        BY <1>2, <1>4, <3>2, <3>3, <4>1 DEF PdoInv, Ordered
    <3>4. CASE t # cur
      <4>1. Reached(t)
        BY <1>5, <2>2, <3>4 DEF Reached
      <4>2. QED
        BY <1>2, <1>4, <2>2, <3>2, <3>4, <4>1 DEF PdoInv, Ordered
    <3>5. QED
      BY <3>3, <3>4
  <2>3. QED
    BY <2>1, <2>2 DEF Ordered
<1>8. ASSUME NEW s \in PdoSlaveIds, Done(s)
      PROVE  /\ pdo_first'[s] = pdo_first[s] /\ pdo_odata'[s] = pdo_odata[s]
             /\ pdo_used'[s] = pdo_used[s] /\ End(s)' = End(s)
             /\ \A k : PdoWindow(s, k)' = PdoWindow(s, k)
  BY <1>1, <1>2, <1>4, <1>5, <1>8 DEF PdoWindow
<1>9. Placed'
  <2> SUFFICES ASSUME NEW s \in PdoSlaveIds, NEW k \in DOMAIN pdo_used'[s], Visited(s, k)'
               PROVE  /\ pdo_first'[s] <= PdoWindow(s, k)'.first /\ PdoWindow(s, k)'.end <= End(s)'
                      /\ pdo_used'[s][k].bits <= 8 * pdo_window'[s][pdo_used'[s][k].sm].size
                      /\ \A l \in DOMAIN pdo_used'[s] :
                           l < k => PdoWindow(s, l)'.end <= PdoWindow(s, k)'.first
    BY DEF Placed
  <2>1. Done(s)
    BY <1>5
  <2>2. Visited(s, k)
    BY <2>1 DEF Visited
  <2>3. QED
    BY <1>1, <1>8, <2>1, <2>2 DEF PdoInv, Placed
<1>10. Separated'
  <2>1. pdo_idata'[pdo_slave'] = 0
    BY <1>1, <1>2 DEF cur
  <2>2. ASSUME NEW s \in PdoSlaveIds, PdoOutputsFirst(pdo_used'[s]),
               NEW k \in DOMAIN pdo_used'[s], Visited(s, k)'
        PROVE  IF pdo_used'[s][k].dir = "output"
               THEN PdoWindow(s, k)'.end <= pdo_first'[s] + pdo_odata'[s]
               ELSE pdo_first'[s] + pdo_odata'[s] <= PdoWindow(s, k)'.first
    <3>1. Done(s)
      BY <1>5, <2>2
    <3>2. Visited(s, k)
      BY <3>1 DEF Visited
    <3>3. QED
      BY <1>8, <2>2, <3>1, <3>2 DEF PdoInv, Separated
  <2>3. QED
    BY <2>1, <2>2 DEF Separated, PdoOutputsFirst
<1>11. QED
  BY <1>6, <1>7, <1>9, <1>10

\* A slave is done with: its syncs have all been visited.
LEMMA NextSlaveStep ==
  ASSUME PdoInv, PdoNextSlave
  PROVE  Filled' /\ Ordered' /\ Placed' /\ Separated'
<1>1. /\ pdo_pc = "sync" /\ pdo_sync > Len(pdo_used[pdo_slave])
      /\ UNCHANGED <<pdo_sync, pdo_used, pdo_size, pdo_first, pdo_odata, pdo_idata, pdo_window>>
      /\ pdo_slave \in PdoSlaveIds /\ pdo_sync \in Nat
      /\ \/ pdo_pc' = "slave" /\ pdo_slave' = pdo_slave + 1
         \/ pdo_pc' = "running" /\ pdo_slave' = pdo_slave /\ pdo_slave = PdoSlaves
  BY Numbers DEF PdoNextSlave, PdoInv, PdoTypeOK
<1>2. \A s \in PdoSlaveIds : (Done(s)' => Reached(s)) /\ (Reached(s)' => Reached(s))
  BY <1>1, Numbers DEF Done, Reached
<1>3. \A s \in PdoSlaveIds : \A k \in DOMAIN pdo_used[s] : Visited(s, k)' => Visited(s, k)
  <2> SUFFICES ASSUME NEW s \in PdoSlaveIds, NEW k \in DOMAIN pdo_used[s], Visited(s, k)'
               PROVE  Visited(s, k)
    OBVIOUS
  <2>1. k \in Nat /\ k <= Len(pdo_used[s]) /\ Len(pdo_used[s]) \in Nat
    BY ConfigTypes DEF PdoInv, PdoTypeOK
  <2>2. Reached(s)
    BY <1>1, <1>2 DEF Visited, Done
  <2>3. s = pdo_slave => k < pdo_sync
    BY <1>1, <2>1
  <2>4. QED
    BY <1>1, <2>2, <2>3 DEF Reached, Visited
<1>4. \A s \in PdoSlaveIds : End(s)' = End(s) /\ \A k : PdoWindow(s, k)' = PdoWindow(s, k)
  BY <1>1 DEF End, PdoWindow
<1>5. Filled'
  <2>1. pdo_size = End(pdo_slave)
    BY <1>1 DEF PdoInv, Filled
  <2>2. pdo_pc' = "slave" =>
          pdo_size' = IF pdo_slave' = 1 THEN 0
                      ELSE pdo_first'[pdo_slave' - 1] + pdo_odata'[pdo_slave' - 1]
                             + pdo_idata'[pdo_slave' - 1]
    <3>1. ASSUME pdo_pc' = "slave"
          PROVE  pdo_slave' # 1 /\ pdo_slave' - 1 = pdo_slave
      BY <1>1, <3>1, Numbers
    <3>2. QED
      BY <1>1, <2>1, <3>1 DEF End
  <2>3. pdo_pc' = "running" => pdo_size' = End(PdoSlaves)'
    BY <1>1, <1>4, <2>1
  <2>4. Reached(1)' => pdo_first'[1] = 0
    BY <1>1, <1>2, Numbers DEF PdoInv, Filled
  <2>5. \A s \in PdoSlaveIds : Reached(s)' /\ s # 1 => pdo_first'[s] = End(s - 1)'
    BY <1>1, <1>2, <1>4, Numbers DEF PdoInv, Filled
  <2>6. pdo_pc' # "sync"
    BY <1>1
  <2>7. (pdo_pc = "slave" => pdo_size = IF pdo_slave = 1 THEN 0 ELSE End(pdo_slave - 1))'
    BY <2>2 DEF End
  <2>8. QED
    BY <2>3, <2>4, <2>5, <2>6, <2>7 DEF Filled
<1>6. Ordered'
  <2>1. ASSUME NEW s \in PdoSlaveIds, Done(s)'
        PROVE  End(s)' <= pdo_size'
    <3>1. CASE s = pdo_slave
      <4>1. pdo_size = End(s) /\ pdo_size \in Nat
        BY <1>1, <3>1 DEF PdoInv, Filled, PdoTypeOK
      <4>2. QED
        BY <1>1, <1>4, <4>1
    <3>2. CASE s # pdo_slave
      BY <1>1, <1>2, <1>4, <2>1, <3>2 DEF PdoInv, Ordered, Reached
    <3>3. QED
      BY <3>1, <3>2
  <2>2. \A s, t \in PdoSlaveIds : s < t /\ Reached(t)' => End(s)' <= pdo_first'[t]
    BY <1>1, <1>2, <1>4 DEF PdoInv, Ordered
  <2>3. QED
    BY <2>1, <2>2 DEF Ordered
<1>7. Placed'
  BY <1>1, <1>3, <1>4 DEF PdoInv, Placed
<1>8. Separated'
  <2>1. pdo_pc' # "sync"
    BY <1>1
  <2>2. QED
    BY <1>1, <1>3, <1>4, <2>1 DEF PdoInv, Separated, PdoOutputsFirst
<1>9. QED
  BY <1>5, <1>6, <1>7, <1>8

-----------------------------------------------------------------------------
(***************************************************************************)
(* A sync: its window is placed at the end of the buffer.                  *)
(***************************************************************************)
LEMMA SyncStep ==
  ASSUME PdoInv, PdoSync
  PROVE  Filled' /\ Ordered' /\ Placed' /\ Separated'
<1> DEFINE cur == pdo_slave
           new == pdo_sync
           sync == pdo_used[cur][new]
           bytes == PdoBytes(sync.bits)
<1>1. /\ pdo_pc = "sync" /\ pdo_slave' = cur /\ pdo_sync' = new + 1
      /\ UNCHANGED <<pdo_pc, pdo_used, pdo_first>>
      /\ cur \in PdoSlaveIds /\ new \in Nat \ {0} /\ new <= Len(pdo_used[cur])
      /\ pdo_size \in Nat
  BY DEF PdoSync, PdoInv, PdoTypeOK
<1>2. /\ pdo_used[cur] \in PdoConfigs
      /\ new \in DOMAIN pdo_used[cur]
      /\ sync.sm \in PdoSms /\ sync.bits \in Nat /\ sync.dir \in {"output", "input"}
  <2>1. pdo_used[cur] \in PdoConfigs
    BY <1>1 DEF PdoInv, PdoTypeOK
  <2>2. new \in DOMAIN pdo_used[cur]
    BY <1>1, <2>1, ConfigTypes
  <2>3. QED
    BY <2>1, <2>2, ConfigTypes
<1>3. bytes \in Nat /\ sync.bits <= 8 * bytes
  BY <1>2, BytesEnough
<1>4. /\ pdo_window' = [pdo_window EXCEPT ![cur][sync.sm] = [first |-> pdo_size, size |-> bytes]]
      /\ pdo_size' = pdo_size + bytes
      /\ pdo_odata' = [pdo_odata EXCEPT ![cur] = IF sync.dir = "output" THEN @ + bytes ELSE @]
      /\ pdo_idata' = [pdo_idata EXCEPT ![cur] = IF sync.dir = "input" THEN @ + bytes ELSE @]
  BY DEF PdoSync
<1>5. /\ pdo_first \in [PdoSlaveIds -> Nat]
      /\ pdo_odata \in [PdoSlaveIds -> Nat] /\ pdo_idata \in [PdoSlaveIds -> Nat]
      /\ pdo_window \in [PdoSlaveIds -> [PdoSms -> [first : Nat, size : Nat]]]
  BY DEF PdoInv, PdoTypeOK
<1>6. pdo_size = End(cur)
  BY <1>1 DEF PdoInv, Filled
<1> HIDE DEF sync, bytes
<1>7. /\ pdo_odata'[cur] = (IF sync.dir = "output" THEN pdo_odata[cur] + bytes ELSE pdo_odata[cur])
      /\ pdo_idata'[cur] = (IF sync.dir = "input" THEN pdo_idata[cur] + bytes ELSE pdo_idata[cur])
      /\ \A s \in PdoSlaveIds : s # cur => /\ pdo_odata'[s] = pdo_odata[s]
                                           /\ pdo_idata'[s] = pdo_idata[s]
  BY <1>1, <1>4, <1>5
<1>8. ASSUME NEW s \in PdoSlaveIds, s = cur
      PROVE  /\ End(s) = pdo_size /\ pdo_size' = pdo_size + bytes
             /\ End(s)' = pdo_first[s] + pdo_odata'[s] + pdo_idata'[s]
             /\ End(s)' = pdo_size'
  <2>1. pdo_first[s] \in Nat /\ pdo_odata[s] \in Nat /\ pdo_idata[s] \in Nat
    BY <1>5
  <2>2. pdo_size = pdo_first[s] + pdo_odata[s] + pdo_idata[s]
    BY <1>6, <1>8 DEF End
  <2>3. pdo_odata'[s] + pdo_idata'[s] = pdo_odata[s] + pdo_idata[s] + bytes
    BY <1>2, <1>3, <1>7, <1>8, <2>1
  <2>4. pdo_odata'[s] \in Nat /\ pdo_idata'[s] \in Nat
    BY <1>3, <1>7, <1>8, <2>1
  <2>5. End(s) = pdo_size /\ End(s)' = pdo_first[s] + pdo_odata'[s] + pdo_idata'[s]
    BY <1>1, <2>2 DEF End
  <2>6. pdo_size' = pdo_size + bytes
    BY <1>4
  <2>7. QED
    BY <1>3, <2>1, <2>2, <2>3, <2>4, <2>5, <2>6
<1>9. \A s \in PdoSlaveIds : s # cur => End(s)' = End(s)
  BY <1>1, <1>7 DEF End
<1>10. ASSUME NEW s \in PdoSlaveIds, NEW k \in DOMAIN pdo_used[s], s = cur, k = new
       PROVE  /\ PdoWindow(s, k)'.first = pdo_size
              /\ PdoWindow(s, k)'.end = pdo_size + bytes
              /\ pdo_window'[s][pdo_used[s][k].sm].size = bytes
  <2>1. pdo_used[s][k] = sync
    BY <1>10 DEF sync
  <2>2. pdo_window'[s][sync.sm] = [first |-> pdo_size, size |-> bytes]
    BY <1>1, <1>2, <1>4, <1>5, <1>10
  <2>3. pdo_used'[s][k].sm = sync.sm
    BY <1>1, <2>1
  <2>4. QED
    BY <2>1, <2>2, <2>3 DEF PdoWindow
<1>11. ASSUME NEW s \in PdoSlaveIds, NEW k \in DOMAIN pdo_used[s], s # cur \/ k # new
       PROVE  /\ PdoWindow(s, k)' = PdoWindow(s, k)
              /\ pdo_window'[s][pdo_used[s][k].sm] = pdo_window[s][pdo_used[s][k].sm]
  <2>1. s = cur => pdo_used[s][k].sm # sync.sm
    BY <1>2, <1>11, ConfigTypes DEF sync
  <2>2. pdo_used[s][k].sm \in PdoSms
    BY ConfigTypes DEF PdoInv, PdoTypeOK
  <2>3. pdo_window'[s][pdo_used[s][k].sm] = pdo_window[s][pdo_used[s][k].sm]
    BY <1>1, <1>2, <1>4, <1>5, <2>1, <2>2
  <2>4. QED
    BY <1>1, <2>3 DEF PdoWindow
<1>12. \A s \in PdoSlaveIds :
         /\ Done(s)' <=> Done(s)
         /\ Reached(s)' <=> Reached(s)
         /\ Reached(s) => s <= cur
         /\ Done(s) => s # cur
  BY <1>1, Numbers DEF Done, Reached
<1>13. \A s \in PdoSlaveIds : \A k \in DOMAIN pdo_used[s] :
         /\ Visited(s, k)' => Visited(s, k) \/ (s = cur /\ k = new)
         /\ Visited(cur, k) => k < new
  <2> SUFFICES ASSUME NEW s \in PdoSlaveIds, NEW k \in DOMAIN pdo_used[s]
               PROVE  /\ Visited(s, k)' => Visited(s, k) \/ (s = cur /\ k = new)
                      /\ Visited(cur, k) => k < new
    OBVIOUS
  <2>1. k \in Nat
    BY ConfigTypes DEF PdoInv, PdoTypeOK
  <2>2. QED
    BY <1>1, <1>12, <2>1 DEF Visited
<1> HIDE DEF cur, new
<1>14. Filled'
  <2>1. Reached(1)' => pdo_first'[1] = 0
    BY <1>1, <1>12, Numbers DEF PdoInv, Filled
  <2>2. ASSUME NEW s \in PdoSlaveIds, Reached(s)', s # 1
        PROVE  pdo_first'[s] = End(s - 1)'
    <3>1. s - 1 \in PdoSlaveIds /\ s - 1 # cur
      BY <1>1, <1>12, <2>2, Numbers
    <3>2. QED
      BY <1>1, <1>9, <1>12, <2>2, <3>1 DEF PdoInv, Filled
  <2>3. pdo_pc' = "sync" /\ pdo_slave' \in PdoSlaveIds
    BY <1>1
  <2>4. (pdo_size = End(pdo_slave))'
    BY <1>1, <1>8 DEF End, cur
  <2>5. QED
    BY <2>1, <2>2, <2>3, <2>4 DEF Filled
<1>15. Ordered'
  <2>1. ASSUME NEW s \in PdoSlaveIds, Done(s)'
        PROVE  End(s)' <= pdo_size'
    <3>1. End(s)' = End(s) /\ End(s) <= pdo_size /\ End(s) \in Nat
      BY <1>5, <1>9, <1>12, <2>1 DEF PdoInv, Ordered, End
    <3>2. QED
      BY <1>1, <1>3, <1>4, <3>1
  <2>2. ASSUME NEW s \in PdoSlaveIds, NEW t \in PdoSlaveIds, s < t, Reached(t)'
        PROVE  End(s)' <= pdo_first'[t]
    <3>1. s # cur
      BY <1>1, <1>12, <2>2, Numbers
    <3>2. QED
      BY <1>1, <1>9, <1>12, <2>2, <3>1 DEF PdoInv, Ordered
  <2>3. QED
    BY <2>1, <2>2 DEF Ordered
<1>16. Placed'
  <2> SUFFICES ASSUME NEW s \in PdoSlaveIds, NEW k \in DOMAIN pdo_used[s], Visited(s, k)'
               PROVE  /\ pdo_first[s] <= PdoWindow(s, k)'.first /\ PdoWindow(s, k)'.end <= End(s)'
                      /\ pdo_used[s][k].bits <= 8 * pdo_window'[s][pdo_used[s][k].sm].size
                      /\ \A l \in DOMAIN pdo_used[s] :
                           l < k => PdoWindow(s, l)'.end <= PdoWindow(s, k)'.first
    BY <1>1 DEF Placed
  <2>1. /\ End(s) \in Nat /\ pdo_first[s] \in Nat /\ pdo_first[s] <= End(s)
        /\ End(s)' \in Nat /\ End(s) <= End(s)'
    <3>1. End(s) \in Nat /\ pdo_first[s] \in Nat /\ pdo_first[s] <= End(s)
      BY <1>5 DEF End
    <3>2. CASE s = cur
      <4>1. End(s)' = End(s) + bytes
        BY <1>8, <3>2
      <4>2. QED
        BY <1>3, <3>1, <4>1
    <3>3. CASE s # cur
      BY <1>9, <3>1, <3>3
    <3>4. QED
      BY <3>1, <3>2, <3>3
  <2>2. CASE s = cur /\ k = new
    <3>1. PdoWindow(s, k)'.first = End(s) /\ PdoWindow(s, k)'.end = End(s)'
      BY <1>8, <1>10, <2>2
    <3>2. pdo_used[s][k].bits <= 8 * pdo_window'[s][pdo_used[s][k].sm].size
      BY <1>3, <1>10, <2>2 DEF sync
    <3>3. ASSUME NEW l \in DOMAIN pdo_used[s], l < k
          PROVE  PdoWindow(s, l)'.end <= PdoWindow(s, k)'.first
      <4>1. Visited(s, l) /\ l # new
        <5>1. l \in Nat
          BY ConfigTypes DEF PdoInv, PdoTypeOK
        <5>2. QED
          BY <1>1, <2>2, <3>3, <5>1 DEF Visited, cur, new
      <4>2. PdoWindow(s, l).end <= End(s)
        BY <4>1 DEF PdoInv, Placed
      <4>3. QED
        BY <1>11, <2>2, <3>1, <4>1, <4>2
    <3>4. QED
      BY <2>1, <3>1, <3>2, <3>3
  <2>3. CASE ~(s = cur /\ k = new)
    <3>1. Visited(s, k)
      BY <1>13, <2>3
    <3>2. /\ pdo_first[s] <= PdoWindow(s, k).first /\ PdoWindow(s, k).end <= End(s)
          /\ pdo_used[s][k].bits <= 8 * pdo_window[s][pdo_used[s][k].sm].size
          /\ \A l \in DOMAIN pdo_used[s] :
               l < k => PdoWindow(s, l).end <= PdoWindow(s, k).first
      BY <3>1 DEF PdoInv, Placed
    <3>3. PdoWindow(s, k).end \in Nat
      <4>1. pdo_used[s][k].sm \in PdoSms
        BY ConfigTypes DEF PdoInv, PdoTypeOK
      <4>2. QED
        BY <1>5, <4>1 DEF PdoWindow
    <3>4. ASSUME NEW l \in DOMAIN pdo_used[s], l < k
          PROVE  PdoWindow(s, l)'.end <= PdoWindow(s, k)'.first
      <4>1. s # cur \/ l # new
        <5>1. k \in Nat /\ l \in Nat
          BY ConfigTypes DEF PdoInv, PdoTypeOK
        <5>2. QED
          BY <1>1, <1>13, <3>1, <3>4, <5>1
      <4>2. QED
        BY <1>11, <2>3, <3>2, <3>4, <4>1
    <3>5. /\ PdoWindow(s, k)' = PdoWindow(s, k)
          /\ pdo_window'[s][pdo_used[s][k].sm] = pdo_window[s][pdo_used[s][k].sm]
      BY <1>11, <2>3
    <3>6. PdoWindow(s, k).end <= End(s)'
      BY <2>1, <3>2, <3>3
    <3>7. QED
      BY <3>2, <3>4, <3>5, <3>6
  <2>4. QED
    BY <2>2, <2>3
<1>17. Separated'
  <2>1. new \in Nat \ {0} /\ cur = pdo_slave /\ new = pdo_sync
    BY <1>1 DEF cur, new
  <2>2. pdo_idata'[cur] # 0 =>
          \E k \in DOMAIN pdo_used[cur] : k < new + 1 /\ pdo_used[cur][k].dir = "input"
    <3>1. CASE sync.dir = "input"
      BY <1>2, <2>1, <3>1 DEF sync
    <3>2. CASE sync.dir # "input"
      <4>1. pdo_idata'[cur] = pdo_idata[cur]
        BY <1>7, <3>2
      <4>2. pdo_idata[cur] # 0 =>
              \E k \in DOMAIN pdo_used[cur] : k < new /\ pdo_used[cur][k].dir = "input"
        BY <1>1, <2>1 DEF PdoInv, Separated
      <4>3. \A k \in DOMAIN pdo_used[cur] : k \in Nat
        BY <1>2, ConfigTypes
      <4>4. QED
        BY <2>1, <4>1, <4>2, <4>3
    <3>3. QED
      BY <3>1, <3>2
  <2>3. ASSUME NEW s \in PdoSlaveIds, PdoOutputsFirst(pdo_used[s]),
               NEW k \in DOMAIN pdo_used[s], Visited(s, k)'
        PROVE  IF pdo_used[s][k].dir = "output"
               THEN PdoWindow(s, k)'.end <= pdo_first[s] + pdo_odata'[s]
               ELSE pdo_first[s] + pdo_odata'[s] <= PdoWindow(s, k)'.first
    <3>1. pdo_first[s] \in Nat /\ pdo_odata[s] \in Nat /\ pdo_idata[s] \in Nat
      BY <1>5
    <3>2. pdo_used[s][k].dir \in {"output", "input"} /\ k \in Nat
      BY ConfigTypes DEF PdoInv, PdoTypeOK
    <3>3. CASE s = cur /\ k = new
      <4>1. PdoWindow(s, k)'.first = pdo_size /\ PdoWindow(s, k)'.end = pdo_size + bytes
        BY <1>10, <3>3
      <4>2. pdo_size = pdo_first[cur] + pdo_odata[cur] + pdo_idata[cur]
        BY <1>6 DEF End
      <4>3. CASE sync.dir = "output"
        <5>1. pdo_idata[cur] = 0
          <6> SUFFICES ASSUME pdo_idata[cur] # 0 PROVE FALSE
            OBVIOUS
          <6>1. PICK j \in DOMAIN pdo_used[cur] : j < new /\ pdo_used[cur][j].dir = "input"
            BY <1>1, <2>1 DEF PdoInv, Separated
          <6>2. new < j
            BY <1>2, <2>3, <3>3, <4>3, <6>1 DEF PdoOutputsFirst, sync
          <6>3. j \in Nat
            BY <1>2, ConfigTypes
          <6>4. QED
            BY <2>1, <6>1, <6>2, <6>3
        <5>2. pdo_odata'[cur] = pdo_odata[cur] + bytes
          BY <1>7, <4>3
        <5>3. PdoWindow(s, k)'.end = pdo_first[s] + pdo_odata'[s]
          BY <1>3, <3>1, <3>3, <4>1, <4>2, <5>1, <5>2
        <5>4. pdo_first[s] + pdo_odata'[s] \in Nat
          BY <1>3, <3>1, <3>3, <5>2
        <5>5. QED
          BY <3>3, <4>3, <5>3, <5>4 DEF sync
      <4>4. CASE sync.dir # "output"
        <5>1. pdo_odata'[cur] = pdo_odata[cur]
          BY <1>7, <4>4
        <5>2. pdo_first[s] + pdo_odata'[s] <= PdoWindow(s, k)'.first
          BY <3>1, <3>3, <4>1, <4>2, <5>1
        <5>3. QED
          BY <3>3, <4>4, <5>2 DEF sync
      <4>5. QED
        BY <4>3, <4>4
    <3>4. CASE ~(s = cur /\ k = new)
      <4>1. Visited(s, k)
        BY <1>13, <2>3, <3>4
      <4>2. PdoWindow(s, k)' = PdoWindow(s, k)
        BY <1>11, <3>4
      <4>3. IF pdo_used[s][k].dir = "output"
            THEN PdoWindow(s, k).end <= pdo_first[s] + pdo_odata[s]
            ELSE pdo_first[s] + pdo_odata[s] <= PdoWindow(s, k).first
        BY <2>3, <4>1 DEF PdoInv, Separated
      <4>4. CASE pdo_used[s][k].dir = "output"
        <5>1. pdo_odata'[s] \in Nat /\ pdo_odata[s] <= pdo_odata'[s]
          BY <1>3, <1>7, <3>1
        <5>2. PdoWindow(s, k).end \in Nat
          <6>1. pdo_used[s][k].sm \in PdoSms
            BY ConfigTypes DEF PdoInv, PdoTypeOK
          <6>2. QED
            BY <1>5, <6>1 DEF PdoWindow
        <5>3. QED
          BY <3>1, <4>2, <4>3, <4>4, <5>1, <5>2
      <4>5. CASE pdo_used[s][k].dir = "input"
        <5>1. pdo_odata'[s] = pdo_odata[s]
          <6>1. CASE s # cur
            BY <1>7, <6>1
          <6>2. CASE s = cur
            <7>1. k < new
              BY <1>13, <4>1, <6>2
            <7>2. sync.dir # "output"
              <8> SUFFICES ASSUME sync.dir = "output" PROVE FALSE
                OBVIOUS
              <8>1. new < k
                BY <1>2, <2>3, <4>5, <6>2 DEF PdoOutputsFirst, sync
              <8>2. QED
                BY <2>1, <3>2, <7>1, <8>1
            <7>3. QED
              BY <1>7, <6>2, <7>2
          <6>3. QED
            BY <6>1, <6>2
        <5>2. QED
          BY <4>2, <4>3, <4>5, <5>1
      <4>6. QED
        BY <3>2, <4>4, <4>5
    <3>5. QED
      BY <3>3, <3>4
  <2>4. QED
    BY <1>1, <2>1, <2>2, <2>3 DEF Separated, cur, new
<1>18. QED
  BY <1>14, <1>15, <1>16, <1>17

-----------------------------------------------------------------------------
(***************************************************************************)
(* The theorems.                                                           *)
(***************************************************************************)
LEMMA PdoInductive == PdoSpec => []PdoInv
<1>1. PdoInit => PdoInv
  BY InitInv
<1>2. PdoInv /\ [PdoNext]_pdoVars => PdoInv'
  <2> SUFFICES ASSUME PdoInv, [PdoNext]_pdoVars PROVE PdoInv'
    OBVIOUS
  <2>1. CASE PdoNext
    <3>1. PdoTypeOK'
      BY <2>1, TypesStep DEF PdoInv
    <3>2. Filled' /\ Ordered' /\ Placed' /\ Separated'
      <4>1. CASE PdoAssign
        BY <4>1, AssignStep
      <4>2. CASE PdoStart
        <5>1. (pdo_pc = "slave" /\ pdo_slave = 1 /\ pdo_size = 0)'
          BY <4>2 DEF PdoStart
        <5>2. QED
          BY <5>1, NothingReached, PTL
      <4>3. CASE PdoSlave
        BY <4>3, SlaveStep
      <4>4. CASE PdoSync
        BY <4>4, SyncStep
      <4>5. CASE PdoNextSlave
        BY <4>5, NextSlaveStep
      <4>6. CASE PdoStop \/ PdoRescan
        <5>1. (pdo_pc \in {"stopped", "rescanned"})'
          BY <4>6 DEF PdoStop, PdoRescan
        <5>2. QED
          BY <5>1, NothingReached, PTL
      <4>7. QED
        BY <2>1, <4>1, <4>2, <4>3, <4>4, <4>5, <4>6 DEF PdoNext
    <3>3. QED
      BY <3>1, <3>2 DEF PdoInv
  <2>2. CASE UNCHANGED pdoVars
    <3>1. PdoTypeOK' /\ Filled' /\ Ordered'
      BY <2>2 DEF PdoInv, pdoVars, PdoTypeOK, Filled, Ordered, Done, Reached, End
    <3>2. Placed' /\ Separated'
      BY <2>2 DEF PdoInv, pdoVars, Placed, Separated, Visited, Done, PdoWindow, End,
                  PdoOutputsFirst
    <3>3. QED
      BY <3>1, <3>2 DEF PdoInv
  <2>3. QED
    BY <2>1, <2>2
<1>3. QED
  BY <1>1, <1>2, PTL DEF PdoSpec

\* Every variable keeps its type: a start never leaves the slave table
\* (ec_master.c:487-567).
THEOREM PdoTypeCorrect == PdoSpec => []PdoTypeOK
<1>1. PdoInv => PdoTypeOK
  BY DEF PdoInv
<1>2. QED
  BY <1>1, PdoInductive, PTL

\* However often the master is started, with whatever configurations, the domains of the
\* slaves tile the buffer that the PDO datagram sends (ec_master.c:476-567).
THEOREM PdoAlwaysTiled == PdoSpec => []PdoDomains
<1>1. PdoInv => PdoDomains
  <2> SUFFICES ASSUME PdoInv, pdo_pc = "running"
               PROVE  /\ pdo_first[1] = 0
                      /\ \A s \in PdoSlaveIds :
                           End(s) = IF s = PdoSlaves THEN pdo_size ELSE pdo_first[s + 1]
    BY DEF PdoDomains, ec_master_get_slave_domain, End
  <2>1. \A s : Done(s) /\ Reached(s)
    BY DEF Done, Reached
  <2>2. pdo_first[1] = 0 /\ pdo_size = End(PdoSlaves)
    BY <2>1 DEF PdoInv, Filled
  <2>3. ASSUME NEW s \in PdoSlaveIds, s # PdoSlaves
        PROVE  End(s) = pdo_first[s + 1]
    <3>1. s + 1 \in PdoSlaveIds /\ s + 1 # 1 /\ (s + 1) - 1 = s
      BY <2>3, Numbers
    <3>2. pdo_first[s + 1] = End((s + 1) - 1)
      BY <2>1, <3>1 DEF PdoInv, Filled
    <3>3. QED
      BY <3>1, <3>2
  <2>4. QED
    BY <2>2, <2>3
<1>2. QED
  BY <1>1, PdoInductive, PTL

\* No byte of the buffer belongs to two syncs, of one slave or of two
\* (ec_master.c:528-537).
THEOREM PdoAlwaysApart == PdoSpec => []PdoWindows
<1>1. PdoInv => PdoWindows
  <2> SUFFICES ASSUME PdoInv, pdo_pc = "running" PROVE PdoWindows
    BY DEF PdoWindows
  <2>1. \A s : Done(s) /\ Reached(s) /\ \A k : Visited(s, k)
    BY DEF Done, Reached, Visited
  <2>2. \A s \in PdoSlaveIds : \A k \in DOMAIN pdo_used[s] :
          /\ PdoInside(PdoWindow(s, k), ec_master_get_slave_domain(s))
          /\ pdo_used[s][k].bits <= 8 * pdo_window[s][pdo_used[s][k].sm].size
    BY <2>1 DEF PdoInv, Placed, PdoInside, ec_master_get_slave_domain, End
  <2>3. ASSUME NEW s \in PdoSlaveIds, NEW t \in PdoSlaveIds,
               NEW k \in DOMAIN pdo_used[s], NEW l \in DOMAIN pdo_used[t],
               s < t \/ (s = t /\ k < l)
        PROVE  PdoWindow(s, k).end <= PdoWindow(t, l).first
    <3>1. CASE s < t
      <4>1. PdoWindow(s, k).end <= End(s) /\ pdo_first[t] <= PdoWindow(t, l).first
        BY <2>1 DEF PdoInv, Placed
      <4>2. End(s) <= pdo_first[t]
        BY <2>1, <3>1 DEF PdoInv, Ordered
      <4>3. PdoWindow(s, k).end \in Nat /\ PdoWindow(t, l).first \in Nat
        <5>1. pdo_used[s][k].sm \in PdoSms /\ pdo_used[t][l].sm \in PdoSms
          BY ConfigTypes DEF PdoInv, PdoTypeOK
        <5>2. pdo_window \in [PdoSlaveIds -> [PdoSms -> [first : Nat, size : Nat]]]
          BY DEF PdoInv, PdoTypeOK
        <5>3. QED
          BY <5>1, <5>2 DEF PdoWindow
      <4>4. End(s) \in Nat /\ pdo_first[t] \in Nat
        BY DEF PdoInv, PdoTypeOK, End
      <4>5. QED
        BY <4>1, <4>2, <4>3, <4>4
    <3>2. CASE s = t /\ k < l
      BY <2>1, <3>2 DEF PdoInv, Placed
    <3>3. QED
      BY <2>3, <3>1, <3>2
  <2>4. QED
    BY <2>2, <2>3 DEF PdoWindows
<1>2. QED
  BY <1>1, PdoInductive, PTL

\* With the outputs first, the getters find what the slave uses
\* (ec_master.c:694, 712).
THEOREM PdoAlwaysFound == PdoSpec => []PdoGetters
<1>1. PdoInv => PdoGetters
  <2> SUFFICES ASSUME PdoInv, pdo_pc = "running",
                      NEW s \in PdoSlaveIds, PdoOutputsFirst(pdo_used[s]),
                      NEW k \in DOMAIN pdo_used[s]
               PROVE  PdoInside(PdoWindow(s, k),
                        IF pdo_used[s][k].dir = "output"
                        THEN ec_master_get_slave_domain_output(s)
                        ELSE ec_master_get_slave_domain_input(s))
    BY DEF PdoGetters
  <2>1. Visited(s, k)
    BY DEF Visited, Done
  <2>2. pdo_first[s] <= PdoWindow(s, k).first /\ PdoWindow(s, k).end <= End(s)
    BY <2>1 DEF PdoInv, Placed
  <2>3. IF pdo_used[s][k].dir = "output"
        THEN PdoWindow(s, k).end <= pdo_first[s] + pdo_odata[s]
        ELSE pdo_first[s] + pdo_odata[s] <= PdoWindow(s, k).first
    BY <2>1 DEF PdoInv, Separated
  <2>4. QED
    BY <2>2, <2>3 DEF PdoInside, End, ec_master_get_slave_domain_output,
                      ec_master_get_slave_domain_input
<1>2. QED
  BY <1>1, PdoInductive, PTL
=============================================================================
