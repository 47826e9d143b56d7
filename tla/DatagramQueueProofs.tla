------------------------ MODULE DatagramQueueProofs ------------------------
(***************************************************************************)
(* Proofs about DatagramQueue, for any number of requesters, kinds, sizes  *)
(* and netdevs.                                                            *)
(***************************************************************************)
EXTENDS DatagramQueue, FiniteSetTheorems, TLAPS

(***************************************************************************)
(* The list.                                                               *)
(***************************************************************************)
\* A list of datagrams: it orders a set of datagrams strictly.
QueueOK(q) ==
  /\ DOMAIN q \subseteq Datagrams
  /\ q \in [DOMAIN q -> SUBSET DOMAIN q]
  /\ IsList(q)

\* ec_dlist_add_tail keeps a list a list.
LEMMA AddTailList ==
  ASSUME NEW q, QueueOK(q), NEW d \in Datagrams
  PROVE  /\ QueueOK(AddTail(q, d))
         /\ DOMAIN AddTail(q, d) = DOMAIN q \cup {d}
<1>1. CASE d \in DOMAIN q
  BY <1>1 DEF AddTail
<1>2. CASE d \notin DOMAIN q
  <2> DEFINE D == DOMAIN q \cup {d}
             p == [e \in D |-> IF e = d THEN DOMAIN q ELSE q[e]]
  <2>1. AddTail(q, d) = p
    BY <1>2 DEF AddTail
  <2>2. /\ D \subseteq Datagrams
        /\ p \in [D -> SUBSET D]
    BY <1>2 DEF QueueOK
  <2>3. IsList(p)
    BY <1>2 DEF QueueOK, IsList
  <2>4. QED
    BY <2>1, <2>2, <2>3 DEF QueueOK
<1>3. QED
  BY <1>1, <1>2

\* ec_dlist_del_init of any set of entries keeps a list a list.
LEMMA DeleteList ==
  ASSUME NEW q, QueueOK(q), NEW S
  PROVE  /\ QueueOK(Delete(q, S))
         /\ DOMAIN Delete(q, S) = DOMAIN q \ S
<1>1. DOMAIN Delete(q, S) = DOMAIN q \ S
  BY DEF Delete
<1>2. Delete(q, S) \in [DOMAIN q \ S -> SUBSET (DOMAIN q \ S)]
  BY DEF Delete, QueueOK
<1>3. IsList(Delete(q, S))
  BY DEF Delete, QueueOK, IsList
<1>4. QED
  BY <1>1, <1>2, <1>3 DEF QueueOK

LEMMA DatagramsFinite == IsFiniteSet(Datagrams)
<1>1. IsFiniteSet({DcRef, DcAll, Pdo})
  <2>1. IsFiniteSet({}) /\ IsFiniteSet({} \cup {DcRef})
    BY FS_EmptySet, FS_AddElement
  <2>2. IsFiniteSet({} \cup {DcRef} \cup {DcAll})
    BY <2>1, FS_AddElement
  <2>3. IsFiniteSet({} \cup {DcRef} \cup {DcAll} \cup {Pdo})
    BY <2>2, FS_AddElement
  <2>4. {} \cup {DcRef} \cup {DcAll} \cup {Pdo} = {DcRef, DcAll, Pdo}
    OBVIOUS
  <2>5. QED
    BY <2>3, <2>4
<1>2. QED
  BY <1>1, DatagramAssumption, FS_Union DEF Datagrams, Cyclic

(***************************************************************************)
(* The datagrams transmitted by one call are numbered 0 .. n - 1, no two   *)
(* alike: consecutive indices go to different datagrams.                   *)
(***************************************************************************)
LEMMA RankProperties ==
  ASSUME NEW q, QueueOK(q), NEW S \in SUBSET DOMAIN q,
         netdev_idx \in [Datagrams -> Netdevs]
  PROVE  /\ Cardinality(S) \in Nat
         /\ Cardinality(S) <= Cardinality(Datagrams)
         /\ \A d \in S : Rank(q, S, d) \in 0 .. Cardinality(S) - 1
         /\ \A d, e \in S : Rank(q, S, d) = Rank(q, S, e) => d = e
<1> DEFINE before(d) == {e \in S : Precedes(q, e, d)}
<1>1. IsFiniteSet(S) /\ S \subseteq Datagrams
  BY DatagramsFinite, FS_Subset DEF QueueOK
<1>2. /\ Cardinality(S) \in Nat
      /\ Cardinality(S) <= Cardinality(Datagrams)
  BY <1>1, DatagramsFinite, FS_Subset, FS_CardinalityType
<1>3. \A d \in S : netdev_idx[d] \in Int
  BY <1>1 DEF Netdevs
<1>4. \A d \in S : d \notin before(d)
  BY <1>3 DEF Precedes, QueueOK, IsList
<1>5. ASSUME NEW d \in S
      PROVE  /\ IsFiniteSet(before(d))
             /\ Cardinality(before(d)) \in Nat
             /\ Cardinality(before(d)) < Cardinality(S)
  <2>1. before(d) \subseteq S /\ before(d) # S
    BY <1>4
  <2>2. QED
    BY <1>1, <2>1, FS_Subset, FS_CardinalityType
<1>6. ASSUME NEW d \in S, NEW e \in S, Precedes(q, e, d)
      PROVE  Cardinality(before(e)) < Cardinality(before(d))
  <2>1. before(e) \subseteq before(d)
    BY <1>3, <1>6 DEF Precedes, QueueOK, IsList
  <2>2. e \in before(d) /\ e \notin before(e)
    BY <1>4, <1>6
  <2>3. before(e) # before(d)
    BY <2>2
  <2>4. IsFiniteSet(before(d)) /\ Cardinality(before(d)) \in Nat
    BY <1>5
  <2>5. QED
    BY <2>1, <2>3, <2>4, FS_Subset, FS_CardinalityType
<1>7. \A d, e \in S : d = e \/ Precedes(q, d, e) \/ Precedes(q, e, d)
  BY <1>3 DEF Precedes, QueueOK, IsList
<1>8. \A d \in S : Rank(q, S, d) = Cardinality(before(d))
  BY DEF Rank
<1>9. ASSUME NEW d \in S
      PROVE  Rank(q, S, d) \in 0 .. Cardinality(S) - 1
  <2>1. Rank(q, S, d) \in Nat /\ Rank(q, S, d) < Cardinality(S)
    BY <1>5, <1>8
  <2>2. QED
    BY <1>2, <2>1
<1>10. ASSUME NEW d \in S, NEW e \in S, Rank(q, S, d) = Rank(q, S, e)
       PROVE  d = e
  <2>1. Cardinality(before(d)) \in Nat /\ Cardinality(before(e)) \in Nat
    BY <1>5
  <2>2. Cardinality(before(d)) = Cardinality(before(e))
    BY <1>8, <1>10
  <2>3. ~Precedes(q, d, e) /\ ~Precedes(q, e, d)
    BY <1>6, <2>1, <2>2
  <2>4. QED
    BY <1>7, <2>3
<1>11. QED
  BY <1>2, <1>9, <1>10

-----------------------------------------------------------------------------
(***************************************************************************)
(* Type correctness.  The list's order is part of the invariant: without   *)
(* it the numbers given to the transmitted datagrams would have no type.   *)
(***************************************************************************)
TypeInv == TypeOK /\ ListOrdered

LEMMA TypeInvQueue ==
  TypeOK => (ListOrdered <=> QueueOK(datagram_queue))
BY DEF TypeOK, ListOrdered, QueueOK, Pending

LEMMA IndexModPositive == IndexMod \in Nat /\ IndexMod > 0
<1>1. Cardinality(Datagrams) \in Nat
  BY DatagramsFinite, FS_CardinalityType
<1>2. Cardinality(Datagrams) # 0
  BY DatagramsFinite, FS_EmptySet DEF Datagrams, Cyclic
<1>3. QED
  BY <1>1, <1>2, IndexAssumption

LEMMA ModIndex == \A i \in Int : i % IndexMod \in Indices
BY IndexModPositive DEF Indices

\* What the invariants need to know about one call of ec_master_send.
LEMMA SendTypes ==
  ASSUME TypeOK, NEW q, QueueOK(q), NEW st \in [Datagrams -> States], NEW late,
         ec_master_send(q, st, late)
  PROVE  /\ QueueOK(datagram_queue')
         /\ DOMAIN datagram_queue' = DOMAIN q \ (late \cup Down(q, late))
         /\ datagram_index' \in Indices
         /\ state' \in [Datagrams -> States]
         /\ index' \in [Datagrams -> Indices]
         /\ age' \in [Datagrams -> Nat]
         /\ waiter' \in [Datagrams -> BOOLEAN]
         /\ wait' \in [Datagrams -> {0, 1}]
         /\ wire' \in SUBSET SUBSET Answers
<1> DEFINE S == Sendable(q, st, late)
           n == Cardinality(S)
           gone == late \cup Down(q, late)
<1> USE DEF TypeOK
<1>1. S \in SUBSET DOMAIN q
  BY DEF Sendable
<1>2. DOMAIN q \subseteq Datagrams
  BY DEF QueueOK
<1>3. /\ n \in Nat
      /\ \A d \in S : Rank(q, S, d) \in 0 .. n - 1
  BY <1>1, RankProperties
<1>4. datagram_queue' = Delete(q, gone)
  BY DEF ec_master_send
<1>5. /\ QueueOK(datagram_queue')
      /\ DOMAIN datagram_queue' = DOMAIN q \ gone
  BY <1>4, DeleteList
<1>6. datagram_index' \in Indices
  <2>1. datagram_index' = (datagram_index + n) % IndexMod
    BY DEF ec_master_send
  <2>2. datagram_index + n \in Int
    BY <1>3 DEF Indices
  <2>3. QED
    BY <2>1, <2>2, ModIndex
<1>7. state' \in [Datagrams -> States]
  BY DEF ec_master_send, States, Final
<1>8. index' \in [Datagrams -> Indices]
  <2>1. \A d \in S : (datagram_index + Rank(q, S, d)) % IndexMod \in Indices
    BY <1>3, ModIndex DEF Indices
  <2>2. index' = [d \in Datagrams |->
                    IF d \in S THEN (datagram_index + Rank(q, S, d)) % IndexMod
                    ELSE index[d]]
    BY DEF ec_master_send
  <2>3. QED
    BY <2>1, <2>2
<1>9. age' \in [Datagrams -> Nat]
  <2>1. \A d \in S : n - 1 - Rank(q, S, d) \in Nat
    BY <1>3
  <2>2. age' = [d \in Datagrams |->
                  CASE d \in S -> n - 1 - Rank(q, S, d)
                    [] d \in DOMAIN q \ (gone \cup S) /\ st[d] = "SENT" -> age[d] + n
                    [] OTHER -> 0]
    BY DEF ec_master_send
  <2>3. \A d \in Datagrams : age[d] + n \in Nat
    BY <1>3
  <2>4. QED
    BY <2>1, <2>2, <2>3
<1>10. /\ waiter' \in [Datagrams -> BOOLEAN]
       /\ wait' \in [Datagrams -> {0, 1}]
  BY DEF ec_master_send, Wake
<1>11. wire' \in SUBSET SUBSET Answers
  <2>1. wire' = {Older(f, n) : f \in StillUnderWay(n)} \cup Frames(q, S)
    BY DEF ec_master_send
  <2>2. \A f \in StillUnderWay(n) : Older(f, n) \subseteq Answers
    BY <1>3 DEF StillUnderWay, Older, Answers
  <2>3. \A d \in S : AnswerTo(d, Rank(q, S, d), n) \in Answers
    <3>1. \A d \in S : (datagram_index + Rank(q, S, d)) % IndexMod \in Indices
      BY <1>3, ModIndex DEF Indices
    <3>2. QED
      BY <1>1, <1>2, <1>3, <3>1 DEF AnswerTo, Answers
  <2>4. Frames(q, S) \in SUBSET SUBSET Answers
    BY <2>3 DEF Frames
  <2>5. QED
    BY <2>1, <2>2, <2>4
<1>12. QED
  BY <1>5, <1>6, <1>7, <1>8, <1>9, <1>10, <1>11

LEMMA SendKeepsTypes ==
  ASSUME TypeInv, NEW q, QueueOK(q), NEW st \in [Datagrams -> States], NEW late,
         ec_master_send(q, st, late),
         UNCHANGED <<working_counter, answer, requestVars, link_state, masterVars,
                     actual_working_counter, callerVars>>
  PROVE  TypeInv'
<1>1. TypeOK
  BY DEF TypeInv
<1>2. QueueOK(datagram_queue')
  BY <1>1, SendTypes
<1>3. TypeOK'
  BY <1>1, <1>2, SendTypes
     DEF TypeOK, Pending, QueueOK, requestVars, masterVars, callerVars
<1>4. ListOrdered'
  BY <1>2 DEF QueueOK, ListOrdered
<1>5. QED
  BY <1>3, <1>4 DEF TypeInv

\* The list the cycle timer's handler sends from.
CycleQueue ==
  LET add(q, d) == IF d \in CycleDatagrams THEN AddTail(q, d) ELSE q
  IN add(add(add(datagram_queue, DcRef), DcAll), Pdo)

CycleState ==
  [d \in Datagrams |-> IF d \in CycleDatagrams THEN "QUEUED" ELSE state[d]]

LEMMA CycleQueueOK ==
  ASSUME TypeInv
  PROVE  /\ QueueOK(CycleQueue)
         /\ DOMAIN CycleQueue = Pending \cup CycleDatagrams
<1> DEFINE add(q, d) == IF d \in CycleDatagrams THEN AddTail(q, d) ELSE q
           q1 == add(datagram_queue, DcRef)
           q2 == add(q1, DcAll)
           q3 == add(q2, Pdo)
<1> HIDE DEF add
<1>1. ASSUME NEW q, QueueOK(q), NEW d \in Cyclic
      PROVE  /\ QueueOK(add(q, d))
             /\ DOMAIN add(q, d) = DOMAIN q \cup (CycleDatagrams \cap {d})
  <2>1. d \in Datagrams
    BY DEF Datagrams
  <2>2. CASE d \in CycleDatagrams
    BY <1>1, <2>1, <2>2, AddTailList DEF add
  <2>3. CASE d \notin CycleDatagrams
    BY <1>1, <2>3 DEF add
  <2>4. QED
    BY <2>2, <2>3
<1>2. QueueOK(datagram_queue)
  BY TypeInvQueue DEF TypeInv
<1>3. DcRef \in Cyclic /\ DcAll \in Cyclic /\ Pdo \in Cyclic
  BY DEF Cyclic
<1> HIDE DEF q1, q2, q3
<1>4. QueueOK(q1) /\ DOMAIN q1 = Pending \cup (CycleDatagrams \cap {DcRef})
  BY <1>1, <1>2, <1>3 DEF q1, Pending
<1>5. QueueOK(q2) /\ DOMAIN q2 = DOMAIN q1 \cup (CycleDatagrams \cap {DcAll})
  BY <1>1, <1>4, <1>3 DEF q2
<1>6. QueueOK(q3) /\ DOMAIN q3 = DOMAIN q2 \cup (CycleDatagrams \cap {Pdo})
  BY <1>1, <1>5, <1>3 DEF q3
<1>7. CycleDatagrams \subseteq {DcRef, DcAll, Pdo}
  BY DEF CycleDatagrams
<1>8. CycleQueue = q3
  BY DEF CycleQueue, q3, q2, q1, add
<1>9. QED
  BY <1>4, <1>5, <1>6, <1>7, <1>8

LEMMA TypeInvStep == TypeInv /\ [Next]_vars => TypeInv'
<1> SUFFICES ASSUME TypeInv, [Next]_vars
             PROVE  TypeInv'
  OBVIOUS
<1> USE DEF TypeInv
<1>0. QueueOK(datagram_queue)
  BY TypeInvQueue
<1>1. ASSUME NEW r \in Requesters, NEW k \in RequestKinds, NEW n \in Netdevs,
             Submit(r, k, n)
      PROVE  TypeInv'
  <2>1. r \in Datagrams /\ k \in Kinds
    BY KindAssumption DEF Datagrams
  <2>2. QueueOK(datagram_queue')
    BY <1>0, <1>1, <2>1, AddTailList DEF Submit
  <2>3. TypeOK'
    BY <1>1, <2>1, <2>2, IndexModPositive
       DEF Submit, TypeOK, QueueOK, Pending, States, Indices, masterVars
  <2>4. QED
    BY <2>2, <2>3 DEF QueueOK, ListOrdered
<1>2. ASSUME NEW r \in Requesters, Return(r)
      PROVE  TypeInv'
  <2>1. ReturnCode(r) \in {"OK", "WC", "TIMEOUT", "IO", "UNKNOWN"}
    BY DEF ReturnCode
  <2>2. QED
    BY <1>2, <2>1
       DEF Return, TypeOK, Datagrams, Pending, ListOrdered, requestVars, masterVars
<1>3. ASSUME NEW late, NonperiodSend(late)
      PROVE  TypeInv'
  BY <1>0, <1>3, SendKeepsTypes DEF NonperiodSend, TypeOK
<1>4. ASSUME NEW late, PeriodProcess(late)
      PROVE  TypeInv'
  <2>1. CycleState \in [Datagrams -> States]
    BY DEF CycleState, TypeOK, States
  <2>2. ec_master_send(CycleQueue, CycleState, late)
    BY <1>4 DEF PeriodProcess, CycleQueue, CycleState
  <2>3. QED
    BY <1>4, <2>1, <2>2, CycleQueueOK, SendKeepsTypes DEF PeriodProcess
<1>5. ASSUME NEW f \in wire, NEW good, NEW counted, NEW keep, Receive(f, good, counted, keep)
      PROVE  TypeInv'
  <2> DEFINE hit == {d \in Pending : \E a \in good : FirstMatch(d, a)}
  <2>1. QueueOK(datagram_queue')
    <3>1. datagram_queue' = Delete(datagram_queue, hit)
      BY <1>5 DEF Receive
    <3>2. QED
      BY <1>0, <3>1, DeleteList
  <2>2. state' \in [Datagrams -> States]
    BY <1>5 DEF Receive, TypeOK, States, Final
  <2>3. working_counter' \in [Datagrams -> {0, 1}]
    BY <1>5 DEF Receive, TypeOK
  <2>4. answer' \in [Datagrams -> {"none", "own", "foreign"}]
    BY <1>5 DEF Receive, TypeOK
  <2>5. age' \in [Datagrams -> Nat]
    BY <1>5 DEF Receive, TypeOK
  <2>6. /\ waiter' \in [Datagrams -> BOOLEAN]
        /\ wait' \in [Datagrams -> {0, 1}]
    BY <1>5 DEF Receive, Wake, TypeOK
  <2>7. wire' \in SUBSET SUBSET Answers
    BY <1>5 DEF Receive, TypeOK
  <2>8. actual_working_counter' \in {0, 1}
    <3>1. Pdo \in Datagrams
      BY DEF Datagrams, Cyclic
    <3>2. QED
      BY <1>5, <2>3, <3>1 DEF Receive, TypeOK
  <2>9. UNCHANGED <<datagram_index, index, requestVars, link_state, masterVars,
                    callerVars>>
    BY <1>5 DEF Receive
  <2>10. TypeOK'
    BY <2>1, <2>2, <2>3, <2>4, <2>5, <2>6, <2>7, <2>8, <2>9
       DEF TypeOK, QueueOK, Pending, requestVars, masterVars, callerVars
  <2>11. QED
    BY <2>1, <2>10 DEF QueueOK, ListOrdered
<1>6. ASSUME NEW n \in Netdevs, LinkChange(n)
      PROVE  TypeInv'
  BY <1>6 DEF LinkChange, TypeOK, Pending, ListOrdered, datagramVars, requestVars,
              masterVars, callerVars
<1>7. CASE EnterOperation
  BY <1>7 DEF EnterOperation, TypeOK, Pending, ListOrdered, datagramVars,
              requestVars, callerVars
<1>8. CASE StartTimer
  <2>1. 0 \in Indices /\ "INIT" \in States
    BY IndexModPositive DEF Indices, States
  <2>2. TypeOK'
    BY <1>8, <2>1 DEF StartTimer, TypeOK, Pending, requestVars, callerVars
  <2>3. ListOrdered'
    BY <1>8 DEF StartTimer, ListOrdered
  <2>4. QED
    BY <2>2, <2>3
<1>9. CASE StopTimer
  <2>1. QueueOK(datagram_queue')
    BY <1>0, <1>9, DeleteList DEF StopTimer
  <2>2. TypeOK'
    BY <1>9, <2>1
       DEF StopTimer, TypeOK, QueueOK, Pending, datagramVars, requestVars, callerVars
  <2>3. QED
    BY <2>1, <2>2 DEF QueueOK, ListOrdered
<1>10. ASSUME NEW found \in DcClocks, FindDcRefClock(found)
       PROVE  TypeInv'
  <2>1. 0 \in Indices /\ "INIT" \in States /\ found \in BOOLEAN
    BY IndexModPositive, KindAssumption DEF Indices, States
  <2>2. TypeOK'
    BY <1>10, <2>1 DEF FindDcRefClock, TypeOK, Pending, requestVars, callerVars
  <2>3. ListOrdered'
    BY <1>10 DEF FindDcRefClock, ListOrdered
  <2>4. QED
    BY <2>2, <2>3
<1>11. CASE UNCHANGED vars
  BY <1>11 DEF vars, TypeOK, Pending, ListOrdered, datagramVars, requestVars,
               masterVars, callerVars
<1>12. QED
  BY <1>1, <1>2, <1>3, <1>4, <1>5, <1>6, <1>7, <1>8, <1>9, <1>10, <1>11
     DEF Next, ReceiveAny

\* The variables keep their types, and the pending datagrams stay a list in
\* which each entry knows the ones ahead of it, whatever the order in which
\* threads and interrupts add, complete, expire and fail datagrams.
THEOREM TypeCorrect == Spec => []TypeOK /\ []ListOrdered
<1>1. Init => TypeInv
  <2> SUFFICES ASSUME Init
               PROVE  TypeOK /\ ListOrdered
    BY DEF TypeInv
  <2>1. 1 % IndexMod \in Indices /\ 0 \in Indices /\ 0 \in Netdevs
    BY IndexModPositive, ModIndex, KindAssumption DEF Indices, Netdevs
  <2>2. kind \in [Datagrams -> Kinds]
    BY KindAssumption DEF Init, Cyclic
  <2>3. datagram_queue \in [Pending -> SUBSET Pending] /\ Pending = {}
    BY DEF Init, Pending
  <2>4. TypeOK
    BY <2>1, <2>2, <2>3 DEF Init, TypeOK, States
  <2>5. ListOrdered
    BY <2>3 DEF ListOrdered, IsList, Pending
  <2>6. QED
    BY <2>4, <2>5
<1>2. TypeInv /\ [Next]_vars => TypeInv'
  BY TypeInvStep
<1>3. TypeInv => TypeOK /\ ListOrdered
  BY DEF TypeInv
<1>4. QED
  BY <1>1, <1>2, <1>3, PTL DEF Spec

\* Adding at the tail and deleting anywhere, by threads and by interrupts in any order,
\* leave the pending datagrams a list: each knows exactly those ahead of it.
THEOREM AlwaysAList == Spec => []ListOrdered
BY TypeCorrect, PTL

-----------------------------------------------------------------------------
(***************************************************************************)
(* The PDO datagram is not listed while the timer is stopped.              *)
(***************************************************************************)
\* The next start may initialise the list node of the PDO datagram: it is not
\* linked, because stopping the timer removed it and nothing else queues it.
THEOREM PdoUnlinked == Spec => []PdoUnlinkedWhenStopped
<1>1. Init => PdoUnlinkedWhenStopped
  BY DEF Init, PdoUnlinkedWhenStopped, Pending
<1>2. TypeInv /\ PdoUnlinkedWhenStopped /\ [Next]_vars => PdoUnlinkedWhenStopped'
  <2> SUFFICES ASSUME TypeInv, PdoUnlinkedWhenStopped, [Next]_vars, ~timer'
               PROVE  Pdo \notin Pending'
    BY DEF PdoUnlinkedWhenStopped
  <2> USE DEF PdoUnlinkedWhenStopped, Pending
  <2>0. QueueOK(datagram_queue) /\ TypeOK
    BY TypeInvQueue DEF TypeInv
  <2>1. ASSUME NEW r \in Requesters, NEW k \in RequestKinds, NEW n \in Netdevs,
               Submit(r, k, n)
        PROVE  Pdo \notin Pending'
    <3>1. r \in Datagrams /\ r # Pdo
      BY DatagramAssumption DEF Datagrams, Cyclic
    <3>2. Pending' = Pending \cup {r} /\ ~timer
      BY <2>0, <2>1, <3>1, AddTailList DEF Submit, masterVars
    <3>3. QED
      BY <3>1, <3>2
  <2>2. ASSUME NEW late, NonperiodSend(late)
        PROVE  Pdo \notin Pending'
    <3>1. DOMAIN datagram_queue' \subseteq DOMAIN datagram_queue
      BY <2>2 DEF NonperiodSend, ec_master_send, Delete
    <3>2. QED
      BY <2>2, <3>1 DEF NonperiodSend
  <2>3. ASSUME NEW f, NEW good, NEW counted, NEW keep, Receive(f, good, counted, keep)
        PROVE  Pdo \notin Pending'
    <3>1. DOMAIN datagram_queue' \subseteq DOMAIN datagram_queue
      BY <2>3 DEF Receive, Delete
    <3>2. QED
      BY <2>3, <3>1 DEF Receive, masterVars
  <2>4. CASE StopTimer
    BY <2>4 DEF StopTimer, Delete
  <2>5. ASSUME NEW late, PeriodProcess(late)
        PROVE  FALSE
    BY <2>5 DEF PeriodProcess, masterVars
  <2>6. CASE StartTimer
    BY <2>6 DEF StartTimer
  <2>7. QED
    BY <2>1, <2>2, <2>3, <2>4, <2>5, <2>6
       DEF Next, ReceiveAny, Return, LinkChange, EnterOperation, FindDcRefClock,
           vars, masterVars
<1>3. Spec => []TypeInv
  BY TypeCorrect, PTL DEF TypeInv
<1>4. QED
  BY <1>1, <1>2, <1>3, PTL DEF Spec

-----------------------------------------------------------------------------
(***************************************************************************)
(* The handshake between a waiting thread and its datagram.                *)
(***************************************************************************)
LEMMA SendKeepsHandshake ==
  ASSUME TypeOK, NEW r \in Requesters, Handshake(r),
         NEW q, NEW st \in [Datagrams -> States], NEW late,
         r \in DOMAIN q <=> r \in Pending, st[r] = state[r],
         ec_master_send(q, st, late), UNCHANGED pc
  PROVE  Handshake(r)'
<1> DEFINE S == Sendable(q, st, late)
           down == Down(q, late)
<1>1. r \in Datagrams
  BY DEF Datagrams
<1>2. DOMAIN datagram_queue' = DOMAIN q \ (late \cup down)
  BY DEF ec_master_send, Delete
<1>3. S \subseteq DOMAIN q \ (late \cup down)
  BY DEF Sendable
<1>4. late \subseteq DOMAIN q /\ down \subseteq DOMAIN q
  BY DEF ec_master_send, Overdue, Down
<1>5. /\ waiter'[r] = (waiter[r] /\ r \notin late \cup down)
      /\ wait'[r] = IF r \in late \cup down /\ waiter[r] THEN 1 ELSE wait[r]
  BY <1>1 DEF ec_master_send, Wake
<1>6. state'[r] = CASE r \in late -> "TIMED_OUT"
                    [] r \in down -> "ERROR"
                    [] r \in S -> "SENT"
                    [] OTHER -> st[r]
  BY <1>1 DEF ec_master_send
<1>7. CASE r \in late \cup down
  <2>1. state'[r] \in Final
    <3>1. r \notin S /\ (r \in late => r \notin down)
      BY <1>3, <1>7 DEF Down
    <3>2. QED
      BY <1>6, <1>7, <3>1 DEF Final
  <2>2. QED
    BY <1>2, <1>4, <1>5, <1>7, <2>1 DEF Handshake, Pending, TypeOK
<1>8. CASE r \notin late \cup down
  <2>1. r \in Pending' <=> r \in Pending
    BY <1>2, <1>8 DEF Pending
  <2>2. waiter'[r] = waiter[r] /\ wait'[r] = wait[r]
    BY <1>1, <1>5, <1>8 DEF TypeOK
  <2>3. state'[r] = state[r] \/ (r \in Pending /\ state'[r] = "SENT")
    BY <1>3, <1>6, <1>8
  <2>4. QED
    BY <2>1, <2>2, <2>3 DEF Handshake
<1>9. QED
  BY <1>7, <1>8

LEMMA HandshakeStep ==
  TypeInv /\ WaiterHandshake /\ [Next]_vars => WaiterHandshake'
<1> SUFFICES ASSUME TypeInv, WaiterHandshake, [Next]_vars, NEW r \in Requesters
             PROVE  Handshake(r)'
  BY DEF WaiterHandshake
<1>0. /\ TypeOK
      /\ QueueOK(datagram_queue)
      /\ Handshake(r)
      /\ r \in Datagrams /\ r \notin Cyclic
  BY TypeInvQueue, DatagramAssumption DEF TypeInv, WaiterHandshake, Datagrams
<1> USE DEF Pending
<1>1. ASSUME NEW s \in Requesters, NEW k \in RequestKinds, NEW n \in Netdevs,
             Submit(s, k, n)
      PROVE  Handshake(r)'
  <2>1. Pending' = Pending \cup {s}
    BY <1>0, <1>1, AddTailList DEF Submit, Datagrams
  <2>2. CASE r = s
    BY <1>0, <1>1, <2>1, <2>2 DEF Submit, Handshake, TypeOK
  <2>3. CASE r # s
    BY <1>0, <1>1, <2>1, <2>3 DEF Submit, Handshake, TypeOK
  <2>4. QED
    BY <2>2, <2>3
<1>2. ASSUME NEW s \in Requesters, Return(s)
      PROVE  Handshake(r)'
  BY <1>0, <1>2 DEF Return, Handshake, TypeOK
<1>3. ASSUME NEW late, NonperiodSend(late)
      PROVE  Handshake(r)'
  BY <1>0, <1>3, SendKeepsHandshake DEF NonperiodSend, callerVars, TypeOK
<1>4. ASSUME NEW late, PeriodProcess(late)
      PROVE  Handshake(r)'
  <2>1. ec_master_send(CycleQueue, CycleState, late) /\ UNCHANGED pc
    BY <1>4 DEF PeriodProcess, CycleQueue, CycleState, callerVars
  <2>2. r \notin CycleDatagrams
    BY <1>0 DEF CycleDatagrams, Cyclic
  <2>3. r \in DOMAIN CycleQueue <=> r \in Pending
    BY <2>2, CycleQueueOK
  <2>4. CycleState \in [Datagrams -> States] /\ CycleState[r] = state[r]
    BY <1>0, <2>2 DEF CycleState, TypeOK, States
  <2>5. QED
    BY <1>0, <2>1, <2>3, <2>4, SendKeepsHandshake
<1>5. ASSUME NEW f, NEW good, NEW counted, NEW keep, Receive(f, good, counted, keep)
      PROVE  Handshake(r)'
  <2> DEFINE hit == {d \in Pending : \E a \in good : FirstMatch(d, a)}
  <2>1. /\ Pending' = Pending \ hit
        /\ UNCHANGED pc
        /\ state'[r] = IF r \in hit THEN "RECEIVED" ELSE state[r]
        /\ waiter'[r] = (waiter[r] /\ r \notin hit)
        /\ wait'[r] = IF r \in hit /\ waiter[r] THEN 1 ELSE wait[r]
    BY <1>0, <1>5 DEF Receive, Delete, Wake, callerVars
  <2>2. QED
    BY <1>0, <2>1 DEF Handshake, TypeOK, Final
<1>6. CASE StartTimer
  BY <1>0, <1>6 DEF StartTimer, Handshake, TypeOK, callerVars, Cyclic
<1>7. CASE StopTimer
  BY <1>0, <1>7 DEF StopTimer, Handshake, datagramVars, callerVars, Cyclic, Delete
<1>8. ASSUME NEW found \in DcClocks, FindDcRefClock(found)
      PROVE  Handshake(r)'
  BY <1>0, <1>8 DEF FindDcRefClock, Handshake, TypeOK, callerVars, Cyclic
<1>9. QED
  BY <1>0, <1>1, <1>2, <1>3, <1>4, <1>5, <1>6, <1>7, <1>8
     DEF Next, ReceiveAny, LinkChange, EnterOperation, vars, datagramVars, callerVars,
         Handshake

\* A thread blocked in ec_master_queue_ext_datagram is woken exactly once, when
\* its datagram leaves the list with a final state, and a thread that is not
\* blocked owns its datagram alone.
THEOREM HandshakeCorrect == Spec => []WaiterHandshake
<1>1. Init => WaiterHandshake
  BY DEF Init, WaiterHandshake, Handshake, Pending, Datagrams
<1>2. Spec => []TypeInv
  BY TypeCorrect, PTL DEF TypeInv
<1>3. QED
  BY <1>1, <1>2, HandshakeStep, PTL DEF Spec

-----------------------------------------------------------------------------
(***************************************************************************)
(* Answers.  Slot(next, g) is the index of the datagram transmitted g      *)
(* transmissions before the last one, when the next one gets the index     *)
(* next: while no age reaches IndexMod, index and age determine each       *)
(* other, and the age determines the datagram.                             *)
(***************************************************************************)
Slot(next, g) == (next + IndexMod - 1 - g) % IndexMod

Outstanding(d) == d \in Pending /\ state[d] = "SENT"

SentIndices ==
  \A d \in Datagrams :
    Outstanding(d) => age[d] < IndexMod /\ index[d] = Slot(datagram_index, age[d])

WireIndices ==
  \A f \in wire : \A a \in f :
    a.age < IndexMod /\ a.index = Slot(datagram_index, a.age)

SameAgeSameDatagram ==
  \A f \in wire : \A a \in f : \A d \in Datagrams :
    Outstanding(d) /\ age[d] = a.age => a.datagram = d

AnswersInv == SentIndices /\ WireIndices /\ SameAgeSameDatagram /\ OwnAnswer

LEMMA ModSmall ==
  ASSUME NEW y \in 0 .. 2 * IndexMod - 1
  PROVE  y % IndexMod = IF y < IndexMod THEN y ELSE y - IndexMod
<1>1. CASE y < IndexMod
  BY <1>1, IndexModPositive
<1>2. CASE y >= IndexMod
  <2>1. y - IndexMod \in 0 .. IndexMod - 1
    BY <1>2, IndexModPositive
  <2>2. y = 1 * IndexMod + (y - IndexMod)
    BY IndexModPositive
  <2>3. y % IndexMod = y - IndexMod
    BY <2>1, <2>2, IndexModPositive
  <2>4. ~(y < IndexMod)
    BY <1>2, IndexModPositive
  <2>5. QED
    BY <2>3, <2>4
<1>3. QED
  BY <1>1, <1>2, IndexModPositive

\* Different ages below IndexMod have different slots.
LEMMA SlotInjective ==
  ASSUME NEW next \in Indices,
         NEW g \in Nat, g < IndexMod, NEW h \in Nat, h < IndexMod,
         Slot(next, g) = Slot(next, h)
  PROVE  g = h
<1> DEFINE y(i) == next + IndexMod - 1 - i
<1>1. y(g) \in 0 .. 2 * IndexMod - 1 /\ y(h) \in 0 .. 2 * IndexMod - 1
  BY IndexModPositive DEF Indices
<1>2. /\ Slot(next, g) = IF y(g) < IndexMod THEN y(g) ELSE y(g) - IndexMod
      /\ Slot(next, h) = IF y(h) < IndexMod THEN y(h) ELSE y(h) - IndexMod
  BY <1>1, ModSmall DEF Slot
<1>3. y(g) \in Int /\ y(h) \in Int /\ IndexMod \in Int
  BY <1>1, IndexModPositive
<1>4. y(g) = y(h) \/ y(g) = y(h) + IndexMod \/ y(h) = y(g) + IndexMod
  <2> DEFINE low(i) == IF y(i) < IndexMod THEN y(i) ELSE y(i) - IndexMod
  <2>1. low(g) = low(h)
    BY <1>2
  <2> HIDE DEF y
  <2>2. QED
    BY <1>3, <2>1
<1>5. next \in Int
  BY DEF Indices
<1>6. QED
  BY <1>4, <1>5, IndexModPositive

\* After n more transmissions, what was sent g ago was sent g + n ago.
LEMMA SlotShift ==
  ASSUME NEW next \in Indices, NEW n \in Nat, NEW g \in Nat, g + n < IndexMod
  PROVE  Slot((next + n) % IndexMod, g + n) = Slot(next, g)
<1> DEFINE up == (next + n) % IndexMod
           y == next + IndexMod - 1 - g
           z == up + IndexMod - 1 - (g + n)
<1>1. up = IF next + n < IndexMod THEN next + n ELSE next + n - IndexMod
  BY ModSmall, IndexModPositive DEF Indices
<1>2. up \in Indices
  BY <1>1, IndexModPositive DEF Indices
<1> HIDE DEF up
<1>3. y \in 0 .. 2 * IndexMod - 1 /\ z \in 0 .. 2 * IndexMod - 1
  BY <1>2, IndexModPositive DEF Indices
<1>4. Slot(next, g) = IF y < IndexMod THEN y ELSE y - IndexMod
  BY <1>3, ModSmall DEF Slot
<1>5. Slot(up, g + n) = IF z < IndexMod THEN z ELSE z - IndexMod
  BY <1>3, ModSmall DEF Slot
<1>6. Slot(up, g + n) = Slot(next, g)
  BY <1>1, <1>2, <1>4, <1>5, IndexModPositive DEF Indices
<1>7. QED
  BY <1>6 DEF up

\* The i-th of n datagrams transmitted together has the slot of its age.
LEMMA SlotNew ==
  ASSUME NEW next \in Indices, NEW n \in Nat, n <= IndexMod, NEW i \in 0 .. n - 1
  PROVE  Slot((next + n) % IndexMod, n - 1 - i) = (next + i) % IndexMod
<1> DEFINE up == (next + n) % IndexMod
           y == next + i
           z == up + IndexMod - 1 - (n - 1 - i)
<1>1. up = IF next + n < IndexMod THEN next + n ELSE next + n - IndexMod
  BY ModSmall, IndexModPositive DEF Indices
<1>2. up \in Indices
  BY <1>1, IndexModPositive DEF Indices
<1> HIDE DEF up
<1>3. y \in 0 .. 2 * IndexMod - 1 /\ z \in 0 .. 2 * IndexMod - 1
  BY <1>2, IndexModPositive DEF Indices
<1>4. y % IndexMod = IF y < IndexMod THEN y ELSE y - IndexMod
  BY <1>3, ModSmall
<1>5. Slot(up, n - 1 - i) = IF z < IndexMod THEN z ELSE z - IndexMod
  BY <1>3, ModSmall DEF Slot
<1>6. Slot(up, n - 1 - i) = y % IndexMod
  BY <1>1, <1>2, <1>3, <1>4, <1>5, IndexModPositive DEF Indices
<1>7. QED
  BY <1>6 DEF up

LEMMA SendKeepsAnswers ==
  ASSUME TypeOK, IndexNeverWraps, AnswersInv,
         NEW q, QueueOK(q), NEW st \in [Datagrams -> States], NEW late,
         \A d \in DOMAIN q : st[d] = "SENT" => Outstanding(d),
         \A d \in Datagrams : st[d] = "RECEIVED" => state[d] = "RECEIVED",
         ec_master_send(q, st, late), UNCHANGED answer
  PROVE  AnswersInv'
<1> DEFINE S == Sendable(q, st, late)
           n == Cardinality(S)
           gone == late \cup Down(q, late)
           new(d) == d \in S
           old(d) == d \in DOMAIN q \ (gone \cup S) /\ st[d] = "SENT"
           rank(d) == Rank(q, S, d)
           oldAnswer(b) == \E f \in wire : \E a \in f :
                             a.age + n < Lifetime /\ b = [a EXCEPT !.age = @ + n]
           newAnswer(b) == \E d \in S : b = AnswerTo(d, rank(d), n)
<1>1. S \subseteq DOMAIN q \ gone /\ DOMAIN q \subseteq Datagrams
  BY DEF Sendable, QueueOK
<1>2. /\ n \in Nat
      /\ n <= IndexMod
      /\ \A d \in S : rank(d) \in 0 .. n - 1
      /\ \A d, e \in S : rank(d) = rank(e) => d = e
  <2>1. Cardinality(Datagrams) \in Nat
    BY DatagramsFinite, FS_CardinalityType
  <2>2. S \in SUBSET DOMAIN q /\ netdev_idx \in [Datagrams -> Netdevs]
    BY <1>1 DEF TypeOK
  <2>3. /\ n \in Nat
        /\ n <= Cardinality(Datagrams)
        /\ \A d \in S : rank(d) \in 0 .. n - 1
        /\ \A d, e \in S : rank(d) = rank(e) => d = e
    BY <2>2, RankProperties
  <2>4. QED
    BY <2>1, <2>3, IndexAssumption
<1>3. datagram_index' = (datagram_index + n) % IndexMod
  BY DEF ec_master_send
<1>4. ASSUME NEW d \in Datagrams, Outstanding(d)'
      PROVE  new(d) \/ old(d)
  <2>1. d \in DOMAIN q \ gone
    BY <1>4 DEF Outstanding, Pending, ec_master_send, Delete
  <2>2. CASE d \notin S
    BY <1>4, <2>1, <2>2 DEF Outstanding, ec_master_send
  <2>3. QED
    BY <2>2
<1>5. ASSUME NEW d \in Datagrams, new(d)
      PROVE  /\ age'[d] = n - 1 - rank(d)
             /\ index'[d] = (datagram_index + rank(d)) % IndexMod
  BY <1>5 DEF ec_master_send
<1>6. ASSUME NEW d \in Datagrams, old(d)
      PROVE  /\ Outstanding(d)
             /\ age'[d] = age[d] + n
             /\ index'[d] = index[d]
             /\ age[d] \in Nat
             /\ age[d] + n < IndexMod
  <2>1. Outstanding(d) /\ d \notin late /\ d \notin S
    BY <1>6
  <2>2. age'[d] = age[d] + n /\ index'[d] = index[d]
    BY <1>6 DEF ec_master_send
  <2>3. age[d] \in Nat
    BY DEF TypeOK
  <2>4. ~(age[d] + n >= ExpiryWindow)
    BY <1>6, <2>1 DEF ec_master_send, Overdue
  <2>5. QED
    BY <1>2, <2>1, <2>2, <2>3, <2>4, IndexAssumption, IndexModPositive
       DEF IndexNeverWraps
<1>7. ASSUME NEW f \in wire', NEW b \in f
      PROVE  oldAnswer(b) \/ newAnswer(b)
  <2>1. wire' = {Older(g, n) : g \in StillUnderWay(n)} \cup Frames(q, S)
    BY DEF ec_master_send
  <2>2. CASE f \in {Older(g, n) : g \in StillUnderWay(n)}
    BY <2>2 DEF Older, StillUnderWay
  <2>3. CASE f \in Frames(q, S)
    BY <2>3 DEF Frames
  <2>4. QED
    BY <2>1, <2>2, <2>3
<1>8. ASSUME NEW b, oldAnswer(b)
      PROVE  \E f \in wire : \E a \in f :
               /\ a.age \in Nat
               /\ a.age + n < IndexMod
               /\ b.age = a.age + n
               /\ b.index = a.index
               /\ b.datagram = a.datagram
  <2>1. PICK f \in wire : \E a \in f :
          a.age + n < Lifetime /\ b = [a EXCEPT !.age = @ + n]
    BY <1>8
  <2>2. PICK a \in f : a.age + n < Lifetime /\ b = [a EXCEPT !.age = @ + n]
    BY <2>1
  <2>3. a \in Answers
    BY <2>1, <2>2 DEF TypeOK
  <2>4. QED
    BY <1>2, <2>1, <2>2, <2>3, IndexAssumption, IndexModPositive DEF Answers, IndexNeverWraps
<1>9. ASSUME NEW b, newAnswer(b)
      PROVE  \E d \in S : /\ b.age = n - 1 - rank(d)
                          /\ b.index = (datagram_index + rank(d)) % IndexMod
                          /\ b.datagram = d
  BY <1>9 DEF AnswerTo
<1>10. datagram_index \in Indices
  BY DEF TypeOK
<1> HIDE DEF S, n, gone, new, old, rank, oldAnswer, newAnswer
<1>11. ASSUME NEW d \in S
       PROVE  /\ n - 1 - rank(d) \in Nat
              /\ n - 1 - rank(d) < IndexMod
              /\ (datagram_index + rank(d)) % IndexMod
                   = Slot(datagram_index', n - 1 - rank(d))
  <2>1. rank(d) \in 0 .. n - 1
    BY <1>2
  <2>2. Slot((datagram_index + n) % IndexMod, n - 1 - rank(d))
          = (datagram_index + rank(d)) % IndexMod
    BY <1>2, <1>10, <2>1, SlotNew
  <2>3. QED
    BY <1>2, <1>3, <2>1, <2>2, IndexModPositive
<1>12. ASSUME NEW g \in Nat, g + n < IndexMod
       PROVE  Slot(datagram_index', g + n) = Slot(datagram_index, g)
  BY <1>2, <1>3, <1>10, <1>12, SlotShift
<1>13. SentIndices'
  <2> SUFFICES ASSUME NEW d \in Datagrams, Outstanding(d)'
               PROVE  age'[d] < IndexMod /\ index'[d] = Slot(datagram_index', age'[d])
    BY DEF SentIndices
  <2>1. CASE new(d)
    BY <1>5, <1>11, <2>1 DEF new
  <2>2. CASE old(d)
    BY <1>6, <1>12, <2>2 DEF AnswersInv, SentIndices
  <2>3. QED
    BY <1>4, <2>1, <2>2
<1>14. WireIndices'
  <2> SUFFICES ASSUME NEW f \in wire', NEW b \in f
               PROVE  b.age < IndexMod /\ b.index = Slot(datagram_index', b.age)
    BY DEF WireIndices
  <2>1. CASE newAnswer(b)
    BY <1>9, <1>11, <2>1
  <2>2. CASE oldAnswer(b)
    BY <1>8, <1>12, <2>2 DEF AnswersInv, WireIndices
  <2>3. QED
    BY <1>7, <2>1, <2>2
<1>15. SameAgeSameDatagram'
  <2> SUFFICES ASSUME NEW f \in wire', NEW b \in f, NEW d \in Datagrams,
                      Outstanding(d)', age'[d] = b.age
               PROVE  b.datagram = d
    BY DEF SameAgeSameDatagram
  <2>1. CASE newAnswer(b) /\ new(d)
    BY <1>2, <1>5, <1>9, <2>1 DEF new
  <2>2. CASE newAnswer(b) /\ old(d)
    BY <1>2, <1>6, <1>9, <2>2
  <2>3. CASE oldAnswer(b) /\ new(d)
    BY <1>2, <1>5, <1>8, <2>3 DEF new
  <2>4. CASE oldAnswer(b) /\ old(d)
    BY <1>2, <1>6, <1>8, <2>4 DEF AnswersInv, SameAgeSameDatagram
  <2>5. QED
    BY <1>4, <1>7, <2>1, <2>2, <2>3, <2>4
<1>16. OwnAnswer'
  <2> SUFFICES ASSUME NEW d \in Datagrams, state'[d] = "RECEIVED"
               PROVE  answer'[d] = "own"
    BY DEF OwnAnswer
  <2>1. st[d] = "RECEIVED"
    BY DEF ec_master_send
  <2>2. QED
    BY <2>1 DEF AnswersInv, OwnAnswer
<1>17. QED
  BY <1>13, <1>14, <1>15, <1>16 DEF AnswersInv

LEMMA AnswersStep ==
  IndexNeverWraps /\ TypeInv /\ AnswersInv /\ [Next]_vars => AnswersInv'
<1> SUFFICES ASSUME IndexNeverWraps, TypeInv, AnswersInv, [Next]_vars
             PROVE  AnswersInv'
  OBVIOUS
<1>0. TypeOK /\ QueueOK(datagram_queue)
  BY TypeInvQueue DEF TypeInv
<1> DEFINE keeps(d) == /\ Outstanding(d)' => Outstanding(d)
                       /\ Outstanding(d) /\ Outstanding(d)' =>
                            age'[d] = age[d] /\ index'[d] = index[d]
                       /\ state'[d] = "RECEIVED" => answer'[d] = "own"
\* A step that sends nothing keeps the invariant if it makes no datagram
\* SENT, changes no SENT one and receives only own answers.
<1>1. ASSUME datagram_index' = datagram_index, wire' \subseteq wire,
             \A d \in Datagrams : keeps(d)
      PROVE  AnswersInv'
  <2>1. SentIndices'
    BY <1>1 DEF AnswersInv, SentIndices
  <2>2. WireIndices'
    BY <1>1 DEF AnswersInv, WireIndices
  <2>3. SameAgeSameDatagram'
    BY <1>1 DEF AnswersInv, SameAgeSameDatagram
  <2>4. OwnAnswer'
    BY <1>1 DEF OwnAnswer
  <2>5. QED
    BY <2>1, <2>2, <2>3, <2>4 DEF AnswersInv
<1>2. ASSUME NEW r \in Requesters, NEW k \in RequestKinds, NEW n \in Netdevs,
             Submit(r, k, n)
      PROVE  AnswersInv'
  <2>1. r \in Datagrams
    BY DEF Datagrams
  <2>2. Pending' = Pending \cup {r}
    BY <1>0, <1>2, <2>1, AddTailList DEF Submit, Pending
  <2>3. \A d \in Datagrams : keeps(d)
    BY <1>0, <1>2, <2>1, <2>2
       DEF Submit, Outstanding, TypeOK, AnswersInv, OwnAnswer
  <2>4. QED
    BY <1>1, <1>2, <2>3 DEF Submit
<1>3. ASSUME NEW r \in Requesters, Return(r)
      PROVE  AnswersInv'
  <2>1. \A d \in Datagrams : keeps(d)
    BY <1>3 DEF Return, Outstanding, Pending, AnswersInv, OwnAnswer
  <2>2. QED
    BY <1>1, <1>3, <2>1 DEF Return
<1>4. ASSUME NEW late, NonperiodSend(late)
      PROVE  AnswersInv'
  <2>1. state \in [Datagrams -> States]
    BY <1>0 DEF TypeOK
  <2>2. \A d \in Pending : state[d] = "SENT" => Outstanding(d)
    BY DEF Outstanding
  <2>3. QED
    BY <1>0, <1>4, <2>1, <2>2, SendKeepsAnswers DEF NonperiodSend, Pending
<1>5. ASSUME NEW late, PeriodProcess(late)
      PROVE  AnswersInv'
  <2>1. ec_master_send(CycleQueue, CycleState, late) /\ UNCHANGED answer
    BY <1>5 DEF PeriodProcess, CycleQueue, CycleState
  <2>2. CycleState \in [Datagrams -> States]
    BY <1>0 DEF CycleState, TypeOK, States
  <2>3. QueueOK(CycleQueue) /\ DOMAIN CycleQueue = Pending \cup CycleDatagrams
    BY CycleQueueOK
  <2>4. \A d \in DOMAIN CycleQueue : CycleState[d] = "SENT" => Outstanding(d)
    BY <2>3 DEF CycleState, Outstanding, QueueOK
  <2>5. \A d \in Datagrams : CycleState[d] = "RECEIVED" => state[d] = "RECEIVED"
    BY DEF CycleState
  <2>6. QED
    BY <1>0, <2>1, <2>2, <2>3, <2>4, <2>5, SendKeepsAnswers
<1>6. ASSUME NEW f \in wire, NEW good \in SUBSET f, NEW counted, NEW keep,
             Receive(f, good, counted, keep)
      PROVE  AnswersInv'
  <2> DEFINE hit == {d \in Pending : \E a \in good : FirstMatch(d, a)}
  <2>1. ASSUME NEW d \in hit
        PROVE  \E a \in good : FirstMatch(d, a) /\ a.datagram = d /\ a.age = age[d]
    <3>1. PICK a \in good : FirstMatch(d, a)
      OBVIOUS
    <3>2. d \in Datagrams /\ Outstanding(d) /\ index[d] = a.index
      BY <1>0, <3>1 DEF FirstMatch, Matches, Outstanding, QueueOK, Pending
    <3>3. a \in Answers /\ age[d] \in Nat /\ datagram_index \in Indices
      BY <1>0, <3>1, <3>2 DEF TypeOK
    <3>4. /\ a.age < IndexMod /\ a.index = Slot(datagram_index, a.age)
          /\ age[d] < IndexMod /\ index[d] = Slot(datagram_index, age[d])
      BY <3>1, <3>2 DEF AnswersInv, WireIndices, SentIndices
    <3>5. a.age = age[d]
      BY <3>2, <3>3, <3>4, SlotInjective DEF Answers
    <3>6. a.datagram = d
      BY <3>1, <3>2, <3>5 DEF AnswersInv, SameAgeSameDatagram
    <3>7. QED
      BY <3>1, <3>5, <3>6
  <2>2. \A d \in hit : answer'[d] = "own"
    <3>1. hit \subseteq Datagrams
      BY <1>0 DEF QueueOK, Pending
    <3>2. QED
      BY <1>6, <2>1, <3>1 DEF Receive
  <2>3. ASSUME NEW d \in Datagrams
        PROVE  keeps(d)
    <3>1. CASE d \in hit
      BY <1>6, <2>2, <3>1 DEF Receive, Outstanding
    <3>2. CASE d \notin hit
      <4>1. /\ state'[d] = state[d] /\ answer'[d] = answer[d]
            /\ age'[d] = age[d] /\ index' = index
            /\ Pending' \subseteq Pending
        BY <1>6, <3>2 DEF Receive, Pending, Delete
      <4>2. QED
        BY <4>1 DEF Outstanding, AnswersInv, OwnAnswer
    <3>3. QED
      BY <3>1, <3>2
  <2>4. datagram_index' = datagram_index /\ wire' \subseteq wire
    BY <1>6 DEF Receive
  <2>5. QED
    BY <1>1, <2>3, <2>4
<1>7. CASE StartTimer
  <2>1. \A d \in Datagrams : keeps(d)
    BY <1>0, <1>7 DEF StartTimer, Outstanding, Pending, TypeOK, AnswersInv, OwnAnswer
  <2>2. QED
    BY <1>1, <1>7, <2>1 DEF StartTimer
<1>8. CASE StopTimer
  <2>1. \A d \in Datagrams : keeps(d)
    BY <1>8 DEF StopTimer, Outstanding, Pending, Delete, datagramVars, AnswersInv,
                OwnAnswer
  <2>2. QED
    BY <1>1, <1>8, <2>1 DEF StopTimer
<1>9. ASSUME NEW found \in DcClocks, FindDcRefClock(found)
      PROVE  AnswersInv'
  <2>1. \A d \in Datagrams : keeps(d)
    BY <1>0, <1>9
       DEF FindDcRefClock, Outstanding, Pending, TypeOK, AnswersInv, OwnAnswer
  <2>2. QED
    BY <1>1, <1>9, <2>1 DEF FindDcRefClock
<1>10. ASSUME UNCHANGED <<datagram_queue, datagram_index, datagramVars, wire>>
       PROVE  AnswersInv'
  <2>1. \A d \in Datagrams : keeps(d)
    BY <1>10 DEF Outstanding, Pending, datagramVars, AnswersInv, OwnAnswer
  <2>2. QED
    BY <1>1, <1>10, <2>1
<1>11. ASSUME \/ \E n \in Netdevs : LinkChange(n)
              \/ EnterOperation
              \/ UNCHANGED vars
       PROVE  AnswersInv'
  BY <1>10, <1>11 DEF LinkChange, EnterOperation, vars
<1>12. CASE ReceiveAny
  <2>1. PICK f \in wire : \E good \in Prefixes(f) : \E counted, keep :
               Receive(f, good, counted, keep)
    BY <1>12 DEF ReceiveAny
  <2>2. PICK good \in Prefixes(f) : \E counted, keep : Receive(f, good, counted, keep)
    BY <2>1
  <2>3. good \subseteq f
    BY <2>2 DEF Prefixes
  <2>4. QED
    BY <1>6, <2>1, <2>2, <2>3
<1>13. QED
  BY <1>2, <1>3, <1>4, <1>5, <1>7, <1>8, <1>9, <1>11, <1>12 DEF Next

\* While fewer than IndexMod transmissions fit in the lifetime of a frame and in
\* the 50 ms timeout, a datagram is completed only by the answer to its own last
\* transmission, never by a late, duplicated or foreign answer.
THEOREM OnlyOwnAnswers == IndexNeverWraps => (Spec => []OwnAnswer)
<1>1. Init => AnswersInv
  BY DEF Init, AnswersInv, SentIndices, WireIndices, SameAgeSameDatagram, OwnAnswer,
         Outstanding, Pending
<1>2. Spec => []TypeInv
  BY TypeCorrect, PTL DEF TypeInv
<1>3. AnswersInv => OwnAnswer
  BY DEF AnswersInv
<1>4. SUFFICES ASSUME IndexNeverWraps
               PROVE  Spec => []OwnAnswer
  OBVIOUS
<1>5. TypeInv /\ AnswersInv /\ [Next]_vars => AnswersInv'
  BY <1>4, AnswersStep
<1>6. QED
  BY <1>1, <1>2, <1>3, <1>5, PTL DEF Spec

-----------------------------------------------------------------------------
(***************************************************************************)
(* Refinement: what a waiting thread sees is DatagramService.              *)
(***************************************************************************)
OutcomeInv ==
  \A r \in Requesters :
    Request(r) = "done" =>
      Outcome(r) = ReturnCode(r) /\ Outcome(r) \in {"OK", "WC", "TIMEOUT", "IO"}

LEMMA OutcomeOfHandshake == TypeInv /\ WaiterHandshake /\ OwnAnswer => OutcomeInv
<1> SUFFICES ASSUME TypeInv, WaiterHandshake, OwnAnswer,
                    NEW r \in Requesters, Request(r) = "done"
             PROVE  Outcome(r) = ReturnCode(r)
                      /\ Outcome(r) \in {"OK", "WC", "TIMEOUT", "IO"}
  BY DEF OutcomeInv
<1>1. r \in Datagrams
  BY DEF Datagrams
<1>2. pc[r] = "waiting" /\ r \notin Pending
  BY DEF Request, TypeInv, TypeOK
<1>3. state[r] \in Final /\ (state[r] = "RECEIVED" => answer[r] = "own")
  BY <1>1, <1>2 DEF WaiterHandshake, Handshake, OwnAnswer
<1>4. Outcome(r) = ReturnCode(r)
  BY <1>3 DEF Outcome
<1>5. ReturnCode(r) \in {"OK", "WC", "TIMEOUT", "IO"}
  <2>1. CASE state[r] = "RECEIVED"
    <3>1. working_counter[r] = 0 \/ working_counter[r] # 0
      OBVIOUS
    <3>2. QED
      BY <2>1, <3>1 DEF ReturnCode
  <2>2. CASE state[r] = "TIMED_OUT"
    BY <2>2 DEF ReturnCode
  <2>3. CASE state[r] = "ERROR"
    BY <2>3 DEF ReturnCode
  <2>4. QED
    BY <1>3, <2>1, <2>2, <2>3 DEF Final
<1>6. QED
  BY <1>4, <1>5

\* A step in which no thread calls or returns completes the requests whose
\* datagrams leave the list.
LEMMA StepCompletes ==
  ASSUME OutcomeInv', UNCHANGED callerVars,
         \A r \in Requesters : r \in Pending' => r \in Pending,
         \A r \in Requesters : r \notin Pending =>
           /\ state'[r] = state[r]
           /\ answer'[r] = answer[r]
           /\ working_counter'[r] = working_counter[r]
  PROVE  [Service!ServiceNext]_(Service!serviceVars)
<1> DEFINE S == {r \in Requesters : Request(r) = "pending" /\ r \notin Pending'}
           request == [r \in Requesters |-> Request(r)]
           outcome == [r \in Requesters |-> Outcome(r)]
<1>1. pc' = pc /\ result' = result
  BY DEF callerVars
<1>2. \A r \in S : Request(r)' = "done"
  BY <1>1 DEF Request
<1>3. ASSUME NEW r \in Requesters, r \notin S
      PROVE  Request(r)' = Request(r) /\ Outcome(r)' = Outcome(r)
  <2>1. Request(r)' = Request(r)
    BY <1>1, <1>3 DEF Request
  <2>2. CASE Request(r) = "pending"
    BY <2>1, <2>2 DEF Outcome
  <2>3. CASE Request(r) = "none"
    BY <1>1, <2>1, <2>3 DEF Outcome
  <2>4. CASE Request(r) = "done"
    <3>1. r \notin Pending
      BY <2>4 DEF Request
    <3>2. ReturnCode(r)' = ReturnCode(r)
      BY <3>1 DEF ReturnCode
    <3>3. QED
      BY <2>1, <2>4, <3>1, <3>2 DEF Outcome
  <2>5. QED
    BY <2>1, <2>2, <2>3, <2>4 DEF Request
<1>4. CASE S = {}
  <2>1. request' = request /\ outcome' = outcome
    BY <1>3, <1>4
  <2>2. QED
    BY <2>1 DEF Service!serviceVars
<1>5. CASE S # {}
  <2> DEFINE o == [r \in S |-> Outcome(r)']
  <2>1. o \in [S -> {"OK", "WC", "TIMEOUT", "IO"}]
    BY <1>2 DEF OutcomeInv
  <2>2. request' = [r \in Requesters |-> IF r \in S THEN "done" ELSE request[r]]
    BY <1>2, <1>3
  <2>3. outcome' = [r \in Requesters |-> IF r \in S THEN o[r] ELSE outcome[r]]
    BY <1>3
  <2>4. \A r \in S : request[r] = "pending"
    OBVIOUS
  <2>5. Service!Complete(S)
    BY <1>5, <2>1, <2>2, <2>3, <2>4 DEF Service!Complete, Service!Outcomes
  <2>6. S \in SUBSET Requesters
    OBVIOUS
  <2>7. QED
    BY <2>5, <2>6 DEF Service!ServiceNext
<1>6. QED
  BY <1>4, <1>5

LEMMA SendCompletes ==
  ASSUME OutcomeInv', UNCHANGED <<callerVars, answer, working_counter>>,
         NEW q, NEW st, NEW late, ec_master_send(q, st, late),
         \A r \in Requesters : (r \in DOMAIN q <=> r \in Pending) /\ st[r] = state[r]
  PROVE  [Service!ServiceNext]_(Service!serviceVars)
<1>1. \A r \in Requesters : r \in Pending' => r \in Pending
  BY DEF ec_master_send, Delete, Pending
<1>2. ASSUME NEW r \in Requesters, r \notin Pending
      PROVE  state'[r] = state[r]
  <2>1. r \in Datagrams /\ r \notin DOMAIN q
    BY <1>2 DEF Datagrams
  <2>2. r \notin late /\ r \notin Down(q, late) /\ r \notin Sendable(q, st, late)
    BY <2>1 DEF ec_master_send, Overdue, Down, Sendable
  <2>3. QED
    BY <2>1, <2>2 DEF ec_master_send
<1>3. QED
  BY <1>1, <1>2, StepCompletes

LEMMA ServiceStep ==
  ASSUME TypeInv, WaiterHandshake, OutcomeInv, OutcomeInv', [Next]_vars
  PROVE  [Service!ServiceNext]_(Service!serviceVars)
<1> DEFINE request == [r \in Requesters |-> Request(r)]
           outcome == [r \in Requesters |-> Outcome(r)]
<1>0. /\ TypeOK
      /\ QueueOK(datagram_queue)
      /\ \A r \in Requesters : r \in Datagrams /\ r \notin Cyclic
  BY TypeInvQueue, DatagramAssumption DEF TypeInv, Datagrams
<1>1. ASSUME NEW r \in Requesters, NEW k \in RequestKinds, NEW n \in Netdevs,
             Submit(r, k, n)
      PROVE  Service!Ask(r)
  <2>1. Pending' = Pending \cup {r}
    BY <1>0, <1>1, AddTailList DEF Submit, Pending
  <2>2. \A s \in Requesters \ {r} : Request(s)' = Request(s) /\ Outcome(s)' = Outcome(s)
    BY <1>0, <1>1, <2>1 DEF Submit, Request, Outcome, ReturnCode, TypeOK
  <2>3. pc'[r] = "waiting" /\ r \in Pending'
    BY <1>1, <2>1 DEF Submit, TypeOK, TypeInv
  <2>4. Request(r) = "none" /\ Request(r)' = "pending" /\ Outcome(r)' = "none"
    BY <1>1, <2>3 DEF Submit, Request, Outcome
  <2>5. request' = [request EXCEPT ![r] = "pending"]
    BY <2>2, <2>4
  <2>6. outcome' = [outcome EXCEPT ![r] = "none"]
    BY <2>2, <2>4
  <2>7. QED
    BY <2>4, <2>5, <2>6 DEF Service!Ask
<1>2. ASSUME NEW r \in Requesters, Return(r)
      PROVE  Service!Answer(r)
  <2>1. r \notin Pending
    BY <1>2 DEF Return, WaiterHandshake, Handshake
  <2>2. Request(r) = "done" /\ Outcome(r) = ReturnCode(r)
    BY <1>2, <2>1 DEF Return, Request, OutcomeInv
  <2>3. pc'[r] = "idle" /\ result'[r] = ReturnCode(r)
    BY <1>0, <1>2 DEF Return, TypeOK
  <2>4. Request(r)' = "none"
    BY <2>3 DEF Request
  <2>5. Outcome(r)' = Outcome(r)
    BY <2>2, <2>3, <2>4 DEF Outcome
  <2>6. \A s \in Requesters \ {r} : Request(s)' = Request(s) /\ Outcome(s)' = Outcome(s)
    BY <1>0, <1>2 DEF Return, Request, Outcome, ReturnCode, Pending, TypeOK
  <2>7. request' = [request EXCEPT ![r] = "none"]
    BY <2>4, <2>6
  <2>8. outcome' = outcome
    BY <2>5, <2>6
  <2>9. QED
    BY <2>2, <2>7, <2>8 DEF Service!Answer
<1>3. ASSUME NEW late, NonperiodSend(late)
      PROVE  [Service!ServiceNext]_(Service!serviceVars)
  BY <1>3, SendCompletes DEF NonperiodSend, Pending
<1>4. ASSUME NEW late, PeriodProcess(late)
      PROVE  [Service!ServiceNext]_(Service!serviceVars)
  <2>1. /\ ec_master_send(CycleQueue, CycleState, late)
        /\ UNCHANGED <<callerVars, answer, working_counter>>
    BY <1>4 DEF PeriodProcess, CycleQueue, CycleState
  <2>2. \A r \in Requesters : r \notin CycleDatagrams
    BY <1>0 DEF CycleDatagrams, Cyclic
  <2>3. \A r \in Requesters :
          (r \in DOMAIN CycleQueue <=> r \in Pending) /\ CycleState[r] = state[r]
    BY <1>0, <2>2, CycleQueueOK DEF CycleState
  <2>4. QED
    BY <2>1, <2>3, SendCompletes
<1>5. ASSUME NEW f, NEW good, NEW counted, NEW keep, Receive(f, good, counted, keep)
      PROVE  [Service!ServiceNext]_(Service!serviceVars)
  <2>1. \A r \in Requesters : r \in Pending' => r \in Pending
    BY <1>5 DEF Receive, Delete, Pending
  <2>2. \A r \in Requesters : r \notin Pending =>
           /\ state'[r] = state[r]
           /\ answer'[r] = answer[r]
           /\ working_counter'[r] = working_counter[r]
    BY <1>0, <1>5 DEF Receive
  <2>3. UNCHANGED callerVars
    BY <1>5 DEF Receive
  <2>4. QED
    BY <2>1, <2>2, <2>3, StepCompletes
\* The other steps do not touch the datagrams of the requesters.
<1>6. ASSUME UNCHANGED callerVars,
             \A r \in Requesters : /\ r \in Pending' <=> r \in Pending
                                   /\ state'[r] = state[r]
                                   /\ answer'[r] = answer[r]
                                   /\ working_counter'[r] = working_counter[r]
      PROVE  [Service!ServiceNext]_(Service!serviceVars)
  BY <1>6, StepCompletes
<1>7. ASSUME \/ \E n \in Netdevs : LinkChange(n)
             \/ EnterOperation
             \/ UNCHANGED vars
      PROVE  [Service!ServiceNext]_(Service!serviceVars)
  BY <1>6, <1>7 DEF LinkChange, EnterOperation, vars, datagramVars, Pending
<1>8. CASE StartTimer
  BY <1>0, <1>6, <1>8 DEF StartTimer, Pending, Cyclic, TypeOK
<1>9. CASE StopTimer
  BY <1>0, <1>6, <1>9 DEF StopTimer, Pending, Delete, Cyclic, datagramVars
<1>10. ASSUME NEW found \in DcClocks, FindDcRefClock(found)
       PROVE  [Service!ServiceNext]_(Service!serviceVars)
  BY <1>0, <1>6, <1>10 DEF FindDcRefClock, Pending, Cyclic, TypeOK
<1>11. QED
  BY <1>1, <1>2, <1>3, <1>4, <1>5, <1>7, <1>8, <1>9, <1>10
     DEF Next, ReceiveAny, Service!ServiceNext

\* What the threads blocked in ec_master_queue_ext_datagram see is the abstract
\* service: each request completed once, with an outcome about this very request
\* that stays as it is until the call returns it.
THEOREM Refinement == IndexNeverWraps => (Spec => ImplementsService)
<1> SUFFICES ASSUME IndexNeverWraps
             PROVE  Spec => ImplementsService
  OBVIOUS
<1>1. Init => Service!ServiceInit
  BY DEF Init, Service!ServiceInit, Request, Outcome
<1>2. Spec => []TypeInv
  BY TypeCorrect, PTL DEF TypeInv
<1>3. Spec => []WaiterHandshake
  BY HandshakeCorrect
<1>4. Spec => []OwnAnswer
  BY OnlyOwnAnswers
<1>5. TypeInv /\ WaiterHandshake /\ OwnAnswer => OutcomeInv
  BY OutcomeOfHandshake
<1>6. TypeInv /\ WaiterHandshake /\ OutcomeInv /\ OutcomeInv' /\ [Next]_vars
        => [Service!ServiceNext]_(Service!serviceVars)
  BY ServiceStep
<1>7. QED
  BY <1>1, <1>2, <1>3, <1>4, <1>5, <1>6, PTL
     DEF Spec, ImplementsService, Service!ServiceSafety

-----------------------------------------------------------------------------
(***************************************************************************)
(* Order of transmission.                                                  *)
(***************************************************************************)
Overtakes(d, e) ==
  /\ e \in datagram_queue[d]
  /\ netdev_idx[e] = netdev_idx[d]
  /\ state[e] = "QUEUED" /\ state'[e] = "QUEUED"
  /\ state[d] = "QUEUED" /\ state'[d] = "SENT"

LEMMA SendKeepsOrder ==
  ASSUME TypeOK, NEW q, QueueOK(q), NEW st, NEW late, ec_master_send(q, st, late),
         NEW d \in Pending \cap DOMAIN datagram_queue',
         NEW e \in Pending \cap DOMAIN datagram_queue',
         q[d] = datagram_queue[d],
         state[d] = "QUEUED" => st[d] = "QUEUED",
         state[e] = "QUEUED" => st[e] = "QUEUED"
  PROVE  ~Overtakes(d, e)
<1> SUFFICES ASSUME Overtakes(d, e)
             PROVE  FALSE
  OBVIOUS
<1>1. /\ d \in DOMAIN q \ (late \cup Down(q, late))
      /\ e \in DOMAIN q \ (late \cup Down(q, late))
      /\ d \in Datagrams /\ e \in Datagrams
  BY DEF ec_master_send, Delete, QueueOK
<1>2. e \in q[d] /\ q[e] \subseteq q[d]
  BY <1>1 DEF Overtakes, QueueOK, IsList
<1>3. st[d] = "QUEUED" /\ st[e] = "QUEUED" /\ netdev_idx[e] = netdev_idx[d]
  BY DEF Overtakes
<1>4. d \in Sendable(q, st, late)
  BY <1>1, <1>3 DEF ec_master_send, Overtakes
<1>5. e \in Sendable(q, st, late)
  BY <1>1, <1>2, <1>3, <1>4 DEF Sendable
<1>6. state'[e] = "SENT"
  BY <1>1, <1>5 DEF ec_master_send
<1>7. QED
  BY <1>6 DEF Overtakes

\* The packing loop transmits the datagrams of a netdev in the order in which
\* they were queued: none is transmitted while one ahead of it stays queued.
THEOREM InOrder == Spec => NoOvertaking
<1>1. TypeInv /\ [Next]_vars =>
        [\A d, e \in Pending \cap DOMAIN datagram_queue' :
           (/\ e \in datagram_queue[d]
            /\ netdev_idx[e] = netdev_idx[d]
            /\ state[e] = "QUEUED" /\ state'[e] = "QUEUED")
             => ~(state[d] = "QUEUED" /\ state'[d] = "SENT")]_vars
  <2> SUFFICES ASSUME TypeInv, Next,
                      NEW d \in Pending \cap DOMAIN datagram_queue',
                      NEW e \in Pending \cap DOMAIN datagram_queue'
               PROVE  ~Overtakes(d, e)
    BY DEF Overtakes
  <2>0. TypeOK /\ QueueOK(datagram_queue) /\ d \in Datagrams
    BY TypeInvQueue DEF TypeInv, QueueOK, Pending
  <2>1. ASSUME NEW late, NonperiodSend(late)
        PROVE  ~Overtakes(d, e)
    BY <2>0, <2>1, SendKeepsOrder DEF NonperiodSend
  <2>2. ASSUME NEW late, PeriodProcess(late)
        PROVE  ~Overtakes(d, e)
    <3>1. ec_master_send(CycleQueue, CycleState, late)
      BY <2>2 DEF PeriodProcess, CycleQueue, CycleState
    <3>2. CycleQueue[d] = datagram_queue[d]
      BY DEF CycleQueue, AddTail, Pending
    <3>3. \A x \in {d, e} : state[x] = "QUEUED" => CycleState[x] = "QUEUED"
      BY <2>0 DEF CycleState, TypeOK
    <3>4. QED
      BY <2>0, <3>1, <3>2, <3>3, CycleQueueOK, SendKeepsOrder
  <2>3. ASSUME state'[d] # "SENT" \/ state'[d] = state[d]
        PROVE  ~Overtakes(d, e)
    BY <2>3 DEF Overtakes
  <2>4. ASSUME NEW r \in Requesters, NEW k, NEW n, Submit(r, k, n)
        PROVE  ~Overtakes(d, e)
    BY <2>0, <2>3, <2>4 DEF Submit, TypeOK
  <2>5. ASSUME NEW f, NEW good, NEW counted, NEW keep, Receive(f, good, counted, keep)
        PROVE  ~Overtakes(d, e)
    BY <2>0, <2>3, <2>5 DEF Receive
  <2>6. ASSUME StartTimer \/ \E found \in DcClocks : FindDcRefClock(found)
        PROVE  ~Overtakes(d, e)
    BY <2>0, <2>3, <2>6 DEF StartTimer, FindDcRefClock, TypeOK
  <2>7. ASSUME UNCHANGED state
        PROVE  ~Overtakes(d, e)
    BY <2>3, <2>7
  <2>8. QED
    BY <2>1, <2>2, <2>4, <2>5, <2>6, <2>7
       DEF Next, Return, ReceiveAny, LinkChange, EnterOperation, StopTimer, datagramVars
<1>2. Spec => []TypeInv
  BY TypeCorrect, PTL DEF TypeInv
<1>3. QED
  BY <1>1, <1>2, PTL DEF Spec, NoOvertaking
=============================================================================
