--------------------------- MODULE DatagramQueue ---------------------------
(***************************************************************************)
(* The transport core of the master: the queue of pending datagrams, the   *)
(* packing of queued datagrams into frames, the matching of the answers    *)
(* that come back, the 50 ms timeout, and the threads that wait for a      *)
(* datagram (ec_master.c, ec_datagram.c).                                  *)
(*                                                                         *)
(* Every step is one critical section or one interrupt handler: the        *)
(* nonperiod thread sends inside a critical section, the cycle timer and   *)
(* the receive handler are interrupts of the same priority, and a thread   *)
(* queues its datagram inside a critical section.                          *)
(*                                                                         *)
(* The network loses frames (never received before they are Lifetime       *)
(* transmissions old), delays and reorders them (any frame on the wire may *)
(* be the next one received) and duplicates them (keep = TRUE).            *)
(***************************************************************************)
EXTENDS Integers, FiniteSets

CONSTANTS
  Requesters,   \* datagrams owned by a thread that waits for the answer
  DcRef,        \* dc_ref_sync_datagram
  DcAll,        \* dc_all_sync_datagram
  Pdo,          \* pdo_datagram
  Kinds,        \* what distinguishes answers: datagram type and data size
  RequestKinds, \* the kinds the requesters use
  CyclicKind,   \* the kind of the three cyclic datagrams
  Size,         \* bytes a datagram of a kind takes in a frame
  FrameCap,     \* bytes of a frame that datagrams can use
  MaxNetdev,    \* netdevs are 0 .. MaxNetdev, 0 is EC_NETDEV_MAIN
  IndexMod,     \* datagram_index is a uint8_t: 256
  Lifetime,     \* a frame comes back before this many later transmissions
  ExpiryWindow, \* this many transmissions take longer than 50 ms
  DcClocks,     \* the outcomes of the search for a DC reference clock
  SyncToRef     \* dc_sync_with_dc_ref_enable

Cyclic == {DcRef, DcAll, Pdo}
Datagrams == Requesters \cup Cyclic
Netdevs == 0 .. MaxNetdev
Indices == 0 .. IndexMod - 1

ASSUME DatagramAssumption ==
  /\ IsFiniteSet(Requesters)
  /\ Requesters \cap Cyclic = {}
  /\ DcRef # DcAll /\ DcRef # Pdo /\ DcAll # Pdo

ASSUME KindAssumption ==
  /\ RequestKinds \subseteq Kinds
  /\ CyclicKind \in [Cyclic -> Kinds]
  /\ Size \in [Kinds -> Nat]
  /\ FrameCap \in Nat
  /\ MaxNetdev \in Nat
  /\ DcClocks \subseteq BOOLEAN
  /\ SyncToRef \in BOOLEAN

ASSUME IndexAssumption ==
  /\ IndexMod \in Nat
  /\ Cardinality(Datagrams) <= IndexMod
  /\ Lifetime \in Nat
  /\ ExpiryWindow \in Nat

VARIABLES
  datagram_queue,         \* datagram in the list |-> the datagrams ahead of it
  datagram_index,         \* index of the next datagram transmitted
  state, index, kind, netdev_idx, working_counter, waiter,
  wait,                   \* the binary semaphore of each datagram
  link_state,             \* netdev |-> link is up
  phase,                  \* "IDLE", or "OPERATION" before or after the timer
  timer,                  \* the cycle timer runs
  dc_ref_clock,           \* a DC reference clock is known
  actual_working_counter,
  pc,                     \* requester |-> "idle" or "waiting"
  result,                 \* what ec_master_queue_ext_datagram last returned
  wire,                   \* frames under way: sets of answers
  age,                    \* transmissions since a SENT datagram was sent
  answer                  \* whose answer completed a RECEIVED datagram

datagramVars == <<state, index, working_counter, waiter, wait, age, answer>>
requestVars == <<kind, netdev_idx>>
masterVars == <<phase, timer, dc_ref_clock>>
callerVars == <<pc, result>>
vars == <<datagram_queue, datagram_index, datagramVars, requestVars, link_state,
          masterVars, actual_working_counter, callerVars, wire>>

Pending == DOMAIN datagram_queue
Final == {"RECEIVED", "TIMED_OUT", "ERROR"}

(***************************************************************************)
(* The list.  datagram_queue[d] is the set of datagrams in front of d.     *)
(***************************************************************************)
\* Mutant: queues a datagram that is in the list already once more.
AddTailAgain(q, d) == [e \in DOMAIN q \cup {d} |-> IF e = d THEN DOMAIN q \cup {d} ELSE q[e]]

AddTail(q, d) ==
  IF d \in DOMAIN q
  THEN q
  ELSE [e \in DOMAIN q \cup {d} |-> IF e = d THEN DOMAIN q ELSE q[e]]

Delete(q, S) == [e \in DOMAIN q \ S |-> q[e] \ S]

\* Mutants: the waiter flag stays up; the semaphore is not given.
WakeKeepsWaiter(S) ==
  /\ waiter' = waiter
  /\ wait' = [d \in Datagrams |-> IF d \in S /\ waiter[d] THEN 1 ELSE wait[d]]

WakeNobody(S) ==
  /\ waiter' = [d \in Datagrams |-> waiter[d] /\ d \notin S]
  /\ wait' = wait

\* ec_master_unqueue_datagram wakes the waiter of each datagram it removes.
Wake(S) ==
  /\ waiter' = [d \in Datagrams |-> waiter[d] /\ d \notin S]
  /\ wait' = [d \in Datagrams |-> IF d \in S /\ waiter[d] THEN 1 ELSE wait[d]]

-----------------------------------------------------------------------------
Init ==
  /\ datagram_queue = [d \in {} |-> {}]
  /\ datagram_index = 1 % IndexMod
  /\ state = [d \in Datagrams |-> "INIT"]
  /\ index = [d \in Datagrams |-> 0]
  /\ kind = [d \in Datagrams |-> CyclicKind[IF d \in Cyclic THEN d ELSE Pdo]]
  /\ netdev_idx = [d \in Datagrams |-> 0]
  /\ working_counter = [d \in Datagrams |-> 0]
  /\ waiter = [d \in Datagrams |-> FALSE]
  /\ wait = [d \in Datagrams |-> 0]
  /\ link_state = [n \in Netdevs |-> FALSE]
  /\ phase = "IDLE"
  /\ timer = FALSE
  /\ dc_ref_clock = FALSE
  /\ actual_working_counter = 0
  /\ pc = [r \in Requesters |-> "idle"]
  /\ result = [r \in Requesters |-> "none"]
  /\ wire = {}
  /\ age = [d \in Datagrams |-> 0]
  /\ answer = [d \in Datagrams |-> "none"]

(***************************************************************************)
(* A thread fills its own datagram and calls ec_master_queue_ext_datagram, *)
(* which queues it and blocks on its semaphore.                            *)
(***************************************************************************)
Submit(r, k, n) ==
  /\ pc[r] = "idle"
  /\ datagram_queue' = AddTail(datagram_queue, r)
  /\ state' = [state EXCEPT ![r] = "QUEUED"]
  /\ index' = [index EXCEPT ![r] = 0]
  /\ working_counter' = [working_counter EXCEPT ![r] = 0]
  /\ waiter' = [waiter EXCEPT ![r] = TRUE]
  /\ kind' = [kind EXCEPT ![r] = k]
  /\ netdev_idx' = [netdev_idx EXCEPT ![r] = n]
  /\ answer' = [answer EXCEPT ![r] = "none"]
  /\ pc' = [pc EXCEPT ![r] = "waiting"]
  /\ UNCHANGED <<datagram_index, wait, age, link_state, masterVars, result,
                 actual_working_counter, wire>>

\* Mutant: a link that is down is no case of its own.
ReturnCodeNoIo(r) ==
  CASE state[r] = "RECEIVED" /\ working_counter[r] = 0 -> "WC"
    [] state[r] = "RECEIVED" /\ working_counter[r] # 0 -> "OK"
    [] state[r] = "TIMED_OUT" -> "TIMEOUT"
    [] OTHER -> "UNKNOWN"

\* What the woken thread makes of its datagram.
ReturnCode(r) ==
  CASE state[r] = "RECEIVED" /\ working_counter[r] = 0 -> "WC"
    [] state[r] = "RECEIVED" /\ working_counter[r] # 0 -> "OK"
    [] state[r] = "TIMED_OUT" -> "TIMEOUT"
    [] state[r] = "ERROR" -> "IO"
    [] OTHER -> "UNKNOWN"

Return(r) ==
  /\ pc[r] = "waiting"
  /\ wait[r] = 1
  /\ wait' = [wait EXCEPT ![r] = 0]
  /\ result' = [result EXCEPT ![r] = ReturnCode(r)]
  /\ pc' = [pc EXCEPT ![r] = "idle"]
  /\ UNCHANGED <<datagram_queue, datagram_index, state, index, working_counter,
                 waiter, age, answer, requestVars, link_state, masterVars,
                 actual_working_counter, wire>>

-----------------------------------------------------------------------------
(***************************************************************************)
(* ec_master_send with the list q and the states st.  It first drops the   *)
(* datagrams `late` that were sent more than 50 ms ago, then fails every   *)
(* datagram of a netdev whose link is down, then transmits what is queued  *)
(* on the others.  A datagram that fits in no frame stops its netdev: the  *)
(* packing loop can neither send it nor pass it.                           *)
(***************************************************************************)
Oversize(d) == Size[kind[d]] > FrameCap

Down(q, late) == {d \in DOMAIN q \ late : ~link_state[netdev_idx[d]]}

\* Mutant: what fits in no frame is skipped.
SendableSkips(q, st, late) ==
  {d \in DOMAIN q \ (late \cup Down(q, late)) : st[d] = "QUEUED" /\ ~Oversize(d)}

Sendable(q, st, late) ==
  {d \in DOMAIN q \ (late \cup Down(q, late)) :
     /\ st[d] = "QUEUED"
     /\ \A e \in q[d] \cup {d} :
          st[e] = "QUEUED" /\ netdev_idx[e] = netdev_idx[d] => ~Oversize(e)}

\* The netdevs are served in turn, each in the order of the list.
Precedes(q, e, d) ==
  \/ netdev_idx[e] < netdev_idx[d]
  \/ netdev_idx[e] = netdev_idx[d] /\ e \in q[d]

Rank(q, S, d) == Cardinality({e \in S : Precedes(q, e, d)})

(***************************************************************************)
(* Frames are filled greedily: used[i] is what the frame holds once the    *)
(* i-th datagram is in it, and a datagram that does not fit opens the next *)
(* frame.                                                                  *)
(***************************************************************************)
FrameStarts(q, S) ==
  LET n == Cardinality(S)
      at[i \in 0 .. n - 1] == CHOOSE d \in S : Rank(q, S, d) = i
      need(i) == Size[kind[at[i]]]
      opens(i, used) ==
        \/ i = 0
        \/ netdev_idx[at[i]] # netdev_idx[at[i - 1]]
        \/ used + need(i) > FrameCap
      used[i \in 0 .. n - 1] ==
        IF i = 0 THEN need(0)
        ELSE IF opens(i, used[i - 1]) THEN need(i) ELSE used[i - 1] + need(i)
  IN {i \in 0 .. n - 1 : i = 0 \/ opens(i, used[i - 1])}

\* Mutant: the index is wider than a byte.
AnswerToWide(d, i, n) ==
  [datagram |-> d, kind |-> kind[d], index |-> datagram_index + i, age |-> n - 1 - i]

\* The answer to d, the datagram of rank i among n transmitted ones.
AnswerTo(d, i, n) ==
  [datagram |-> d, kind |-> kind[d], index |-> (datagram_index + i) % IndexMod,
   age |-> n - 1 - i]

Frames(q, S) ==
  LET n == Cardinality(S)
      starts == FrameStarts(q, S)
      frame(i) == {s \in starts : s <= Rank(q, S, i)}
  IN {{AnswerTo(d, Rank(q, S, d), n) : d \in {e \in S : frame(e) = F}} :
        F \in {frame(d) : d \in S}}

\* Frames grow older with every transmission, and the oldest are lost.
Older(f, n) == {[a EXCEPT !.age = @ + n] : a \in f}
StillUnderWay(n) == {f \in wire : \A a \in f : a.age + n < Lifetime}

(***************************************************************************)
(* Which datagrams are late is a matter of time: later sent is never late  *)
(* before earlier sent, and ExpiryWindow transmissions take over 50 ms.    *)
(***************************************************************************)
Overdue(late, st, q, n) ==
  LET sent == {d \in DOMAIN q : st[d] = "SENT"}
  IN /\ late \subseteq sent
     /\ \A d \in late, e \in sent : age[e] >= age[d] => e \in late
     /\ \A d \in sent : age[d] + n >= ExpiryWindow => d \in late

ec_master_send(q, st, late) ==
  LET down == Down(q, late)
      S == Sendable(q, st, late)
      n == Cardinality(S)
      gone == late \cup down
  IN /\ Overdue(late, st, q, n)
     /\ datagram_queue' = Delete(q, gone)
     /\ state' = [d \in Datagrams |->
                    CASE d \in late -> "TIMED_OUT"
                      [] d \in down -> "ERROR"
                      [] d \in S -> "SENT"
                      [] OTHER -> st[d]]
     /\ index' = [d \in Datagrams |->
                    IF d \in S THEN (datagram_index + Rank(q, S, d)) % IndexMod
                    ELSE index[d]]
     /\ age' = [d \in Datagrams |->
                  CASE d \in S -> n - 1 - Rank(q, S, d)
                    [] d \in DOMAIN q \ (gone \cup S) /\ st[d] = "SENT" -> age[d] + n
                    [] OTHER -> 0]
     /\ datagram_index' = (datagram_index + n) % IndexMod
     /\ wire' = {Older(f, n) : f \in StillUnderWay(n)} \cup Frames(q, S)
     /\ Wake(gone)

\* The nonperiod thread, woken by its semaphore or every 10 ms.
NonperiodSend(late) ==
  /\ ~timer
  /\ ec_master_send(datagram_queue, state, late)
  /\ UNCHANGED <<working_counter, answer, requestVars, link_state, masterVars,
                 actual_working_counter, callerVars>>

(***************************************************************************)
(* The cycle timer's handler queues the DC datagrams and the PDO datagram, *)
(* sent ones and all, and sends.                                           *)
(***************************************************************************)
CycleDatagrams ==
  {Pdo} \cup (IF dc_ref_clock THEN {DcAll} ELSE {})
        \cup (IF dc_ref_clock /\ ~SyncToRef THEN {DcRef} ELSE {})

PeriodProcess(late) ==
  LET C == CycleDatagrams
      add(q, d) == IF d \in C THEN AddTail(q, d) ELSE q
  IN /\ timer
     /\ phase = "OPERATION"
     /\ ec_master_send(add(add(add(datagram_queue, DcRef), DcAll), Pdo),
                       [d \in Datagrams |-> IF d \in C THEN "QUEUED" ELSE state[d]],
                       late)
     /\ UNCHANGED <<working_counter, answer, requestVars, link_state, masterVars,
                    actual_working_counter, callerVars>>

-----------------------------------------------------------------------------
(***************************************************************************)
(* The receive handler walks the answers of a frame in order, up to the    *)
(* first one that does not fit in the received bytes.  An answer goes to   *)
(* the first SENT datagram of the list with its index, type and size; an   *)
(* answer without one is dropped.                                          *)
(***************************************************************************)
\* Mutant: type and size are enough.
MatchesAnyIndex(d, a) == d \in Pending /\ state[d] = "SENT" /\ kind[d] = a.kind

Matches(d, a) ==
  d \in Pending /\ state[d] = "SENT" /\ index[d] = a.index /\ kind[d] = a.kind

FirstMatch(d, a) ==
  Matches(d, a) /\ \A e \in datagram_queue[d] : ~Matches(e, a)

Prefixes(f) == {{a \in f : a.age >= g} : g \in {a.age : a \in f}} \cup {{}}

Receive(f, good, counted, keep) ==
  LET hit == {d \in Pending : \E a \in good : FirstMatch(d, a)}
      st == [d \in Datagrams |-> IF d \in hit THEN "RECEIVED" ELSE state[d]]
      own(d) == \E a \in good : FirstMatch(d, a) /\ a.datagram = d /\ a.age = age[d]
  IN /\ counted \subseteq hit
     /\ datagram_queue' = Delete(datagram_queue, hit)
     /\ state' = st
     /\ working_counter' =
          [d \in Datagrams |-> IF d \in hit THEN IF d \in counted THEN 1 ELSE 0
                               ELSE working_counter[d]]
     /\ answer' = [d \in Datagrams |-> IF d \in hit
                                       THEN IF own(d) THEN "own" ELSE "foreign"
                                       ELSE answer[d]]
     /\ age' = [d \in Datagrams |-> IF d \in hit THEN 0 ELSE age[d]]
     /\ Wake(hit)
     /\ wire' = IF keep THEN wire ELSE wire \ {f}
     /\ actual_working_counter' =
          CASE phase # "OPERATION" -> actual_working_counter
            [] phase = "OPERATION" /\ st[Pdo] = "RECEIVED" -> working_counter'[Pdo]
            [] OTHER -> 0
     /\ UNCHANGED <<datagram_index, index, requestVars, link_state, masterVars,
                    callerVars>>

ReceiveAny ==
  \E f \in wire : \E good \in Prefixes(f) :
    \E counted \in SUBSET Pending : \E keep \in BOOLEAN :
      Receive(f, good, counted, keep)

-----------------------------------------------------------------------------
\* The link timer sees a cable pulled or plugged.
LinkChange(n) ==
  /\ link_state' = [link_state EXCEPT ![n] = ~@]
  /\ UNCHANGED <<datagram_queue, datagram_index, datagramVars, requestVars,
                 masterVars, actual_working_counter, callerVars, wire>>

(***************************************************************************)
(* ec_master_start, as far as the queue is concerned: the phase changes    *)
(* first, the PDO datagram is built and the timer started later, and the   *)
(* nonperiod thread is suspended in between.                               *)
(***************************************************************************)
EnterOperation ==
  /\ phase = "IDLE"
  /\ phase' = "OPERATION"
  /\ actual_working_counter' = 0
  /\ UNCHANGED <<datagram_queue, datagram_index, datagramVars, requestVars,
                 link_state, timer, dc_ref_clock, callerVars, wire>>

StartTimer ==
  /\ phase = "OPERATION"
  /\ ~timer
  /\ timer' = TRUE
  /\ state' = [state EXCEPT ![Pdo] = "INIT"]
  /\ index' = [index EXCEPT ![Pdo] = 0]
  /\ working_counter' = [working_counter EXCEPT ![Pdo] = 0]
  /\ answer' = [answer EXCEPT ![Pdo] = "none"]
  /\ UNCHANGED <<datagram_queue, datagram_index, waiter, wait, age, requestVars,
                 link_state, phase, dc_ref_clock, actual_working_counter,
                 callerVars, wire>>

\* Mutant: the PDO datagram stays where it is.
StopTimerKeepsPdo ==
  /\ timer
  /\ timer' = FALSE
  /\ phase' = "IDLE"
  /\ UNCHANGED <<datagram_queue, datagram_index, datagramVars, requestVars, link_state,
                 dc_ref_clock, actual_working_counter, callerVars, wire>>

\* ec_master_stop: the timer stops and the PDO datagram leaves the list.
StopTimer ==
  /\ timer
  /\ timer' = FALSE
  /\ phase' = "IDLE"
  /\ datagram_queue' = Delete(datagram_queue, {Pdo})
  /\ UNCHANGED <<datagram_index, datagramVars, requestVars, link_state,
                 dc_ref_clock, actual_working_counter, callerVars, wire>>

(***************************************************************************)
(* The end of a bus scan chooses the DC reference clock and refills both   *)
(* DC datagrams, wherever they are, even while the cycle timer runs: a     *)
(* start may come between the scan thread's stop and its scan.             *)
(***************************************************************************)
FindDcRefClock(found) ==
  LET fill(f, v) == [f EXCEPT ![DcRef] = v, ![DcAll] = v]
  IN /\ dc_ref_clock' = found
     /\ state' = fill(state, "INIT")
     /\ index' = fill(index, 0)
     /\ working_counter' = fill(working_counter, 0)
     /\ waiter' = fill(waiter, FALSE)
     /\ age' = fill(age, 0)
     /\ answer' = fill(answer, "none")
     /\ UNCHANGED <<datagram_queue, datagram_index, wait, requestVars, link_state,
                    phase, timer, actual_working_counter, callerVars, wire>>

-----------------------------------------------------------------------------
Send(late) == NonperiodSend(late) \/ PeriodProcess(late)

Next ==
  \/ \E r \in Requesters, k \in RequestKinds, n \in Netdevs : Submit(r, k, n)
  \/ \E r \in Requesters : Return(r)
  \/ \E late \in SUBSET Pending : NonperiodSend(late)
  \/ \E late \in SUBSET Pending : PeriodProcess(late)
  \/ ReceiveAny
  \/ \E n \in Netdevs : LinkChange(n)
  \/ EnterOperation
  \/ StartTimer
  \/ StopTimer
  \/ \E found \in DcClocks : FindDcRefClock(found)

(***************************************************************************)
(* Some sender always runs, a datagram that stays SENT is late one day,    *)
(* and a thread whose semaphore was given is scheduled.  The network is    *)
(* not fair: it may lose everything.                                       *)
(***************************************************************************)
Fairness ==
  /\ WF_vars(\E late \in SUBSET Pending : Send(late))
  /\ \A r \in Requesters :
       /\ WF_vars(\E late \in SUBSET Pending : r \in late /\ Send(late))
       /\ WF_vars(Return(r))

Spec == Init /\ [][Next]_vars
FairSpec == Spec /\ Fairness

-----------------------------------------------------------------------------
(***************************************************************************)
(* Properties.                                                             *)
(***************************************************************************)
States == {"INIT", "QUEUED", "SENT"} \cup Final
Answers == [datagram : Datagrams, kind : Kinds, index : Indices, age : Nat]

TypeOK ==
  /\ Pending \subseteq Datagrams
  /\ datagram_queue \in [Pending -> SUBSET Pending]
  /\ datagram_index \in Indices
  /\ state \in [Datagrams -> States]
  /\ index \in [Datagrams -> Indices]
  /\ kind \in [Datagrams -> Kinds]
  /\ netdev_idx \in [Datagrams -> Netdevs]
  /\ working_counter \in [Datagrams -> {0, 1}]
  /\ waiter \in [Datagrams -> BOOLEAN]
  /\ wait \in [Datagrams -> {0, 1}]
  /\ link_state \in [Netdevs -> BOOLEAN]
  /\ phase \in {"IDLE", "OPERATION"}
  /\ timer \in BOOLEAN
  /\ dc_ref_clock \in BOOLEAN
  /\ actual_working_counter \in {0, 1}
  /\ pc \in [Requesters -> {"idle", "waiting"}]
  /\ result \in [Requesters -> {"none", "OK", "WC", "TIMEOUT", "IO", "UNKNOWN"}]
  /\ wire \in SUBSET SUBSET Answers
  /\ age \in [Datagrams -> Nat]
  /\ answer \in [Datagrams -> {"none", "own", "foreign"}]

(***************************************************************************)
(* The list stays a list whatever is queued, received, timed out or failed *)
(* in whatever order: the datagrams in it are strictly ordered, and each   *)
(* knows exactly the ones in front of it.                                  *)
(***************************************************************************)
IsList(q) ==
  /\ \A d \in DOMAIN q : d \notin q[d]
  /\ \A d, e \in DOMAIN q : d = e \/ d \in q[e] \/ e \in q[d]
  /\ \A d, e \in DOMAIN q : d \in q[e] => q[d] \subseteq q[e]

ListOrdered == IsList(datagram_queue)

(***************************************************************************)
(* A blocked thread is woken exactly once: while its datagram is listed    *)
(* the waiter flag is up and the semaphore empty, and as soon as it is     *)
(* unlisted the semaphore holds the one wake-up and the datagram a final   *)
(* state.  A thread that is not blocked has its datagram to itself, out of *)
(* the list and with an empty semaphore.                                   *)
(***************************************************************************)
Handshake(r) ==
  /\ pc[r] = "idle" => ~waiter[r] /\ wait[r] = 0 /\ r \notin Pending
  /\ pc[r] = "waiting" /\ r \in Pending =>
       waiter[r] /\ wait[r] = 0 /\ state[r] \in {"QUEUED", "SENT"}
  /\ pc[r] = "waiting" /\ r \notin Pending =>
       ~waiter[r] /\ wait[r] = 1 /\ state[r] \in Final

WaiterHandshake == \A r \in Requesters : Handshake(r)

(***************************************************************************)
(* ec_datagram.h says of EC_DATAGRAM_RECEIVED "Received (dequeued)": a     *)
(* datagram becomes RECEIVED by the answer to its own last transmission,   *)
(* never by a late, duplicated or foreign one that carries its index.      *)
(* This needs fewer than IndexMod transmissions in the time an answer may  *)
(* take and in the 50 ms a datagram may stay SENT: the counter must not    *)
(* come round to an index that is still in use.                            *)
(***************************************************************************)
IndexNeverWraps == Lifetime <= IndexMod /\ ExpiryWindow <= IndexMod

OwnAnswer ==
  \A d \in Datagrams : state[d] = "RECEIVED" => answer[d] = "own"

(***************************************************************************)
(* The PDO datagram is listed only while the cycle timer runs: the next    *)
(* start initialises its list node, which must not be linked.              *)
(***************************************************************************)
PdoUnlinkedWhenStopped == ~timer => Pdo \notin Pending

(***************************************************************************)
(* What is sent or queued later is behind what is waiting: a datagram that *)
(* is passed in the list is never overtaken on the wire.  In one step no   *)
(* datagram goes to SENT while a QUEUED one ahead of it, on the same       *)
(* netdev, stays QUEUED.                                                   *)
(***************************************************************************)
NoOvertaking ==
  [][\A d, e \in Pending \cap DOMAIN datagram_queue' :
       (/\ e \in datagram_queue[d]
        /\ netdev_idx[e] = netdev_idx[d]
        /\ state[e] = "QUEUED" /\ state'[e] = "QUEUED")
         => ~(state[d] = "QUEUED" /\ state'[d] = "SENT")]_vars

(***************************************************************************)
(* The queue implements DatagramService: a request is done when its        *)
(* datagram is out of the list, and what the thread will make of it is the *)
(* outcome.  An answer that is not the request's own is no outcome of the  *)
(* service.                                                                *)
(***************************************************************************)
Request(r) ==
  IF pc[r] = "idle" THEN "none" ELSE IF r \in Pending THEN "pending" ELSE "done"

Outcome(r) ==
  CASE Request(r) = "none" -> result[r]
    [] Request(r) = "pending" -> "none"
    [] Request(r) = "done" ->
         IF state[r] = "RECEIVED" /\ answer[r] # "own" THEN "foreign"
         ELSE ReturnCode(r)

Service == INSTANCE DatagramService WITH
  Clients <- Requesters,
  request <- [r \in Requesters |-> Request(r)],
  outcome <- [r \in Requesters |-> Outcome(r)]

ImplementsService == Service!ServiceSafety
ImplementsFairService == Service!ServiceSpec
=============================================================================
