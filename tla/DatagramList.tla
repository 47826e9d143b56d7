---------------------------- MODULE DatagramList ----------------------------
(***************************************************************************)
(* The list of pending datagrams as it lies in memory: each node points to *)
(* the next and to the previous one, the head closes the circle, and a     *)
(* node that is in no list points to itself (ec_list.h).  DatagramQueue    *)
(* has the same list as a set in front of each datagram, which is here the *)
(* history variable list_ahead: the datagrams put in and not taken out.    *)
(*                                                                         *)
(* Senders, the receive interrupt and the threads that queue a datagram    *)
(* walk over the list, an entry at a time, with interrupts off or as       *)
(* interrupts: nobody else comes between the steps of a walk.              *)
(* ec_master_stop is not so: it unlinks the PDO datagram as a thread, once *)
(* the timer is stopped and before the nonperiod thread runs again, so the *)
(* receive interrupt and other threads may come between its accesses.      *)
(*                                                                         *)
(* One such walk is enough to break the list; what happens afterwards is   *)
(* not followed beyond the end of ec_datagram_clear.  There is one netdev, *)
(* and every datagram fits in a frame.                                     *)
(***************************************************************************)

CONSTANT ListRequesters    \* the datagrams of threads that wait for the answer

ListHead == "head"
ListPdo == "pdo"
ListDatagrams == ListRequesters \cup {ListPdo}
ListNodes == ListDatagrams \cup {ListHead}

ASSUME ListAssumption == ListRequesters \cap {ListHead, ListPdo} = {}

VARIABLES
  list_links,    \* next and prev of each node
  list_state,    \* of each datagram; "DONE" is received, timed out or failed
  list_ahead,    \* the datagrams in front of each one in the list
  list_timer,    \* the cycle timer runs
  list_walk,     \* what a walk is for: to "queue", "send" or "receive", or "none"
  list_at,       \* pos, where it is,
  list_next,     \* n, where one that removes entries goes on,
  list_for,      \* the datagram that is to be queued,
  list_up,       \* the link is up
  list_clear,    \* what ec_datagram_clear does next: "none" outside it
  list_read,     \* next and prev of the PDO datagram as it has read them
  list_raced     \* a walk has come between its first access and its last

listWalkVars == <<list_walk, list_at, list_next, list_for, list_up>>
listClearVars == <<list_clear, list_read, list_raced>>
listVars == <<list_links, list_state, list_ahead, list_timer, listWalkVars, listClearVars>>

ListAlone == [n \in ListNodes |-> n]

ListInit ==
  /\ list_links = [next |-> ListAlone, prev |-> ListAlone]
  /\ list_state = [d \in ListDatagrams |-> "INIT"]
  /\ list_ahead = [d \in {} |-> {}]
  /\ list_timer = FALSE
  /\ list_walk = "none" /\ list_at = ListHead /\ list_next = ListHead
  /\ list_for = ListPdo /\ list_up = TRUE
  /\ list_clear = "none"
  /\ list_read = [next |-> ListPdo, prev |-> ListPdo]
  /\ list_raced = FALSE

-----------------------------------------------------------------------------
(***************************************************************************)
(* ec_list.h, on the links m.                                              *)
(***************************************************************************)
ec_dlist_init(m, l) ==
  [next |-> [m.next EXCEPT ![l] = l], prev |-> [m.prev EXCEPT ![l] = l]]

ec_dlist_add_tail(m, l, n) ==
  [next |-> [m.next EXCEPT ![m.prev[l]] = n, ![n] = l],
   prev |-> [m.prev EXCEPT ![n] = m.prev[l], ![l] = n]]

\* Mutant: the node that is removed keeps its pointers.
ec_dlist_remove_open(m, n) ==
  [next |-> [m.next EXCEPT ![m.prev[n]] = m.next[n]],
   prev |-> [m.prev EXCEPT ![m.next[n]] = m.prev[n]]]

ec_dlist_remove(m, n) ==
  ec_dlist_init([next |-> [m.next EXCEPT ![m.prev[n]] = m.next[n]],
                 prev |-> [m.prev EXCEPT ![m.next[n]] = m.prev[n]]], n)

ec_dlist_isempty(m, n) == m.next[n] = n

-----------------------------------------------------------------------------
(***************************************************************************)
(* Walks.                                                                  *)
(***************************************************************************)
\* A step of somebody else, which may come between the accesses of a clear.
ListRaces ==
  /\ ~list_raced
  /\ list_raced' = (list_clear \in {"first", "second"})

\* ec_dlist_for_each_entry_safe: the entry behind is read before the present one is handled.
ListBegin(walk, m) ==
  /\ list_walk' = walk
  /\ list_at' = m.next[ListHead]
  /\ list_next' = m.next[m.next[ListHead]]

\* Mutant: the entry that was read is skipped.
ListGoOnBeyond(m, n) == [at |-> m.next[n], next |-> m.next[m.next[n]]]

ListGoOn(m, n) == [at |-> n, next |-> m.next[n]]

ListEnd == list_walk' = "none" /\ UNCHANGED <<list_at, list_next>>

ListRemoved == [d \in DOMAIN list_ahead \ {list_at} |-> list_ahead[d] \ {list_at}]

\* ec_master_queue_ext_datagram begins to look for the datagram in the list.
ListSubmit(r) ==
  /\ ListRaces
  /\ list_walk = "none"
  /\ list_state[r] \in {"INIT", "DONE"}
  /\ ListBegin("queue", list_links)
  /\ list_for' = r
  /\ UNCHANGED <<list_links, list_state, list_ahead, list_timer, list_up, list_clear, list_read>>

\* The timer's handler queues the PDO datagram.
ListCycle ==
  /\ list_timer /\ list_walk = "none"
  /\ ListBegin("queue", list_links)
  /\ list_for' = ListPdo
  /\ UNCHANGED <<list_links, list_state, list_ahead, list_timer, list_up, listClearVars>>

ListLook ==
  /\ list_walk = "queue" /\ list_at \notin {ListHead, list_for}
  /\ list_at' = list_links.next[list_at]
  /\ UNCHANGED <<list_links, list_state, list_ahead, list_timer, list_walk, list_next, list_for,
                 list_up, listClearVars>>

\* The walk of ec_master_queue_datagram is over; the timer's handler goes on to send.
ListQueue ==
  /\ list_walk = "queue" /\ list_at \in {ListHead, list_for}
  /\ list_state' = [list_state EXCEPT ![list_for] = "QUEUED"]
  /\ IF list_at = ListHead
       THEN /\ list_links' = ec_dlist_add_tail(list_links, ListHead, list_for)
            /\ list_ahead' = [d \in DOMAIN list_ahead \cup {list_for} |->
                                IF d = list_for THEN DOMAIN list_ahead ELSE list_ahead[d]]
       ELSE UNCHANGED <<list_links, list_ahead>>
  /\ IF list_for = ListPdo THEN ListBegin("send", list_links') /\ list_up' \in BOOLEAN
                           ELSE ListEnd /\ UNCHANGED list_up
  /\ UNCHANGED <<list_timer, list_for, listClearVars>>

\* The nonperiod thread sends.
ListSend ==
  /\ ~list_timer /\ list_walk = "none"
  /\ list_clear = "none" /\ ~list_raced
  /\ ListBegin("send", list_links)
  /\ list_up' \in BOOLEAN
  /\ UNCHANGED <<list_links, list_state, list_ahead, list_timer, list_for, listClearVars>>

\* The walks of ec_master_send, taken together: a datagram that is late is given up, and a
\* link that is down fails them all; one that is queued is transmitted.
ListPass(late) ==
  LET gone == late \/ ~list_up
      on == ListGoOn(list_links', list_next)
  IN /\ list_walk = "send" /\ list_at # ListHead
     /\ late => list_state[list_at] = "SENT"
     /\ list_state' = [list_state EXCEPT ![list_at] = IF gone THEN "DONE" ELSE "SENT"]
     /\ IF gone THEN /\ list_links' = ec_dlist_remove(list_links, list_at)
                     /\ list_ahead' = ListRemoved
                ELSE UNCHANGED <<list_links, list_ahead>>
     /\ list_at' = on.at
     /\ list_next' = on.next
     /\ UNCHANGED <<list_timer, list_walk, list_for, list_up, listClearVars>>

\* The receive interrupt.
ListReceive ==
  /\ ListRaces
  /\ list_walk = "none"
  /\ ListBegin("receive", list_links)
  /\ UNCHANGED <<list_links, list_state, list_ahead, list_timer, list_for, list_up, list_clear,
                 list_read>>

ListPassBy ==
  /\ list_walk = "receive" /\ list_at # ListHead
  /\ list_at' = list_links.next[list_at]
  /\ UNCHANGED <<list_links, list_state, list_ahead, list_timer, list_walk, list_next, list_for,
                 list_up, listClearVars>>

\* The datagram that an answer belongs to; the frame may carry another answer.
ListMatch(another) ==
  /\ list_walk = "receive" /\ list_at # ListHead
  /\ list_state[list_at] = "SENT"
  /\ list_state' = [list_state EXCEPT ![list_at] = "DONE"]
  /\ list_links' = ec_dlist_remove(list_links, list_at)
  /\ list_ahead' = ListRemoved
  /\ IF another THEN ListBegin("receive", list_links') ELSE ListEnd
  /\ UNCHANGED <<list_timer, list_for, list_up, listClearVars>>

\* A walk is back at the head.
ListReturn ==
  /\ list_walk \in {"send", "receive"} /\ list_at = ListHead
  /\ ListEnd
  /\ UNCHANGED <<list_links, list_state, list_ahead, list_timer, list_for, list_up,
                 listClearVars>>

-----------------------------------------------------------------------------
(***************************************************************************)
(* Start and stop: ec_datagram_clear of the PDO datagram, access by        *)
(* access.  What has been read once may be read again or kept in a         *)
(* register.                                                               *)
(***************************************************************************)
\* ec_datagram_init_static and the timer, in ec_master_start.
ListStart ==
  /\ ~list_timer /\ list_walk = "none" /\ list_clear = "none" /\ ~list_raced
  /\ list_links' = ec_dlist_init(list_links, ListPdo)
  /\ list_state' = [list_state EXCEPT ![ListPdo] = "INIT"]
  /\ list_timer' = TRUE
  /\ UNCHANGED <<list_ahead, listWalkVars, listClearVars>>

ListStop ==
  /\ list_timer /\ list_walk = "none"
  /\ list_timer' = FALSE
  /\ list_clear' = "test"
  /\ UNCHANGED <<list_links, list_state, list_ahead, listWalkVars, list_read, list_raced>>

ListNow == [next |-> list_links.next[ListPdo], prev |-> list_links.prev[ListPdo]]

ListClearTest ==
  /\ list_clear = "test" /\ list_walk = "none"
  /\ list_read' = ListNow
  /\ list_clear' = IF ec_dlist_isempty(list_links, ListPdo) THEN "none" ELSE "first"
  /\ UNCHANGED <<list_links, list_state, list_ahead, list_timer, listWalkVars, list_raced>>

\* n->next->prev = n->prev
ListClearFirst ==
  /\ list_clear = "first" /\ list_walk = "none"
  /\ list_clear' = "second"
  /\ list_read' \in {list_read, ListNow}
  /\ list_links' = [list_links EXCEPT !.prev[list_read'.next] = list_read'.prev]
  /\ UNCHANGED <<list_state, list_ahead, list_timer, listWalkVars, list_raced>>

\* n->prev->next = n->next
ListClearSecond ==
  /\ list_clear = "second" /\ list_walk = "none"
  /\ list_clear' = "close"
  /\ list_read' \in {list_read, ListNow}
  /\ list_links' = [list_links EXCEPT !.next[list_read'.prev] = list_read'.next]
  /\ list_ahead' = [d \in DOMAIN list_ahead \ {ListPdo} |-> list_ahead[d] \ {ListPdo}]
  /\ UNCHANGED <<list_state, list_timer, listWalkVars, list_raced>>

\* n->next = n->prev = n, and the nonperiod thread is resumed.
ListClearClose ==
  /\ list_clear = "close" /\ list_walk = "none"
  /\ list_clear' = "none"
  /\ list_links' = ec_dlist_init(list_links, ListPdo)
  /\ UNCHANGED <<list_state, list_ahead, list_timer, listWalkVars, list_read, list_raced>>

ListNext ==
  \/ \E r \in ListRequesters : ListSubmit(r)
  \/ ListCycle \/ ListLook \/ ListQueue
  \/ ListSend \/ \E late \in BOOLEAN : ListPass(late)
  \/ ListReceive \/ ListPassBy \/ \E another \in BOOLEAN : ListMatch(another)
  \/ ListReturn
  \/ ListStart \/ ListStop
  \/ ListClearTest \/ ListClearFirst \/ ListClearSecond \/ ListClearClose

ListSpec == ListInit /\ [][ListNext]_listVars

-----------------------------------------------------------------------------
ListWaiting == {r \in ListRequesters : list_state[r] \in {"QUEUED", "SENT"}}

\* The datagrams up to a node, in the order q; none up to the head.
ListUpto(q, n) == IF n = ListHead THEN {} ELSE q[n] \cup {n}

\* The links m of the head and the datagrams of q spell the order q in both directions.
ListSpells(m, q) ==
  LET circle == DOMAIN q \cup {ListHead}
  IN \A n \in circle :
       /\ m.next[n] \in circle /\ m.prev[m.next[n]] = n
       /\ m.prev[n] \in circle /\ m.next[m.prev[n]] = n
       /\ ListUpto(q, n) = IF m.next[n] = ListHead THEN DOMAIN q ELSE q[m.next[n]]

\* As long as nothing has come between the accesses of a clear, the list in memory is the
\* list that DatagramQueue has: the links spell the datagrams that were put in and not taken
\* out, in that order and in both directions; they are those that threads wait for and
\* perhaps the PDO datagram; every datagram outside points to itself, which the clear and
\* the next unlinking rely on; and a walk is at one of them or back at the head
\* (ec_list.h:269-289, ec_master.c:12-37, ec_datagram.c:95).
ListSound ==
  ~list_raced /\ list_clear # "second" =>
    /\ ListSpells(list_links, list_ahead)
    /\ DOMAIN list_ahead \ {ListPdo} = ListWaiting
    /\ \A d \in ListDatagrams \ DOMAIN list_ahead :
         (list_clear = "close" /\ d = ListPdo) \/ ec_dlist_isempty(list_links, d)
    /\ list_walk # "none" => list_at \in DOMAIN list_ahead \cup {ListHead}

\* A send passes by no datagram, although it removes some on its way: when it is back at
\* the head, all that is left in the list has been transmitted (ec_master.c:262-293).
ListSendsAll ==
  list_walk = "send" /\ list_at = ListHead =>
    \A d \in DOMAIN list_ahead : list_state[d] = "SENT"

\* The datagrams that a walk from the head comes to: those in every set that holds the first
\* and the one behind each of its own.
ListListed(m) ==
  {d \in ListDatagrams :
     \A S \in SUBSET ListDatagrams :
       (\A n \in S \cup {ListHead} : m.next[n] # ListHead => m.next[n] \in S) => d \in S}

\* "Sent (still in the queue)" (ec_datagram.h:36): a datagram that a thread waits for is in
\* the list, where its answer, its timeout or a link failure finds it, whatever comes
\* between the accesses of a stop.
ListHoldsWaiting ==
  list_clear = "none" => ListWaiting \subseteq ListListed(list_links)
=============================================================================
