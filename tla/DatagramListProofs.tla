------------------------- MODULE DatagramListProofs -------------------------
(***************************************************************************)
(* Theorems about DatagramList: whatever walks go on, and wherever a stop  *)
(* is with unlinking the PDO datagram, the links spell the list as long as *)
(* no walk has come between the accesses of a stop; and a send passes by   *)
(* nothing.                                                                *)
(*                                                                         *)
(* The links are a circle whose nodes agree with the history variable      *)
(* list_ahead, which says nothing of links.  What a walk has behind it is  *)
(* then a set, the datagrams ahead of the one where it stands, and neither *)
(* a list nor an induction over one is needed.                             *)
(***************************************************************************)
EXTENDS DatagramList, TLAPS

ListLinks == [next : [ListNodes -> ListNodes], prev : [ListNodes -> ListNodes]]

ListOrders == UNION {[S -> SUBSET S] : S \in SUBSET ListDatagrams}

ListTypes ==
  /\ list_links \in ListLinks
  /\ list_state \in [ListDatagrams -> {"INIT", "QUEUED", "SENT", "DONE"}]
  /\ list_ahead \in ListOrders
  /\ list_timer \in BOOLEAN
  /\ list_walk \in {"none", "queue", "send", "receive"}
  /\ list_at \in ListNodes
  /\ list_next \in ListNodes
  /\ list_for \in ListDatagrams
  /\ list_up \in BOOLEAN
  /\ list_clear \in {"none", "test", "first", "second", "close"}
  /\ list_read \in [next : ListNodes, prev : ListNodes]
  /\ list_raced \in BOOLEAN

\* Who may be at work: the timer's handler not during a clear, and a send neither then nor
\* after a race.
ListPhases ==
  /\ list_timer => list_clear = "none" /\ ~list_raced
  /\ list_walk = "queue" /\ list_for = ListPdo => list_timer
  /\ list_walk = "send" => list_clear = "none" /\ ~list_raced

\* q says of no datagram that it is ahead of itself.
ListStrict(q) == \A d \in DOMAIN q : d \notin q[d]

\* The links as they were before the first write of a clear.
ListBefore == [list_links EXCEPT !.prev[list_links.next[ListPdo]] = ListPdo]

\* The links spell the list; half way through a clear, all but one pointer do.
ListShape ==
  /\ ListStrict(list_ahead)
  /\ list_clear # "second" => ListSpells(list_links, list_ahead)
  /\ list_clear = "second" =>
       /\ ListSpells(ListBefore, list_ahead)
       /\ list_links.prev[list_links.next[ListPdo]] = list_links.prev[ListPdo]
  /\ \A d \in ListDatagrams \ DOMAIN list_ahead :
       (list_clear = "close" /\ d = ListPdo) \/ list_links.next[d] = d

\* Where the PDO datagram is during a clear, and what the clear has read of it.
ListClearing ==
  /\ list_clear \in {"first", "second"} =>
       ListPdo \in DOMAIN list_ahead /\ list_read = ListNow /\ list_walk = "none"
  /\ list_clear = "close" => ListPdo \notin DOMAIN list_ahead
  /\ list_clear = "none" /\ ~list_timer => ListPdo \notin DOMAIN list_ahead

\* What is ahead of a node; of the head, everything.
ListPassed(q, n) == IF n = ListHead THEN DOMAIN q ELSE q[n]

\* A walk is on the circle; behind it, a queueing has not seen its datagram and a send has
\* left nothing that is not transmitted.
ListWalking ==
  /\ list_walk # "none" => list_at \in DOMAIN list_ahead \cup {ListHead}
  /\ list_walk = "queue" => list_for \notin ListPassed(list_ahead, list_at)
  /\ list_walk = "send" =>
       /\ \A d \in ListPassed(list_ahead, list_at) : list_state[d] = "SENT"
       /\ list_at # ListHead => list_next = list_links.next[list_at]

\* What holds until there is a race.
ListWhole ==
  /\ ListShape
  /\ ListClearing
  /\ ListWalking
  /\ DOMAIN list_ahead \ {ListPdo} = ListWaiting

ListInv == ListTypes /\ ListPhases /\ (~list_raced => ListWhole)
-----------------------------------------------------------------------------
(***************************************************************************)
(* The operators of ec_list.h, on links that spell an order.               *)
(***************************************************************************)
LEMMA Nodes ==
  /\ ListHead \in ListNodes /\ ListPdo \in ListDatagrams
  /\ ListDatagrams \subseteq ListNodes
  /\ ListHead \notin ListDatagrams /\ ListPdo \notin ListRequesters
BY ListAssumption DEF ListNodes, ListDatagrams, ListHead, ListPdo

LEMMA Orders ==
  ASSUME NEW q \in ListOrders
  PROVE  /\ DOMAIN q \subseteq ListDatagrams /\ ListHead \notin DOMAIN q
         /\ DOMAIN q \subseteq ListNodes
         /\ q \in [DOMAIN q -> SUBSET DOMAIN q]
<1>1. PICK S \in SUBSET ListDatagrams : q \in [S -> SUBSET S]
  BY DEF ListOrders
<1>2. DOMAIN q = S
  BY <1>1
<1> QED
  BY <1>1, <1>2, Nodes

LEMMA AnOrder ==
  ASSUME NEW S \in SUBSET ListDatagrams, NEW q \in [S -> SUBSET S]
  PROVE  q \in ListOrders
BY DEF ListOrders

\* What is ahead of the next node is what is up to this one.
LEMMA Steps ==
  ASSUME NEW q \in ListOrders, NEW m \in ListLinks, ListSpells(m, q),
         NEW n \in DOMAIN q \cup {ListHead}
  PROVE  /\ m.next[n] \in DOMAIN q \cup {ListHead}
         /\ ListPassed(q, m.next[n]) = ListUpto(q, n)
BY DEF ListSpells, ListPassed

\* Nothing but the nodes of the circle matters.
LEMMA Elsewhere ==
  ASSUME NEW q \in ListOrders, NEW m \in ListLinks, NEW k \in ListLinks, ListSpells(m, q),
         \A n \in DOMAIN q \cup {ListHead} : k.next[n] = m.next[n] /\ k.prev[n] = m.prev[n]
  PROVE  ListSpells(k, q)
BY DEF ListSpells

LEMMA Initialised ==
  ASSUME NEW q \in ListOrders, NEW m \in ListLinks, ListSpells(m, q),
         NEW l \in ListDatagrams, l \notin DOMAIN q
  PROVE  /\ ec_dlist_init(m, l) \in ListLinks
         /\ ListSpells(ec_dlist_init(m, l), q)
         /\ ec_dlist_init(m, l).next = [m.next EXCEPT ![l] = l]
<1> DEFINE k == ec_dlist_init(m, l)
<1>1. k \in ListLinks /\ k.next = [m.next EXCEPT ![l] = l] /\ k.prev = [m.prev EXCEPT ![l] = l]
  BY Nodes DEF ec_dlist_init, ListLinks
<1>2. \A n \in DOMAIN q \cup {ListHead} : k.next[n] = m.next[n] /\ k.prev[n] = m.prev[n]
  BY <1>1, Orders, Nodes DEF ListLinks
<1> QED
  BY <1>1, <1>2, Elsewhere

\* A datagram that is not in the list is put at its end.
LEMMA Added ==
  ASSUME NEW q \in ListOrders, ListStrict(q), NEW m \in ListLinks, ListSpells(m, q),
         NEW n \in ListDatagrams, n \notin DOMAIN q,
         NEW k, k = ec_dlist_add_tail(m, ListHead, n),
         NEW r, r = [d \in DOMAIN q \cup {n} |-> IF d = n THEN DOMAIN q ELSE q[d]]
  PROVE  /\ k \in ListLinks
         /\ r \in ListOrders /\ DOMAIN r = DOMAIN q \cup {n} /\ ListStrict(r)
         /\ ListSpells(k, r)
         /\ \A d \in ListDatagrams \ DOMAIN r : k.next[d] = m.next[d]
<1> DEFINE C == DOMAIN q \cup {ListHead}
           t == m.prev[ListHead]
<1>1. /\ m.next \in [ListNodes -> ListNodes] /\ m.prev \in [ListNodes -> ListNodes]
      /\ C \subseteq ListNodes /\ n \in ListNodes /\ n \notin C /\ ListHead \notin DOMAIN q
      /\ ListHead # n
  BY Orders, Nodes DEF ListLinks
<1>2. /\ t \in C /\ m.next[t] = ListHead /\ ListUpto(q, t) = DOMAIN q
      /\ \A y \in C : y # t => m.next[y] # ListHead
  BY DEF ListSpells
<1>3. k.next = [m.next EXCEPT ![t] = n, ![n] = ListHead]
      /\ k.prev = [m.prev EXCEPT ![n] = t, ![ListHead] = n]
  BY DEF ec_dlist_add_tail
<1>4. k \in ListLinks
  BY <1>1, <1>2, Nodes DEF ec_dlist_add_tail, ListLinks
<1>5. /\ k.next[t] = n /\ k.next[n] = ListHead /\ k.prev[n] = t /\ k.prev[ListHead] = n
      /\ \A y \in ListNodes : y # t /\ y # n => k.next[y] = m.next[y]
      /\ \A y \in ListNodes : y # ListHead /\ y # n => k.prev[y] = m.prev[y]
  BY <1>1, <1>2, <1>3
<1>6. /\ DOMAIN r = DOMAIN q \cup {n}
      /\ r[n] = DOMAIN q
      /\ \A d \in DOMAIN q : r[d] = q[d]
  BY <1>1
<1>7. r \in ListOrders
  <2>1. DOMAIN q \cup {n} \in SUBSET ListDatagrams
    BY Orders
  <2>2. r \in [DOMAIN q \cup {n} -> SUBSET (DOMAIN q \cup {n})]
    BY Orders
  <2> QED
    BY <2>1, <2>2, AnOrder
<1>8. ListStrict(r)
  BY <1>6 DEF ListStrict
<1>9. ASSUME NEW y \in C, y # t
      PROVE  /\ k.next[y] \in DOMAIN r \cup {ListHead} /\ k.prev[k.next[y]] = y
             /\ ListUpto(r, y) = IF k.next[y] = ListHead THEN DOMAIN r ELSE r[k.next[y]]
  <2>1. k.next[y] = m.next[y] /\ m.next[y] \in DOMAIN q
    BY <1>1, <1>2, <1>5, <1>9 DEF ListSpells
  <2>2. k.prev[m.next[y]] = m.prev[m.next[y]] /\ m.prev[m.next[y]] = y
    BY <2>1, <1>1, <1>5 DEF ListSpells
  <2>3. ListUpto(q, y) = q[m.next[y]]
    BY <2>1, <1>1 DEF ListSpells
  <2>4. ListUpto(r, y) = ListUpto(q, y)
    BY <1>6 DEF ListUpto
  <2> QED
    BY <2>1, <2>2, <2>3, <2>4, <1>1, <1>6
<1>10. /\ k.next[t] \in DOMAIN r \cup {ListHead} /\ k.prev[k.next[t]] = t
       /\ ListUpto(r, t) = IF k.next[t] = ListHead THEN DOMAIN r ELSE r[k.next[t]]
  BY <1>1, <1>2, <1>5, <1>6 DEF ListUpto
<1>11. /\ k.next[n] \in DOMAIN r \cup {ListHead} /\ k.prev[k.next[n]] = n
       /\ ListUpto(r, n) = IF k.next[n] = ListHead THEN DOMAIN r ELSE r[k.next[n]]
  BY <1>1, <1>5, <1>6 DEF ListUpto
<1>12. ASSUME NEW y \in DOMAIN r \cup {ListHead}
       PROVE  k.prev[y] \in DOMAIN r \cup {ListHead} /\ k.next[k.prev[y]] = y
  <2>1. CASE y = ListHead \/ y = n
    BY <2>1, <1>2, <1>5, <1>6
  <2>2. CASE y # ListHead /\ y # n
    <3>1. k.prev[y] = m.prev[y] /\ m.prev[y] \in C /\ m.next[m.prev[y]] = y
      BY <2>2, <1>1, <1>5, <1>6 DEF ListSpells
    <3>2. m.prev[y] # t
      BY <3>1, <2>2, <1>2
    <3> QED
      BY <3>1, <3>2, <1>1, <1>5, <1>6
  <2> QED
    BY <2>1, <2>2
<1>13. ListSpells(k, r)
  BY <1>6, <1>9, <1>10, <1>11, <1>12 DEF ListSpells
<1>14. \A d \in ListDatagrams \ DOMAIN r : k.next[d] = m.next[d]
  BY <1>2, <1>5, <1>6, Nodes
<1> QED
  BY <1>4, <1>6, <1>7, <1>8, <1>13, <1>14

\* A datagram of the list is taken out; what its own pointers show then does not matter.
LEMMA Unlinked ==
  ASSUME NEW q \in ListOrders, ListStrict(q), NEW m \in ListLinks, ListSpells(m, q),
         NEW n \in DOMAIN q,
         NEW k \in ListLinks,
         k.next = [m.next EXCEPT ![m.prev[n]] = m.next[n]],
         k.prev = [m.prev EXCEPT ![m.next[n]] = m.prev[n]],
         NEW r, r = [d \in DOMAIN q \ {n} |-> q[d] \ {n}]
  PROVE  /\ r \in ListOrders /\ DOMAIN r = DOMAIN q \ {n} /\ ListStrict(r)
         /\ ListSpells(k, r)
         /\ ListPassed(r, m.next[n]) = q[n]
         /\ m.next[n] \in DOMAIN r \cup {ListHead}
         /\ m.prev[n] \in DOMAIN r \cup {ListHead}
         /\ m.next[n] # n
<1> DEFINE C == DOMAIN q \cup {ListHead}
           p == m.prev[n]
           x == m.next[n]
<1>1. /\ m.next \in [ListNodes -> ListNodes] /\ m.prev \in [ListNodes -> ListNodes]
      /\ C \subseteq ListNodes /\ ListHead \notin DOMAIN q
      /\ \A d \in DOMAIN q : q[d] \subseteq DOMAIN q /\ d \notin q[d]
  BY Orders, Nodes DEF ListLinks, ListStrict
<1>2. /\ p \in C /\ m.next[p] = n /\ x \in C /\ m.prev[x] = n
      /\ ListUpto(q, p) = q[n]
      /\ ListUpto(q, n) = IF x = ListHead THEN DOMAIN q ELSE q[x]
      /\ \A y \in C : y # p => m.next[y] # n
      /\ \A y \in C : y # x => m.prev[y] # n
  BY <1>1 DEF ListSpells
<1>3. q[n] \cup {n} = IF x = ListHead THEN DOMAIN q ELSE q[x]
  BY <1>1, <1>2 DEF ListUpto
<1>4. x # n /\ p # n
  BY <1>1, <1>2, <1>3
<1>5. /\ k.next[p] = x /\ k.prev[x] = p
      /\ \A y \in ListNodes : y # p => k.next[y] = m.next[y]
      /\ \A y \in ListNodes : y # x => k.prev[y] = m.prev[y]
  BY <1>1, <1>2
<1>6. DOMAIN r = DOMAIN q \ {n} /\ \A d \in DOMAIN r : r[d] = q[d] \ {n}
  OBVIOUS
<1>7. r \in ListOrders
  <2>1. DOMAIN q \ {n} \in SUBSET ListDatagrams
    BY Orders
  <2>2. r \in [DOMAIN q \ {n} -> SUBSET (DOMAIN q \ {n})]
    BY Orders
  <2> QED
    BY <2>1, <2>2, AnOrder
<1>8. ListStrict(r)
  BY <1>1, <1>6 DEF ListStrict
<1>9. q[n] = IF x = ListHead THEN DOMAIN r ELSE r[x]
  BY <1>1, <1>2, <1>3, <1>4, <1>6
<1>10. ASSUME NEW y \in DOMAIN r \cup {ListHead}
       PROVE  ListUpto(r, y) = ListUpto(q, y) \ {n}
  BY <1>1, <1>6 DEF ListUpto
<1>11. ASSUME NEW y \in DOMAIN r \cup {ListHead}, y # p
       PROVE  /\ k.next[y] \in DOMAIN r \cup {ListHead} /\ k.prev[k.next[y]] = y
              /\ ListUpto(r, y) = IF k.next[y] = ListHead THEN DOMAIN r ELSE r[k.next[y]]
  <2>1. y \in C /\ y # n
    BY <1>1, <1>6
  <2>2. k.next[y] = m.next[y] /\ m.next[y] \in C /\ m.next[y] # n /\ m.prev[m.next[y]] = y
    BY <2>1, <1>1, <1>2, <1>5, <1>11 DEF ListSpells
  <2>3. m.next[y] # x
    BY <2>1, <2>2, <1>2
  <2>4. ListUpto(q, y) = IF m.next[y] = ListHead THEN DOMAIN q ELSE q[m.next[y]]
    BY <2>1 DEF ListSpells
  <2>5. k.prev[k.next[y]] = y
    BY <2>2, <2>3, <1>1, <1>5
  <2> QED
    BY <2>2, <2>4, <2>5, <1>6, <1>10
<1>12. /\ k.next[p] \in DOMAIN r \cup {ListHead} /\ k.prev[k.next[p]] = p
       /\ ListUpto(r, p) = IF k.next[p] = ListHead THEN DOMAIN r ELSE r[k.next[p]]
  <2>1. p \in DOMAIN r \cup {ListHead} /\ x \in DOMAIN r \cup {ListHead}
    BY <1>2, <1>4, <1>6
  <2>2. ListUpto(r, p) = q[n]
    <3>1. ListUpto(r, p) = ListUpto(q, p) \ {n}
      BY <2>1, <1>10, Zenon
    <3>2. n \notin q[n]
      BY <1>1
    <3> QED
      BY <3>1, <3>2, <1>2
  <2>3. k.next[p] = x /\ k.prev[x] = p
    BY <1>5
  <2>4. ListUpto(r, p) = IF x = ListHead THEN DOMAIN r ELSE r[x]
    BY <2>2, <1>9
  <2> HIDE DEF p, x
  <2> QED
    BY <2>1, <2>3, <2>4, Zenon
<1>13. ASSUME NEW y \in DOMAIN r \cup {ListHead}
       PROVE  k.prev[y] \in DOMAIN r \cup {ListHead} /\ k.next[k.prev[y]] = y
  <2>1. y \in C /\ y # n
    BY <1>1, <1>6
  <2>2. CASE y = x
    BY <2>2, <1>2, <1>4, <1>5, <1>6
  <2>3. CASE y # x
    <3>1. k.prev[y] = m.prev[y] /\ m.prev[y] \in C /\ m.prev[y] # n /\ m.next[m.prev[y]] = y
      BY <2>1, <2>3, <1>1, <1>2, <1>5 DEF ListSpells
    <3>2. m.prev[y] # p
      BY <3>1, <2>1, <1>2
    <3> QED
      BY <3>1, <3>2, <1>1, <1>5, <1>6
  <2> QED
    BY <2>2, <2>3
<1>14. ListSpells(k, r)
  BY <1>11, <1>12, <1>13 DEF ListSpells
<1>15. ListPassed(r, x) = q[n]
  BY <1>9 DEF ListPassed
<1>16. p \in DOMAIN r \cup {ListHead} /\ x \in DOMAIN r \cup {ListHead}
  BY <1>2, <1>4, <1>6
<1> QED
  BY <1>4, <1>6, <1>7, <1>8, <1>14, <1>15, <1>16

LEMMA Removed ==
  ASSUME NEW q \in ListOrders, ListStrict(q), NEW m \in ListLinks, ListSpells(m, q),
         NEW n \in DOMAIN q,
         NEW k, k = ec_dlist_remove(m, n),
         NEW r, r = [d \in DOMAIN q \ {n} |-> q[d] \ {n}]
  PROVE  /\ k \in ListLinks
         /\ r \in ListOrders /\ DOMAIN r = DOMAIN q \ {n} /\ ListStrict(r)
         /\ ListSpells(k, r)
         /\ ListPassed(r, m.next[n]) = q[n]
         /\ m.next[n] \in DOMAIN r \cup {ListHead}
         /\ k.next[n] = n
         /\ \A d \in ListDatagrams \ DOMAIN q : k.next[d] = m.next[d]
<1> DEFINE o == [next |-> [m.next EXCEPT ![m.prev[n]] = m.next[n]],
                 prev |-> [m.prev EXCEPT ![m.next[n]] = m.prev[n]]]
<1>1. /\ m.next \in [ListNodes -> ListNodes] /\ m.prev \in [ListNodes -> ListNodes]
      /\ n \in ListDatagrams /\ n \in ListNodes
      /\ m.prev[n] \in DOMAIN q \cup {ListHead}
  BY Orders, Nodes DEF ListLinks, ListSpells
<1>2. o \in ListLinks
  BY <1>1 DEF ListLinks
<1>3. k = ec_dlist_init(o, n)
  BY DEF ec_dlist_remove
<1>4. /\ r \in ListOrders /\ DOMAIN r = DOMAIN q \ {n} /\ ListStrict(r)
      /\ ListSpells(o, r)
      /\ ListPassed(r, m.next[n]) = q[n]
      /\ m.next[n] \in DOMAIN r \cup {ListHead}
  <2>1. /\ o.next = [m.next EXCEPT ![m.prev[n]] = m.next[n]]
        /\ o.prev = [m.prev EXCEPT ![m.next[n]] = m.prev[n]]
    OBVIOUS
  <2> HIDE DEF o
  <2> QED
    BY <1>2, <2>1, Unlinked
<1>5. k \in ListLinks /\ ListSpells(k, r) /\ k.next = [o.next EXCEPT ![n] = n]
  BY <1>1, <1>2, <1>3, <1>4, Initialised
<1>6. k.next[n] = n
  BY <1>1, <1>5
<1>7. ASSUME NEW d \in ListDatagrams \ DOMAIN q
      PROVE  k.next[d] = m.next[d]
  BY <1>1, <1>5, Nodes
<1> QED
  BY <1>4, <1>5, <1>6, <1>7

-----------------------------------------------------------------------------
(***************************************************************************)
(* Types and phases, which hold after a race too.                          *)
(***************************************************************************)
LEMMA LinksTyped ==
  ASSUME NEW m \in ListLinks, NEW l \in ListNodes, NEW n \in ListNodes
  PROVE  /\ ec_dlist_init(m, l) \in ListLinks
         /\ ec_dlist_add_tail(m, l, n) \in ListLinks
         /\ ec_dlist_remove(m, n) \in ListLinks
         /\ m.next[n] \in ListNodes /\ m.prev[n] \in ListNodes
BY DEF ListLinks, ec_dlist_init, ec_dlist_add_tail, ec_dlist_remove

LEMMA OrdersTyped ==
  ASSUME NEW q \in ListOrders, NEW n \in ListDatagrams
  PROVE  /\ [d \in DOMAIN q \cup {n} |-> IF d = n THEN DOMAIN q ELSE q[d]] \in ListOrders
         /\ [d \in DOMAIN q \ {n} |-> q[d] \ {n}] \in ListOrders
<1>1. DOMAIN q \subseteq ListDatagrams /\ q \in [DOMAIN q -> SUBSET DOMAIN q]
  BY Orders
<1>2. [d \in DOMAIN q \cup {n} |-> IF d = n THEN DOMAIN q ELSE q[d]]
        \in [DOMAIN q \cup {n} -> SUBSET (DOMAIN q \cup {n})]
  BY <1>1
<1>3. [d \in DOMAIN q \ {n} |-> q[d] \ {n}] \in [DOMAIN q \ {n} -> SUBSET (DOMAIN q \ {n})]
  BY <1>1
<1>4. DOMAIN q \cup {n} \in SUBSET ListDatagrams /\ DOMAIN q \ {n} \in SUBSET ListDatagrams
  BY <1>1
<1> QED
  BY <1>2, <1>3, <1>4, AnOrder

\* A walk that begins, or goes on, is at a node.
LEMMA BeginTyped ==
  ASSUME NEW walk \in {"queue", "send", "receive"}, NEW m \in ListLinks, ListBegin(walk, m)
  PROVE  list_walk' = walk /\ list_at' \in ListNodes /\ list_next' \in ListNodes
BY LinksTyped, Nodes DEF ListBegin

LEMMA WalksTyped ==
  ASSUME ListTypes,
         \/ \E r \in ListRequesters : ListSubmit(r)
         \/ ListCycle \/ ListLook \/ ListSend \/ ListReceive \/ ListPassBy \/ ListReturn
  PROVE  ListTypes'
<1> USE DEF ListTypes
<1>1. CASE \E r \in ListRequesters : ListSubmit(r)
  <2>1. PICK r \in ListRequesters : ListSubmit(r)
    BY <1>1
  <2>2. r \in ListDatagrams
    BY DEF ListDatagrams
  <2> QED
    BY <2>1, <2>2, BeginTyped DEF ListSubmit, ListRaces
<1>2. CASE ListCycle
  BY <1>2, BeginTyped, Nodes DEF ListCycle, listClearVars
<1>3. CASE ListLook
  BY <1>3, LinksTyped DEF ListLook, listClearVars
<1>4. CASE ListSend
  BY <1>4, BeginTyped DEF ListSend, listClearVars
<1>5. CASE ListReceive
  BY <1>5, BeginTyped DEF ListReceive, ListRaces
<1>6. CASE ListPassBy
  BY <1>6, LinksTyped DEF ListPassBy, listClearVars
<1>7. CASE ListReturn
  BY <1>7 DEF ListReturn, ListEnd, listClearVars
<1> QED
  BY <1>1, <1>2, <1>3, <1>4, <1>5, <1>6, <1>7

LEMMA QueueTyped ==
  ASSUME ListTypes, ListQueue
  PROVE  ListTypes'
<1> USE DEF ListTypes
<1>1. list_for \in ListDatagrams /\ list_for \in ListNodes /\ ListHead \in ListNodes
  BY Nodes
<1>2. list_links' \in ListLinks /\ list_ahead' \in ListOrders
  <2>1. [d \in DOMAIN list_ahead \cup {list_for} |->
           IF d = list_for THEN DOMAIN list_ahead ELSE list_ahead[d]] \in ListOrders
    BY <1>1, OrdersTyped
  <2>2. ec_dlist_add_tail(list_links, ListHead, list_for) \in ListLinks
    BY <1>1, LinksTyped
  <2> QED
    BY <2>1, <2>2 DEF ListQueue
<1>3. list_state' \in [ListDatagrams -> {"INIT", "QUEUED", "SENT", "DONE"}]
  BY DEF ListQueue
<1>4. /\ list_walk' \in {"none", "queue", "send", "receive"}
      /\ list_at' \in ListNodes /\ list_next' \in ListNodes /\ list_up' \in BOOLEAN
  <2>1. CASE list_for = ListPdo
    <3>1. ListBegin("send", list_links') /\ list_up' \in BOOLEAN
      BY <2>1 DEF ListQueue
    <3> QED
      BY <3>1, <1>2, BeginTyped
  <2>2. CASE list_for # ListPdo
    BY <2>2 DEF ListQueue, ListEnd
  <2> QED
    BY <2>1, <2>2
<1> QED
  BY <1>2, <1>3, <1>4 DEF ListQueue, listClearVars

LEMMA PassTyped ==
  ASSUME ListTypes, NEW late \in BOOLEAN, ListPass(late)
  PROVE  ListTypes'
<1> USE DEF ListTypes
<1>1. list_at \in ListDatagrams
  BY DEF ListPass, ListNodes
<1>2. list_links' \in ListLinks /\ list_ahead' \in ListOrders
  <2>1. ListRemoved \in ListOrders
    BY <1>1, OrdersTyped DEF ListRemoved
  <2>2. ec_dlist_remove(list_links, list_at) \in ListLinks
    BY LinksTyped
  <2> QED
    BY <2>1, <2>2 DEF ListPass
<1>3. list_at' \in ListNodes /\ list_next' \in ListNodes
  BY <1>2, LinksTyped DEF ListPass, ListGoOn
<1>4. list_state' \in [ListDatagrams -> {"INIT", "QUEUED", "SENT", "DONE"}]
  BY DEF ListPass
<1> QED
  BY <1>2, <1>3, <1>4 DEF ListPass, listClearVars

LEMMA MatchTyped ==
  ASSUME ListTypes, NEW another \in BOOLEAN, ListMatch(another)
  PROVE  ListTypes'
<1> USE DEF ListTypes
<1>1. list_at \in ListDatagrams
  BY DEF ListMatch, ListNodes
<1>2. list_links' \in ListLinks /\ list_ahead' \in ListOrders
  <2>1. ListRemoved \in ListOrders
    BY <1>1, OrdersTyped DEF ListRemoved
  <2>2. ec_dlist_remove(list_links, list_at) \in ListLinks
    BY LinksTyped
  <2> QED
    BY <2>1, <2>2 DEF ListMatch
<1>3. /\ list_walk' \in {"none", "queue", "send", "receive"}
      /\ list_at' \in ListNodes /\ list_next' \in ListNodes
  BY <1>2, BeginTyped DEF ListMatch, ListEnd
<1>4. list_state' \in [ListDatagrams -> {"INIT", "QUEUED", "SENT", "DONE"}]
  BY DEF ListMatch
<1> QED
  BY <1>2, <1>3, <1>4 DEF ListMatch, listClearVars

LEMMA ClearTyped ==
  ASSUME ListTypes,
         ListStart \/ ListStop \/ ListClearTest \/ ListClearFirst \/ ListClearSecond
           \/ ListClearClose
  PROVE  ListTypes'
<1> USE DEF ListTypes
<1>1. ListPdo \in ListDatagrams /\ ListPdo \in ListNodes
  BY Nodes
<1>2. ListNow \in [next : ListNodes, prev : ListNodes]
  BY <1>1, LinksTyped DEF ListNow
<1>3. CASE ListStart
  BY <1>1, <1>3, LinksTyped DEF ListStart, listWalkVars, listClearVars
<1>4. CASE ListStop
  BY <1>4 DEF ListStop, listWalkVars
<1>5. CASE ListClearTest
  BY <1>2, <1>5 DEF ListClearTest, listWalkVars
<1>6. CASE ListClearFirst
  <2>1. PICK read \in [next : ListNodes, prev : ListNodes] :
          /\ list_read' = read
          /\ list_links' = [list_links EXCEPT !.prev[read.next] = read.prev]
    BY <1>2, <1>6 DEF ListClearFirst
  <2>2. list_links' \in ListLinks
    BY <2>1 DEF ListLinks
  <2> QED
    BY <1>6, <2>1, <2>2 DEF ListClearFirst, listWalkVars
<1>7. CASE ListClearSecond
  <2>1. PICK read \in [next : ListNodes, prev : ListNodes] :
          /\ list_read' = read
          /\ list_links' = [list_links EXCEPT !.next[read.prev] = read.next]
    BY <1>2, <1>7 DEF ListClearSecond
  <2>2. list_links' \in ListLinks
    BY <2>1 DEF ListLinks
  <2>3. list_ahead' \in ListOrders
    BY <1>1, <1>7, OrdersTyped DEF ListClearSecond
  <2> QED
    BY <1>7, <2>1, <2>2, <2>3 DEF ListClearSecond, listWalkVars
<1>8. CASE ListClearClose
  BY <1>1, <1>8, LinksTyped DEF ListClearClose, listWalkVars
<1> QED
  BY <1>3, <1>4, <1>5, <1>6, <1>7, <1>8

LEMMA TypesStep == ListTypes /\ [ListNext]_listVars => ListTypes'
<1> SUFFICES ASSUME ListTypes, [ListNext]_listVars PROVE ListTypes'
  OBVIOUS
<1>1. CASE UNCHANGED listVars
  BY <1>1 DEF listVars, listWalkVars, listClearVars, ListTypes
<1>2. CASE ListNext
  BY <1>2, WalksTyped, QueueTyped, PassTyped, MatchTyped, ClearTyped DEF ListNext
<1> QED
  BY <1>1, <1>2

LEMMA PhasesStep == ListTypes /\ ListPhases /\ [ListNext]_listVars => ListPhases'
<1> SUFFICES ASSUME ListTypes, ListPhases, [ListNext]_listVars PROVE ListPhases'
  OBVIOUS
<1> USE DEF ListTypes, ListPhases
<1>1. CASE \E r \in ListRequesters : ListSubmit(r)
  BY <1>1, Nodes DEF ListSubmit, ListRaces, ListBegin
<1>2. CASE ListCycle
  BY <1>2 DEF ListCycle, ListBegin, listClearVars
<1>3. CASE ListLook \/ ListPassBy \/ ListReturn
  BY <1>3 DEF ListLook, ListPassBy, ListReturn, ListEnd, listClearVars
<1>4. CASE ListQueue
  BY <1>4 DEF ListQueue, ListBegin, ListEnd, listClearVars
<1>5. CASE ListSend
  BY <1>5 DEF ListSend, ListBegin, listClearVars
<1>6. CASE \E late \in BOOLEAN : ListPass(late)
  BY <1>6 DEF ListPass, listClearVars
<1>7. CASE ListReceive
  BY <1>7 DEF ListReceive, ListRaces, ListBegin
<1>8. CASE \E another \in BOOLEAN : ListMatch(another)
  BY <1>8 DEF ListMatch, ListBegin, ListEnd, listClearVars
<1>9. CASE ListStart \/ ListStop
  BY <1>9 DEF ListStart, ListStop, listWalkVars, listClearVars
<1>10. CASE ListClearTest \/ ListClearFirst \/ ListClearSecond \/ ListClearClose
  BY <1>10 DEF ListClearTest, ListClearFirst, ListClearSecond, ListClearClose, listWalkVars
<1>11. CASE UNCHANGED listVars
  BY <1>11 DEF listVars, listWalkVars, listClearVars
<1> QED
  BY <1>1, <1>2, <1>3, <1>4, <1>5, <1>6, <1>7, <1>8, <1>9, <1>10, <1>11 DEF ListNext

-----------------------------------------------------------------------------
(***************************************************************************)
(* The list, step by step, as long as there is no race.                    *)
(***************************************************************************)
LEMMA Begins ==
  ASSUME NEW q \in ListOrders, NEW m \in ListLinks, ListSpells(m, q),
         NEW walk, ListBegin(walk, m)
  PROVE  /\ list_walk' = walk
         /\ list_at' \in DOMAIN q \cup {ListHead}
         /\ ListPassed(q, list_at') = {}
         /\ list_next' = m.next[list_at']
<1>1. list_at' = m.next[ListHead] /\ list_walk' = walk /\ list_next' = m.next[m.next[ListHead]]
  BY DEF ListBegin
<1>2. ListUpto(q, ListHead) = {}
  BY DEF ListUpto
<1>3. /\ m.next[ListHead] \in DOMAIN q \cup {ListHead}
      /\ ListPassed(q, m.next[ListHead]) = {}
  BY <1>2, Steps
<1> QED
  BY <1>1, <1>3

\* A walk that is under way finds a circle.
LEMMA OnCircle ==
  ASSUME ListTypes, ListWhole, list_walk # "none"
  PROVE  /\ ListSpells(list_links, list_ahead)
         /\ list_clear \notin {"first", "second"}
         /\ list_at \in DOMAIN list_ahead \cup {ListHead}
BY DEF ListWhole, ListShape, ListClearing, ListWalking

\* A walk begins, on a list that nobody is unlinking from.
LEMMA BeginsWhole ==
  ASSUME ListTypes, ListWhole, list_clear \notin {"first", "second"},
         NEW walk \in {"queue", "send", "receive"}, ListBegin(walk, list_links),
         UNCHANGED <<list_links, list_state, list_ahead, list_timer, list_clear, list_read>>
  PROVE  ListWhole'
<1> USE DEF ListWhole
<1>1. list_links \in ListLinks /\ list_ahead \in ListOrders
  BY DEF ListTypes
<1>2. ListSpells(list_links, list_ahead)
  BY DEF ListShape
<1>3. /\ list_walk' = walk /\ list_at' \in DOMAIN list_ahead \cup {ListHead}
      /\ ListPassed(list_ahead, list_at') = {} /\ list_next' = list_links.next[list_at']
  BY <1>1, <1>2, Begins
<1>4. ListShape'
  BY DEF ListShape, ListBefore
<1>5. ListClearing'
  BY DEF ListClearing, ListNow
<1>6. ListWalking'
  BY <1>3 DEF ListWalking
<1> QED
  BY <1>4, <1>5, <1>6 DEF ListWaiting

LEMMA WalkBegins ==
  ASSUME ListInv, ~list_raced, ~list_raced',
         (\E r \in ListRequesters : ListSubmit(r)) \/ ListCycle \/ ListSend \/ ListReceive
  PROVE  ListWhole'
<1> USE DEF ListInv
<1>1. CASE \E r \in ListRequesters : ListSubmit(r)
  BY <1>1, BeginsWhole DEF ListSubmit, ListRaces
<1>2. CASE ListCycle
  BY <1>2, BeginsWhole DEF ListCycle, ListPhases, listClearVars
<1>3. CASE ListSend
  BY <1>3, BeginsWhole DEF ListSend, listClearVars
<1>4. CASE ListReceive
  BY <1>4, BeginsWhole DEF ListReceive, ListRaces
<1> QED
  BY <1>1, <1>2, <1>3, <1>4

\* A walk goes on to the next entry, or ends.
LEMMA WalkGoes ==
  ASSUME ListInv, ~list_raced, ListLook \/ ListPassBy \/ ListReturn
  PROVE  ListWhole'
<1> USE DEF ListInv, ListWhole
<1>1. /\ UNCHANGED <<list_links, list_state, list_ahead, list_timer, list_clear, list_read>>
      /\ list_walk # "none" /\ list_walk' \in {list_walk, "none"}
  BY DEF ListLook, ListPassBy, ListReturn, ListEnd, listClearVars
<1>2. /\ ListSpells(list_links, list_ahead) /\ list_clear \notin {"first", "second"}
      /\ list_at \in DOMAIN list_ahead \cup {ListHead}
  BY <1>1, OnCircle
<1>3. /\ list_links.next[list_at] \in DOMAIN list_ahead \cup {ListHead}
      /\ ListPassed(list_ahead, list_links.next[list_at]) = ListUpto(list_ahead, list_at)
  BY <1>2, Steps DEF ListTypes
<1>4. ListShape'
  BY <1>1 DEF ListShape, ListBefore
<1>5. ListClearing'
  BY <1>1, <1>2 DEF ListClearing
<1>6. ListWalking'
  <2>1. CASE ListLook
    <3>1. /\ list_walk = "queue" /\ list_walk' = "queue" /\ list_for' = list_for
          /\ list_at # ListHead /\ list_at # list_for
          /\ list_at' = list_links.next[list_at]
      BY <2>1 DEF ListLook
    <3>2. list_for \notin ListUpto(list_ahead, list_at)
      BY <3>1 DEF ListWalking, ListPassed, ListUpto
    <3> QED
      BY <1>1, <1>3, <3>1, <3>2 DEF ListWalking
  <2>2. CASE ListPassBy
    BY <2>2, <1>1, <1>3 DEF ListPassBy, ListWalking
  <2>3. CASE ListReturn
    BY <2>3 DEF ListReturn, ListEnd, ListWalking
  <2> QED
    BY <2>1, <2>2, <2>3
<1> QED
  BY <1>1, <1>4, <1>5, <1>6 DEF ListWaiting

LEMMA WalkQueues ==
  ASSUME ListInv, ~list_raced, ListQueue
  PROVE  ListWhole'
<1> USE DEF ListInv, ListWhole
<1>1. /\ list_walk = "queue" /\ list_at \in {ListHead, list_for}
      /\ list_state' = [list_state EXCEPT ![list_for] = "QUEUED"]
      /\ UNCHANGED <<list_timer, list_for, list_clear, list_read, list_raced>>
  BY DEF ListQueue, listClearVars
<1>2. /\ ListSpells(list_links, list_ahead) /\ list_clear \notin {"first", "second"}
      /\ list_at \in DOMAIN list_ahead \cup {ListHead}
  BY <1>1, OnCircle
<1>3. list_for \in ListDatagrams /\ ListHead # list_for
  BY Nodes DEF ListTypes
<1>4. /\ list_links' \in ListLinks /\ list_ahead' \in ListOrders
      /\ DOMAIN list_ahead' = DOMAIN list_ahead \cup {list_for}
      /\ ListStrict(list_ahead') /\ ListSpells(list_links', list_ahead')
      /\ \A d \in ListDatagrams \ DOMAIN list_ahead' : list_links'.next[d] = list_links.next[d]
  <2>1. CASE list_at = ListHead
    <3>1. list_for \notin DOMAIN list_ahead
      BY <2>1, <1>1 DEF ListWalking, ListPassed
    <3>2. /\ list_links' = ec_dlist_add_tail(list_links, ListHead, list_for)
          /\ list_ahead' = [d \in DOMAIN list_ahead \cup {list_for} |->
                              IF d = list_for THEN DOMAIN list_ahead ELSE list_ahead[d]]
      BY <2>1 DEF ListQueue
    <3>3. list_links \in ListLinks /\ list_ahead \in ListOrders /\ ListStrict(list_ahead)
      BY DEF ListTypes, ListShape
    <3> QED
      BY <3>1, <3>2, <3>3, <1>2, <1>3, Added
  <2>2. CASE list_at # ListHead
    <3>1. UNCHANGED <<list_links, list_ahead>> /\ list_for \in DOMAIN list_ahead
      BY <2>2, <1>1, <1>2 DEF ListQueue
    <3> QED
      BY <3>1, <1>2 DEF ListTypes, ListShape
  <2> QED
    BY <2>1, <2>2
<1>5. list_for = ListPdo => list_timer
  BY <1>1 DEF ListPhases
<1>6. ListShape'
  <2>1. \A d \in ListDatagrams \ DOMAIN list_ahead' :
          (list_clear = "close" /\ d = ListPdo) \/ list_links'.next[d] = d
    BY <1>4 DEF ListShape
  <2> QED
    BY <2>1, <1>1, <1>2, <1>4 DEF ListShape
<1>7. ListClearing'
  BY <1>1, <1>2, <1>4, <1>5 DEF ListClearing, ListPhases
<1>8. ListWalking'
  <2>1. CASE list_for = ListPdo
    <3>1. ListBegin("send", list_links')
      BY <2>1 DEF ListQueue
    <3> QED
      BY <3>1, <1>4, Begins DEF ListWalking
  <2>2. CASE list_for # ListPdo
    BY <2>2 DEF ListQueue, ListEnd, ListWalking
  <2> QED
    BY <2>1, <2>2
<1>9. (DOMAIN list_ahead \ {ListPdo} = ListWaiting)'
  BY <1>1, <1>3, <1>4, Nodes DEF ListWaiting, ListTypes, ListDatagrams
<1> QED
  BY <1>6, <1>7, <1>8, <1>9

\* The datagram where a walk stands is taken out.
LEMMA TakenOut ==
  ASSUME ListInv, ~list_raced, list_walk # "none", list_at # ListHead,
         list_links' = ec_dlist_remove(list_links, list_at), list_ahead' = ListRemoved,
         list_state' = [list_state EXCEPT ![list_at] = "DONE"],
         UNCHANGED <<list_timer, list_clear, list_read>>
  PROVE  /\ list_links' \in ListLinks /\ list_ahead' \in ListOrders
         /\ ListSpells(list_links', list_ahead')
         /\ ListPassed(list_ahead', list_links.next[list_at]) = list_ahead[list_at]
         /\ list_links.next[list_at] \in DOMAIN list_ahead' \cup {ListHead}
         /\ ListShape' /\ ListClearing'
         /\ DOMAIN list_ahead' \ {ListPdo} = ListWaiting'
<1> USE DEF ListInv, ListWhole
<1>1. /\ ListSpells(list_links, list_ahead) /\ list_clear \notin {"first", "second"}
      /\ list_at \in DOMAIN list_ahead /\ list_at \in ListDatagrams
  BY OnCircle, Orders DEF ListTypes
<1>2. /\ list_links \in ListLinks /\ list_ahead \in ListOrders /\ ListStrict(list_ahead)
  BY DEF ListTypes, ListShape
<1>3. list_ahead' = [d \in DOMAIN list_ahead \ {list_at} |-> list_ahead[d] \ {list_at}]
  BY DEF ListRemoved
<1>4. /\ list_links' \in ListLinks /\ list_ahead' \in ListOrders
      /\ DOMAIN list_ahead' = DOMAIN list_ahead \ {list_at}
      /\ ListStrict(list_ahead') /\ ListSpells(list_links', list_ahead')
      /\ ListPassed(list_ahead', list_links.next[list_at]) = list_ahead[list_at]
      /\ list_links.next[list_at] \in DOMAIN list_ahead' \cup {ListHead}
      /\ list_links'.next[list_at] = list_at
      /\ \A d \in ListDatagrams \ DOMAIN list_ahead : list_links'.next[d] = list_links.next[d]
  BY <1>1, <1>2, <1>3, Removed
<1>5. ListShape'
  <2>1. \A d \in ListDatagrams \ DOMAIN list_ahead' :
          (list_clear = "close" /\ d = ListPdo) \/ list_links'.next[d] = d
    BY <1>4 DEF ListShape
  <2> QED
    BY <2>1, <1>1, <1>4 DEF ListShape
<1>6. ListClearing'
  BY <1>1, <1>4 DEF ListClearing
<1>7. DOMAIN list_ahead' \ {ListPdo} = ListWaiting'
  <2>1. ListWaiting' = ListWaiting \ {list_at}
    BY <1>1 DEF ListWaiting, ListTypes, ListDatagrams
  <2> QED
    BY <2>1, <1>4
<1> QED
  BY <1>4, <1>5, <1>6, <1>7

LEMMA SendPasses ==
  ASSUME ListInv, ~list_raced, NEW late \in BOOLEAN, ListPass(late)
  PROVE  ListWhole'
<1> USE DEF ListInv, ListWhole
<1> DEFINE n == list_links.next[list_at]
<1>1. /\ list_walk = "send" /\ list_walk' = "send" /\ list_at # ListHead
      /\ list_at' = list_next /\ list_next' = list_links'.next[list_next]
      /\ UNCHANGED <<list_timer, list_for, list_clear, list_read>>
  BY DEF ListPass, ListGoOn, listClearVars
<1>2. /\ ListSpells(list_links, list_ahead) /\ list_clear \notin {"first", "second"}
      /\ list_at \in DOMAIN list_ahead /\ list_at \in ListDatagrams
  BY <1>1, OnCircle, Orders DEF ListTypes
<1>3. list_next = n /\ \A d \in list_ahead[list_at] : list_state[d] = "SENT"
  BY <1>1 DEF ListWalking, ListPassed
<1>4. list_at \notin list_ahead[list_at] /\ list_ahead[list_at] \subseteq ListDatagrams
  BY <1>2, Orders DEF ListShape, ListStrict, ListTypes
<1>5. CASE late \/ ~list_up
  <2>1. /\ list_links' = ec_dlist_remove(list_links, list_at) /\ list_ahead' = ListRemoved
        /\ list_state' = [list_state EXCEPT ![list_at] = "DONE"]
    BY <1>5 DEF ListPass
  <2>2. /\ ListPassed(list_ahead', n) = list_ahead[list_at]
        /\ n \in DOMAIN list_ahead' \cup {ListHead}
        /\ ListShape' /\ ListClearing'
        /\ DOMAIN list_ahead' \ {ListPdo} = ListWaiting'
    BY <1>1, <2>1, TakenOut
  <2>3. \A d \in list_ahead[list_at] : list_state'[d] = "SENT"
    BY <1>3, <1>4, <2>1 DEF ListTypes
  <2>4. ListWalking'
    BY <1>1, <1>3, <2>2, <2>3 DEF ListWalking
  <2> QED
    BY <2>2, <2>4
<1>6. CASE ~(late \/ ~list_up)
  <2>1. /\ UNCHANGED <<list_links, list_ahead>>
        /\ list_state' = [list_state EXCEPT ![list_at] = "SENT"]
    BY <1>6 DEF ListPass
  <2>2. /\ n \in DOMAIN list_ahead \cup {ListHead}
        /\ ListPassed(list_ahead, n) = list_ahead[list_at] \cup {list_at}
    BY <1>1, <1>2, Steps DEF ListTypes, ListUpto
  <2>3. \A d \in list_ahead[list_at] \cup {list_at} : list_state'[d] = "SENT"
    BY <1>2, <1>3, <1>4, <2>1 DEF ListTypes
  <2>4. ListWalking'
    BY <1>1, <1>3, <2>1, <2>2, <2>3 DEF ListWalking
  <2>5. ListShape' /\ ListClearing'
    BY <1>1, <1>2, <2>1 DEF ListShape, ListClearing
  <2>6. DOMAIN list_ahead' \ {ListPdo} = ListWaiting'
    <3>1. list_at = ListPdo \/ list_at \in ListWaiting
      BY <1>2
    <3>2. ListWaiting' = ListWaiting
      BY <1>2, <2>1, <3>1, Nodes DEF ListWaiting, ListTypes, ListDatagrams
    <3> QED
      BY <3>2, <2>1
  <2> QED
    BY <2>4, <2>5, <2>6
<1> QED
  BY <1>5, <1>6

LEMMA AnswerMatches ==
  ASSUME ListInv, ~list_raced, NEW another \in BOOLEAN, ListMatch(another)
  PROVE  ListWhole'
<1> USE DEF ListInv, ListWhole
<1>1. /\ list_walk = "receive" /\ list_at # ListHead
      /\ list_links' = ec_dlist_remove(list_links, list_at) /\ list_ahead' = ListRemoved
      /\ list_state' = [list_state EXCEPT ![list_at] = "DONE"]
      /\ UNCHANGED <<list_timer, list_for, list_clear, list_read>>
  BY DEF ListMatch, listClearVars
<1>2. /\ list_links' \in ListLinks /\ list_ahead' \in ListOrders
      /\ ListSpells(list_links', list_ahead')
      /\ ListShape' /\ ListClearing'
      /\ DOMAIN list_ahead' \ {ListPdo} = ListWaiting'
  BY <1>1, TakenOut
<1>3. ListWalking'
  <2>1. CASE another
    <3>1. ListBegin("receive", list_links')
      BY <2>1 DEF ListMatch
    <3>2. list_walk' = "receive" /\ list_at' \in DOMAIN list_ahead' \cup {ListHead}
      BY <3>1, <1>2, Begins
    <3> QED
      BY <3>2 DEF ListWalking
  <2>2. CASE ~another
    BY <2>2 DEF ListMatch, ListEnd, ListWalking
  <2> QED
    BY <2>1, <2>2
<1> QED
  BY <1>2, <1>3

\* A start finds the PDO datagram outside, and a stop leaves it where it is.
LEMMA StartsAndStops ==
  ASSUME ListInv, ~list_raced, ListStart \/ ListStop
  PROVE  ListWhole'
<1> USE DEF ListInv, ListWhole
<1>1. CASE ListStart
  <2>1. /\ list_clear = "none" /\ ~list_timer /\ list_walk = "none"
        /\ list_links' = ec_dlist_init(list_links, ListPdo)
        /\ list_state' = [list_state EXCEPT ![ListPdo] = "INIT"]
        /\ UNCHANGED <<list_ahead, list_walk, list_clear, list_read>>
        /\ ListPdo \notin DOMAIN list_ahead
    BY <1>1 DEF ListStart, listWalkVars, listClearVars, ListClearing
  <2>2. /\ ListSpells(list_links', list_ahead)
        /\ list_links'.next = [list_links.next EXCEPT ![ListPdo] = ListPdo]
    BY <2>1, Initialised, Nodes DEF ListTypes, ListShape
  <2>3. \A d \in ListDatagrams \ DOMAIN list_ahead : list_links'.next[d] = d
    BY <2>1, <2>2, Nodes DEF ListTypes, ListLinks, ListShape
  <2>4. ListShape'
    BY <2>1, <2>2, <2>3 DEF ListShape
  <2>5. ListClearing' /\ ListWalking'
    BY <2>1 DEF ListClearing, ListWalking
  <2>6. ListWaiting' = ListWaiting
    BY <2>1, Nodes DEF ListWaiting, ListTypes, ListDatagrams
  <2> QED
    BY <2>1, <2>4, <2>5, <2>6
<1>2. CASE ListStop
  <2>1. /\ list_timer /\ list_walk = "none" /\ list_clear' = "test"
        /\ UNCHANGED <<list_links, list_state, list_ahead, list_walk>>
    BY <1>2 DEF ListStop, listWalkVars
  <2>2. list_clear = "none"
    BY <2>1 DEF ListPhases
  <2> QED
    BY <2>1, <2>2 DEF ListShape, ListClearing, ListWalking, ListWaiting
<1> QED
  BY <1>1, <1>2

\* The PDO datagram that points to itself is not in the list, and one that does not is.
LEMMA ClearTests ==
  ASSUME ListInv, ~list_raced, ListClearTest
  PROVE  ListWhole'
<1> USE DEF ListInv, ListWhole
<1>1. /\ list_clear = "test" /\ list_walk = "none"
      /\ list_read' = ListNow
      /\ UNCHANGED <<list_links, list_state, list_ahead, list_timer, list_walk>>
      /\ list_clear' = IF list_links.next[ListPdo] = ListPdo THEN "none" ELSE "first"
  BY DEF ListClearTest, listWalkVars, ec_dlist_isempty
<1>2. ListSpells(list_links, list_ahead) /\ ListStrict(list_ahead)
  BY <1>1 DEF ListShape
<1>3. ASSUME ListPdo \in DOMAIN list_ahead
      PROVE  list_links.next[ListPdo] # ListPdo
  <2>1. SUFFICES ASSUME list_links.next[ListPdo] = ListPdo
                 PROVE  FALSE
    OBVIOUS
  <2>2. ListPassed(list_ahead, ListPdo) = ListUpto(list_ahead, ListPdo)
    BY <1>2, <1>3, <2>1, Steps DEF ListTypes
  <2>3. ListPdo # ListHead
    BY Nodes
  <2> QED
    BY <1>2, <1>3, <2>2, <2>3 DEF ListPassed, ListUpto, ListStrict
<1>4. ASSUME ListPdo \notin DOMAIN list_ahead
      PROVE  list_links.next[ListPdo] = ListPdo
  BY <1>1, <1>4, Nodes DEF ListShape
<1>5. ListShape'
  BY <1>1 DEF ListShape
<1>6. ListClearing'
  BY <1>1, <1>3, <1>4 DEF ListClearing, ListNow
<1>7. ListWalking' /\ ListWaiting' = ListWaiting
  BY <1>1 DEF ListWalking, ListWaiting
<1> QED
  BY <1>1, <1>5, <1>6, <1>7

\* The first write is undone by one that points back to the PDO datagram.
LEMMA ClearBegins ==
  ASSUME ListInv, ~list_raced, ListClearFirst
  PROVE  ListWhole'
<1> USE DEF ListInv, ListWhole
<1> DEFINE x == list_links.next[ListPdo]
           p == list_links.prev[ListPdo]
<1>1. /\ list_clear = "first" /\ list_clear' = "second" /\ list_walk = "none"
      /\ UNCHANGED <<list_state, list_ahead, list_timer, list_walk>>
      /\ list_read = ListNow /\ ListPdo \in DOMAIN list_ahead
      /\ list_read' = ListNow
      /\ list_links' = [list_links EXCEPT !.prev[list_read'.next] = list_read'.prev]
  BY DEF ListClearFirst, listWalkVars, ListClearing
<1>2. /\ ListSpells(list_links, list_ahead) /\ ListStrict(list_ahead)
      /\ list_ahead \in ListOrders /\ list_links \in ListLinks
  BY <1>1 DEF ListShape, ListTypes
<1>3. /\ list_links' = [list_links EXCEPT !.prev[x] = p]
      /\ list_read' = [next |-> x, prev |-> p]
  BY <1>1 DEF ListNow
<1>4. x \in DOMAIN list_ahead \cup {ListHead} /\ list_links.prev[x] = ListPdo
  BY <1>1, <1>2 DEF ListSpells
<1>5. x # ListPdo
  <2>1. SUFFICES ASSUME x = ListPdo PROVE FALSE
    OBVIOUS
  <2>2. ListPassed(list_ahead, ListPdo) = ListUpto(list_ahead, ListPdo)
    BY <1>1, <1>2, <2>1, Steps
  <2>3. ListPdo # ListHead
    BY Nodes
  <2> QED
    BY <1>1, <1>2, <2>2, <2>3 DEF ListPassed, ListUpto, ListStrict
<1>6. /\ list_links'.next = list_links.next
      /\ list_links'.prev = [list_links.prev EXCEPT ![x] = p]
      /\ list_links' \in ListLinks
      /\ x \in ListNodes /\ p \in ListNodes /\ ListPdo \in ListNodes
  BY <1>2, <1>3, LinksTyped, Nodes DEF ListLinks
<1>7. list_links'.prev[ListPdo] = p /\ list_links'.prev[x] = p
  BY <1>2, <1>5, <1>6 DEF ListLinks
<1>8. ListNow' = list_read'
  BY <1>3, <1>6, <1>7 DEF ListNow
<1>9. ListSpells(ListBefore', list_ahead)
  <2>1. ListBefore' = [list_links' EXCEPT !.prev[x] = ListPdo]
    BY <1>6 DEF ListBefore
  <2>2. /\ ListBefore' \in ListLinks /\ ListBefore'.next = list_links.next
        /\ ListBefore'.prev = [list_links'.prev EXCEPT ![x] = ListPdo]
    BY <1>2, <1>6, <2>1 DEF ListLinks
  <2>3. \A n \in ListNodes : ListBefore'.prev[n] = list_links.prev[n]
    BY <1>2, <1>4, <1>6, <2>2 DEF ListLinks
  <2> QED
    BY <1>2, <2>2, <2>3, Elsewhere, Orders, Nodes
<1>10. ListShape'
  <2>1. \A d \in ListDatagrams \ DOMAIN list_ahead : list_links'.next[d] = d
    BY <1>1, <1>6 DEF ListShape
  <2> QED
    BY <1>1, <1>2, <1>6, <1>7, <1>9, <2>1 DEF ListShape
<1>11. ListClearing'
  BY <1>1, <1>8 DEF ListClearing
<1>12. ListWalking' /\ ListWaiting' = ListWaiting
  BY <1>1 DEF ListWalking, ListWaiting
<1> QED
  BY <1>1, <1>10, <1>11, <1>12

\* The second write completes the removal, but for the pointers of the PDO datagram itself.
LEMMA ClearGoesOn ==
  ASSUME ListInv, ~list_raced, ListClearSecond
  PROVE  ListWhole'
<1> USE DEF ListInv, ListWhole
<1> DEFINE x == list_links.next[ListPdo]
           p == list_links.prev[ListPdo]
<1>1. /\ list_clear = "second" /\ list_clear' = "close" /\ list_walk = "none"
      /\ UNCHANGED <<list_state, list_timer, list_walk>>
      /\ list_read = ListNow /\ ListPdo \in DOMAIN list_ahead
      /\ list_read' = ListNow
      /\ list_links' = [list_links EXCEPT !.next[list_read'.prev] = list_read'.next]
      /\ list_ahead' = [d \in DOMAIN list_ahead \ {ListPdo} |-> list_ahead[d] \ {ListPdo}]
  BY DEF ListClearSecond, listWalkVars, ListClearing
<1>2. /\ ListSpells(ListBefore, list_ahead) /\ ListStrict(list_ahead)
      /\ list_links.prev[x] = p
      /\ list_ahead \in ListOrders /\ list_links \in ListLinks
  BY <1>1 DEF ListShape, ListTypes
<1>3. list_links' = [list_links EXCEPT !.next[p] = x]
  BY <1>1 DEF ListNow
<1>4. /\ x \in ListNodes /\ p \in ListNodes /\ ListPdo \in ListNodes
  BY <1>2, LinksTyped, Nodes
<1>5. /\ list_links'.next = [list_links.next EXCEPT ![p] = x]
      /\ list_links'.prev = list_links.prev
      /\ list_links' \in ListLinks
  BY <1>2, <1>3, <1>4 DEF ListLinks
<1>6. /\ ListBefore \in ListLinks /\ ListBefore.next = list_links.next
      /\ ListBefore.prev = [list_links.prev EXCEPT ![x] = ListPdo]
  BY <1>2, <1>4 DEF ListLinks, ListBefore
<1>7. x # ListPdo
  <2>1. SUFFICES ASSUME x = ListPdo PROVE FALSE
    OBVIOUS
  <2>2. ListPassed(list_ahead, ListPdo) = ListUpto(list_ahead, ListPdo)
    BY <1>1, <1>2, <1>6, <2>1, Steps
  <2>3. ListPdo # ListHead
    BY Nodes
  <2> QED
    BY <1>1, <1>2, <2>2, <2>3 DEF ListPassed, ListUpto, ListStrict
<1>8. ListBefore.prev[ListPdo] = p
  BY <1>2, <1>4, <1>6, <1>7 DEF ListLinks
<1>9. list_links'.prev = [ListBefore.prev EXCEPT ![x] = p]
  BY <1>2, <1>4, <1>5, <1>6 DEF ListLinks
<1>10. /\ DOMAIN list_ahead' = DOMAIN list_ahead \ {ListPdo} /\ ListStrict(list_ahead')
       /\ ListSpells(list_links', list_ahead')
       /\ p \in DOMAIN list_ahead' \cup {ListHead}
  <2>1. /\ list_links'.next = [ListBefore.next EXCEPT ![ListBefore.prev[ListPdo]] =
                                                        ListBefore.next[ListPdo]]
        /\ list_links'.prev = [ListBefore.prev EXCEPT ![ListBefore.next[ListPdo]] =
                                                        ListBefore.prev[ListPdo]]
    BY <1>5, <1>6, <1>8, <1>9
  <2>2. list_links' \in ListLinks /\ ListBefore \in ListLinks
    BY <1>5, <1>6
  <2>3. /\ DOMAIN list_ahead' = DOMAIN list_ahead \ {ListPdo} /\ ListStrict(list_ahead')
        /\ ListSpells(list_links', list_ahead')
        /\ ListBefore.prev[ListPdo] \in DOMAIN list_ahead' \cup {ListHead}
    <3>1. PICK m, k, r, q : m = ListBefore /\ k = list_links' /\ r = list_ahead' /\ q = list_ahead
      OBVIOUS
    <3>2. /\ q \in ListOrders /\ ListStrict(q) /\ m \in ListLinks /\ ListSpells(m, q)
          /\ ListPdo \in DOMAIN q /\ k \in ListLinks
          /\ k.next = [m.next EXCEPT ![m.prev[ListPdo]] = m.next[ListPdo]]
          /\ k.prev = [m.prev EXCEPT ![m.next[ListPdo]] = m.prev[ListPdo]]
          /\ r = [d \in DOMAIN q \ {ListPdo} |-> q[d] \ {ListPdo}]
      BY <1>1, <1>2, <2>1, <2>2, <3>1
    <3>3. /\ DOMAIN r = DOMAIN q \ {ListPdo} /\ ListStrict(r) /\ ListSpells(k, r)
          /\ m.prev[ListPdo] \in DOMAIN r \cup {ListHead}
      BY <3>2, Unlinked
    <3> QED
      BY <3>1, <3>3
  <2> QED
    BY <2>3, <1>8
<1>11. ListShape'
  <2>1. ASSUME NEW d \in ListDatagrams \ DOMAIN list_ahead', d # ListPdo
        PROVE  list_links'.next[d] = d
    <3>1. d \notin DOMAIN list_ahead /\ d # ListHead /\ d \in ListNodes
      BY <1>10, <2>1, Nodes
    <3>2. d # p
      BY <1>10, <3>1
    <3> QED
      BY <1>1, <1>2, <1>4, <1>5, <3>1, <3>2 DEF ListShape, ListLinks
  <2> QED
    BY <1>1, <1>10, <2>1 DEF ListShape
<1>12. ListClearing'
  BY <1>1, <1>10 DEF ListClearing
<1>13. ListWalking' /\ ListWaiting' = ListWaiting
  BY <1>1 DEF ListWalking, ListWaiting
<1> QED
  BY <1>1, <1>10, <1>11, <1>12, <1>13

LEMMA ClearEnds ==
  ASSUME ListInv, ~list_raced, ListClearClose
  PROVE  ListWhole'
<1> USE DEF ListInv, ListWhole
<1>1. /\ list_clear = "close" /\ list_clear' = "none" /\ list_walk = "none"
      /\ list_links' = ec_dlist_init(list_links, ListPdo)
      /\ UNCHANGED <<list_state, list_ahead, list_timer, list_walk>>
      /\ ListPdo \notin DOMAIN list_ahead
  BY DEF ListClearClose, listWalkVars, ListClearing
<1>2. /\ ListSpells(list_links', list_ahead)
      /\ list_links'.next = [list_links.next EXCEPT ![ListPdo] = ListPdo]
  BY <1>1, Initialised, Nodes DEF ListTypes, ListShape
<1>3. \A d \in ListDatagrams \ DOMAIN list_ahead : list_links'.next[d] = d
  BY <1>1, <1>2, Nodes DEF ListTypes, ListLinks, ListShape
<1>4. ListShape'
  BY <1>1, <1>2, <1>3 DEF ListShape
<1>5. ListClearing' /\ ListWalking' /\ ListWaiting' = ListWaiting
  BY <1>1 DEF ListClearing, ListWalking, ListWaiting
<1> QED
  BY <1>1, <1>4, <1>5

-----------------------------------------------------------------------------
(***************************************************************************)
(* Theorems.                                                               *)
(***************************************************************************)
LEMMA Initially == ListInit => ListInv
<1> SUFFICES ASSUME ListInit PROVE ListInv
  OBVIOUS
<1> USE DEF ListInit
<1>1. list_ahead \in ListOrders /\ DOMAIN list_ahead = {}
  <2>1. list_ahead \in [{} -> SUBSET {}] /\ {} \in SUBSET ListDatagrams
    OBVIOUS
  <2> QED
    BY <2>1, AnOrder
<1>2. ListTypes
  BY <1>1, Nodes DEF ListTypes, ListLinks, ListAlone
<1>3. ListPhases
  BY DEF ListPhases
<1>4. ListShape
  BY <1>1, Nodes DEF ListShape, ListStrict, ListSpells, ListUpto, ListAlone
<1>5. ListClearing /\ ListWalking
  BY <1>1 DEF ListClearing, ListWalking
<1>6. ListWaiting = {}
  BY DEF ListWaiting, ListDatagrams
<1> QED
  BY <1>1, <1>2, <1>3, <1>4, <1>5, <1>6 DEF ListInv, ListWhole

LEMMA ListInvStep == ListInv /\ [ListNext]_listVars => ListInv'
<1> SUFFICES ASSUME ListInv, [ListNext]_listVars PROVE ListInv'
  OBVIOUS
<1>1. ListTypes' /\ ListPhases'
  BY TypesStep, PhasesStep DEF ListInv
<1>2. ASSUME ~list_raced' PROVE ListWhole'
  <2>1. ~list_raced
    BY <1>2 DEF ListNext, ListRaces, ListSubmit, ListCycle, ListLook, ListQueue, ListSend,
                ListPass, ListReceive, ListPassBy, ListMatch, ListReturn, ListStart, ListStop,
                ListClearTest, ListClearFirst, ListClearSecond, ListClearClose,
                listVars, listClearVars
  <2>2. CASE ListNext
    BY <1>2, <2>1, <2>2, WalkBegins, WalkGoes, WalkQueues, SendPasses, AnswerMatches,
       StartsAndStops, ClearTests, ClearBegins, ClearGoesOn, ClearEnds DEF ListNext
  <2>3. CASE UNCHANGED listVars
    BY <2>1, <2>3 DEF listVars, listWalkVars, listClearVars, ListInv, ListWhole, ListShape,
                      ListBefore, ListClearing, ListNow, ListWalking, ListWaiting
  <2> QED
    BY <2>2, <2>3
<1> QED
  BY <1>1, <1>2 DEF ListInv

LEMMA ListInvAlways == ListSpec => []ListInv
BY Initially, ListInvStep, PTL DEF ListSpec

\* The list in memory is the list that DatagramQueue has, in both directions and in the order
\* in which the datagrams were queued, as long as nothing has come between the accesses of a
\* clear (ec_list.h, ec_master.c:12-37, ec_datagram.c:95): for any number of threads.
THEOREM ListAlwaysSound == ListSpec => []ListSound
<1>1. ListInv => ListSound
  BY DEF ListInv, ListWhole, ListShape, ListWalking, ListSound, ec_dlist_isempty
<1> QED
  BY <1>1, ListInvAlways, PTL

\* A send passes by no datagram, although it unlinks some where it stands: what is left when
\* it is back at the head has been transmitted (ec_master.c:262-293).
THEOREM ListAlwaysSendsAll == ListSpec => []ListSendsAll
<1>1. ListInv => ListSendsAll
  BY DEF ListInv, ListPhases, ListWhole, ListWalking, ListPassed, ListSendsAll
<1> QED
  BY <1>1, ListInvAlways, PTL

=============================================================================
