# TLA+ verification of the CherryECAT master

CherryECAT is an EtherCAT master for microcontrollers under an RTOS. This directory holds TLA+
models of its core, TLC configurations that check them on small instances, and proofs, checked
by TLAPS, of the properties that matter most for every value of the constants. Paths below are
relative to the repository; `ec_master.c:71` means line 71 of `src/ec_master.c`.

## 1. Inventory

| component | state | operations | who calls it |
|---|---|---|---|
| datagram queue (`ec_master.c`, `ec_datagram.c`, `ec_list.h`) | `datagram_queue`, `datagram_index`, the fields of every datagram, its semaphore | queue, send, receive, time out, fail on link loss, wake the waiter | every thread (blocking), the nonperiod thread, the cycle timer interrupt, the receive interrupt |
| netdev (`ec_netdev.c`, `port/`) | `link_state`, buffers, statistics | transmit, receive, poll the link | the queue, the Ethernet interrupt, the link timer |
| master lifecycle (`ec_master.c`) | `started`, `phase`, `nonperiod_suspend`, the timer, `scan_lock` | `ec_master_start`, `ec_master_stop` | application, shell, and (stop) the scan thread |
| bus scan (`ec_slave.c:955-1362`) | `scan_done`, `rescan_request`, `link_state[]`, `slaves_working_counter[]`, `slaves_state[]`, the slave table | watch the link, count the slaves, rescan | the scan thread, every `CONFIG_EC_SCAN_INTERVAL_MS` |
| slave configuration (`ec_slave.c:112-799`) | `current_state`, `requested_state`, `force_update`, `alstatus_code` | AL state changes, SM, FMMU, DC set-up, error acknowledge | the scan thread |
| mailbox and CoE (`ec_mailbox.c`, `ec_coe.c`) | the mailbox of the slave, toggle bit | send, poll, receive, SDO upload and download | slave configuration, shell |
| SII (`ec_sii.c`) | the EEPROM interface of the slave | take over, read, write, hand back | scan, shell |
| process data layout (`ec_master.c:487-566`) | logical addresses, FMMU windows, expected working counter | computed by a start | start |
| distributed clocks (`ec_slave.c:136-276, 818-910`, `ec_master.c:754-810`) | topology, delays, reference clock, PI integral | computed by a scan, used by every cycle | scan, cycle timer |
| SII categories (`ec_slave.c:1212-1339`) | the EEPROM image of each slave in memory | find its length, read it, parse it | a scan |
| timestamps (`ec_timestamp.c`) | two global variables on ARM, none on RISC-V | read the time | every timeout, in threads and interrupts |
| shell (`ec_cmd.c`), OSAL (`osal/`) | none of their own | wrappers | users |

How they interact: threads hand a datagram to the queue inside a critical section and block on
its semaphore (`ec_master_queue_ext_datagram`). One of two senders empties the queue: the
nonperiod thread while the master is idle, the cycle timer's interrupt while it runs. The
receive interrupt completes datagrams and gives the semaphores. Start and stop exchange the two
senders, under `scan_lock`, which the scan thread takes too.

What is hard: two interrupts and several threads on one list; answers that come late, twice or
not at all, matched by an 8-bit index; flags that are read without the lock that protects their
writers; a handshake that suspends a thread; a rescan that frees the table others use; waits
that hold a lock; a slave that changes its state while it is being configured; a mailbox that
keeps the answer to a call that gave up; counters and lengths that wrap around. `PROJECT.json`
lists 39 such hazards, each at its line.

What makes the components correct: a waiting thread is woken once, with its own answer or with a
reason; the list stays a list; datagrams are sent in order; one sender runs at any time, and
never two; flags agree when nobody is changing them; a change of the bus is not forgotten; waits
end; a slave is asked for a state only when it is prepared for it, and gets there once it is left
alone; what is read from EEPROM or object dictionary is what is there; a call that reports success
has had its effect; the process data of two slaves do not overlap; delays are those of the wires;
time does not run backwards.

## 2. Modules

| module | what it is |
|---|---|
| `DatagramQueue` | the queue, packing, matching, timeouts, the waiters; the network between |
| `DatagramService` | what `ec_master_queue_ext_datagram` promises: the abstract specification |
| `MCDatagramQueue` | values of the constants, symmetry and view for TLC |
| `DatagramList` | the same list as pointers in memory, the walks over it entry by entry, and a stop that unlinks with interrupts on |
| `MasterLifecycle` | start, stop, the suspension of the nonperiod thread, the scan thread |
| `SlaveState` | the AL state machine of one slave, its configuration, and who asks for states |
| `SiiAccess` | the EEPROM interface of a slave, read by the scan and written by the shell |
| `SiiCategories` | the length of an EEPROM image and its parser |
| `Mailbox` | the mailbox of a slave and SDO transfers over it, by several users |
| `PdoLayout` | the process data of all slaves in one buffer, over starts, stops and rescans |
| `DcTopology` | the wiring of the slaves, and how the master finds it from their open ports |
| `DcTransmission` | the transmission delays, from that wiring and the receive times; builds on `DcTopology` |
| `Timestamp` | the 64-bit time, made from 32-bit reads by readers that interrupt one another |
| `MCServices` | `DatagramList`, `SiiAccess`, `SiiCategories`, `Mailbox`, `PdoLayout`, `DcTransmission` and `Timestamp` side by side, for TLC |
| `DatagramQueueProofs`, `DatagramListProofs`, `MasterLifecycleProofs`, `SlaveStateProofs`, `SiiProofs`, `MailboxProofs`, `PdoLayoutProofs`, `ClockProofs` | theorems: `SiiProofs` about `SiiAccess` and `SiiCategories`, `ClockProofs` about `Timestamp`, `DcTopology` and `DcTransmission`, the others about the module of that name |

`PROJECT.json` ("map") gives the lines behind each definition. Definitions whose comment begins
with "Mutant" are broken variants of the definition that follows; each shows that a property
would notice the mistake, and none is used by a specification.

### DatagramQueue

Variables carry the names of the C fields. `datagram_queue[d]` is the set of datagrams in front
of `d`: a set-valued form of the doubly linked list in which "in front of" survives removals, so
that order can be stated and proved about without positions. The content of a datagram is its
kind, the pair of type and size that answers are matched by.

A step is a critical section or an interrupt handler. On the supported boards the Ethernet
interrupt and the cycle timer have the same priority, so handlers do not nest; threads queue and
the nonperiod thread sends with interrupts off. The places where the code does more than one
such thing per step:

* `Submit` merges filling the datagram with queueing it. The datagram is not listed while it is
  filled (`WaiterHandshake`), so no one can see it half filled.
* `StopTimer` merges `ec_htimer_stop`, `ec_datagram_clear` and `ec_master_enter_idle`. The timer
  is off and the nonperiod thread suspended, so no one sends in between. That the removal of the
  PDO datagram is one step is an assumption of this module which the code does not keep:
  `DatagramList` takes it apart, and run `list_stop` shows what can come of it.
* `NonperiodSend` is enabled whenever the timer is off, a superset of when the thread runs.
  That the two senders exclude each other is not assumed here but shown in `MasterLifecycle`
  (`OneSender`), and so is the guard `~timer` of `StartTimer` (`TimerStartsOnce`).

The network loses, delays, reorders and duplicates. It is assumed only that a frame does not
come back once its answers are `Lifetime` transmissions old and something else has been sent.
Time is measured in transmissions: `age` counts them, `ExpiryWindow` of them take more than 50 ms,
and a datagram sent later is never late before one sent earlier. `answer` is a history variable:
whose answer completed a datagram.

### DatagramService and the refinement

`request[c]` is none, pending or done, `outcome[c]` one of OK, WC, TIMEOUT, IO, fixed at the
moment the request is done. The mapping reads a request as done when its datagram has left the
list, and its outcome as what the thread is going to make of the datagram's state; an answer that
is not the request's own maps to "foreign", which is no outcome of the service.

### MasterLifecycle

A thread runs from one blocking call, or one read of a flag that others write without a lock, to
the next in one step; `pc` names where it waits. The nonperiod thread has the highest priority,
so clearing `nonperiod_suspend` and suspending itself (ec_master.c:364-365) are one step.
Requests of the scan thread are answered or time out only while something sends (`Sending`).
Each of the register accesses of a scan or a configuration may fail; the model keeps the outcome
(the scan fails or succeeds, a slave reaches PREOP, its goal, or neither) and not the number of
accesses. The environment moves the link, connects and disconnects slaves at the end of the line.
Slaves are requested alike by all code, so one `requested_state` stands for all. A slave without
`config` at a start stops the program by an assertion and is left out.

### DatagramList

The nodes of `ec_list.h` with `next` and `prev`, and the operations of that file as operators on
them. `DatagramQueue` says which datagrams are in front of which; here that is the history
variable `list_ahead`, which only `ListQueue`, the removals and the clear change, and which no
guard reads. `ListSound` says that the pointers mean just that, and `ListSendsAll` that a send which
unlinks entries while it stands on them passes by none.

A walk takes an entry per step: `list_at` is `pos`, and `list_next` the entry that
`ec_dlist_for_each_entry_safe` has read before the present one is handled. `list_walk` keeps others
out meanwhile, since handlers do not nest and threads queue with interrupts off. The two walks of
`ec_master_send`, the one for late datagrams and the one that fills frames, are taken together.
`ec_datagram_clear` in a stop is four steps, between which others may come: it has interrupts on,
and what it has read once the compiler may keep in a register or read again. What happens once
somebody has come between the reads and the writes is followed to the end of the removal only.

### SlaveState

One slave. A step of the scan thread goes from the answer of one register access to the next
access. `pc` is what it does next, `stage` how far `ec_slave_config` has come; `NextStage` is its
sequence of early returns, in which `slave->config` and `requested_state` are read anew each
time. The slave obeys, refuses or ignores a request, and falls out of a state by itself.
`registers` is what has been configured in it since, and `elapsed` is time in ranks of the four
timeouts. Accesses may fail to reach the slave or lose their answers, until the bus is `calm`:
a history variable for the liveness properties, after which nothing is lost and nobody asks
for anything. The mailbox requests of the PDO assignment are one stage, which may fail in the
middle. The effect of `MasterLifecycle`'s `Config` (the slave ends in its goal, in PREOP, or in
neither) is what this module's stages can do; the composition is by that interface, since
the product of the two is out of reach for TLC.

A rescan is asked for by the shell or by another count of answers (`rescan_request`), and begins at
the next broadcast: a stop that does not wait, `scan_lock`, a new table (`ScanAnew`). Between the
two the scan thread makes no register access, so they are one step here; starts that get in between
are a subject of `MasterLifecycle`. When another thread's stop waits for PREOP with the lock, the
scan thread waits at the label `scan_lock` instead and looks at no slave, which is the deadlock
of `lifecycle_stop`: the cfg therefore allows TLC to find states without a successor.
`RescanBehindStop` names that state, and what this module promises of a calm bus
excludes it and nothing else. The wait ends in the code when the link drops; losses of the link,
and scans that no slave answers, are in `MasterLifecycle` only.

`alstatus_code` is no variable: the one test of it (ec_slave.c:948) comes after it was cleared, or
after an acknowledge that has seen the slave in the state requested.

### SiiAccess and SiiCategories

`SiiAccess` follows `ec_sii_read` and `ec_sii_write` access by access: take the interface over,
command, poll, hand it back. The contents of the EEPROM are "old" or "new" words. A scan reads
headers at any offsets and then the image; a write replaces all of it. `SiiCategories` has the
data that `SiiAccess` leaves open: sizes of categories, the sum in a 16-bit variable, the limit
and the parser. The EEPROM itself, which is hardware, is marked external in the map: `CatWritten`
puts a category behind the last, `cat_starts` says where each begins, and the two words at any
other place may be read as any header (`CatHeaders`).

### Mailbox

One mailbox in each direction, an SDO server that follows the standard (external), and any number
of users, each in `ec_coe_download` or `ec_coe_upload`, with no lock between them. Data is a number
of bytes; an answer carries the object and the place it comes from (`from`) for the properties
only. `MbxVerdict` is the sequence of tests that an answer goes through. `mbx_clean` says that
nothing was lost, late or refused so far; `mbx_unconfirmed` counts downloads that were carried out
and not yet reported.

### PdoLayout

The loops of `ec_master_start` over slaves and syncs, one iteration per step, and the getters as
operators. Configurations change while the master runs, and rescans reset the table.

### DcTopology and DcTransmission

Every wiring of the slaves is an input (`DcConnect`): a tree, with the slaves numbered in the order
in which a frame comes to them. `ec_master_calc_topology` calls itself once for each slave, so a
call is known by its slave: `dc_index[s]` is its `port_index`, `dc_at` the slave of the innermost
call, and the caller of a call is `port0_slave`, which the call has stored as its first neighbour.
A step looks at one port or returns from one call.

`DcTransmission` adds the choice of slaves with distributed clocks, the delays of the links and
what each slave's counter shows; the receive times follow from them (`DcLatch`), below `DcModulus`,
which is 2^32 in the code. The code's recursions are recursive functions over the slaves, its loops
over ports `DcOverPorts`; the sum that `ec_slave_calc_transmission_delays` passes on through a pointer
and the delays it leaves in the slaves are a record (`DcSums`), from which it makes another. The
two loops of `ec_master_calc_transmission_delays` are a step each, as nothing else writes what they
read. Its `ec_master_calc_topology` is `DcTopology`'s `DcTraverse` at its place in the scan.

### Timestamp

Each access to a global variable or to the counter is a step, readers preempt readers of lower
priority. Two guards are assumptions about the program around it: somebody reads the time at
least once in half a round of the 32-bit counter (`TsSample`), and no read is interrupted for
as long as that (`TsInTime`); a round is several seconds.

## 3. What TLC checks

| run | question | instance | distinct states |
|---|---|---|---|
| `queue_safety` | is every waiter woken once, with its own answer, as the service promises? | 2 requesters + the PDO, 1 netdev, index modulo 5, `Lifetime` 3, `ExpiryWindow` 5, frames that take two register accesses, or one and a PDO does not fit | 121,640 |
| `queue_dc` | does the list stay a list, and in order, when DC and PDO datagrams are requeued and refilled, and one fits in no frame? | 1 requester + the three cyclic datagrams, `Lifetime` 0 (a frame is back before the next send or lost), `ExpiryWindow` 2, frames of 2 bytes and a PDO of 3 | 56,812 |
| `queue_live` | does every call return? | 1 requester + the PDO, `Lifetime` 0, fair senders, unfair network | 157,720 |
| `queue_wrap` | what if the index wraps? (violated) | `ExpiryWindow` 7 with index modulo 5 | |
| `lifecycle` | is a change of the bus remembered, does a start get through, does a scan end? | 1 application thread, up to 2 slaves, fair threads | 517,432 |
| `lifecycle_two` | one sender, and flags that agree, when calls overlap? | 2 application threads, 1 slave | 267,396 |
| `lifecycle_start`, `lifecycle_stop` | what the documents say (violated) | 1 application thread, up to 2 slaves | |
| `slave_state` | is a slave prepared for what it is asked, does every wait end, does it get where it is sent? | 1 slave with no or all abilities, the shell asks for BOOT, one repeated read in the wait for the clock | 731,288 |
| `services` | seven components at once, 19 properties | see below | 880,775 |
| `coe_segmented`, `list_stop` | two more things that comments and documents say (violated) | as `services` | |

`services` picks one component per behaviour: its states are the sum of theirs and not the
product, and each property speaks of one component. The instances:

* list: two requesters and the PDO datagram, so that a removal has a neighbour on either side.
* EEPROM: 4 words, two reads of a dword or four writes of a word, enough for an access that
  fails at the first, at a middle and at the last word.
* categories: up to 3, words of 5 bits and a limit of 14 words; sizes 0, 1, 4, 5, 12 and 30 make
  images that end before, at and behind the limit, and sums that wrap around.
* mailbox: 22 bytes each way, 6 bytes of data in a first message and 13 in a segment, so that an
  object of 20 bytes takes three messages and the toggle bit comes back to its value; 2 users and
  4 calls in all, so that a call may find what the one before left, twice over. `MbxBudget` bounds
  the calls only.
* layout: 2 slaves, 4 configurations (none; outputs then inputs; two output syncs and an empty
  input; inputs first), lengths that fill no whole byte; starts are not bounded.
* topology: 4 slaves, all wirings, delays 1 and 3, receive times below 64 that wrap around at
  different moments.
* time: 2 readers, a counter with 6 values, 14 cycles: more than two rounds.

The index is reduced from 256 to 5 because only the ratio of the index space to the lifetime and
the timeout matters: `OwnAnswer` is proved for every width, and the bounds 5 and 7 are on the
two sides of the condition `IndexNeverWraps`. Two requesters are enough for two threads to
compete for a frame, an index and a semaphore; the third competitor is the cycle. Runs have one
netdev, as all demos and the default configuration do; the proofs hold for any number. No
counter is cut off by a guard: `age` is bounded by `ExpiryWindow`, and frames by `Lifetime`.

`queue_dc` and `queue_live` have the shortest lifetime: a frame is received before
the next send, or lost. What they are about, the order of the list and that calls return, does not
depend on how old an answer is; `queue_safety` and the proofs have the long lifetimes.

`VIEW` (`MCView`) drops what no later step reads: the index of a datagram that is not SENT, the
fields of the datagram of an idle thread, the value last returned, the working counters of the
cyclic datagrams and their sum, and the origin of the index counter. `SYMMETRY` permutes the
requesters, in runs without liveness only. `queue_live` uses neither.

### Fairness

* `DatagramQueue`: some sender always runs again (the nonperiod thread wakes at least every 10 ms
  and the timer is periodic; that one of the two is there is `SomeSender`), a datagram that stays
  SENT is late one day (50 ms), and a thread whose semaphore was given is scheduled. Nothing is
  assumed of the network. `queue_live` uses data that fits in a frame: behind a PDO datagram that
  does not fit, a request is not sent.
* `MasterLifecycle`: each thread is scheduled (weak fairness of its own steps). Nothing is
  assumed of the link, the slaves or the answers: for a request of the scan thread both outcomes
  are there and neither is fair. `StartProceeds` is stated for one application thread: a second
  thread that got past `started` before the first had set it finds the nonperiod thread suspended
  and waits, with the lock, for an answer that does not come.

* `SlaveState`: the scan thread is scheduled, the slave looks at what is written to its control
  register, time passes during a poll, and the thread that waits in a stop is scheduled (weak
  fairness each). `ConfigEnds` needs no more, whatever the slave does. `Converges` and `StopEnds`
  are about what follows once the bus is calm; that it ever becomes calm is not assumed. A scan
  thread that waits for `scan_lock` is not enabled, so its fairness does not get it past a stop
  that waits: both properties exclude a rescan behind such a stop (`RescanBehindStop`), which
  never ends. A rescan that is still to come when no stop waits is included.

### Where the code does not do what the documents say

1. `queue_wrap`: with more transmissions in 50 ms than there are indices, a request is completed
   by the answer to another (ec_master.c:71). At the documented minimum cycle of 40 us there are
   over a thousand.
2. `lifecycle_start`: `ec_master_start` checks `scan_done` before it takes the lock and not again.
3. `lifecycle_stop`: `ec_master_stop` waits with `scan_lock` for what only the scan thread does,
   and the scan thread may wait for `scan_lock`. `SlaveState` has the same deadlock and shows that
   without a rescan behind it the stop returns.
4. `coe_segmented`: a download that takes several messages announces the length of its first part
   as that of the whole (ec_coe.c:144), so that the slave aborts at the first segment.
5. `list_stop`: a stop unlinks the PDO datagram with interrupts on (ec_master.c:616,
   ec_datagram.c:95). A datagram that is queued at that moment by another thread, the scan thread
   for one, can get lost, and its thread waits for ever.

Other observations: a scan in which one request fails is not repeated before the number of slaves
changes, the link drops or someone asks for a rescan (ec_slave.c:1028, `ScanFails`), although
`README.md` speaks of hot-plugging. The segments of two uploads at once, of objects
of the same length, can be exchanged without an error, since answers to segments name no object
and their toggle bit is not looked at. A branch without distributed clocks is in no delay
(ec_slave.c:261-273). Complete access to a subindex other than 0 is reported as a failure although
it was carried out (ec_coe.c:107). Sync managers that only an earlier configuration used keep
their windows (ec_master.c:530). Two readers of the time on ARM can add a round of the counter,
and a later race takes it back, so that a timeout may fire early (ec_timestamp.c:66). EEPROMs
beyond what `CatSupported` lists make the sum of sizes wrap around, and the parser leaves the image
(ec_slave.c:1228). The start time of the clocks is computed with a quotient that is named
remainder (ec_slave.c:749). `current_status` is shared by all netdevs
(ec_netdev.c:99): with two, a link that comes up may be missed.

## 4. What is proved

Assumptions: those named in the modules (`DatagramAssumption`, `KindAssumption`,
`IndexAssumption`, `ListAssumption`, `ThreadAssumption`, `SlaveAssumption`, `SiiAssumption`,
`CatAssumption`, `MbxAssumption`, `PdoAssumption`, `TsAssumption`, `DcAssumption`,
`DcTimesAssumption`), all evaluated by TLC on the instances above. No bound of the runs is used. 35
theorems are listed in `PROJECT.json`.

`DatagramQueueProofs`:

* `TypeCorrect` and `AlwaysAList`: `TypeOK` and `ListOrdered`. The two are proved together (`TypeInv`), because the
  rank of a datagram, which its index is computed from, is a number below the count only in a
  list; the lemmas `AddTailList`, `DeleteList` and `RankProperties` carry that.
* `PdoUnlinked`, `HandshakeCorrect`: inductive once `TypeInv` is known. The step of every sender
  and of the receiver is one lemma about `Wake`.
* `OnlyOwnAnswers`: under `IndexNeverWraps`. `OwnAnswer` is not inductive. The invariant
  (`AnswersInv`) says that a SENT datagram and an answer under way of age `a` both carry the index
  handed out `a` transmissions before the current one, and that a SENT datagram and an answer of
  the same age belong together. Ages below `IndexMod` are then told apart by their index
  (`SlotInjective`), so an index that matches is an age that matches.
* `Refinement`: the queue implements `DatagramService!ServiceSafety`, from `TypeInv`,
  `WaiterHandshake` and `OwnAnswer`. A send may complete several requests, a receive too; each
  maps to `Complete(S)` with `S` the requesters it unlists, or to a stutter.
* `InOrder`: `NoOvertaking`, an action property.

`DatagramListProofs`: `ListAlwaysSound` and `ListAlwaysSendsAll`, for any number of threads. What a
circle of pointers is would ask for induction over its length. The invariant (`ListInv`) avoids
that: it compares each node with its neighbour only (`ListSpells`: what is ahead of the next node is
what is ahead of this one, and this one), against the sets of `list_ahead`. What a walk has behind it
is then a set too (`ListPassed`), and an unlinking under a walk is a change of that set. Half way
through a clear (`list_clear = "second"`) one pointer is wrong; `ListShape` says which, and what it
was. All of it is claimed until `list_raced`, as run `list_stop` shows it must be.

`MasterLifecycleProofs`: one inductive invariant, `IndInv`, the conjunction of labels
(`ControlOK`), types (`DataOK`), senders (`SenderInv`) and the table (`TableInv`).

* `SenderInv` says who holds the lock at which label, that a request to suspend is only up inside
  a start (`SuspendInv`), and what is true of timer, phase and `started` between the lock and the
  end of a start (`StartInv`) and of a stop (`StopInv`). `OneSender`, `SomeSender`, `Settled` and
  `TimerStartsOnce` are parts or consequences of it: theorems `NeverTwoSenders`,
  `NeverWithoutSender`, `FlagsAgree`, `NeverStartedTwice`.
* `TableInv` adds that the cursor stays inside the table while a slave is looked at and that the
  number scanned is the number that answered until a new broadcast: `ChangesAreSeen`.

`SlaveStateProofs`: `AlwaysPrepared` is an action property. Its invariant, `Established`, says at
each stage what the slave's registers hold already: a stage is entered only when the writes before
it were answered, and a stage that clears something comes before all that set it. That holds for
any change of `requested_state` meanwhile, because the stages only choose among continuations.

`SiiProofs`, about `SiiAccess`: one invariant (`SiiInv`), of types, control (`Control`: what label,
lock and the open command have to do with each other), `Written` (how far a write has come),
`ReadSoFar` (what the scan has read is what is there, as no write can begin) and `SiiSuccess`. It
gives `SiiAlwaysInOrder`, `SiiAlwaysFaithful` and `SiiAlwaysSucceeds`, for images of any length. About
`SiiCategories`: `CatAlwaysInside`, for any number and sizes of categories. Its invariant (`CatInv`)
says that the beginnings are in order (`CatLayout`), that the walk stands on one of them below the
limit (`CatWalking`), and that the parser has come through as many categories as it reports and
the end marker lies inside the image (`CatParsing`), both for an EEPROM of `CatSupported`.

`PdoLayoutProofs`: `PdoInv` says of the loops half way what the properties say of the result: the
domains so far fill the buffer (`Filled`), windows are in order (`Ordered`), inside the domain of
their slave (`Placed`), and outputs and inputs apart (`Separated`). The types (`PdoTypeOK`) are proved
and in no run.

`MailboxProofs`: for mailboxes of any size above 20 bytes, any objects, calls and number of users.

* `MbxAlwaysOwn`: `OneMessage` and `Bounded` say that every request fits; `MbxOwnExecution` is
  inductive with the types.
* `MbxAlwaysIntact`, under the hypothesis `OneReader` (any number of others may download). Its
  invariant (`ReadInv`) says that an answer in the mailbox is the last thing the slave did, and that
  when the reader's request for a segment comes, the slave is just as far as the reader; an answer
  left behind by an earlier call is then either refused or is the next piece. The hypothesis is
  needed: with two readers the property fails.
* `MbxAlwaysClean`: as long as nothing was lost, late or refused and calls do not overlap, what a
  call is for is what it reports. Its invariant (`CleanInv`) follows the one call there is
  (`UnderWay`): its request or the answer that fits it is in the mailbox, one of the two, and the
  slave is where the call is (`Opened`); between calls the mailbox is empty (`Silent`).

`ClockProofs`, about `Timestamp`: an invariant of four parts: types, the count on ARM (`ArmCounted`:
`g_dwt_high` is never behind the rounds of the last value stored), the count when no read has been
interrupted (`ArmAlone`), and the halves on RISC-V (`RiscvHalves`). Priorities are not used: the
theorems hold for any interleaving, any width of the counter and any number of readers, with the
two guards of the module.

`ClockProofs`, about `DcTopology`: `DcAlwaysFound`, for any number of slaves and every wiring. As
the traversal is taken step by step there is no recursion to reason about; `WiringInv` says what a
call half way has done. The calls that have not returned are the innermost slave and those between
it and the master (`PathUp`); the slaves visited are just those behind a port that has been looked
at (`Visited`), so that an open port leads to the next number (`NextInLine`) and the end of the
first call leaves nobody out (`AllVisited`); and what is in the table of neighbours is theirs
(`Neighbours`).

`ClockProofs`, about `DcTransmission`: `DcDelaysAlwaysRight`, for any number of slaves, every wiring,
any delays of the links, any choice of slaves with distributed clocks, whatever their counters show
and wherever these wrap around. The property has two hypotheses, and the proof needs both: that
the frame is back within one round of the counters, and that slaves without distributed clocks
behind the reference clock stand in a line. The steps:

* Recursion. A principle of induction cannot be cited as such, since it takes a predicate. `ByRank`
  and `ByRecursion` are stated about sets and functions instead: a set that has every element whose
  predecessors it has is the whole; an operation on functions that looks at smaller ranks only has
  a fixed point. They rest on the well-foundedness of the naturals. From `ByRecursion` each
  recursive function of the module satisfies its own equation (`RoundTrips`, `Arrivals`, `NextDcs`,
  `Transmissions`), because slaves behind a slave have larger numbers.
* Time. What is behind a slave are consecutive numbers (`Subtrees`, `Branches`, `Siblings`), and the
  frame comes to them between its arrival at that slave and its return (`Times`, `ArrivesLater`).
* Measuring. With differences taken modulo `DcModulus`, a round trip through a port is the time spent
  behind it (`RoundTripSeen`), and half of what a round trip exceeds the sum of the next slave by is
  the time to it, as the line in between takes as long on both ways (`Lines`, `DelaySeen`). No two
  slaves measure to the same one (`OneMeasurer`, `MeasuredOnce`), so that what is written at its
  port 0 is not overwritten.
* Summing. `Right` says what a call of `ec_slave_calc_transmission_delays` makes of a sum: the delays
  behind the slave are right, and the sum is the time up to the frame's return, unless there is
  nobody left to need it. The exception is a branch without distributed clocks, whose time is in
  no delay; in a line it can only come last. `RightUntil` says the same of the loop half way, and
  `CallsRight` is the induction.
* Steps. `DelayInv` adds to `WiringInv` what has been latched (`TimesLatched`), that the reference clock
  is the first with distributed clocks (`RefFirst`), and that the delays between neighbours are
  right once measured (`DelaysMeasured`).

Only model-checked: liveness under fairness, which the prover does not handle
(`ImplementsFairService`, `StartProceeds`, `ScanEnds`, `ConfigEnds`, `Converges`, `StopEnds`). Every
other property of the passing runs is a theorem. The violated properties are of course not
proved.

## 5. Not modelled

Of the core (`ec_master.c`, `ec_slave.c`, `ec_mailbox.c`, `ec_sii.c`, `ec_coe.c`, `ec_timestamp.c`) nearly
every line that changes state is in a module; `ec_list.h` as far as the core uses it. Left out
there: the PI controller and the system time offset of the distributed clocks (what they should
achieve depends on crystals), performance counters and statistics, the conversion of cycles to
nanoseconds, `CONFIG_EC_PDO_MULTI_DOMAIN` (the same queue operations, one datagram per slave), and the
life time of the slave table under a running cycle.

The rest of the repository has no state of the master, or is not this program:

* `esc_register.h` and most of `ec_def.h`: names of registers and layouts of messages. They are the
  larger part of the headers, and more than a quarter of all lines.
* `demo/`: applications, lwIP glue, iperf.
* `port/` and `phy/`: drivers over the vendors' libraries. What they do with a frame (deliver it
  late, or lose it when a ring is full) is among what the network of `DatagramQueue` does.
* `ec_cmd.c`: the commands that change something are actions of the models; the rest prints state
  and parses arguments.
* `ec_common.c`, `ec_slave_table.c`: strings and constant tables. `ec_foe.c` and `ec_eoe.c` are empty.
* `osal/`: the FreeRTOS port is modelled as its users see it. The RT-Thread port is alike; the
  ThreadX port does not compile at this commit (`ec_osal_init` names an undeclared variable).
* Two netdevs for redundancy: the queue and its proofs have any number of them; the scan and the
  link poll are modelled with one, as `README.md` lists redundancy under what is still to do.

## Running

```
tlc -workers 2 -config MCDatagramQueue_safety.cfg MCDatagramQueue     # _dc, _live, _wrap
tlc -workers 2 -config MasterLifecycle.cfg MasterLifecycle            # _two, _start, _stop
tlc -workers 2 -config SlaveState.cfg SlaveState
tlc -workers 2 -config MCServices.cfg MCServices                      # _coe, _list
for m in DatagramQueue DatagramList MasterLifecycle SlaveState Sii Mailbox PdoLayout Clock
do tlapm ${m}Proofs.tla; done
```

The longest run, `slave_state`, takes about two minutes on two cores, and each of the proof modules a
few minutes at most.
