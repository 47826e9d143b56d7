-------------------------- MODULE MCDatagramQueue --------------------------
(***************************************************************************)
(* Values for the constants of DatagramQueue that a cfg cannot spell.      *)
(***************************************************************************)
EXTENDS DatagramQueue, TLC

CONSTANTS Fprd, Frmw, Lrw

MCKinds == {Fprd, Frmw, Lrw}
MCCyclicKind == [c \in {DcRef, DcAll, Pdo} |-> IF c = Pdo THEN Lrw ELSE Frmw]

\* With FrameCap = 4, two register accesses fit in a frame, one and a PDO do not; with
\* FrameCap = 2 the PDO fits in no frame.
MCSize == [k \in MCKinds |-> IF k = Lrw THEN 3 ELSE 2]
\* The requesters are interchangeable.
MCSymmetry == Permutations(Requesters)

(***************************************************************************)
(* The view leaves out what no later step reads: the index of a datagram   *)
(* that is not SENT (it is matched only while SENT and renewed when sent), *)
(* the request and answer of an idle thread (the next Submit refills the   *)
(* datagram), the value last returned, the working counters of the cyclic  *)
(* datagrams and the sum of them that the shell shows, and the origin of   *)
(* the index counter (indices only matter modulo IndexMod and relative to  *)
(* each other).                                                            *)
(***************************************************************************)
MCView ==
  LET rel(i) == (i + IndexMod - datagram_index) % IndexMod
      live(d) == d \in Cyclic \/ pc[d] = "waiting"
      dgram(d) == IF live(d)
                  THEN <<state[d], kind[d], netdev_idx[d],
                         IF d \in Cyclic THEN 0 ELSE working_counter[d],
                         answer[d], waiter[d], wait[d], age[d],
                         IF state[d] = "SENT" THEN rel(index[d]) ELSE 0>>
                  ELSE <<waiter[d], wait[d]>>
  IN <<datagram_queue, [d \in Datagrams |-> dgram(d)],
       {{[a EXCEPT !.index = rel(@)] : a \in f} : f \in wire},
       link_state, phase, timer, dc_ref_clock, pc>>
=============================================================================
