----------------------------- MODULE ClockProofs -----------------------------
(***************************************************************************)
(* Proofs about the clocks: about Timestamp, for a counter of any width    *)
(* and any number of readers, about DcTopology, for any number of slaves   *)
(* and every way to connect them, and about DcTransmission, for links of   *)
(* any length besides, whatever the clocks of the slaves show.             *)
(***************************************************************************)
EXTENDS Timestamp, DcTransmission, WellFoundedInduction, TLAPS

-----------------------------------------------------------------------------
(***************************************************************************)
(* Timestamp.  That a reader runs only when no one with a larger number    *)
(* does is not used: the theorems hold for readers that take turns.        *)
(***************************************************************************)
\* How often the counter has wrapped around by cycle c.
Round(c) == c \div TsModulus

LEMMA Products ==
  ASSUME NEW a \in Nat, NEW b \in Nat, NEW m \in Nat, a <= b
  PROVE  a * m <= b * m
OBVIOUS

LEMMA Multiples ==
  ASSUME NEW a \in Nat, NEW m \in Nat
  PROVE  a * m \in Nat /\ (a + 1) * m = a * m + m
OBVIOUS

LEMMA Rounds ==
  ASSUME NEW c \in Nat
  PROVE  Round(c) \in Nat /\ c % TsModulus \in TsLows /\ c % TsModulus \in Nat
BY TsAssumption DEF Round, TsLows

LEMMA Parts ==
  ASSUME NEW c \in Nat
  PROVE  c = Round(c) * TsModulus + (c % TsModulus)
BY TsAssumption DEF Round

LEMMA LaterRounds ==
  ASSUME NEW a \in Nat, NEW b \in Nat, a <= b
  PROVE  Round(a) <= Round(b)
<1> DEFINE A == Round(a) * TsModulus
<1> DEFINE B == Round(b) * TsModulus
<1>1. /\ Round(a) \in Nat /\ Round(b) \in Nat /\ A \in Nat /\ B \in Nat /\ TsModulus \in Nat
      /\ a % TsModulus \in TsLows /\ b % TsModulus \in TsLows
      /\ a = A + (a % TsModulus) /\ b = B + (b % TsModulus)
  BY TsAssumption, Rounds, Parts, Multiples
<1>2. (Round(b) + 1) * TsModulus = B + TsModulus
  BY <1>1, Multiples
<1>3. Round(b) + 1 <= Round(a) => B + TsModulus <= A
  BY <1>1, <1>2, Products
<1> HIDE DEF A, B
<1>4. QED
  BY <1>1, <1>3 DEF TsLows

LEMMA NextRound ==
  ASSUME NEW a \in Nat, NEW b \in Nat, a <= b, b - a < TsModulus
  PROVE  \/ Round(b) = Round(a) /\ a % TsModulus <= b % TsModulus
         \/ Round(b) = Round(a) + 1 /\ b % TsModulus < a % TsModulus
<1> DEFINE A == Round(a) * TsModulus
<1> DEFINE B == Round(b) * TsModulus
<1>1. /\ Round(a) \in Nat /\ Round(b) \in Nat /\ A \in Nat /\ B \in Nat /\ TsModulus \in Nat
      /\ a % TsModulus \in TsLows /\ b % TsModulus \in TsLows
      /\ a = A + (a % TsModulus) /\ b = B + (b % TsModulus)
  BY TsAssumption, Rounds, Parts, Multiples
<1>2. (Round(a) + 1) * TsModulus = A + TsModulus
  BY <1>1, Multiples
<1>3. (Round(a) + 1 + 1) * TsModulus = A + TsModulus + TsModulus
  BY <1>1, <1>2, Multiples
<1>4. Round(a) + 2 <= Round(b) => A + TsModulus + TsModulus <= B
  BY <1>1, <1>3, Products, Round(a) + 1 + 1 = Round(a) + 2
<1>5. Round(b) = Round(a) => B = A
  OBVIOUS
<1>6. Round(b) = Round(a) + 1 => B = A + TsModulus
  BY <1>2
<1>7. Round(a) <= Round(b)
  BY LaterRounds
<1> HIDE DEF A, B
<1>8. ~(Round(a) + 2 <= Round(b))
  BY <1>1, <1>4 DEF TsLows
<1>9. QED
  BY <1>1, <1>5, <1>6, <1>7, <1>8 DEF TsLows
-----------------------------------------------------------------------------
ArmLabels == {"compare", "load", "store", "store_last", "combine"}
RiscvLabels == {"high", "second", "high_again"}
Labels == {"idle"} \cup (IF ts_arch = "arm" THEN ArmLabels ELSE RiscvLabels)

Types ==
  /\ ts_arch \in {"arm", "riscv"}
  /\ ts_count \in Nat /\ ts_high \in Nat /\ ts_stored \in Nat
  /\ ts_pc \in [TsReaderIds -> Labels]
  /\ ts_begin \in [TsReaderIds -> Nat]
  /\ ts_low \in [TsReaderIds -> Nat]
  /\ ts_copy \in [TsReaderIds -> Nat]
  /\ ts_overlap \in BOOLEAN

\* A cycle that a reader may come across before it is late.
Near(r, c) == 2 * (c - ts_begin[r]) < TsModulus

\* The rounds counted reach that of what was stored, and that of a reader who has compared;
\* one who is going to count, or counts, is behind by one round at most, for all the cycles
\* that it may come across: whatever it stores is not too little for anyone else.
ArmCounted ==
  /\ ts_last_low = ts_stored % TsModulus
  /\ ts_stored <= ts_count
  /\ Round(ts_stored) <= ts_high
  /\ \A r \in TsReaderIds : ts_pc[r] # "idle" =>
       /\ ts_begin[r] <= ts_count
       /\ ts_low[r] = ts_begin[r] % TsModulus
       /\ ts_pc[r] = "compare" => 2 * (ts_begin[r] - ts_stored) < TsModulus
       /\ ts_pc[r] = "load" => \A c \in Nat : Near(r, c) => Round(c) <= ts_high + 1
       /\ ts_pc[r] = "store" => \A c \in Nat : Near(r, c) => Round(c) <= ts_copy[r] + 1
       /\ ts_pc[r] \in {"store_last", "combine"} => Round(ts_begin[r]) <= ts_high

\* A reader that is alone counts exactly the rounds there have been.
ArmAlone ==
  ~ts_overlap =>
    /\ \A q, r \in TsReaderIds : ts_pc[q] # "idle" /\ ts_pc[r] # "idle" => q = r
    /\ (\A r \in TsReaderIds : ts_pc[r] = "idle") => ts_high = Round(ts_stored)
    /\ \A r \in TsReaderIds :
         /\ ts_pc[r] = "compare" => ts_high = Round(ts_stored) /\ ts_stored <= ts_begin[r]
         /\ ts_pc[r] = "load" => ts_high + 1 = Round(ts_begin[r])
         /\ ts_pc[r] = "store" => ts_copy[r] + 1 = Round(ts_begin[r])
         /\ ts_pc[r] \in {"store_last", "combine"} => ts_high = Round(ts_begin[r])
         /\ ts_pc[r] = "combine" => ts_stored = ts_begin[r]

\* The upper half was read after the lower one; the lower half read last is that of a later
\* cycle, in the next round.
RiscvHalves ==
  \A r \in TsReaderIds :
    /\ ts_pc[r] \in {"high", "second"} => ts_low[r] = ts_begin[r] % TsModulus
    /\ ts_pc[r] = "high" => ts_begin[r] < ts_count
    /\ ts_pc[r] = "second" => \E c \in Nat : /\ ts_begin[r] <= c /\ c < ts_count
                                             /\ ts_copy[r] = Round(c)
    /\ ts_pc[r] = "high_again" => \E c \in Nat :
         /\ ts_begin[r] < c /\ c < ts_count
         /\ ts_low[r] = c % TsModulus /\ ts_low[r] <= ts_begin[r] % TsModulus

Inv ==
  /\ Types
  /\ ts_arch = "arm" => ArmCounted /\ ArmAlone
  /\ ts_arch = "riscv" => RiscvHalves

Returned == TsArmNeverBehind /\ TsArmExact /\ TsRiscvExact

LEMMA Begins == TsInit => Inv /\ Returned
<1> SUFFICES ASSUME TsInit PROVE Inv /\ Returned
  OBVIOUS
<1>1. Types
  BY DEF TsInit, Types, TsZero, Labels
<1>2. Round(0) = 0 /\ 0 % TsModulus = 0
  BY TsAssumption DEF Round
<1>3. ArmCounted /\ ArmAlone /\ RiscvHalves
  BY <1>2 DEF TsInit, ArmCounted, ArmAlone, RiscvHalves
<1>4. Returned
  BY DEF TsInit, Returned, TsArmNeverBehind, TsArmExact, TsRiscvExact
<1>5. QED
  BY <1>1, <1>3, <1>4 DEF Inv

LEMMA NoneReturned == ts_returned' = {} => Returned'
BY DEF Returned, TsArmNeverBehind, TsArmExact, TsRiscvExact

LEMMA ArmTypes ==
  ASSUME NEW r \in TsReaderIds, Types, ts_arch = "arm", TsArm(r),
         UNCHANGED <<ts_arch, ts_count>>
  PROVE  Types'
<1> USE DEF Types, Labels, ArmLabels, tsGlobals, tsLocals
<1>1. CASE TsSample(r)
  <2>1. TsLow \in Nat
    BY Rounds DEF TsLow, TsLows
  <2>2. QED
    BY <1>1, <2>1 DEF TsSample, TsBegin, TsGoto
<1>2. CASE TsCompare(r)
  BY <1>2 DEF TsCompare, TsGoto
<1>3. CASE TsLoad(r)
  BY <1>3 DEF TsLoad, TsGoto
<1>4. CASE TsStore(r)
  BY <1>4 DEF TsStore, TsGoto
<1>5. CASE TsStoreLast(r)
  BY <1>5 DEF TsStoreLast, TsGoto
<1>6. CASE TsCombine(r)
  BY <1>6 DEF TsCombine, TsReturns
<1>7. QED
  BY <1>1, <1>2, <1>3, <1>4, <1>5, <1>6 DEF TsArm

LEMMA ArmKeepsCounted ==
  ASSUME NEW r \in TsReaderIds, Types, ArmCounted, ts_arch = "arm", TsInTime(r), TsArm(r),
         UNCHANGED <<ts_arch, ts_count>>
  PROVE  ArmCounted'
<1> USE DEF Types, tsGlobals, tsLocals
<1>0. TsModulus \in Nat \ {0}
  BY TsAssumption
<1>1. CASE TsSample(r)
  <2>1. /\ ts_pc'[r] = "compare" /\ ts_begin'[r] = ts_count /\ ts_low'[r] = ts_count % TsModulus
        /\ \A q \in TsReaderIds \ {r} : /\ ts_pc'[q] = ts_pc[q] /\ ts_begin'[q] = ts_begin[q]
                                        /\ ts_low'[q] = ts_low[q]
        /\ ts_copy' = ts_copy /\ 2 * (ts_count - ts_stored) < TsModulus
        /\ UNCHANGED <<ts_high, ts_last_low, ts_stored>>
    BY <1>1 DEF TsSample, TsBegin, TsGoto, TsLow
  <2>2. QED
    BY <2>1 DEF ArmCounted, Near
<1>2. CASE TsCompare(r)
  <2>1. /\ ts_pc[r] = "compare"
        /\ ts_pc'[r] = IF ts_low[r] < ts_last_low THEN "load" ELSE "store_last"
        /\ \A q \in TsReaderIds \ {r} : ts_pc'[q] = ts_pc[q]
        /\ UNCHANGED <<ts_high, ts_last_low, ts_stored, ts_begin, ts_low, ts_copy>>
    BY <1>2 DEF TsCompare, TsGoto
  <2>2. ASSUME NEW c \in Nat, c <= ts_stored \/ c - ts_stored < TsModulus
        PROVE  Round(c) <= ts_high + 1
    <3>1. CASE c <= ts_stored
      BY <3>1, LaterRounds, Rounds DEF ArmCounted
    <3>2. CASE ts_stored < c
      <4>1. ts_stored \in Nat /\ ts_stored <= c /\ c - ts_stored < TsModulus
        BY <2>2, <3>2
      <4>2. Round(c) = Round(ts_stored) \/ Round(c) = Round(ts_stored) + 1
        BY <4>1, NextRound
      <4>3. QED
        BY <4>1, <4>2, Rounds DEF ArmCounted
    <3>3. QED
      BY <3>1, <3>2
  <2>3. /\ ts_begin[r] \in Nat /\ ts_stored \in Nat
        /\ 2 * (ts_begin[r] - ts_stored) < TsModulus
    BY <2>1 DEF ArmCounted
  <2>4. ASSUME NEW c \in Nat, Near(r, c) PROVE Round(c) <= ts_high + 1
    BY <1>0, <2>2, <2>3, <2>4 DEF Near
  <2>5. ts_low[r] >= ts_last_low => Round(ts_begin[r]) <= ts_high
    <3> SUFFICES ASSUME ts_begin[r] % TsModulus >= ts_stored % TsModulus
                 PROVE  Round(ts_begin[r]) <= ts_high
      BY <2>1 DEF ArmCounted
    <3>1. CASE ts_begin[r] <= ts_stored
      BY <2>3, <3>1, LaterRounds, Rounds DEF ArmCounted
    <3>2. CASE ts_stored < ts_begin[r]
      <4>1. ts_begin[r] - ts_stored < TsModulus
        BY <1>0, <2>3, <3>2
      <4>2. Round(ts_begin[r]) = Round(ts_stored)
        BY <2>3, <3>2, <4>1, NextRound, Rounds DEF TsLows
      <4>3. QED
        BY <4>2 DEF ArmCounted
    <3>3. QED
      BY <2>3, <3>1, <3>2
  <2>6. \A q \in TsReaderIds : ts_low[q] \in Nat
    OBVIOUS
  <2>7. ts_last_low \in Nat
    BY Rounds DEF ArmCounted, TsLows
  <2>8. QED
    BY <2>1, <2>4, <2>5, <2>6, <2>7 DEF ArmCounted, Near
<1>3. CASE TsLoad(r)
  <2>1. /\ ts_pc[r] = "load" /\ ts_pc'[r] = "store" /\ ts_copy'[r] = ts_high
        /\ \A q \in TsReaderIds \ {r} : ts_pc'[q] = ts_pc[q] /\ ts_copy'[q] = ts_copy[q]
        /\ UNCHANGED <<ts_high, ts_last_low, ts_stored, ts_begin, ts_low>>
    BY <1>3 DEF TsLoad, TsGoto
  <2>2. QED
    BY <2>1 DEF ArmCounted, Near
<1>4. CASE TsStore(r)
  <2>1. /\ ts_pc[r] = "store" /\ ts_pc'[r] = "store_last" /\ ts_high' = ts_copy[r] + 1
        /\ \A q \in TsReaderIds \ {r} : ts_pc'[q] = ts_pc[q]
        /\ UNCHANGED <<ts_last_low, ts_stored, ts_begin, ts_low, ts_copy>>
    BY <1>4 DEF TsStore, TsGoto
  <2>2. ASSUME NEW c \in Nat, c <= ts_count PROVE Round(c) <= ts_high'
    <3>1. Near(r, c)
      BY <1>0, <2>1, <2>2 DEF Near, TsInTime
    <3>2. QED
      BY <2>1, <3>1 DEF ArmCounted
  <2>3. ASSUME NEW q \in TsReaderIds, ts_pc[q] # "idle", NEW c \in Nat, Near(q, c)
        PROVE  Round(c) <= ts_high' + 1
    <3>1. ts_begin[q] \in Nat /\ Round(ts_begin[q]) <= ts_high' /\ ts_high' \in Nat
      BY <2>1, <2>2, <2>3 DEF ArmCounted
    <3>2. CASE c <= ts_begin[q]
      BY <3>1, <3>2, LaterRounds, Rounds
    <3>3. CASE ts_begin[q] < c
      <4>1. c - ts_begin[q] < TsModulus
        BY <1>0, <2>3, <3>1, <3>3 DEF Near
      <4>2. Round(c) = Round(ts_begin[q]) \/ Round(c) = Round(ts_begin[q]) + 1
        BY <3>1, <3>3, <4>1, NextRound
      <4>3. QED
        BY <3>1, <4>2, Rounds
    <3>4. QED
      BY <3>1, <3>2, <3>3
  <2>4. Round(ts_stored) <= ts_high'
    BY <2>2 DEF ArmCounted
  <2>5. \A q \in TsReaderIds : ts_pc[q] # "idle" => Round(ts_begin[q]) <= ts_high'
    BY <2>2 DEF ArmCounted
  <2>6. QED
    BY <2>1, <2>3, <2>4, <2>5 DEF ArmCounted, Near
<1>5. CASE TsStoreLast(r)
  <2>1. /\ ts_pc[r] = "store_last" /\ ts_pc'[r] = "combine"
        /\ ts_last_low' = ts_low[r] /\ ts_stored' = ts_begin[r]
        /\ \A q \in TsReaderIds \ {r} : ts_pc'[q] = ts_pc[q]
        /\ UNCHANGED <<ts_high, ts_begin, ts_low, ts_copy>>
    BY <1>5 DEF TsStoreLast, TsGoto
  <2>2. ASSUME NEW q \in TsReaderIds, ts_pc[q] # "idle"
        PROVE  2 * (ts_begin[q] - ts_begin[r]) < TsModulus
    BY <1>0, <2>1, <2>2 DEF ArmCounted, TsInTime
  <2>3. QED
    BY <2>1, <2>2 DEF ArmCounted, Near
<1>6. CASE TsCombine(r)
  <2>1. /\ ts_pc[r] = "combine" /\ ts_pc'[r] = "idle"
        /\ \A q \in TsReaderIds \ {r} :
             /\ ts_pc'[q] = ts_pc[q] /\ ts_begin'[q] = ts_begin[q]
             /\ ts_low'[q] = ts_low[q] /\ ts_copy'[q] = ts_copy[q]
        /\ UNCHANGED <<ts_high, ts_last_low, ts_stored>>
    BY <1>6 DEF TsCombine, TsReturns
  <2>2. QED
    BY <2>1 DEF ArmCounted, Near
<1>7. QED
  BY <1>1, <1>2, <1>3, <1>4, <1>5, <1>6 DEF TsArm

LEMMA ArmKeepsAlone ==
  ASSUME NEW r \in TsReaderIds, Types, ArmCounted, ArmAlone, ts_arch = "arm", TsArm(r),
         UNCHANGED <<ts_arch, ts_count>>
  PROVE  ArmAlone'
<1> USE DEF Types, tsGlobals, tsLocals
<1>0. TsModulus \in Nat \ {0}
  BY TsAssumption
<1> SUFFICES ASSUME ~ts_overlap' PROVE ArmAlone'
  BY DEF ArmAlone
<1>1. CASE TsSample(r)
  <2>1. /\ ~ts_overlap /\ \A q \in TsReaderIds : ts_pc[q] = "idle"
        /\ ts_pc'[r] = "compare" /\ ts_begin'[r] = ts_count
        /\ \A q \in TsReaderIds \ {r} : ts_pc'[q] = "idle"
        /\ UNCHANGED <<ts_high, ts_stored>>
    BY <1>1 DEF TsSample, TsBegin, TsGoto, TsActive
  <2>2. QED
    BY <2>1 DEF ArmAlone, ArmCounted
<1>2. CASE TsCompare(r)
  <2>1. /\ ts_pc[r] = "compare" /\ ~ts_overlap
        /\ ts_pc'[r] = IF ts_low[r] < ts_last_low THEN "load" ELSE "store_last"
        /\ \A q \in TsReaderIds \ {r} : ts_pc'[q] = ts_pc[q]
        /\ UNCHANGED <<ts_high, ts_last_low, ts_stored, ts_begin, ts_low, ts_copy>>
    BY <1>2 DEF TsCompare, TsGoto
  <2>2. /\ \A q \in TsReaderIds \ {r} : ts_pc[q] = "idle"
        /\ ts_high = Round(ts_stored) /\ ts_stored <= ts_begin[r]
        /\ ts_begin[r] \in Nat /\ ts_stored \in Nat
        /\ ts_begin[r] - ts_stored < TsModulus
        /\ ts_low[r] = ts_begin[r] % TsModulus /\ ts_last_low = ts_stored % TsModulus
    BY <1>0, <2>1 DEF ArmAlone, ArmCounted
  <2>3. IF ts_low[r] < ts_last_low THEN ts_high + 1 = Round(ts_begin[r])
                                   ELSE ts_high = Round(ts_begin[r])
    BY <2>2, NextRound, Rounds DEF TsLows
  <2>4. QED
    BY <2>1, <2>2, <2>3 DEF ArmAlone
<1>3. CASE TsLoad(r)
  <2>1. /\ ts_pc[r] = "load" /\ ts_pc'[r] = "store" /\ ts_copy'[r] = ts_high /\ ~ts_overlap
        /\ \A q \in TsReaderIds \ {r} : ts_pc'[q] = ts_pc[q]
        /\ UNCHANGED <<ts_high, ts_stored, ts_begin>>
    BY <1>3 DEF TsLoad, TsGoto
  <2>2. \A q \in TsReaderIds \ {r} : ts_pc[q] = "idle"
    BY <2>1 DEF ArmAlone
  <2>3. QED
    BY <2>1, <2>2 DEF ArmAlone
<1>4. CASE TsStore(r)
  <2>1. /\ ts_pc[r] = "store" /\ ts_pc'[r] = "store_last" /\ ts_high' = ts_copy[r] + 1
        /\ \A q \in TsReaderIds \ {r} : ts_pc'[q] = ts_pc[q]
        /\ ~ts_overlap /\ UNCHANGED <<ts_stored, ts_begin>>
    BY <1>4 DEF TsStore, TsGoto
  <2>2. \A q \in TsReaderIds \ {r} : ts_pc[q] = "idle"
    BY <2>1 DEF ArmAlone
  <2>3. QED
    BY <2>1, <2>2 DEF ArmAlone
<1>5. CASE TsStoreLast(r)
  <2>1. /\ ts_pc[r] = "store_last" /\ ts_pc'[r] = "combine"
        /\ ts_stored' = ts_begin[r] /\ ~ts_overlap
        /\ \A q \in TsReaderIds \ {r} : ts_pc'[q] = ts_pc[q]
        /\ UNCHANGED <<ts_high, ts_begin>>
    BY <1>5 DEF TsStoreLast, TsGoto
  <2>2. \A q \in TsReaderIds \ {r} : ts_pc[q] = "idle"
    BY <2>1 DEF ArmAlone
  <2>3. QED
    BY <2>1, <2>2 DEF ArmAlone
<1>6. CASE TsCombine(r)
  <2>1. /\ ts_pc[r] = "combine" /\ ts_pc'[r] = "idle" /\ ~ts_overlap
        /\ \A q \in TsReaderIds \ {r} : ts_pc'[q] = ts_pc[q]
        /\ UNCHANGED <<ts_high, ts_stored>>
    BY <1>6 DEF TsCombine, TsReturns
  <2>2. \A q \in TsReaderIds \ {r} : ts_pc[q] = "idle"
    BY <2>1 DEF ArmAlone
  <2>3. QED
    BY <2>1, <2>2 DEF ArmAlone
<1>7. QED
  BY <1>1, <1>2, <1>3, <1>4, <1>5, <1>6 DEF TsArm

\* What an ARM read returns: the rounds counted reach its own.
LEMMA ArmReturns ==
  ASSUME NEW r \in TsReaderIds, Types, ArmCounted, ArmAlone, ts_arch = "arm", TsArm(r),
         UNCHANGED <<ts_arch, ts_count>>
  PROVE  Returned'
<1>1. CASE TsCombine(r)
  <2> DEFINE round == Round(ts_begin[r])
  <2>1. /\ ts_returned' = {[begin |-> ts_begin[r],
                            value |-> ts_high * TsModulus + ts_low[r]]}
        /\ ts_pc[r] = "combine" /\ ts_overlap' = ts_overlap
    BY <1>1 DEF TsCombine, TsReturns
  <2>2. /\ ts_begin[r] \in Nat /\ ts_high \in Nat /\ TsModulus \in Nat /\ round \in Nat
        /\ round <= ts_high /\ ts_low[r] = ts_begin[r] % TsModulus
        /\ ts_low[r] \in Nat
        /\ ts_begin[r] = round * TsModulus + ts_low[r]
    BY <2>1, TsAssumption, Rounds, Parts DEF Types, ArmCounted
  <2>3. ~ts_overlap => ts_high = round
    BY <2>1 DEF ArmAlone
  <2>4. /\ round * TsModulus <= ts_high * TsModulus
        /\ round * TsModulus \in Nat /\ ts_high * TsModulus \in Nat
    BY <2>2, Products, Multiples
  <2> HIDE DEF round
  <2>5. ts_high * TsModulus + ts_low[r] >= ts_begin[r]
    BY <2>2, <2>4
  <2>6. ~ts_overlap => ts_high * TsModulus + ts_low[r] = ts_begin[r]
    BY <2>2, <2>3
  <2>7. \A read \in ts_returned' :
          /\ read.value >= read.begin
          /\ ~ts_overlap' => read.value = read.begin
    BY <2>1, <2>5, <2>6
  <2>8. QED
    BY <2>7 DEF Returned, TsArmNeverBehind, TsArmExact, TsRiscvExact
<1>2. CASE TsSample(r) \/ TsCompare(r) \/ TsLoad(r) \/ TsStore(r) \/ TsStoreLast(r)
  BY <1>2, NoneReturned
     DEF TsSample, TsBegin, TsCompare, TsLoad, TsStore, TsStoreLast, TsGoto
<1>3. QED
  BY <1>1, <1>2 DEF TsArm

LEMMA RiscvStep ==
  ASSUME NEW r \in TsReaderIds, Types, RiscvHalves, ts_arch = "riscv", TsInTime(r),
         TsRiscv(r), ts_arch' = ts_arch, ts_count' = ts_count + 1
  PROVE  Types' /\ RiscvHalves' /\ Returned'
<1> USE DEF tsGlobals, tsLocals
<1>0. /\ TsModulus \in Nat \ {0} /\ ts_begin[r] \in Nat /\ ts_count \in Nat
      /\ TsLow \in Nat /\ TsLow = ts_count % TsModulus
      /\ TsHigh \in Nat /\ TsHigh = Round(ts_count)
  BY TsAssumption, Rounds DEF Types, TsLow, TsHigh, Round
<1>1. CASE TsFirst(r)
  <2>1. /\ ts_pc' = [ts_pc EXCEPT ![r] = "high"] /\ ts_returned' = {}
        /\ ts_begin' = [ts_begin EXCEPT ![r] = ts_count]
        /\ ts_low' = [ts_low EXCEPT ![r] = TsLow] /\ ts_overlap' \in BOOLEAN
        /\ UNCHANGED <<ts_high, ts_last_low, ts_stored, ts_copy>>
    BY <1>1 DEF TsFirst, TsBegin, TsGoto, Types
  <2>2. Types'
    BY <1>0, <2>1 DEF Types, Labels, RiscvLabels
  <2>3. RiscvHalves'
    BY <1>0, <2>1 DEF Types, RiscvHalves
  <2>4. QED
    BY <2>1, <2>2, <2>3, NoneReturned
<1>2. CASE TsReadHigh(r)
  <2>1. /\ ts_pc[r] = "high" /\ ts_pc' = [ts_pc EXCEPT ![r] = "second"] /\ ts_returned' = {}
        /\ ts_copy' = [ts_copy EXCEPT ![r] = TsHigh]
        /\ UNCHANGED <<ts_high, ts_last_low, ts_stored, ts_begin, ts_low, ts_overlap>>
    BY <1>2 DEF TsReadHigh, TsGoto
  <2>2. Types'
    BY <1>0, <2>1 DEF Types, Labels, RiscvLabels
  <2>3. RiscvHalves'
    BY <1>0, <2>1 DEF Types, RiscvHalves
  <2>4. QED
    BY <2>1, <2>2, <2>3, NoneReturned
<1>3. CASE TsSecond(r)
  <2>1. PICK c \in Nat : ts_begin[r] <= c /\ c < ts_count /\ ts_copy[r] = Round(c)
    BY <1>3 DEF TsSecond, RiscvHalves
  <2>2. /\ ts_pc[r] = "second" /\ ts_low[r] = ts_begin[r] % TsModulus
        /\ ts_begin[r] < ts_count /\ ts_count - ts_begin[r] < TsModulus
    BY <1>0, <1>3, <2>1 DEF TsSecond, RiscvHalves, TsInTime
  <2>3. CASE ts_low[r] < TsLow
    <3>1. Round(ts_count) = Round(ts_begin[r])
      <4>1. \/ Round(ts_count) = Round(ts_begin[r])
            \/ ts_count % TsModulus < ts_begin[r] % TsModulus
        BY <1>0, <2>2, NextRound
      <4>2. QED
        BY <1>0, <2>2, <2>3, <4>1, Rounds
    <3>2. Round(c) = Round(ts_begin[r])
      <4>1. Round(ts_begin[r]) <= Round(c) /\ Round(c) <= Round(ts_count)
        BY <1>0, <2>1, LaterRounds
      <4>2. Round(ts_begin[r]) \in Nat /\ Round(c) \in Nat
        BY <1>0, Rounds
      <4>3. QED
        BY <3>1, <4>1, <4>2
    <3>3. ts_begin[r] = ts_copy[r] * TsModulus + ts_low[r]
      BY <1>0, <2>1, <2>2, <3>2, Parts
    <3>4. /\ ts_returned' = {[begin |-> ts_begin[r], value |-> ts_begin[r]]}
          /\ ts_pc' = [ts_pc EXCEPT ![r] = "idle"]
          /\ ts_begin' = [ts_begin EXCEPT ![r] = 0] /\ ts_low' = [ts_low EXCEPT ![r] = 0]
          /\ ts_copy' = [ts_copy EXCEPT ![r] = 0]
          /\ UNCHANGED <<ts_high, ts_last_low, ts_stored, ts_overlap>>
      BY <1>3, <2>3, <3>3 DEF TsSecond, TsReturns
    <3>5. Types'
      BY <1>0, <3>4 DEF Types, Labels, RiscvLabels
    <3>6. RiscvHalves'
      BY <1>0, <3>4 DEF Types, RiscvHalves
    <3>7. Returned'
      BY <1>0, <2>2, <3>4 DEF Returned, TsArmNeverBehind, TsArmExact, TsRiscvExact
    <3>8. QED
      BY <3>5, <3>6, <3>7
  <2>4. CASE ~(ts_low[r] < TsLow)
    <3>1. /\ ts_pc' = [ts_pc EXCEPT ![r] = "high_again"] /\ ts_returned' = {}
          /\ ts_low' = [ts_low EXCEPT ![r] = TsLow]
          /\ UNCHANGED <<ts_high, ts_last_low, ts_stored, ts_begin, ts_copy, ts_overlap>>
      BY <1>3, <2>4 DEF TsSecond, TsGoto
    <3>2. Types'
      BY <1>0, <3>1 DEF Types, Labels, RiscvLabels
    <3>3. TsLow <= ts_begin[r] % TsModulus
      BY <1>0, <2>2, <2>4, Rounds DEF TsLows
    <3>4. RiscvHalves'
      BY <1>0, <2>2, <3>1, <3>3 DEF Types, RiscvHalves
    <3>5. QED
      BY <3>1, <3>2, <3>4, NoneReturned
  <2>5. QED
    BY <2>3, <2>4
<1>4. CASE TsHighAgain(r)
  <2>1. PICK c \in Nat : /\ ts_begin[r] < c /\ c < ts_count
                         /\ ts_low[r] = c % TsModulus /\ ts_low[r] <= ts_begin[r] % TsModulus
    BY <1>4 DEF TsHighAgain, RiscvHalves
  <2>2. c - ts_begin[r] < TsModulus /\ ts_count - ts_begin[r] < TsModulus
    BY <1>0, <1>4, <2>1 DEF TsHighAgain, TsInTime
  <2>3. Round(c) = Round(ts_begin[r]) + 1
    <3>1. CASE Round(c) = Round(ts_begin[r])
      <4>1. ts_begin[r] % TsModulus = c % TsModulus
        <5>1. \/ ts_begin[r] % TsModulus <= c % TsModulus
              \/ Round(c) = Round(ts_begin[r]) + 1
          BY <1>0, <2>1, <2>2, ts_begin[r] <= c, NextRound
        <5>2. /\ Round(ts_begin[r]) \in Nat
              /\ ts_begin[r] % TsModulus \in Nat /\ c % TsModulus \in Nat
          BY <1>0, Rounds
        <5>3. QED
          BY <2>1, <3>1, <5>1, <5>2
      <4>2. ts_begin[r] = c
        BY <1>0, <3>1, <4>1, Parts
      <4>3. QED
        BY <1>0, <2>1, <4>2
    <3>2. QED
      BY <1>0, <2>1, <2>2, <3>1, NextRound
  <2>4. TsHigh = Round(c)
    <3>1. \/ Round(ts_count) = Round(ts_begin[r])
          \/ Round(ts_count) = Round(ts_begin[r]) + 1
      BY <1>0, <2>1, <2>2, NextRound, ts_begin[r] <= ts_count
    <3>2. Round(c) <= Round(ts_count)
      BY <1>0, <2>1, LaterRounds
    <3>3. QED
      BY <1>0, <2>3, <3>1, <3>2, Rounds
  <2>5. c = TsHigh * TsModulus + ts_low[r]
    BY <2>1, <2>4, Parts
  <2>6. /\ ts_returned' = {[begin |-> ts_begin[r], value |-> c]}
        /\ ts_pc' = [ts_pc EXCEPT ![r] = "idle"]
        /\ ts_begin' = [ts_begin EXCEPT ![r] = 0] /\ ts_low' = [ts_low EXCEPT ![r] = 0]
        /\ ts_copy' = [ts_copy EXCEPT ![r] = 0]
        /\ UNCHANGED <<ts_high, ts_last_low, ts_stored, ts_overlap>>
    BY <1>4, <2>5 DEF TsHighAgain, TsReturns
  <2>7. Types'
    BY <1>0, <2>6 DEF Types, Labels, RiscvLabels
  <2>8. RiscvHalves'
    BY <1>0, <2>6 DEF Types, RiscvHalves
  <2>9. Returned'
    BY <1>0, <2>1, <2>6 DEF Returned, TsArmNeverBehind, TsArmExact, TsRiscvExact
  <2>10. QED
    BY <2>7, <2>8, <2>9
<1>5. QED
  BY <1>1, <1>2, <1>3, <1>4 DEF TsRiscv

LEMMA CounterRuns ==
  ASSUME Inv, TsCycle, ts_returned' = {},
         UNCHANGED <<ts_arch, tsGlobals, ts_pc, tsLocals, ts_overlap>>
  PROVE  Inv' /\ Returned'
<1> USE DEF tsGlobals, tsLocals
<1>1. /\ ts_count \in Nat /\ ts_count' = ts_count + 1
      /\ UNCHANGED <<ts_arch, ts_high, ts_last_low, ts_stored, ts_pc, ts_begin, ts_low, ts_copy,
                     ts_overlap>>
  BY DEF TsCycle, Inv, Types
<1>2. Types'
  BY <1>1 DEF Inv, Types, Labels
<1>3. ASSUME ts_arch = "arm" PROVE ArmCounted' /\ ArmAlone'
  BY <1>1, <1>3 DEF Inv, Types, ArmCounted, ArmAlone, Near
<1>4. ASSUME ts_arch = "riscv" PROVE RiscvHalves'
  BY <1>1, <1>4 DEF Inv, Types, RiscvHalves
<1>5. QED
  BY <1>1, <1>2, <1>3, <1>4, NoneReturned DEF Inv

LEMMA Step == Inv /\ Returned /\ [TsNext]_tsVars => Inv' /\ Returned'
<1> SUFFICES ASSUME Inv, Returned, [TsNext]_tsVars PROVE Inv' /\ Returned'
  OBVIOUS
<1>1. CASE UNCHANGED tsVars
  BY <1>1 DEF tsVars, tsGlobals, tsLocals, Inv, Types, Labels, ArmCounted, ArmAlone, Near,
              RiscvHalves, Returned, TsArmNeverBehind, TsArmExact, TsRiscvExact
<1>2. ASSUME NEW r \in TsReaderIds, TsRead(r) PROVE Inv' /\ Returned'
  <2>1. CASE ts_arch = "arm" /\ TsArm(r) /\ UNCHANGED ts_count
    <3>1. TsInTime(r) /\ UNCHANGED <<ts_arch, ts_count>>
      BY <1>2, <2>1 DEF TsRead
    <3>2. Types' /\ ArmCounted' /\ ArmAlone' /\ Returned'
      BY <2>1, <3>1, ArmTypes, ArmKeepsCounted, ArmKeepsAlone, ArmReturns DEF Inv
    <3>3. QED
      BY <2>1, <3>1, <3>2 DEF Inv
  <2>2. CASE ts_arch = "riscv" /\ TsRiscv(r) /\ TsCycle
    <3>1. TsInTime(r) /\ ts_arch' = ts_arch /\ ts_count' = ts_count + 1
      BY <1>2, <2>2 DEF TsRead, TsCycle
    <3>2. Types' /\ RiscvHalves' /\ Returned'
      BY <2>2, <3>1, RiscvStep DEF Inv
    <3>3. QED
      BY <2>2, <3>1, <3>2 DEF Inv
  <2>3. QED
    BY <1>2, <2>1, <2>2 DEF TsRead
<1>3. CASE /\ TsCycle /\ ts_returned' = {}
           /\ UNCHANGED <<ts_arch, tsGlobals, ts_pc, tsLocals, ts_overlap>>
  BY <1>3, CounterRuns
<1>4. QED
  BY <1>1, <1>2, <1>3 DEF TsNext

LEMMA Always == TsSpec => [](Inv /\ Returned)
<1>1. TsInit => Inv /\ Returned
  BY Begins
<1>2. Inv /\ Returned /\ [TsNext]_tsVars => (Inv /\ Returned)'
  BY Step
<1>3. QED
  BY <1>1, <1>2, PTL DEF TsSpec

-----------------------------------------------------------------------------
\* On ARM no read returns a time before it began, for any number of readers that interrupt
\* one another at any place (ec_timestamp.c:61-71).
THEOREM TsNeverBehind == TsSpec => []TsArmNeverBehind
<1>1. Inv /\ Returned => TsArmNeverBehind
  BY DEF Returned
<1>2. QED
  BY <1>1, Always, PTL

\* On ARM reads that do not overlap return the cycle at which they read the counter
\* (ec_timestamp.c:61-71).
THEOREM TsAloneExact == TsSpec => []TsArmExact
<1>1. Inv /\ Returned => TsArmExact
  BY DEF Returned
<1>2. QED
  BY <1>1, Always, PTL

\* On RISC-V every read returns a cycle between its beginning and its end
\* (ec_timestamp.c:16-29).
THEOREM TsHalvesFit == TsSpec => []TsRiscvExact
<1>1. Inv /\ Returned => TsRiscvExact
  BY DEF Returned
<1>2. QED
  BY <1>1, Always, PTL

-----------------------------------------------------------------------------
(***************************************************************************)
(* DcTopology.                                                             *)
(***************************************************************************)
WiringTypes ==
  /\ dc_pc \in {"idle", "connected", "topology", "found", "failed"}
  /\ dc_parent \in [DcIds \ {0} -> DcIds]
  /\ dc_port \in [DcIds \ {0} -> DcPorts \ {0}]
  /\ dc_next \in [DcIds -> [DcPorts -> DcIds \cup {DcNone}]]
  /\ dc_position \in DcIds
  /\ dc_at \in DcIds
  /\ dc_index \in [DcIds -> DcPorts]

Wired == dc_pc # "idle" => DcWired(dc_parent, dc_port)

Untouched ==
  dc_pc \in {"idle", "connected"} =>
    /\ dc_position = 0
    /\ \A s \in DcIds : dc_index[s] = 0 /\ \A p \in DcPorts : dc_next[s][p] = DcNone

\* The slaves whose call has not returned.
Called(s) == s = dc_at \/ dc_index[s] # 0

\* They are the last one and those between it and the master.
PathUp ==
  /\ dc_at <= dc_position
  /\ \A s \in DcIds : Called(s) => s <= dc_at
  /\ \A s \in DcIds \ {0} : Called(s) => Called(dc_parent[s])
  /\ \A s \in DcIds, t \in DcIds : Called(s) /\ Called(t) /\ s < t => s <= dc_parent[t]

\* The order in which the loop comes to a port; 0 is its end.
Place(p) == IF p = 0 THEN 4 ELSE DcRank[p]

\* The call for slave s has been at port p and gone on to what is behind it.
BeenAt(s, p) ==
  IF s = dc_at THEN Place(p) < Place(dc_index[s]) ELSE Place(p) <= Place(dc_index[s])

\* Just those slaves are visited whose port has been looked at in a call.
Visited ==
  \A t \in DcIds \ {0} :
    t <= dc_position <=> dc_parent[t] <= dc_position /\ BeenAt(dc_parent[t], dc_port[t])

\* The neighbours of the slaves visited, and no others, are there.
Neighbours ==
  /\ \A s \in DcIds :
       dc_next[s][0] = IF s = 0 \/ s > dc_position THEN DcNone ELSE dc_parent[s]
  /\ \A t \in DcIds \ {0} : t <= dc_position => dc_next[dc_parent[t]][dc_port[t]] = t
  /\ \A s \in DcIds, p \in DcPorts \ {0} : p \notin DcOpen(s) => dc_next[s][p] = DcNone

WiringInv ==
  /\ WiringTypes
  /\ Wired
  /\ Untouched
  /\ dc_pc # "failed"
  /\ dc_pc = "topology" => PathUp /\ Visited /\ Neighbours
  /\ dc_pc = "found" => Neighbours /\ dc_position = DcSlaves - 1

LEMMA Slaves ==
  /\ 0 \in DcIds /\ DcIds \subseteq Nat /\ DcSlaves \in Nat /\ DcNone \notin DcIds
  /\ \A s \in Nat : s \in DcIds <=> s < DcSlaves
BY DcAssumption DEF DcIds, DcNone

\* A loop goes from each port to the one in the next place.
LEMMA Places ==
  /\ \A p \in DcPorts : Place(p) \in 1 .. 4 /\ (p # 0 => Place(p) = DcRank[p] /\ Place(p) < 4)
  /\ Place(3) = 1 /\ Place(0) = 4
  /\ \A p \in DcPorts, q \in DcPorts : Place(p) = Place(q) => p = q
  /\ \A p \in DcPorts \ {0} : DcNextTable[p] \in DcPorts /\ Place(DcNextTable[p]) = Place(p) + 1
BY DEF DcPorts, Place, DcRank, DcNextTable

\* The ports that are open are those with a neighbour.
LEMMA OpenPorts ==
  ASSUME WiringTypes, NEW s \in DcIds, NEW p \in DcPorts
  PROVE  p \in DcOpen(s) <=> \E t \in DcIds \ {0} : dc_parent[t] = s /\ dc_port[t] = p
<1>1. \A t \in DcIds \ {0} : DcRank[dc_port[t]] <= 3
  BY DEF WiringTypes, DcPorts, DcRank
<1> QED
  BY <1>1 DEF DcOpen, DcBehind

LEMMA WiredFacts ==
  ASSUME WiringTypes, DcWired(dc_parent, dc_port), NEW s \in DcIds \ {0}
  PROVE  /\ dc_parent[s] \in DcIds /\ dc_parent[s] < s
         /\ dc_port[s] \in DcPorts /\ dc_port[s] # 0
         /\ \A t \in DcIds \ {0} : dc_parent[s] < t /\ t < s => dc_parent[t] >= dc_parent[s]
         /\ \A t \in DcIds \ {0} :
              t < s /\ dc_parent[t] = dc_parent[s] => Place(dc_port[t]) < Place(dc_port[s])
<1>1. \A t \in DcIds \ {0} : dc_parent[t] \in DcIds /\ dc_port[t] \in DcPorts \ {0}
  BY DEF WiringTypes
<1>2. \A t \in DcIds \ {0} : Place(dc_port[t]) = DcRank[dc_port[t]]
  BY <1>1, Places
<1>3. /\ dc_parent[s] < s
      /\ \A t \in DcIds \ {0} :
           /\ dc_parent[s] < t /\ t < s => dc_parent[t] >= dc_parent[s]
           /\ t < s /\ dc_parent[t] = dc_parent[s] => DcRank[dc_port[t]] < DcRank[dc_port[s]]
  BY DEF DcWired
<1>4. \A t \in DcIds \ {0} :
        t < s /\ dc_parent[t] = dc_parent[s] => Place(dc_port[t]) < Place(dc_port[s])
  BY <1>2, <1>3
<1> QED
  BY <1>1, <1>3, <1>4

\* The slave behind the port that the innermost call looks at is the next one in number:
\* the frame has come to all that is before it.
LEMMA NextInLine ==
  ASSUME WiringTypes, DcWired(dc_parent, dc_port), PathUp, Visited,
         dc_index[dc_at] # 0, dc_index[dc_at] \in DcOpen(dc_at)
  PROVE  /\ dc_position + 1 \in DcIds \ {0}
         /\ dc_parent[dc_position + 1] = dc_at
         /\ dc_port[dc_position + 1] = dc_index[dc_at]
<1> DEFINE q == dc_position + 1
           p == dc_index[dc_at]
<1>1. /\ dc_at \in DcIds /\ dc_at \in Nat /\ dc_position \in DcIds /\ dc_position \in Nat
      /\ dc_at <= dc_position /\ p \in DcPorts
  BY Slaves DEF WiringTypes, PathUp
<1>2. PICK t \in DcIds \ {0} : dc_parent[t] = dc_at /\ dc_port[t] = p
  BY <1>1, OpenPorts
<1>3. t > dc_position
  BY <1>1, <1>2, Slaves, Places DEF Visited, BeenAt
<1>4. q \in DcIds \ {0} /\ q <= t /\ t \in Nat
  BY <1>1, <1>3, Slaves
<1> DEFINE m == dc_parent[q]
<1>5. /\ m \in DcIds /\ m \in Nat /\ m < q /\ m <= dc_position
      /\ dc_port[q] \in DcPorts /\ dc_port[q] # 0
  <2>1. m \in DcIds /\ m < q /\ dc_port[q] \in DcPorts /\ dc_port[q] # 0
    BY <1>4, WiredFacts
  <2>2. m \in Nat
    BY <2>1, Slaves
  <2> HIDE DEF m
  <2> QED
    BY <2>1, <2>2, <1>1
<1>6. ~BeenAt(m, dc_port[q])
  BY <1>1, <1>4, <1>5 DEF Visited
<1>7. m = dc_at
  <2>1. SUFFICES ASSUME m # dc_at PROVE FALSE
    OBVIOUS
  <2>2. Place(dc_port[q]) > Place(dc_index[m])
    BY <1>5, <1>6, <2>1, Places DEF BeenAt, WiringTypes
  <2>3. dc_index[m] # 0
    BY <1>5, <2>2, Places
  <2>4. m < dc_at
    BY <1>1, <1>5, <2>1, <2>3 DEF PathUp, Called
  <2>5. CASE q = t
    BY <2>5, <1>2, <2>1
  <2>6. CASE q # t
    <3>1. q < t /\ dc_at < q
      BY <2>6, <1>1, <1>4
    <3>2. m >= dc_at
      BY <3>1, <1>2, <1>4, WiredFacts
    <3> QED
      BY <3>2, <2>4, <1>1, <1>5
  <2> QED
    BY <2>5, <2>6
<1>8. q = t
  <2>1. SUFFICES ASSUME q < t PROVE FALSE
    BY <1>1, <1>4
  <2>2. Place(dc_port[q]) < Place(p)
    BY <2>1, <1>2, <1>4, <1>7, WiredFacts
  <2> QED
    BY <2>2, <1>6, <1>7 DEF BeenAt
<1> QED
  BY <1>2, <1>4, <1>8

\* When the first call is over, no slave is left.
LEMMA AllVisited ==
  ASSUME WiringTypes, DcWired(dc_parent, dc_port), PathUp, Visited,
         dc_at = 0, dc_index[0] = 0
  PROVE  dc_position = DcSlaves - 1
<1> DEFINE q == dc_position + 1
<1>1. dc_position \in DcIds /\ dc_position \in Nat
  BY Slaves DEF WiringTypes
<1>2. SUFFICES ASSUME q \in DcIds \ {0} PROVE FALSE
  BY <1>1, Slaves
<1> DEFINE m == dc_parent[q]
<1>3. /\ m \in DcIds /\ m \in Nat /\ m <= dc_position
      /\ dc_port[q] \in DcPorts /\ dc_port[q] # 0
  <2>1. m \in DcIds /\ m < q /\ dc_port[q] \in DcPorts /\ dc_port[q] # 0
    BY <1>2, WiredFacts
  <2>2. m \in Nat
    BY <2>1, Slaves
  <2> HIDE DEF m
  <2> QED
    BY <2>1, <2>2, <1>1
<1>4. ~BeenAt(m, dc_port[q])
  BY <1>1, <1>2, <1>3 DEF Visited
<1>5. m # 0
  BY <1>3, <1>4, Places DEF BeenAt
<1>6. dc_index[m] # 0
  BY <1>3, <1>4, <1>5, Places DEF BeenAt
<1> QED
  BY <1>3, <1>5, <1>6 DEF PathUp, Called

-----------------------------------------------------------------------------
(***************************************************************************)
(* The traversal, step by step.                                            *)
(***************************************************************************)
LEMMA FirstCall ==
  ASSUME WiringInv, DcCalcTopology
  PROVE  WiringInv'
<1> USE DEF WiringInv
<1>1. /\ dc_pc = "connected" /\ dc_pc' = "topology" /\ UNCHANGED <<dc_parent, dc_port>>
      /\ dc_position' = 0 /\ dc_at' = 0
      /\ dc_next' = [dc_next EXCEPT ![0][0] = DcNone]
      /\ dc_index' = [dc_index EXCEPT ![0] = 3]
  BY DEF DcCalcTopology, DcCall, dcWiring
<1>2. WiringTypes'
  BY <1>1, Slaves DEF WiringTypes, DcPorts
<1>3. Wired' /\ Untouched'
  BY <1>1 DEF Wired, Untouched
<1>4. /\ \A s \in DcIds : dc_index'[s] = IF s = 0 THEN 3 ELSE 0
      /\ \A s \in DcIds, p \in DcPorts : dc_next'[s][p] = DcNone
  BY <1>1, Slaves DEF WiringTypes, Untouched, DcPorts
<1>5. PathUp'
  BY <1>1, <1>4, Slaves DEF PathUp, Called
<1>6. ASSUME NEW t \in DcIds \ {0}
      PROVE  ~(t <= 0) /\ ~(dc_parent[t] <= 0 /\ BeenAt(dc_parent[t], dc_port[t])')
  <2>1. dc_parent[t] \in DcIds /\ dc_port[t] \in DcPorts
    BY DEF WiringTypes
  <2>2. dc_parent[t] <= 0 => dc_parent[t] = 0
    <3>1. dc_parent[t] \in Nat
      BY <2>1, Slaves
    <3> QED
      BY <3>1
  <2>3. ~(Place(dc_port[t]) < Place(3))
    BY <2>1, Places
  <2> QED
    BY <1>1, <1>4, <2>1, <2>2, <2>3, Slaves DEF BeenAt
<1>7. Visited'
  BY <1>1, <1>6 DEF Visited
<1>8. Neighbours'
  <2>1. \A s \in DcIds : s = 0 \/ s > 0
    BY Slaves
  <2>2. \A t \in DcIds \ {0} : ~(t <= 0)
    BY Slaves
  <2> QED
    BY <1>1, <1>4, <2>1, <2>2 DEF Neighbours, DcPorts
<1> QED
  BY <1>1, <1>2, <1>3, <1>5, <1>7, <1>8

\* A port without a neighbour is passed by, and nobody is behind it.
LEMMA PassesPort ==
  ASSUME WiringInv, DcClosedPort
  PROVE  WiringInv'
<1> USE DEF WiringInv
<1> DEFINE p == dc_index[dc_at]
<1>1. /\ dc_pc = "topology"
      /\ p # 0 /\ p \notin DcOpen(dc_at)
      /\ dc_index' = [dc_index EXCEPT ![dc_at] = DcNextTable[p]]
      /\ UNCHANGED <<dc_pc, dc_parent, dc_port, dc_next, dc_position, dc_at>>
  BY DEF DcClosedPort, dcWiring
<1>2. /\ dc_at \in DcIds /\ p \in DcPorts \ {0}
      /\ DcNextTable[p] \in DcPorts /\ Place(DcNextTable[p]) = Place(p) + 1
  BY <1>1, Places DEF WiringTypes
<1>3. WiringTypes'
  BY <1>1, <1>2 DEF WiringTypes
<1>4. Wired' /\ Untouched'
  BY <1>1 DEF Wired, Untouched
<1>5. \A s \in DcIds : dc_index'[s] = IF s = dc_at THEN DcNextTable[p] ELSE dc_index[s]
  BY <1>1 DEF WiringTypes
<1>6. \A s \in DcIds : Called(s)' <=> Called(s)
  BY <1>1, <1>5 DEF Called
<1>7. PathUp'
  <2>1. \A s \in DcIds \ {0} : dc_parent[s] \in DcIds
    BY DEF WiringTypes
  <2> QED
    BY <1>1, <1>6, <2>1 DEF PathUp
<1>8. ASSUME NEW t \in DcIds \ {0}
      PROVE  BeenAt(dc_parent[t], dc_port[t])' <=> BeenAt(dc_parent[t], dc_port[t])
  <2>1. dc_parent[t] \in DcIds /\ dc_port[t] \in DcPorts
    BY DEF WiringTypes
  <2>2. CASE dc_parent[t] = dc_at
    <3>1. dc_port[t] # p
      BY <1>1, <1>2, <2>2, OpenPorts
    <3>2. Place(dc_port[t]) # Place(p)
      BY <1>2, <2>1, <3>1, Places
    <3>3. Place(dc_port[t]) < Place(p) + 1 <=> Place(dc_port[t]) < Place(p)
      BY <1>2, <2>1, <3>2, Places
    <3> QED
      BY <1>1, <1>2, <1>5, <2>2, <3>3 DEF BeenAt
  <2>3. CASE dc_parent[t] # dc_at
    BY <1>1, <1>5, <2>1, <2>3 DEF BeenAt
  <2> QED
    BY <2>2, <2>3
<1>9. Visited'
  BY <1>1, <1>8 DEF Visited
<1>10. Neighbours'
  BY <1>1 DEF Neighbours, DcOpen, DcBehind
<1> QED
  BY <1>1, <1>3, <1>4, <1>7, <1>9, <1>10

LEMMA EntersSlave ==
  ASSUME WiringInv, DcOpenPort
  PROVE  WiringInv'
<1> USE DEF WiringInv
<1> DEFINE p == dc_index[dc_at]
           q == dc_position + 1
<1>1. dc_pc = "topology" /\ p # 0 /\ p \in DcOpen(dc_at) /\ UNCHANGED <<dc_parent, dc_port>>
  BY DEF DcOpenPort, dcWiring
<1>2. q \in DcIds \ {0} /\ dc_parent[q] = dc_at /\ dc_port[q] = p
  BY <1>1, NextInLine DEF Wired
<1>3. /\ dc_at \in DcIds /\ dc_at \in Nat /\ p \in DcPorts \ {0}
      /\ dc_position \in DcIds /\ dc_position \in Nat /\ dc_at <= dc_position
      /\ q < DcSlaves /\ q \in Nat
  BY <1>1, <1>2, Slaves DEF WiringTypes, PathUp
<1>4. /\ dc_pc' = "topology" /\ dc_position' = q /\ dc_at' = q
      /\ dc_next' = [dc_next EXCEPT ![dc_at][p] = q, ![q][0] = dc_at]
      /\ dc_index' = [dc_index EXCEPT ![q] = 3]
  <2>1. DcCall([dc_next EXCEPT ![dc_at][p] = q], q, dc_at) /\ UNCHANGED dc_pc
    BY <1>3 DEF DcOpenPort
  <2> QED
    BY <1>1, <2>1 DEF DcCall
<1>5. WiringTypes'
  BY <1>1, <1>2, <1>3, <1>4 DEF WiringTypes, DcPorts
<1>6. Wired' /\ Untouched'
  BY <1>1, <1>4 DEF Wired, Untouched
<1>7. \A s \in DcIds : dc_index'[s] = IF s = q THEN 3 ELSE dc_index[s]
  BY <1>2, <1>4 DEF WiringTypes
<1>8. \A s \in DcIds : Called(s)' <=> s = q \/ Called(s)
  BY <1>1, <1>4, <1>7 DEF Called
<1>9. \A s \in DcIds : s \in Nat
  BY Slaves
<1>10. \A s \in DcIds : Called(s) => s <= dc_at
  BY <1>1 DEF PathUp
<1>11. PathUp'
  <2>1. \A s \in DcIds \ {0} : dc_parent[s] \in DcIds
    BY DEF WiringTypes
  <2>2. \A s \in DcIds : Called(s)' => s <= q
    BY <1>3, <1>8, <1>9, <1>10
  <2>3. \A s \in DcIds \ {0} : Called(s)' => Called(dc_parent[s])'
    <3>1. Called(dc_at)
      BY DEF Called
    <3> QED
      BY <1>1, <1>2, <1>3, <1>8, <2>1, <3>1 DEF PathUp
  <2>4. ASSUME NEW s \in DcIds, NEW t \in DcIds, Called(s)', Called(t)', s < t
        PROVE  s <= dc_parent[t]
    <3>1. CASE t = q
      BY <1>2, <1>8, <1>10, <2>4, <3>1
    <3>2. CASE t # q
      <4>1. Called(t) /\ t <= dc_at
        BY <1>8, <1>10, <2>4, <3>2
      <4>2. Called(s)
        BY <1>3, <1>8, <1>9, <2>4, <4>1
      <4> QED
        BY <1>1, <2>4, <4>1, <4>2 DEF PathUp
    <3> QED
      BY <3>1, <3>2
  <2>5. q <= q
    BY <1>3
  <2> QED
    BY <1>1, <1>4, <2>2, <2>3, <2>4, <2>5 DEF PathUp
<1>12. Visited'
  <2>1. ASSUME NEW t \in DcIds \ {0}
        PROVE  t <= q <=> dc_parent[t] <= q /\ BeenAt(dc_parent[t], dc_port[t])'
    <3>1. PICK m, o : m = dc_parent[t] /\ o = dc_port[t]
      OBVIOUS
    <3>2. m \in DcIds /\ m < t /\ o \in DcPorts /\ o # 0
      BY <1>1, <3>1, WiredFacts DEF Wired
    <3>3. m \in Nat /\ t \in Nat
      BY <1>9, <3>2
    <3>4. t <= dc_position <=> m <= dc_position /\ BeenAt(m, o)
      BY <1>1, <3>1 DEF Visited
    <3>5. SUFFICES t <= q <=> m <= q /\ BeenAt(m, o)'
      BY <1>1, <3>1
    <3>6. CASE m = q
      <4>1. BeenAt(m, o)' <=> Place(o) < Place(3)
        BY <1>4, <1>7, <3>2, <3>6 DEF BeenAt
      <4>2. ~BeenAt(m, o)'
        BY <4>1, <3>2, Places
      <4>3. ~(t <= q)
        BY <3>2, <3>6, <3>3, <1>3
      <4> QED
        BY <4>2, <4>3
    <3>7. CASE m = dc_at
      <4>1. BeenAt(m, o)' <=> Place(o) <= Place(p)
        BY <1>3, <1>4, <1>7, <3>7 DEF BeenAt
      <4>2. t <= dc_position <=> Place(o) < Place(p)
        BY <1>3, <3>4, <3>7 DEF BeenAt
      <4>3. t > q => Place(p) < Place(o)
        <5>1. HAVE t > q
        <5>2. q < t /\ dc_parent[q] = dc_parent[t]
          BY <1>2, <3>1, <3>7, <5>1, <1>3, <3>3
        <5> QED
          BY <1>1, <1>2, <3>1, <5>2, WiredFacts DEF Wired
      <4>4. Place(p) \in Nat /\ Place(o) \in Nat
        BY <1>3, <3>2, Places
      <4>5. t = q => Place(o) = Place(p)
        BY <1>2, <3>1
      <4> HIDE DEF p
      <4> QED
        BY <1>3, <3>3, <3>7, <4>1, <4>2, <4>3, <4>4, <4>5
    <3>8. CASE m # q /\ m # dc_at
      <4>1. BeenAt(m, o)' <=> BeenAt(m, o)
        BY <1>4, <1>7, <3>2, <3>8 DEF BeenAt
      <4>2. t # q
        BY <1>2, <3>1, <3>8
      <4> QED
        BY <1>3, <3>3, <3>4, <3>8, <4>1, <4>2
    <3> QED
      BY <3>6, <3>7, <3>8
  <2> QED
    BY <1>1, <1>4, <2>1 DEF Visited
<1>13. Neighbours'
  <2>1. /\ \A s \in DcIds, o \in DcPorts \ {0} :
             dc_next'[s][o] = IF s = dc_at /\ o = p THEN q ELSE dc_next[s][o]
        /\ \A s \in DcIds : dc_next'[s][0] = IF s = q THEN dc_at ELSE dc_next[s][0]
    <3>1. dc_at # q
      BY <1>3
    <3>2. \A s \in DcIds :
            dc_next'[s] = IF s = q THEN [dc_next[s] EXCEPT ![0] = dc_at]
                          ELSE IF s = dc_at THEN [dc_next[s] EXCEPT ![p] = q] ELSE dc_next[s]
      BY <1>2, <1>3, <1>4, <3>1 DEF WiringTypes
    <3>3. \A s \in DcIds : dc_next[s] \in [DcPorts -> DcIds \cup {DcNone}]
      BY DEF WiringTypes
    <3>4. 0 \in DcPorts /\ p # 0
      BY <1>3 DEF DcPorts
    <3> HIDE DEF p, q
    <3> QED
      BY <3>1, <3>2, <3>3, <3>4
  <2>2. ASSUME NEW s \in DcIds
        PROVE  dc_next'[s][0] = IF s = 0 \/ s > q THEN DcNone ELSE dc_parent[s]
    <3>1. dc_next[s][0] = IF s = 0 \/ s > dc_position THEN DcNone ELSE dc_parent[s]
      BY <1>1 DEF Neighbours
    <3>2. dc_next'[s][0] = IF s = q THEN dc_at ELSE dc_next[s][0]
      BY <2>1
    <3>3. s \in Nat
      BY <1>9
    <3>4. CASE s = q
      BY <1>2, <1>3, <3>2, <3>3, <3>4
    <3>5. CASE s # q
      <4>1. s > dc_position <=> s > q
        BY <1>3, <3>3, <3>5
      <4> QED
        BY <3>1, <3>2, <3>5, <4>1
    <3> QED
      BY <3>4, <3>5
  <2>3. ASSUME NEW t \in DcIds \ {0}, t <= q
        PROVE  dc_next'[dc_parent[t]][dc_port[t]] = t
    <3>1. dc_parent[t] \in DcIds /\ dc_port[t] \in DcPorts \ {0}
      BY DEF WiringTypes
    <3>2. CASE t = q
      BY <1>2, <1>3, <2>1, <3>2
    <3>3. CASE t # q
      <4>1. t <= dc_position
        BY <1>3, <1>9, <2>3, <3>3
      <4>2. ~(dc_parent[t] = dc_at /\ dc_port[t] = p)
        <5>1. SUFFICES ASSUME dc_parent[t] = dc_at, dc_port[t] = p PROVE FALSE
          OBVIOUS
        <5>2. Place(p) < Place(p)
          BY <1>1, <4>1, <5>1 DEF Visited, BeenAt
        <5> QED
          BY <1>3, <5>2, Places
      <4> QED
        BY <1>1, <2>1, <3>1, <4>1, <4>2 DEF Neighbours
    <3> QED
      BY <3>2, <3>3
  <2>4. ASSUME NEW s \in DcIds, NEW o \in DcPorts \ {0}, o \notin DcOpen(s)
        PROVE  dc_next'[s][o] = DcNone
    BY <1>1, <2>1, <2>4 DEF Neighbours
  <2>5. \A s \in DcIds : DcOpen(s)' = DcOpen(s)
    BY <1>1 DEF DcOpen, DcBehind
  <2> QED
    BY <1>1, <1>4, <2>2, <2>3, <2>4, <2>5 DEF Neighbours
<1> QED
  BY <1>4, <1>5, <1>6, <1>11, <1>12, <1>13

\* A call that is over has been at all that is behind its slave; the caller goes on.
LEMMA ReturnsToCaller ==
  ASSUME WiringInv, DcReturn
  PROVE  WiringInv'
<1> USE DEF WiringInv
<1> DEFINE c == dc_next[dc_at][0]
<1>1. /\ dc_pc = "topology" /\ dc_index[dc_at] = 0 /\ c # DcNone
      /\ dc_at' = c
      /\ dc_index' = [dc_index EXCEPT ![c] = DcNextTable[dc_index[c]]]
      /\ UNCHANGED <<dc_pc, dc_parent, dc_port, dc_next, dc_position>>
  BY DEF DcReturn, dcWiring
<1>2. /\ dc_at \in DcIds /\ dc_at <= dc_position /\ dc_position \in DcIds
      /\ \A s \in DcIds : s \in Nat
  BY <1>1, Slaves DEF WiringTypes, PathUp
<1>3. dc_at # 0 /\ c = dc_parent[dc_at]
  BY <1>1, <1>2 DEF Neighbours
<1>4. c \in DcIds /\ c < dc_at /\ Called(c)
  <2>1. Called(dc_at)
    BY DEF Called
  <2> QED
    BY <1>1, <1>2, <1>3, <2>1, WiredFacts DEF Wired, PathUp
<1>5. dc_index[c] \in DcPorts \ {0}
  BY <1>2, <1>4 DEF Called, WiringTypes
<1>6. DcNextTable[dc_index[c]] \in DcPorts /\ Place(DcNextTable[dc_index[c]]) = Place(dc_index[c]) + 1
  BY <1>5, Places
<1>7. WiringTypes'
  BY <1>1, <1>4, <1>6 DEF WiringTypes
<1>8. Wired' /\ Untouched'
  BY <1>1 DEF Wired, Untouched
<1>9. \A s \in DcIds : dc_index'[s] = IF s = c THEN DcNextTable[dc_index[c]] ELSE dc_index[s]
  BY <1>1, <1>4 DEF WiringTypes
<1>10. \A s \in DcIds : Called(s)' <=> Called(s) /\ s # dc_at
  BY <1>1, <1>2, <1>4, <1>9 DEF Called
<1>11. PathUp'
  <2>1. \A s \in DcIds \ {0} : dc_parent[s] \in DcIds /\ dc_parent[s] < s
    BY <1>1, WiredFacts DEF Wired
  <2>2. c <= dc_position
    BY <1>2, <1>4
  <2>3. ASSUME NEW s \in DcIds, Called(s)' PROVE s <= c
    <3>1. Called(s) /\ s < dc_at
      BY <1>1, <1>2, <1>10, <2>3 DEF PathUp
    <3>2. Called(dc_at)
      BY DEF Called
    <3> QED
      BY <1>1, <1>2, <1>3, <3>1, <3>2 DEF PathUp
  <2>4. ASSUME NEW s \in DcIds \ {0}, Called(s)' PROVE Called(dc_parent[s])'
    <3>1. Called(dc_parent[s])
      BY <1>1, <1>10, <2>4 DEF PathUp
    <3>2. s <= c /\ dc_parent[s] < s /\ dc_parent[s] \in DcIds
      BY <2>1, <2>3, <2>4
    <3>3. PICK m : m = dc_parent[s]
      OBVIOUS
    <3>4. m # dc_at
      BY <1>2, <1>4, <3>2, <3>3
    <3>5. Called(m)'
      BY <1>10, <3>1, <3>2, <3>3, <3>4
    <3> QED
      BY <1>1, <3>3, <3>5 DEF Called
  <2>5. \A s \in DcIds, t \in DcIds : Called(s)' /\ Called(t)' /\ s < t => s <= dc_parent[t]
    BY <1>1, <1>10 DEF PathUp
  <2> QED
    BY <1>1, <2>2, <2>3, <2>4, <2>5 DEF PathUp
<1>12. ASSUME NEW t \in DcIds \ {0}
       PROVE  BeenAt(dc_parent[t], dc_port[t])' <=> BeenAt(dc_parent[t], dc_port[t])
  <2> DEFINE m == dc_parent[t]
  <2>1. m \in DcIds /\ dc_port[t] \in DcPorts /\ dc_port[t] # 0
    BY DEF WiringTypes
  <2>2. CASE m = c
    <3>1. BeenAt(m, dc_port[t])' <=> Place(dc_port[t]) < Place(dc_index[c]) + 1
      BY <1>1, <1>6, <1>9, <2>1, <2>2 DEF BeenAt
    <3>2. BeenAt(m, dc_port[t]) <=> Place(dc_port[t]) <= Place(dc_index[c])
      BY <1>2, <1>4, <2>2 DEF BeenAt
    <3>3. Place(dc_port[t]) \in Nat /\ Place(dc_index[c]) \in Nat
      BY <1>5, <2>1, Places
    <3> QED
      BY <3>1, <3>2, <3>3
  <2>3. CASE m = dc_at
    <3>1. BeenAt(m, dc_port[t])' <=> Place(dc_port[t]) <= Place(0)
      BY <1>1, <1>2, <1>4, <1>9, <2>3 DEF BeenAt
    <3>2. BeenAt(m, dc_port[t]) <=> Place(dc_port[t]) < Place(0)
      BY <1>1, <2>3 DEF BeenAt
    <3> QED
      BY <3>1, <3>2, <2>1, Places
  <2>4. CASE m # c /\ m # dc_at
    BY <1>1, <1>9, <2>1, <2>4 DEF BeenAt
  <2> QED
    BY <2>2, <2>3, <2>4
<1>13. Visited'
  BY <1>1, <1>12 DEF Visited
<1>14. Neighbours'
  BY <1>1 DEF Neighbours, DcOpen, DcBehind
<1> QED
  BY <1>1, <1>7, <1>8, <1>11, <1>13, <1>14

LEMMA TraversalEnds ==
  ASSUME WiringInv, DcReturnLast
  PROVE  WiringInv'
<1> USE DEF WiringInv
<1>1. /\ dc_pc = "topology" /\ dc_index[dc_at] = 0 /\ dc_next[dc_at][0] = DcNone
      /\ dc_pc' = "found"
      /\ UNCHANGED <<dc_parent, dc_port, dc_next, dc_position, dc_at, dc_index>>
  BY DEF DcReturnLast, dcWiring
<1>2. dc_at = 0
  <2>1. SUFFICES ASSUME dc_at # 0 PROVE FALSE
    OBVIOUS
  <2>2. dc_at \in DcIds \ {0} /\ ~(dc_at > dc_position)
    BY <1>1, <2>1, Slaves DEF WiringTypes, PathUp
  <2>3. dc_parent[dc_at] = DcNone
    BY <1>1, <2>2 DEF Neighbours
  <2>4. dc_parent[dc_at] \in DcIds
    BY <2>2 DEF WiringTypes
  <2> QED
    BY <2>3, <2>4, Slaves
<1>3. dc_position = DcSlaves - 1
  BY <1>1, <1>2, AllVisited DEF Wired
<1>4. WiringTypes' /\ Wired' /\ Untouched'
  BY <1>1 DEF WiringTypes, Wired, Untouched
<1>5. Neighbours'
  BY <1>1 DEF Neighbours, DcOpen, DcBehind
<1> QED
  BY <1>1, <1>3, <1>4, <1>5

LEMMA WiringInitially == DcWiringInit => WiringInv
BY Slaves DEF DcWiringInit, WiringInv, WiringTypes, Wired, Untouched, DcPorts

LEMMA WiringStep == WiringInv /\ [DcWiringNext]_dcWiringVars => WiringInv'
<1> SUFFICES ASSUME WiringInv, [DcWiringNext]_dcWiringVars PROVE WiringInv'
  OBVIOUS
<1>1. CASE DcConnect
  <2>1. /\ dc_pc = "idle" /\ dc_pc' = "connected" /\ DcWired(dc_parent, dc_port)'
        /\ dc_parent' \in [DcIds \ {0} -> DcIds]
        /\ dc_port' \in [DcIds \ {0} -> DcPorts \ {0}]
        /\ UNCHANGED <<dc_next, dc_position, dc_at, dc_index>>
    BY <1>1 DEF DcConnect, DcWired
  <2> QED
    BY <2>1 DEF WiringInv, WiringTypes, Wired, Untouched
<1>2. CASE DcTraverse
  BY <1>2, FirstCall, PassesPort, EntersSlave, ReturnsToCaller, TraversalEnds DEF DcTraverse
<1>3. CASE UNCHANGED dcWiringVars
  BY <1>3 DEF dcWiringVars, dcWiring, WiringInv, WiringTypes, Wired, Untouched, PathUp, Called,
              Visited, BeenAt, Neighbours, DcOpen, DcBehind
<1> QED
  BY <1>1, <1>2, <1>3 DEF DcWiringNext

\* The neighbours that ec_master_calc_topology finds are those that are there, and the
\* assertion that it returns 0 holds (ec_slave.c:818-851, 905): for every number of slaves and
\* every wiring of them.
THEOREM DcAlwaysFound == DcWiringSpec => []DcTopologyFound
<1>1. WiringInv => DcTopologyFound
  <2> SUFFICES ASSUME WiringInv, dc_pc = "found"
               PROVE  /\ dc_next[0][0] = DcNone
                      /\ \A t \in DcIds \ {0} : /\ dc_next[t][0] = dc_parent[t]
                                                /\ dc_next[dc_parent[t]][dc_port[t]] = t
                      /\ \A s \in DcIds, p \in DcPorts \ {0} :
                           p \notin DcOpen(s) => dc_next[s][p] = DcNone
    BY DEF WiringInv, DcTopologyFound
  <2>1. Neighbours /\ dc_position = DcSlaves - 1
    BY DEF WiringInv
  <2>2. \A s \in DcIds : s <= dc_position /\ ~(s > dc_position)
    BY <2>1, Slaves
  <2> QED
    BY <2>1, <2>2, Slaves DEF Neighbours
<1>2. DcWiringSpec => []WiringInv
  BY WiringInitially, WiringStep, PTL DEF DcWiringSpec
<1> QED
  BY <1>1, <1>2, PTL

-----------------------------------------------------------------------------
(***************************************************************************)
(* Induction, over whatever has a rank: m is a function, so that the       *)
(* principles are about sets and can be cited.                             *)
(***************************************************************************)
LEMMA Smallest ==
  ASSUME NEW T \in SUBSET Nat, T # {}
  PROVE  \E n \in T : \A k \in T : n <= k
<1> DEFINE R == OpToRel(<, Nat)
<1>1. IsWellFoundedOn(R, Nat)
  BY NatLessThanWellFounded
<1>2. \A x, y \in Nat : x < y => <<x, y>> \in R
  BY DEF OpToRel
<1> HIDE DEF R
<1>3. PICK n \in T : \A k \in T : ~(<<k, n>> \in R)
  BY <1>1, WFMin
<1>4. \A k \in T : n \in Nat /\ k \in Nat /\ ~(k < n)
  BY <1>2, <1>3
<1> QED
  BY <1>4

LEMMA ByRank ==
  ASSUME NEW S, NEW m \in [S -> Nat], NEW T,
         \A s \in S : (\A t \in S : m[t] < m[s] => t \in T) => s \in T
  PROVE  S \subseteq T
<1>1. SUFFICES ASSUME NEW w \in S, w \notin T PROVE FALSE
  OBVIOUS
<1> DEFINE Bad == {n \in Nat : \E s \in S \ T : m[s] = n}
<1>2. Bad \in SUBSET Nat /\ Bad # {}
  BY <1>1
<1>3. PICK n \in Bad : \A k \in Bad : n <= k
  BY <1>2, Smallest
<1>4. PICK s \in S \ T : m[s] = n
  BY <1>3
<1>5. PICK t \in S : m[t] < m[s] /\ t \notin T
  BY <1>4
<1>6. m[t] \in Bad /\ m[t] \in Nat /\ m[s] \in Nat
  BY <1>5
<1> QED
  BY <1>3, <1>4, <1>5, <1>6

LEMMA OneByOne ==
  ASSUME NEW T, 0 \in T, \A n \in Nat : n \in T => n + 1 \in T
  PROVE  Nat \subseteq T
<1>1. SUFFICES ASSUME NEW w \in Nat, w \notin T PROVE FALSE
  OBVIOUS
<1>2. Nat \ T \in SUBSET Nat /\ Nat \ T # {}
  BY <1>1
<1>3. PICK n \in Nat \ T : \A k \in Nat \ T : n <= k
  BY <1>2, Smallest
<1>4. n # 0
  OBVIOUS
<1>5. n - 1 \in Nat /\ n - 1 < n /\ (n - 1) + 1 = n
  BY <1>4
<1> QED
  BY <1>3, <1>5

\* F says what a function from S to V is at each element, by what it is at those of a smaller
\* rank; K is above all ranks.
Recurses(S, V, m, K, F) ==
  /\ V # {} /\ K \in Nat
  /\ m \in [S -> Nat] /\ \A s \in S : m[s] < K
  /\ F \in [[S -> V] -> [S -> V]]
  /\ \A g, h \in [S -> V], s \in S :
       (\A t \in S : m[t] < m[s] => g[t] = h[t]) => F[g][s] = F[h][s]

LEMMA ByRecursion ==
  ASSUME NEW S, NEW V, NEW m, NEW K, NEW F, Recurses(S, V, m, K, F)
  PROVE  \E f \in [S -> V] : f = F[f]
<1> USE DEF Recurses
<1> DEFINE Upto == {n \in Nat : \E h \in [S -> V] : \A s \in S : m[s] < n => F[h][s] = h[s]}
<1>1. PICK v : v \in V
  OBVIOUS
<1>2. 0 \in Upto
  <2>1. [s \in S |-> v] \in [S -> V]
    BY <1>1
  <2>2. \A s \in S : ~(m[s] < 0)
    OBVIOUS
  <2> QED
    BY <2>1, <2>2
<1>3. ASSUME NEW n \in Nat, n \in Upto PROVE n + 1 \in Upto
  <2>1. PICK h \in [S -> V] : \A s \in S : m[s] < n => F[h][s] = h[s]
    BY <1>3
  <2>2. F[h] \in [S -> V]
    OBVIOUS
  <2>3. ASSUME NEW s \in S, m[s] < n + 1 PROVE F[F[h]][s] = F[h][s]
    <3>1. \A t \in S : m[t] < m[s] => F[h][t] = h[t]
      <4>1. \A t \in S : m[t] \in Nat /\ m[s] \in Nat
        OBVIOUS
      <4>2. \A t \in S : m[t] < m[s] => m[t] < n
        BY <2>3, <4>1
      <4> QED
        BY <2>1, <4>2
    <3> QED
      BY <2>2, <3>1
  <2> QED
    BY <2>2, <2>3
<1>4. K \in Upto
  <2> HIDE DEF Upto
  <2> QED
    BY <1>2, <1>3, OneByOne
<1>5. PICK h \in [S -> V] : \A s \in S : F[h][s] = h[s]
  BY <1>4
<1>6. F[h] \in [S -> V]
  OBVIOUS
<1>7. F[h] = h
  BY <1>5, <1>6
<1> QED
  BY <1>7

-----------------------------------------------------------------------------
(***************************************************************************)
(* The frame's way.                                                        *)
(***************************************************************************)
\* The slaves are connected, by links that take some time.
Built ==
  /\ WiringTypes
  /\ DcWired(dc_parent, dc_port)
  /\ dc_link \in [DcIds \ {0} -> Nat]

\* The time that the frame spends behind a port.
Through(s, p) == IF p \in DcOpen(s) THEN DcRoundTrip[DcAt(s, p)] ELSE 0

LEMMA AtPort ==
  ASSUME Built, NEW s \in DcIds, NEW p \in DcPorts, p \in DcOpen(s)
  PROVE  /\ p # 0 /\ DcAt(s, p) \in DcIds \ {0} /\ s < DcAt(s, p)
         /\ dc_parent[DcAt(s, p)] = s /\ dc_port[DcAt(s, p)] = p
         /\ \A t \in DcIds \ {0} : dc_parent[t] = s /\ dc_port[t] = p => t = DcAt(s, p)
<1>1. PICK t \in DcIds \ {0} : dc_parent[t] = s /\ dc_port[t] = p
  BY OpenPorts DEF Built
<1>2. DcAt(s, p) \in DcIds \ {0} /\ dc_parent[DcAt(s, p)] = s /\ dc_port[DcAt(s, p)] = p
  BY <1>1 DEF DcAt
<1>3. \A v \in DcIds \ {0} : dc_parent[v] < v /\ dc_port[v] # 0
  BY WiredFacts DEF Built
<1>4. ASSUME NEW v \in DcIds \ {0}, NEW w \in DcIds \ {0}, v < w,
             dc_parent[v] = dc_parent[w], dc_port[v] = dc_port[w]
      PROVE  FALSE
  <2>1. Place(dc_port[v]) < Place(dc_port[v])
    BY <1>4, WiredFacts DEF Built
  <2>2. dc_port[v] \in DcPorts
    BY WiredFacts DEF Built
  <2> QED
    BY <2>1, <2>2, Places
<1>5. ASSUME NEW v \in DcIds \ {0}, dc_parent[v] = s, dc_port[v] = p
      PROVE  v = DcAt(s, p)
  <2>1. ~(v < DcAt(s, p)) /\ ~(DcAt(s, p) < v)
    BY <1>2, <1>4, <1>5
  <2>2. v \in Nat /\ DcAt(s, p) \in Nat
    BY <1>2, Slaves
  <2> QED
    BY <2>1, <2>2
<1> QED
  BY <1>2, <1>3, <1>5

\* The definition by recursion has a meaning: what is behind a slave has larger numbers.
LEMMA RoundTrips ==
  ASSUME Built
  PROVE  /\ DcRoundTrip \in [DcIds \ {0} -> Nat]
         /\ \A s \in DcIds \ {0} :
              DcRoundTrip[s] = 2 * dc_link[s] + Through(s, 3) + Through(s, 1) + Through(s, 2)
<1> DEFINE S == DcIds \ {0}
           Of(h, s, p) == IF p \in DcOpen(s) THEN h[DcAt(s, p)] ELSE 0
           Body(h) == [s \in S |-> 2 * dc_link[s] + Of(h, s, 3) + Of(h, s, 1) + Of(h, s, 2)]
           m == [s \in S |-> DcSlaves - s]
           F == [h \in [S -> Nat] |-> Body(h)]
           R == DcRoundTrip
           T == {s \in S : R[s] \in Nat}
<1>1. m \in [S -> Nat] /\ \A s \in S : m[s] < DcSlaves
  BY Slaves
<1>2. ASSUME NEW s \in S, NEW p \in DcPorts, p \in DcOpen(s)
      PROVE  DcAt(s, p) \in S /\ m[DcAt(s, p)] < m[s]
  <2>1. DcAt(s, p) \in S /\ s < DcAt(s, p)
    BY <1>2, AtPort
  <2>2. DcAt(s, p) \in Nat /\ s \in Nat /\ DcSlaves \in Nat
    BY <2>1, Slaves
  <2> QED
    BY <2>1, <2>2
<1>3. {3, 1, 2} \subseteq DcPorts /\ \A s \in S : dc_link[s] \in Nat
  BY DEF DcPorts, Built
<1>4. ASSUME NEW h \in [S -> Nat], NEW s \in S, NEW p \in {3, 1, 2}
      PROVE  Of(h, s, p) \in Nat
  BY <1>2, <1>3
<1>5. ASSUME NEW h \in [S -> Nat] PROVE Body(h) \in [S -> Nat]
  <2>1. ASSUME NEW s \in S
        PROVE  2 * dc_link[s] + Of(h, s, 3) + Of(h, s, 1) + Of(h, s, 2) \in Nat
    <3>1. Of(h, s, 3) \in Nat /\ Of(h, s, 1) \in Nat /\ Of(h, s, 2) \in Nat /\ dc_link[s] \in Nat
      BY <1>3, <1>4
    <3> HIDE DEF Of
    <3> QED
      BY <3>1
  <2> QED
    BY <2>1
<1>6. F \in [[S -> Nat] -> [S -> Nat]]
  BY <1>5
<1>7. ASSUME NEW g \in [S -> Nat], NEW h \in [S -> Nat], NEW s \in S,
             \A t \in S : m[t] < m[s] => g[t] = h[t]
      PROVE  F[g][s] = F[h][s]
  <2>1. \A p \in {3, 1, 2} : Of(g, s, p) = Of(h, s, p)
    BY <1>2, <1>3, <1>7
  <2> HIDE DEF Of
  <2> QED
    BY <2>1
<1>8. \E f \in [S -> Nat] : f = F[f]
  <2>1. Nat # {} /\ DcSlaves \in Nat
    BY Slaves
  <2>2. Recurses(S, Nat, m, DcSlaves, F)
    <3> HIDE DEF S, m, F
    <3> QED
      BY <1>1, <1>6, <1>7, <2>1 DEF Recurses
  <2> HIDE DEF S, m, F
  <2> QED
    BY <2>2, ByRecursion
<1>9. \E f : f = Body(f)
  <2> HIDE DEF Body
  <2> QED
    BY <1>8
<1>10. DcRoundTrip = Body(DcRoundTrip)
  BY <1>9 DEF DcRoundTrip
<1>11. S \subseteq T
  <2>1. ASSUME NEW s \in S, \A t \in S : m[t] < m[s] => t \in T
        PROVE  s \in T
    <3>1. \A p \in {3, 1, 2} : Of(R, s, p) \in Nat
      BY <1>2, <1>3, <2>1
    <3>2. R[s] = 2 * dc_link[s] + Of(R, s, 3) + Of(R, s, 1) + Of(R, s, 2)
      BY <1>10
    <3> HIDE DEF Of, R
    <3> QED
      BY <1>3, <3>1, <3>2
  <2> HIDE DEF S, m, T
  <2> QED
    BY <1>1, <2>1, ByRank
<1> HIDE DEF S
<1>12. DcRoundTrip \in [S -> Nat]
  BY <1>10, <1>11
<1> QED
  BY <1>10, <1>12 DEF S, Through

LEMMA Untils ==
  ASSUME Built, NEW s \in DcIds
  PROVE  /\ DcUntil(s, 0) = 0
         /\ \A k \in 0 .. 3 : DcUntil(s, k) \in Nat
         /\ \A p \in DcPorts : Through(s, p) \in Nat
         /\ \A p \in DcPorts \ {0} : /\ DcRank[p] \in 1 .. 3 /\ DcRank[p] - 1 \in 0 .. 2
                                     /\ DcUntil(s, DcRank[p]) = DcUntil(s, DcRank[p] - 1) + Through(s, p)
         /\ s # 0 => DcRoundTrip[s] = 2 * dc_link[s] + DcUntil(s, 3)
<1>1. \A p \in DcPorts : Through(s, p) \in Nat
  BY AtPort, RoundTrips DEF Through
<1>2. DcRank[3] = 1 /\ DcRank[1] = 2 /\ DcRank[2] = 3 /\ {3, 1, 2} \subseteq DcPorts
  BY DEF DcRank, DcPorts
<1> DEFINE A == Through(s, 3)
           B == Through(s, 1)
           C == Through(s, 2)
<1>3. DcUntil(s, 0) = 0 + 0 + 0
  BY <1>2 DEF DcUntil, Through
<1>4. DcUntil(s, 1) = A + 0 + 0
  BY <1>2 DEF DcUntil, Through
<1>5. DcUntil(s, 2) = A + B + 0
  BY <1>2 DEF DcUntil, Through
<1>6. DcUntil(s, 3) = A + B + C
  BY <1>2 DEF DcUntil, Through
<1>7. A \in Nat /\ B \in Nat /\ C \in Nat
  BY <1>1, <1>2
<1>8. s # 0 => DcRoundTrip[s] = 2 * dc_link[s] + A + B + C /\ dc_link[s] \in Nat
  BY RoundTrips DEF Built
<1> HIDE DEF A, B, C
<1>9. /\ DcUntil(s, 0) = 0
      /\ \A k \in 0 .. 3 : DcUntil(s, k) \in Nat
      /\ s # 0 => DcRoundTrip[s] = 2 * dc_link[s] + DcUntil(s, 3)
  <2>1. \A k \in 0 .. 3 : k = 0 \/ k = 1 \/ k = 2 \/ k = 3
    OBVIOUS
  <2> QED
    BY <1>3, <1>4, <1>5, <1>6, <1>7, <1>8, <2>1
<1>10. ASSUME NEW p \in DcPorts \ {0}
       PROVE  /\ DcRank[p] \in 1 .. 3 /\ DcRank[p] - 1 \in 0 .. 2
              /\ DcUntil(s, DcRank[p]) = DcUntil(s, DcRank[p] - 1) + Through(s, p)
  <2>1. p = 3 \/ p = 1 \/ p = 2
    BY DEF DcPorts
  <2> QED
    BY <1>2, <1>3, <1>4, <1>5, <1>6, <1>7, <2>1 DEF A, B, C
<1> QED
  BY <1>1, <1>9, <1>10

\* The frame arrives at a slave after it has been behind the ports that come before its.
LEMMA Arrivals ==
  ASSUME Built
  PROVE  /\ DcArrival \in [DcIds -> Nat] /\ DcArrival[0] = 0
         /\ \A t \in DcIds \ {0} :
              DcArrival[t] = DcArrival[dc_parent[t]]
                             + DcUntil(dc_parent[t], DcRank[dc_port[t]] - 1) + dc_link[t]
<1> DEFINE Next(h, s) == h[dc_parent[s]] + DcUntil(dc_parent[s], DcRank[dc_port[s]] - 1) + dc_link[s]
           Body(h) == [s \in DcIds |-> IF s = 0 THEN 0 ELSE Next(h, s)]
           m == [s \in DcIds |-> s]
           F == [h \in [DcIds -> Nat] |-> Body(h)]
           A == DcArrival
           T == {s \in DcIds : A[s] \in Nat}
<1>1. m \in [DcIds -> Nat] /\ \A s \in DcIds : m[s] < DcSlaves
  BY Slaves
<1>2. ASSUME NEW s \in DcIds \ {0}
      PROVE  /\ dc_parent[s] \in DcIds /\ m[dc_parent[s]] < m[s] /\ dc_link[s] \in Nat
             /\ DcUntil(dc_parent[s], DcRank[dc_port[s]] - 1) \in Nat
  <2>1. dc_parent[s] \in DcIds /\ dc_parent[s] < s /\ dc_port[s] \in DcPorts \ {0}
    BY WiredFacts DEF Built
  <2>2. DcRank[dc_port[s]] - 1 \in 0 .. 3
    BY <2>1 DEF DcPorts, DcRank
  <2> QED
    BY <2>1, <2>2, Untils DEF Built
<1>3. ASSUME NEW h \in [DcIds -> Nat], NEW s \in DcIds \ {0} PROVE Next(h, s) \in Nat
  <2>1. PICK a \in Nat, b \in Nat, c \in Nat : Next(h, s) = a + b + c
    BY <1>2
  <2> QED
    BY <2>1
<1>4. F \in [[DcIds -> Nat] -> [DcIds -> Nat]]
  <2> HIDE DEF Next
  <2> QED
    BY <1>3
<1>5. ASSUME NEW g \in [DcIds -> Nat], NEW h \in [DcIds -> Nat], NEW s \in DcIds,
             \A t \in DcIds : m[t] < m[s] => g[t] = h[t]
      PROVE  F[g][s] = F[h][s]
  <2>1. s # 0 => g[dc_parent[s]] = h[dc_parent[s]]
    BY <1>2, <1>5
  <2> QED
    BY <2>1
<1>6. \E f \in [DcIds -> Nat] : f = F[f]
  <2>1. Nat # {} /\ DcSlaves \in Nat
    BY Slaves
  <2>2. Recurses(DcIds, Nat, m, DcSlaves, F)
    <3> HIDE DEF m, F
    <3> QED
      BY <1>1, <1>4, <1>5, <2>1 DEF Recurses
  <2> HIDE DEF m, F
  <2> QED
    BY <2>2, ByRecursion
<1>7. \E f : f = Body(f)
  <2> HIDE DEF Body
  <2> QED
    BY <1>6
<1>8. DcArrival = Body(DcArrival)
  BY <1>7 DEF DcArrival
<1>9. \A s \in DcIds : A[s] = IF s = 0 THEN 0 ELSE Next(A, s)
  BY <1>8
<1>10. DcIds \subseteq T
  <2>1. ASSUME NEW s \in DcIds, \A t \in DcIds : m[t] < m[s] => t \in T
        PROVE  s \in T
    <3>1. CASE s = 0
      BY <1>9, <3>1
    <3>2. CASE s # 0
      <4>1. dc_parent[s] \in T
        BY <1>2, <2>1, <3>2
      <4>2. A[s] = Next(A, s)
        BY <1>9, <3>2
      <4>3. PICK a \in Nat, b \in Nat, c \in Nat : Next(A, s) = a + b + c
        BY <1>2, <3>2, <4>1
      <4> QED
        BY <4>2, <4>3
    <3> QED
      BY <3>1, <3>2
  <2> HIDE DEF m, T
  <2> QED
    BY <1>1, <2>1, ByRank
<1>11. DcArrival \in [DcIds -> Nat]
  BY <1>8, <1>10
<1> QED
  BY <1>9, <1>11, Slaves

-----------------------------------------------------------------------------
(***************************************************************************)
(* What is behind a slave.                                                 *)
(***************************************************************************)
\* The child of a slave comes after it and all that is behind its earlier ports.
LEMMA Parents ==
  ASSUME Built, NEW t \in DcIds \ {0}
  PROVE  /\ dc_parent[t] \in DcIds /\ dc_parent[t] \in Nat /\ t \in Nat /\ dc_parent[t] < t
         /\ dc_port[t] \in DcPorts /\ dc_port[t] \in DcPorts \ {0}
         /\ dc_port[t] \in DcOpen(dc_parent[t]) /\ DcAt(dc_parent[t], dc_port[t]) = t
         /\ DcRank[dc_port[t]] \in 1 .. 3
         /\ \A v \in DcIds \ {0} : dc_parent[t] < v /\ v < t => dc_parent[v] >= dc_parent[t]
         /\ \A v \in DcIds \ {0} :
              v < t /\ dc_parent[v] = dc_parent[t] => DcRank[dc_port[v]] < DcRank[dc_port[t]]
<1>1. /\ dc_parent[t] \in DcIds /\ dc_parent[t] < t
      /\ dc_port[t] \in DcPorts /\ dc_port[t] # 0
      /\ \A v \in DcIds \ {0} : dc_parent[t] < v /\ v < t => dc_parent[v] >= dc_parent[t]
  BY WiredFacts DEF Built
<1>2. dc_parent[t] \in Nat /\ t \in Nat
  BY <1>1, Slaves
<1>3. dc_port[t] \in DcOpen(dc_parent[t])
  BY <1>1, OpenPorts DEF Built
<1>4. DcAt(dc_parent[t], dc_port[t]) = t
  BY <1>1, <1>3, AtPort
<1>5. \A v \in DcIds \ {0} :
        v < t /\ dc_parent[v] = dc_parent[t] => DcRank[dc_port[v]] < DcRank[dc_port[t]]
  BY DEF Built, DcWired
<1>6. DcRank[dc_port[t]] \in 1 .. 3
  BY <1>1, Untils
<1> QED
  BY <1>1, <1>2, <1>3, <1>4, <1>5, <1>6

LEMMA Subtrees ==
  ASSUME Built, NEW s \in DcIds
  PROVE  /\ DcSubtree(s) \subseteq DcIds
         /\ s \in DcSubtree(s)
         /\ \A u \in DcSubtree(s) : s <= u
         /\ \A u \in DcSubtree(s), v \in DcIds : s <= v /\ v <= u => v \in DcSubtree(s)
         /\ \A u \in DcSubtree(s), t \in DcIds \ {0} : dc_parent[t] = u => t \in DcSubtree(s)
         /\ \A u \in DcSubtree(s) : u # s => u # 0 /\ dc_parent[u] \in DcSubtree(s)
         /\ \A t \in DcSubtree(s) : DcSubtree(t) \subseteq DcSubtree(s)
<1>1. s \in Nat /\ DcIds \subseteq Nat
  BY Slaves
<1>2. DcSubtree(s) \subseteq DcIds /\ s \in DcSubtree(s) /\ \A u \in DcSubtree(s) : s <= u
  BY <1>1 DEF DcSubtree
<1>3. ASSUME NEW u \in DcSubtree(s), NEW v \in DcIds, s <= v, v <= u
      PROVE  v \in DcSubtree(s)
  <2>1. \A t \in s + 1 .. u : dc_parent[t] >= s
    BY DEF DcSubtree
  <2>2. \A t \in s + 1 .. v : t \in s + 1 .. u
    <3>1. u \in DcIds
      BY <1>2
    <3>2. u \in Nat /\ v \in Nat
      BY <1>1, <3>1
    <3> QED
      BY <1>1, <1>3, <3>2
  <2>3. \A t \in s + 1 .. v : dc_parent[t] >= s
    BY <2>1, <2>2
  <2> QED
    BY <1>1, <1>3, <2>3 DEF DcSubtree
<1>4. \A v \in DcIds : \A t \in s + 1 .. v : t \in DcIds \ {0} /\ t \in Nat /\ s < t /\ t <= v
  BY <1>1, Slaves
<1>5. ASSUME NEW u \in DcSubtree(s), NEW t \in DcIds \ {0}, dc_parent[t] = u
      PROVE  t \in DcSubtree(s)
  <2>1. u \in Nat /\ s <= u /\ u < t /\ t \in Nat
    BY <1>1, <1>2, <1>5, Parents
  <2>2. ASSUME NEW v \in s + 1 .. t PROVE dc_parent[v] >= s
    <3>1. v \in DcIds \ {0} /\ v \in Nat /\ s < v /\ v <= t
      BY <1>4
    <3>2. CASE v <= u
      <4>1. v \in s + 1 .. u
        BY <3>1, <3>2, <2>1, <1>1
      <4> QED
        BY <4>1 DEF DcSubtree
    <3>3. CASE u < v /\ v < t
      <4>1. dc_parent[v] >= u /\ dc_parent[v] \in Nat
        BY <1>5, <3>1, <3>3, Parents
      <4> QED
        BY <4>1, <2>1, <1>1
    <3>4. CASE v = t
      BY <1>5, <2>1, <3>4, <1>1
    <3> QED
      BY <2>1, <3>1, <3>2, <3>3, <3>4
  <2> QED
    BY <1>1, <2>1, <2>2 DEF DcSubtree
<1>6. ASSUME NEW u \in DcSubtree(s), u # s
      PROVE  u # 0 /\ dc_parent[u] \in DcSubtree(s)
  <2>1. u \in DcIds /\ u \in Nat /\ s < u
    <3>1. u \in DcIds /\ s <= u
      BY <1>2
    <3>2. u \in Nat
      BY <1>1, <3>1
    <3> QED
      BY <1>1, <1>6, <3>1, <3>2
  <2>2. u # 0 /\ u \in s + 1 .. u
    BY <1>1, <2>1
  <2>3. dc_parent[u] >= s
    BY <2>2 DEF DcSubtree
  <2>4. dc_parent[u] \in DcIds /\ dc_parent[u] \in Nat /\ dc_parent[u] < u
    BY <2>1, <2>2, Parents
  <2>5. s <= dc_parent[u] /\ dc_parent[u] <= u
    BY <1>1, <2>1, <2>3, <2>4
  <2>6. PICK q \in DcIds : q = dc_parent[u] /\ s <= q /\ q <= u
    BY <2>4, <2>5
  <2>7. q \in DcSubtree(s)
    BY <1>3, <2>6
  <2> QED
    BY <2>2, <2>6, <2>7
<1>7. ASSUME NEW t \in DcSubtree(s), NEW u \in DcSubtree(t) PROVE u \in DcSubtree(s)
  <2>1. s <= t /\ t <= u /\ t \in DcIds /\ t \in Nat /\ u \in DcIds /\ u \in Nat
    BY <1>1, <1>2 DEF DcSubtree
  <2>2. ASSUME NEW v \in s + 1 .. u PROVE dc_parent[v] >= s
    <3>1. v \in DcIds \ {0} /\ v \in Nat
      BY <1>4, <2>1
    <3>2. CASE v <= t
      <4>1. v \in s + 1 .. t
        BY <3>1, <3>2, <2>1, <1>1
      <4> QED
        BY <4>1 DEF DcSubtree
    <3>3. CASE t < v
      <4>1. v \in t + 1 .. u
        BY <3>1, <3>3, <2>1, <1>1
      <4>2. dc_parent[v] >= t /\ dc_parent[v] \in Nat
        BY <4>1, <3>1, Parents DEF DcSubtree
      <4> QED
        BY <4>2, <2>1, <1>1
    <3> QED
      BY <3>1, <3>2, <3>3, <2>1
  <2>3. s <= u
    BY <1>1, <2>1
  <2> QED
    BY <2>1, <2>2, <2>3 DEF DcSubtree
<1> QED
  BY <1>2, <1>3, <1>5, <1>6, <1>7

\* All that is behind a slave is behind one of its neighbours.
LEMMA Branches ==
  ASSUME Built, NEW s \in DcIds, NEW u \in DcSubtree(s), u # s
  PROVE  \E t \in DcIds \ {0} : dc_parent[t] = s /\ u \in DcSubtree(t)
<1> DEFINE S == DcSubtree(s) \ {s}
           T == {v \in S : \E t \in DcIds \ {0} : dc_parent[t] = s /\ v \in DcSubtree(t)}
           m == [v \in S |-> v]
<1>1. S \subseteq DcIds /\ DcIds \subseteq Nat
  BY Slaves, Subtrees
<1>2. m \in [S -> Nat] /\ \A v \in S : m[v] = v
  BY <1>1
<1>3. ASSUME NEW v \in S, \A w \in S : m[w] < m[v] => w \in T
      PROVE  v \in T
  <2>1. v \in DcIds \ {0} /\ dc_parent[v] \in DcSubtree(s) /\ dc_parent[v] < v
    <3>1. v \in DcIds \ {0} /\ dc_parent[v] \in DcSubtree(s)
      BY <1>1, Subtrees
    <3> QED
      BY <3>1, Parents
  <2>2. CASE dc_parent[v] = s
    BY <2>1, <2>2, Subtrees
  <2>3. CASE dc_parent[v] # s
    <3>1. dc_parent[v] \in T
      BY <1>2, <1>3, <2>1, <2>3
    <3>2. PICK t \in DcIds \ {0} : dc_parent[t] = s /\ dc_parent[v] \in DcSubtree(t)
      BY <3>1
    <3>3. v \in DcSubtree(t)
      BY <2>1, <3>2, Subtrees
    <3> QED
      BY <3>2, <3>3
  <2> QED
    BY <2>2, <2>3
<1>4. S \subseteq T
  <2> HIDE DEF S, T, m
  <2> QED
    BY <1>2, <1>3, ByRank
<1> QED
  BY <1>4

\* Those behind one neighbour come before all behind a later one.
LEMMA Siblings ==
  ASSUME Built, NEW t \in DcIds \ {0}, NEW v \in DcIds \ {0}, dc_parent[t] = dc_parent[v], t < v
  PROVE  /\ \A u \in DcSubtree(t) : u < v
         /\ DcSubtree(t) \cap DcSubtree(v) = {}
<1>1. t \in Nat /\ v \in Nat /\ dc_parent[t] \in Nat /\ dc_parent[t] < t
  BY Parents
<1>2. ASSUME NEW u \in DcSubtree(t) PROVE u < v
  <2>1. SUFFICES ASSUME v <= u PROVE FALSE
    <3>1. u \in Nat
      BY Subtrees, Slaves
    <3> QED
      BY <3>1, <1>1
  <2>2. t <= v
    BY <1>1
  <2>3. v \in DcSubtree(t)
    BY <2>1, <2>2, Subtrees
  <2>4. dc_parent[v] \in DcSubtree(t)
    BY <2>3, <1>1, Subtrees
  <2>5. t <= dc_parent[v]
    BY <2>4, Subtrees
  <2> QED
    BY <1>1, <2>5
<1>3. ASSUME NEW u \in DcSubtree(t), u \in DcSubtree(v) PROVE FALSE
  <2>1. u < v /\ v <= u /\ u \in Nat
    BY <1>2, <1>3, Subtrees, Slaves
  <2> QED
    BY <1>1, <2>1
<1> QED
  BY <1>2, <1>3

-----------------------------------------------------------------------------
(***************************************************************************)
(* The time at which the frame comes to a slave, leaves a port, and comes  *)
(* back.                                                                   *)
(***************************************************************************)
\* When it comes back to slave s from its last port of a rank, and from all.
Back(s, rank) == DcArrival[s] + DcUntil(s, rank)
Done(s) == Back(s, 3)

LEMMA Times ==
  ASSUME Built, NEW t \in DcIds \ {0}
  PROVE  LET s == dc_parent[t]
             k == DcRank[dc_port[t]]
         IN /\ DcArrival[t] = Back(s, k - 1) + dc_link[t]
            /\ Back(s, k) = Done(t) + dc_link[t]
            /\ Back(s, k) = Back(s, k - 1) + DcRoundTrip[t]
            /\ Back(s, k) <= Done(s)
            /\ DcArrival[s] <= Back(s, k - 1)
            /\ \A n \in Nat : DcRoundTrip[t] = n => DcUntil(t, 3) <= n
<1> DEFINE s == dc_parent[t]
           p == dc_port[t]
<1>1. s \in DcIds /\ p \in DcPorts /\ p \in DcPorts \ {0} /\ p \in DcOpen(s) /\ DcAt(s, p) = t
  BY Parents
<1> DEFINE k == DcRank[p]
<1>2. k \in 1 .. 3 /\ k - 1 \in 0 .. 2 /\ DcUntil(s, k) = DcUntil(s, k - 1) + DcRoundTrip[t]
  <2>1. Through(s, p) = DcRoundTrip[t]
    BY <1>1 DEF Through
  <2> HIDE DEF s, p
  <2> QED
    BY <1>1, <2>1, Untils
<1>3. DcRoundTrip[t] = 2 * dc_link[t] + DcUntil(t, 3) /\ dc_link[t] \in Nat
  BY Untils DEF Built
<1>4. DcArrival[t] = DcArrival[s] + DcUntil(s, k - 1) + dc_link[t]
  BY Arrivals
<1>5. DcArrival[t] \in Nat /\ DcArrival[s] \in Nat /\ DcUntil(t, 3) \in Nat /\ DcUntil(s, 3) \in Nat
      /\ DcUntil(s, k - 1) \in Nat /\ DcUntil(s, k) \in Nat
  <2>1. k - 1 \in 0 .. 3 /\ k \in 0 .. 3 /\ 3 \in 0 .. 3
    BY <1>2
  <2> HIDE DEF s, k
  <2> QED
    BY <1>1, <2>1, Untils, Arrivals
<1>6. DcUntil(s, k) <= DcUntil(s, 3)
  <2>1. /\ DcRank[3] = 1 /\ DcRank[1] = 2 /\ DcRank[2] = 3 /\ {1, 2, 3} \subseteq DcPorts \ {0}
        /\ {1, 2, 3} \subseteq DcPorts /\ 1 \in 0 .. 3 /\ 2 \in 0 .. 3
    BY DEF DcRank, DcPorts
  <2>2. /\ DcUntil(s, 3) = DcUntil(s, DcRank[2] - 1) + Through(s, 2)
        /\ DcUntil(s, 2) = DcUntil(s, DcRank[1] - 1) + Through(s, 1)
    BY <1>1, <2>1, Untils
  <2>3. Through(s, 2) \in Nat /\ Through(s, 1) \in Nat /\ DcUntil(s, 1) \in Nat /\ DcUntil(s, 2) \in Nat
    BY <1>1, <2>1, Untils
  <2>4. DcUntil(s, 3) = DcUntil(s, 2) + Through(s, 2) /\ DcUntil(s, 2) = DcUntil(s, 1) + Through(s, 1)
    BY <2>1, <2>2
  <2>5. k = 1 \/ k = 2 \/ k = 3
    BY <1>2
  <2> HIDE DEF s, k
  <2> QED
    BY <1>5, <2>3, <2>4, <2>5
<1> HIDE DEF s, k
<1>7. /\ DcArrival[t] = Back(s, k - 1) + dc_link[t]
      /\ Back(s, k) = Done(t) + dc_link[t]
      /\ Back(s, k) = Back(s, k - 1) + DcRoundTrip[t]
      /\ Back(s, k) <= Done(s)
      /\ DcArrival[s] <= Back(s, k - 1)
      /\ DcUntil(t, 3) <= DcRoundTrip[t]
  BY <1>2, <1>3, <1>4, <1>5, <1>6 DEF Back, Done
<1> QED
  BY <1>7 DEF s, k

LEMMA TimeTypes ==
  ASSUME Built, NEW s \in DcIds
  PROVE  /\ DcArrival[s] \in Nat /\ Done(s) \in Nat
         /\ \A k \in 0 .. 3 : DcUntil(s, k) \in Nat /\ Back(s, k) \in Nat
         /\ Back(s, 0) = DcArrival[s] /\ Back(s, 3) = Done(s)
         /\ DcUntil(s, 3) = Done(s) - DcArrival[s] /\ DcArrival[s] <= Done(s)
         /\ s # 0 => DcRoundTrip[s] \in Nat /\ dc_link[s] \in Nat
BY Untils, Arrivals, RoundTrips DEF Built, Back, Done

\* The frame is back at the first slave last.
LEMMA BackLast ==
  ASSUME Built
  PROVE  /\ \A s \in DcIds : Done(s) <= DcUntil(0, 3)
         /\ \A t \in DcIds \ {0} : DcRoundTrip[t] <= DcUntil(0, 3)
<1> DEFINE T == {s \in DcIds : Done(s) <= DcUntil(0, 3)}
           m == [s \in DcIds |-> s]
<1>1. m \in [DcIds -> Nat] /\ 0 \in DcIds /\ \A s \in DcIds : m[s] = s
  BY Slaves
<1>2. DcUntil(0, 3) \in Nat /\ Done(0) = DcUntil(0, 3)
  BY <1>1, TimeTypes, Arrivals
<1>3. ASSUME NEW s \in DcIds, \A t \in DcIds : m[t] < m[s] => t \in T
      PROVE  s \in T
  <2>1. CASE s = 0
    BY <1>2, <2>1
  <2>2. CASE s # 0
    <3> DEFINE q == dc_parent[s]
               b == Back(q, DcRank[dc_port[s]])
    <3>1. q \in DcIds /\ q < s
      BY <2>2, Parents
    <3>2. Done(q) <= DcUntil(0, 3) /\ Done(q) \in Nat /\ Done(s) \in Nat /\ dc_link[s] \in Nat
      BY <1>1, <1>3, <2>2, <3>1, TimeTypes
    <3>3. b <= Done(q) /\ b = Done(s) + dc_link[s]
      BY <2>2, Times
    <3> HIDE DEF q, b
    <3>4. Done(s) <= DcUntil(0, 3)
      BY <1>2, <3>2, <3>3
    <3> QED
      BY <3>4
  <2> QED
    BY <2>1, <2>2
<1>4. \A s \in DcIds : Done(s) <= DcUntil(0, 3)
  <2>1. DcIds \subseteq T
    <3> HIDE DEF T, m
    <3> QED
      BY <1>1, <1>3, ByRank
  <2> QED
    BY <2>1
<1>5. ASSUME NEW t \in DcIds \ {0} PROVE DcRoundTrip[t] <= DcUntil(0, 3)
  <2> DEFINE q == dc_parent[t]
             k == DcRank[dc_port[t]]
             b == Back(q, k)
             a == Back(q, k - 1)
  <2>1. q \in DcIds /\ k \in 1 .. 3
    BY Parents
  <2>2. k - 1 \in 0 .. 3 /\ k \in 0 .. 3
    BY <2>1
  <2>3. b <= Done(q) /\ b = a + DcRoundTrip[t]
    BY Times
  <2>4. a \in Nat /\ b \in Nat /\ Done(q) \in Nat /\ Done(q) <= DcUntil(0, 3) /\ DcRoundTrip[t] \in Nat
    BY <1>4, <2>1, <2>2, TimeTypes
  <2> HIDE DEF a, b, q, k
  <2> QED
    BY <1>2, <2>3, <2>4
<1> QED
  BY <1>4, <1>5

\* Behind a slave the frame comes to the others later.
LEMMA ArrivesLater ==
  ASSUME Built, NEW s \in DcIds
  PROVE  \A u \in DcSubtree(s) : DcArrival[s] <= DcArrival[u]
<1> DEFINE S == DcSubtree(s)
           T == {u \in S : DcArrival[s] <= DcArrival[u]}
           m == [u \in S |-> u]
<1>1. S \subseteq DcIds /\ DcIds \subseteq Nat
  BY Slaves, Subtrees
<1>2. m \in [S -> Nat] /\ \A u \in S : m[u] = u
  BY <1>1
<1>3. ASSUME NEW u \in S, \A v \in S : m[v] < m[u] => v \in T
      PROVE  u \in T
  <2>1. CASE u = s
    BY <2>1, <1>1, TimeTypes
  <2>2. CASE u # s
    <3> DEFINE q == dc_parent[u]
               a == Back(q, DcRank[dc_port[u]] - 1)
    <3>1. u \in DcIds \ {0} /\ q \in S
      BY <1>1, <2>2, Subtrees
    <3>2. q < u
      BY <3>1, Parents
    <3>3. DcArrival[s] <= DcArrival[q]
      BY <1>2, <1>3, <3>1, <3>2
    <3>4. DcArrival[u] = a + dc_link[u] /\ DcArrival[q] <= a
      BY <3>1, Times
    <3>5. /\ DcArrival[u] \in Nat /\ DcArrival[q] \in Nat /\ DcArrival[s] \in Nat
          /\ dc_link[u] \in Nat /\ a \in Int
      <4>1. DcRank[dc_port[u]] - 1 \in 0 .. 3
        <5>1. DcRank[dc_port[u]] \in 1 .. 3
          BY <3>1, Parents
        <5> QED
          BY <5>1
      <4> QED
        BY <1>1, <3>1, <4>1, TimeTypes
    <3> HIDE DEF a, q
    <3>6. DcArrival[s] <= DcArrival[u]
      BY <3>3, <3>4, <3>5
    <3> QED
      BY <3>6
  <2> QED
    BY <2>1, <2>2
<1>4. S \subseteq T
  <2> HIDE DEF S, T, m
  <2> QED
    BY <1>2, <1>3, ByRank
<1> QED
  BY <1>4

-----------------------------------------------------------------------------
(***************************************************************************)
(* The next slave with distributed clocks.                                 *)
(***************************************************************************)
\* The master has found the neighbours.
Found ==
  /\ Built
  /\ Neighbours /\ dc_position = DcSlaves - 1
  /\ dc_support \in [DcIds -> BOOLEAN]

LEMMA NextSlaves ==
  ASSUME Found, NEW s \in DcIds, NEW p \in DcPorts \ {0}
  PROVE  dc_next[s][p] = IF p \in DcOpen(s) THEN DcAt(s, p) ELSE DcNone
<1>1. CASE p \in DcOpen(s)
  <2> DEFINE t == DcAt(s, p)
  <2>1. t \in DcIds \ {0} /\ dc_parent[t] = s /\ dc_port[t] = p
    BY <1>1, AtPort DEF Found
  <2>2. t <= dc_position
    <3>1. t \in DcIds
      BY <2>1
    <3> HIDE DEF t
    <3> QED
      BY <3>1, Slaves DEF Found
  <2>3. dc_next[dc_parent[t]][dc_port[t]] = t
    BY <2>1, <2>2 DEF Found, Neighbours
  <2> QED
    BY <1>1, <2>1, <2>3
<1>2. CASE p \notin DcOpen(s)
  BY <1>2 DEF Found, Neighbours
<1> QED
  BY <1>1, <1>2

LEMMA Loop == /\ DcNextTable[0] = 3 /\ DcNextTable[3] = 1 /\ DcNextTable[1] = 2
              /\ DcRank[3] = 1 /\ DcRank[1] = 2 /\ DcRank[2] = 3 /\ DcRank[0] = 0
              /\ DcPorts = {0, 3, 1, 2} /\ DcPorts \ {0} = {3, 1, 2}
BY DEF DcNextTable, DcRank, DcPorts

\* What is found behind a port.
Reach(s, p) == IF p \in DcOpen(s) THEN ec_slave_find_next_dc_slave[DcAt(s, p)] ELSE DcNone

LEMMA NextDcs ==
  ASSUME Found
  PROVE  /\ ec_slave_find_next_dc_slave \in [DcIds -> DcIds \cup {DcNone}]
         /\ \A s \in DcIds : dc_support[s] => ec_slave_find_next_dc_slave[s] = s
         /\ \A s \in DcIds : ~dc_support[s] =>
              ec_slave_find_next_dc_slave[s] =
                IF Reach(s, 3) # DcNone THEN Reach(s, 3)
                ELSE IF Reach(s, 1) # DcNone THEN Reach(s, 1) ELSE Reach(s, 2)
<1> DEFINE V == DcIds \cup {DcNone}
           Of(h, s, p) == IF p \in DcOpen(s) THEN h[DcAt(s, p)] ELSE DcNone
           Pick(h, s) == IF Of(h, s, 3) # DcNone THEN Of(h, s, 3)
                         ELSE IF Of(h, s, 1) # DcNone THEN Of(h, s, 1) ELSE Of(h, s, 2)
           Body(h) == [s \in DcIds |-> IF dc_support[s] THEN s ELSE Pick(h, s)]
           Over(h, s) ==
             DcOverPorts(s, LAMBDA dc, p : IF dc # DcNone THEN dc ELSE h[dc_next[s][p]], DcNone)
           Code(h) == [s \in DcIds |-> IF dc_support[s] THEN s ELSE Over(h, s)]
           m == [s \in DcIds |-> DcSlaves - s]
           F == [h \in [DcIds -> V] |-> Body(h)]
           D == ec_slave_find_next_dc_slave
           T == {s \in DcIds : D[s] \in V}
<1>1. m \in [DcIds -> Nat] /\ (\A s \in DcIds : m[s] < DcSlaves + 1) /\ DcSlaves + 1 \in Nat
  BY Slaves
<1>2. ASSUME NEW s \in DcIds, NEW p \in DcPorts, p \in DcOpen(s)
      PROVE  DcAt(s, p) \in DcIds /\ m[DcAt(s, p)] < m[s]
  <2>1. DcAt(s, p) \in DcIds /\ s < DcAt(s, p)
    BY <1>2, AtPort DEF Found
  <2>2. DcAt(s, p) \in Nat /\ s \in Nat /\ DcSlaves \in Nat
    BY <2>1, Slaves
  <2> QED
    BY <2>1, <2>2
<1>3. {3, 1, 2} \subseteq DcPorts
  BY DEF DcPorts
<1>4. ASSUME NEW h \in [DcIds -> V], NEW s \in DcIds, NEW p \in {3, 1, 2}
      PROVE  Of(h, s, p) \in V
  BY <1>2, <1>3
<1>5. F \in [[DcIds -> V] -> [DcIds -> V]]
  <2>1. ASSUME NEW h \in [DcIds -> V], NEW s \in DcIds PROVE Pick(h, s) \in V
    <3>1. Of(h, s, 3) \in V /\ Of(h, s, 1) \in V /\ Of(h, s, 2) \in V
      BY <1>4
    <3> HIDE DEF Of
    <3> QED
      BY <3>1
  <2> HIDE DEF Pick
  <2> QED
    BY <2>1
<1>6. ASSUME NEW g, NEW h, NEW s \in DcIds,
             \A t \in DcIds : m[t] < m[s] => g[t] = h[t]
      PROVE  Body(g)[s] = Body(h)[s]
  <2>1. \A p \in {3, 1, 2} : Of(g, s, p) = Of(h, s, p)
    BY <1>2, <1>3, <1>6
  <2> HIDE DEF Of
  <2> QED
    BY <2>1
<1>7. \E f \in [DcIds -> V] : f = F[f]
  <2>1. V # {}
    OBVIOUS
  <2>2. \A g, h \in [DcIds -> V], s \in DcIds :
          (\A t \in DcIds : m[t] < m[s] => g[t] = h[t]) => F[g][s] = F[h][s]
    <3> HIDE DEF m, Body
    <3> QED
      BY <1>6
  <2>3. Recurses(DcIds, V, m, DcSlaves + 1, F)
    <3> HIDE DEF V, m, F
    <3> QED
      BY <1>1, <1>5, <2>1, <2>2 DEF Recurses
  <2> HIDE DEF V, m, F
  <2> QED
    BY <2>3, ByRecursion
<1>8. ASSUME NEW h, NEW s \in DcIds
      PROVE  Over(h, s) = Pick(h, s)
  <2>1. \A p \in {3, 1, 2} : dc_next[s][p] = IF p \in DcOpen(s) THEN DcAt(s, p) ELSE DcNone
    BY NextSlaves, Loop
  <2>2. \A p \in {3, 1, 2} : p \in DcOpen(s) => DcAt(s, p) # DcNone
    BY <1>2, <1>3, Slaves
  <2> QED
    BY <2>1, <2>2, Loop DEF DcOverPorts
<1>9. ASSUME NEW h PROVE Code(h) = Body(h)
  <2> HIDE DEF Over, Pick
  <2> QED
    BY <1>8
<1>10. \E f : f = Code(f)
  <2> HIDE DEF Body, Code
  <2> QED
    BY <1>7, <1>9
<1>11. D = Code(D)
  BY <1>10, Zenon DEF ec_slave_find_next_dc_slave
<1>12. D = Body(D)
  <2> HIDE DEF Body, Code, D
  <2> QED
    BY <1>9, <1>11
<1>13. DcIds \subseteq T
  <2>1. ASSUME NEW s \in DcIds, \A t \in DcIds : m[t] < m[s] => t \in T
        PROVE  s \in T
    <3>1. \A p \in {3, 1, 2} : Of(D, s, p) \in V
      BY <1>2, <1>3, <2>1
    <3>2. D[s] = IF dc_support[s] THEN s ELSE Pick(D, s)
      BY <1>12
    <3> HIDE DEF Of, D
    <3> QED
      BY <3>1, <3>2
  <2> HIDE DEF m, T
  <2> QED
    BY <1>1, <2>1, ByRank
<1>14. D \in [DcIds -> V]
  <2>1. \A s \in DcIds : D[s] \in V
    BY <1>13
  <2> HIDE DEF D, V
  <2> QED
    BY <1>12, <2>1
<1>15. \A s \in DcIds : D[s] = IF dc_support[s] THEN s ELSE Pick(D, s)
  BY <1>12
<1> QED
  BY <1>14, <1>15 DEF Reach

\* It is the slave itself or behind it, and has distributed clocks.
LEMMA NextDcBehind ==
  ASSUME Found, NEW s \in DcIds, ec_slave_find_next_dc_slave[s] # DcNone
  PROVE  /\ ec_slave_find_next_dc_slave[s] \in DcSubtree(s)
         /\ dc_support[ec_slave_find_next_dc_slave[s]]
<1> DEFINE D == ec_slave_find_next_dc_slave
           T == {v \in DcIds : D[v] # DcNone => D[v] \in DcSubtree(v) /\ dc_support[D[v]]}
           m == [v \in DcIds |-> DcSlaves - v]
<1>1. m \in [DcIds -> Nat] /\ \A v \in DcIds : v \in Nat /\ m[v] = DcSlaves - v /\ DcSlaves \in Nat
  BY Slaves
<1>2. ASSUME NEW v \in DcIds, \A t \in DcIds : m[t] < m[v] => t \in T
      PROVE  v \in T
  <2>1. ASSUME NEW p \in DcPorts, Reach(v, p) # DcNone
        PROVE  Reach(v, p) \in DcSubtree(v) /\ dc_support[Reach(v, p)]
    <3>1. p \in DcOpen(v) /\ Reach(v, p) = D[DcAt(v, p)]
      BY <2>1 DEF Reach
    <3>2. PICK t \in DcIds \ {0} : t = DcAt(v, p) /\ v < t /\ dc_parent[t] = v
      BY <3>1, AtPort DEF Found
    <3>3. t \in T
      BY <1>1, <1>2, <3>2
    <3>4. t \in DcSubtree(v)
      BY <3>2, Subtrees DEF Found
    <3>5. DcSubtree(t) \subseteq DcSubtree(v)
      BY <3>4, Subtrees DEF Found
    <3> QED
      BY <2>1, <3>1, <3>2, <3>3, <3>5
  <2>2. CASE dc_support[v]
    BY <2>2, NextDcs, Subtrees DEF Found
  <2>3. CASE ~dc_support[v]
    <3>1. \E p \in DcPorts : D[v] = Reach(v, p)
      BY <2>3, NextDcs, Loop
    <3> QED
      BY <2>1, <3>1
  <2> QED
    BY <2>2, <2>3
<1>3. DcIds \subseteq T
  <2> HIDE DEF T, m
  <2> QED
    BY <1>1, <1>2, ByRank
<1> QED
  BY <1>3

-----------------------------------------------------------------------------
(***************************************************************************)
(* Slaves without distributed clocks that stand in a line.                 *)
(***************************************************************************)
\* The reference clock is the first slave with distributed clocks; behind it those without
\* stand in a line.
Lined ==
  /\ Found
  /\ dc_ref \in DcIds /\ dc_support[dc_ref]
  /\ \A t \in DcIds : t < dc_ref => ~dc_support[t]
  /\ \A s \in DcSubtree(dc_ref) : dc_support[s] \/ DcInLine(s)

Behind == DcSubtree(dc_ref)

LEMMA LinedFacts ==
  ASSUME Lined
  PROVE  Built /\ Found /\ dc_ref \in DcIds /\ Behind \subseteq DcIds /\ dc_ref \in Behind
BY Subtrees DEF Lined, Found, Behind

\* A slave in a line hands the frame to the next one in number, and only to it.
LEMMA OnlyNext ==
  ASSUME Lined, NEW t \in Behind, ~dc_support[t], NEW c \in DcIds \ {0}, dc_parent[c] = t
  PROVE  /\ c = t + 1 /\ c \in Behind
         /\ \A v \in DcIds \ {0} : dc_parent[v] = t => v = c
<1>1. t \in DcIds /\ t \in Nat /\ c \in Nat /\ t < c /\ c \in Behind /\ Built
  <2>1. Built /\ t \in DcIds
    BY LinedFacts
  <2>2. c \in Behind
    BY <2>1, LinedFacts, Subtrees DEF Behind
  <2> QED
    BY <2>1, <2>2, Parents
<1>2. DcInLine(t)
  BY DEF Lined, Behind
<1>3. PICK w \in DcIds : DcBehind(t, 3) = {w}
  <2>1. ~(\A v \in Behind : v <= t)
    <3>1. ~(c <= t)
      BY <1>1
    <3> QED
      BY <1>1, <3>1
  <2> QED
    BY <1>2, <2>1 DEF DcInLine, Behind
<1>4. \A v \in DcIds \ {0} : dc_parent[v] = t => v = c
  <2>1. \A v \in DcIds \ {0} : dc_parent[v] = t => v \in DcBehind(t, 3)
    <3>1. \A v \in DcIds \ {0} : DcRank[dc_port[v]] \in 1 .. 3
      BY <1>1, Parents
    <3> QED
      BY <3>1 DEF DcBehind
  <2> QED
    BY <1>3, <2>1
<1>5. c = t + 1
  <2>1. SUFFICES ASSUME c # t + 1 PROVE FALSE
    OBVIOUS
  <2>2. t + 1 \in DcIds \ {0} /\ t < t + 1 /\ t + 1 < c
    <3>1. t + 1 \in Nat /\ t + 1 < c /\ c < DcSlaves /\ DcSlaves \in Nat
      BY <1>1, <2>1, Slaves
    <3> QED
      BY <3>1, <1>1, Slaves
  <2>3. dc_parent[t + 1] >= dc_parent[c]
    BY <1>1, <2>2, Parents
  <2>4. dc_parent[t + 1] \in Nat /\ dc_parent[t + 1] < t + 1
    BY <1>1, <2>2, Parents
  <2>5. dc_parent[t + 1] = t
    BY <1>1, <2>3, <2>4
  <2> QED
    BY <1>4, <2>1, <2>2, <2>5
<1> QED
  BY <1>1, <1>4, <1>5

LEMMA LineStep ==
  ASSUME Lined, NEW t \in Behind, ~dc_support[t], NEW c \in DcIds \ {0}, dc_parent[c] = t
  PROVE  /\ ec_slave_find_next_dc_slave[t] = ec_slave_find_next_dc_slave[c]
         /\ DcArrival[c] = DcArrival[t] + dc_link[c]
         /\ Done(t) = Done(c) + dc_link[c]
<1> DEFINE p == dc_port[c]
<1>1. t \in DcIds /\ Built /\ Found
  BY LinedFacts
<1>2. p \in {3, 1, 2} /\ p \in DcOpen(t) /\ DcAt(t, p) = c
  BY <1>1, Parents, Loop
<1>3. ASSUME NEW q \in {3, 1, 2}, q # p PROVE q \notin DcOpen(t)
  <2>1. SUFFICES ASSUME q \in DcOpen(t) PROVE FALSE
    OBVIOUS
  <2>2. q \in DcPorts
    BY Loop
  <2>3. DcAt(t, q) \in DcIds \ {0} /\ dc_parent[DcAt(t, q)] = t /\ dc_port[DcAt(t, q)] = q
    BY <1>1, <2>1, <2>2, AtPort
  <2>4. DcAt(t, q) = c
    BY <2>3, OnlyNext
  <2> QED
    BY <1>3, <2>3, <2>4
<1>4. ec_slave_find_next_dc_slave[t] = ec_slave_find_next_dc_slave[c]
  <2>1. Reach(t, p) = ec_slave_find_next_dc_slave[c]
    BY <1>2 DEF Reach
  <2>2. \A q \in {3, 1, 2} : q # p => Reach(t, q) = DcNone
    BY <1>3 DEF Reach
  <2>3. ec_slave_find_next_dc_slave[t] =
          IF Reach(t, 3) # DcNone THEN Reach(t, 3)
          ELSE IF Reach(t, 1) # DcNone THEN Reach(t, 1) ELSE Reach(t, 2)
    BY <1>1, NextDcs
  <2> HIDE DEF p
  <2> QED
    BY <1>2, <2>1, <2>2, <2>3
<1>5. \A q \in {3, 1, 2} : q # p => Through(t, q) = 0
  BY <1>3 DEF Through
<1>6. Through(t, p) = DcRoundTrip[c]
  BY <1>2 DEF Through
<1>7. DcUntil(t, DcRank[p] - 1) = 0 /\ DcUntil(t, 3) = DcRoundTrip[c]
  <2>1. /\ DcUntil(t, 0) = 0
        /\ \A q \in {3, 1, 2} : DcUntil(t, DcRank[q]) = DcUntil(t, DcRank[q] - 1) + Through(t, q)
    BY <1>1, Untils, Loop
  <2>2. /\ DcUntil(t, 1) = 0 + Through(t, 3)
        /\ DcUntil(t, 2) = DcUntil(t, 1) + Through(t, 1)
        /\ DcUntil(t, 3) = DcUntil(t, 2) + Through(t, 2)
    <3>1. DcRank[3] = 1 /\ DcRank[1] = 2 /\ DcRank[2] = 3 /\ 1 - 1 = 0 /\ 2 - 1 = 1 /\ 3 - 1 = 2
      BY Loop
    <3> QED
      BY <2>1, <3>1
  <2>3. DcRoundTrip[c] \in Nat
    BY <1>1, TimeTypes
  <2>4. CASE p = 3
    BY <1>5, <1>6, <2>1, <2>2, <2>3, <2>4, Loop
  <2>5. CASE p = 1
    BY <1>5, <1>6, <2>1, <2>2, <2>3, <2>5, Loop
  <2>6. CASE p = 2
    BY <1>5, <1>6, <2>1, <2>2, <2>3, <2>6, Loop
  <2> QED
    BY <1>2, <2>4, <2>5, <2>6
<1>8. DcArrival[c] = DcArrival[t] + 0 + dc_link[c]
  BY <1>1, <1>7, Arrivals
<1>9. /\ DcRoundTrip[c] = 2 * dc_link[c] + DcUntil(c, 3)
      /\ DcUntil(c, 3) = Done(c) - DcArrival[c] /\ DcUntil(t, 3) = Done(t) - DcArrival[t]
      /\ DcArrival[t] \in Nat /\ Done(t) \in Nat /\ DcArrival[c] \in Nat /\ Done(c) \in Nat
      /\ dc_link[c] \in Nat
  BY <1>1, Untils, TimeTypes
<1>10. /\ DcArrival[c] = DcArrival[t] + dc_link[c]
       /\ Done(t) = Done(c) + dc_link[c]
  BY <1>7, <1>8, <1>9
<1> QED
  BY <1>4, <1>10

\* From a slave behind the reference clock the next one with distributed clocks is at the
\* end of a line, and the frame comes and returns on it in the same time; or there is none.
InTheLine(t, d) ==
  /\ d \in Behind /\ t <= d /\ dc_support[d]
  /\ \A v \in DcIds : t <= v /\ v < d => ~dc_support[v]
  /\ \A v \in DcIds \ {0} : t <= dc_parent[v] /\ dc_parent[v] < d => v <= d
  /\ \A v \in DcIds : t < v /\ v <= d => t <= dc_parent[v]
  /\ DcArrival[t] <= DcArrival[d]
  /\ DcArrival[d] - DcArrival[t] = Done(t) - Done(d)

NoneFrom(t) == \A v \in Behind : t <= v => ~dc_support[v]

LEMMA Lines ==
  ASSUME Lined, NEW s \in Behind
  PROVE  /\ ec_slave_find_next_dc_slave[s] # DcNone => InTheLine(s, ec_slave_find_next_dc_slave[s])
         /\ ec_slave_find_next_dc_slave[s] = DcNone => NoneFrom(s)
<1> DEFINE D == ec_slave_find_next_dc_slave
           T == {t \in Behind : /\ D[t] # DcNone => InTheLine(t, D[t])
                                /\ D[t] = DcNone => NoneFrom(t)}
           m == [t \in Behind |-> DcSlaves - t]
<1>1. Built /\ Found /\ Behind \subseteq DcIds /\ DcIds \subseteq Nat /\ DcNone \notin DcIds
  BY LinedFacts, Slaves
<1>2. m \in [Behind -> Nat] /\ \A t \in Behind : m[t] = DcSlaves - t /\ t \in Nat /\ DcSlaves \in Nat
  BY <1>1, Slaves
<1>3. ASSUME NEW t \in Behind, \A v \in Behind : m[v] < m[t] => v \in T
      PROVE  t \in T
  <2>1. t \in DcIds /\ t \in Nat
    BY <1>1
  <2>2. CASE dc_support[t]
    <3>1. D[t] = t
      BY <1>1, <2>1, <2>2, NextDcs
    <3>2. DcArrival[t] \in Nat /\ Done(t) \in Nat
      BY <1>1, <2>1, TimeTypes
    <3>3. \A v \in DcIds \ {0} : dc_parent[v] \in Nat /\ v \in Nat
      BY <1>1, Parents
    <3>4. InTheLine(t, t)
      BY <1>1, <2>1, <2>2, <3>2, <3>3 DEF InTheLine
    <3> QED
      BY <1>1, <2>1, <3>1, <3>4
  <2>3. CASE ~dc_support[t] /\ \E c \in DcIds \ {0} : dc_parent[c] = t
    <3>1. PICK c \in DcIds \ {0} : dc_parent[c] = t
      BY <2>3
    <3>2. c = t + 1 /\ c \in Behind /\ \A v \in DcIds \ {0} : dc_parent[v] = t => v = c
      BY <2>3, <3>1, OnlyNext
    <3>3. /\ D[t] = D[c] /\ DcArrival[c] = DcArrival[t] + dc_link[c]
          /\ Done(t) = Done(c) + dc_link[c]
      BY <2>3, <3>1, LineStep
    <3>4. c \in T
      BY <1>2, <1>3, <3>2
    <3>5. CASE D[c] = DcNone
      <4>1. NoneFrom(c)
        BY <3>4, <3>5
      <4>2. \A v \in Behind : v \in Nat
        BY <1>1
      <4>3. NoneFrom(t)
        BY <2>1, <2>3, <3>2, <4>1, <4>2 DEF NoneFrom
      <4> QED
        BY <3>3, <3>5, <4>3
    <3>6. CASE D[c] # DcNone
      <4>1. PICK d : d = D[c]
        OBVIOUS
      <4>2. InTheLine(c, d)
        BY <3>4, <3>6, <4>1
      <4>3. d \in DcIds /\ d \in Nat
        BY <1>1, <4>2 DEF InTheLine
      <4>4. /\ DcArrival[t] \in Nat /\ DcArrival[c] \in Nat /\ DcArrival[d] \in Nat
            /\ Done(t) \in Nat /\ Done(c) \in Nat /\ Done(d) \in Nat /\ dc_link[c] \in Nat
        BY <1>1, <2>1, <4>3, TimeTypes
      <4>5. DcArrival[t] <= DcArrival[d] /\ DcArrival[d] - DcArrival[t] = Done(t) - Done(d)
        BY <3>3, <4>2, <4>4 DEF InTheLine
      <4>6. /\ d \in Behind /\ t <= d /\ dc_support[d]
            /\ \A v \in DcIds : t <= v /\ v < d => ~dc_support[v]
        <5>1. \A v \in DcIds : v \in Nat
          BY <1>1
        <5> QED
          BY <2>1, <2>3, <3>2, <4>2, <4>3, <5>1 DEF InTheLine
      <4>7. ASSUME NEW v \in DcIds \ {0}, t <= dc_parent[v], dc_parent[v] < d PROVE v <= d
        <5>1. dc_parent[v] \in Nat
          BY <1>1, Parents
        <5>2. CASE dc_parent[v] = t
          BY <3>2, <4>2, <5>2 DEF InTheLine
        <5>3. CASE dc_parent[v] # t
          <6>1. c <= dc_parent[v]
            BY <2>1, <3>2, <4>7, <5>1, <5>3
          <6> QED
            BY <4>2, <4>7, <6>1 DEF InTheLine
        <5> QED
          BY <5>2, <5>3
      <4>8. ASSUME NEW v \in DcIds, t < v, v <= d PROVE t <= dc_parent[v]
        <5>1. v \in Nat /\ v # 0
          BY <1>1, <2>1, <4>8
        <5>2. dc_parent[v] \in Nat
          BY <1>1, <5>1, Parents
        <5>3. CASE v = c
          BY <2>1, <3>1, <5>3
        <5>4. CASE v # c
          <6>1. c < v
            BY <2>1, <3>2, <4>8, <5>1, <5>4
          <6>2. c <= dc_parent[v]
            BY <4>2, <4>8, <6>1 DEF InTheLine
          <6> QED
            BY <2>1, <3>2, <5>2, <6>2
        <5> QED
          BY <5>3, <5>4
      <4>9. InTheLine(t, d)
        BY <4>5, <4>6, <4>7, <4>8 DEF InTheLine
      <4> QED
        BY <3>3, <3>6, <4>1, <4>9
    <3> QED
      BY <3>5, <3>6
  <2>4. CASE ~dc_support[t] /\ ~(\E c \in DcIds \ {0} : dc_parent[c] = t)
    <3>1. \A p \in DcPorts : p \notin DcOpen(t)
      BY <1>1, <2>1, <2>4, OpenPorts DEF Built
    <3>2. D[t] = DcNone
      <4>1. \A p \in {3, 1, 2} : Reach(t, p) = DcNone
        BY <3>1, Loop DEF Reach
      <4> QED
        BY <1>1, <2>1, <2>4, <4>1, NextDcs
    <3>3. \A v \in Behind : v <= t
      <4>1. DcInLine(t)
        BY <2>4 DEF Lined, Behind
      <4>2. DcBehind(t, 3) = {}
        BY <2>4 DEF DcBehind
      <4> QED
        BY <4>1, <4>2 DEF DcInLine, Behind
    <3>4. NoneFrom(t)
      <4>1. \A v \in Behind : v \in Nat
        BY <1>1
      <4> QED
        BY <2>1, <2>4, <3>3, <4>1 DEF NoneFrom
    <3> QED
      BY <3>2, <3>4
  <2> QED
    BY <2>2, <2>3, <2>4
<1>4. Behind \subseteq T
  <2> HIDE DEF T, m
  <2> QED
    BY <1>2, <1>3, ByRank
<1> QED
  BY <1>4

\* All with distributed clocks that are behind a slave are behind the next one, or it.
LEMMA BehindNext ==
  ASSUME Lined, NEW t \in Behind, NEW d, d = ec_slave_find_next_dc_slave[t], d # DcNone,
         NEW u \in DcSubtree(t), dc_support[u]
  PROVE  u \in DcSubtree(d)
<1>1. InTheLine(t, d) /\ t \in DcIds /\ Built
  BY Lines, LinedFacts
<1>2. d \in DcIds /\ u \in DcIds /\ t <= u
  BY <1>1, LinedFacts, Subtrees DEF InTheLine
<1>3. d \in Nat /\ u \in Nat /\ t \in Nat
  BY <1>1, <1>2, Slaves
<1>4. d <= u
  BY <1>1, <1>2, <1>3 DEF InTheLine
<1>5. ASSUME NEW v \in d + 1 .. u PROVE dc_parent[v] >= d
  <2>1. t <= d
    BY <1>1 DEF InTheLine
  <2>2. v \in t + 1 .. u /\ v \in Nat /\ d < v /\ v <= u /\ v # 0
    BY <1>3, <2>1
  <2>3. dc_parent[v] >= t
    BY <2>2 DEF DcSubtree
  <2>4. v \in DcIds
    BY <1>2, <1>3, <2>2, Slaves
  <2>5. dc_parent[v] \in Nat
    BY <1>1, <2>2, <2>4, Parents
  <2>6. t <= dc_parent[v] /\ dc_parent[v] < d => v <= d
    BY <1>1, <2>2, <2>4 DEF InTheLine
  <2> QED
    BY <1>3, <2>2, <2>3, <2>5, <2>6
<1> QED
  BY <1>2, <1>3, <1>4, <1>5 DEF DcSubtree

\* Two slaves with distributed clocks do not measure to the same one.
LEMMA OneMeasurer ==
  ASSUME Lined, NEW t \in Behind \ {0}, NEW v \in Behind \ {0}, t < v,
         dc_support[dc_parent[v]],
         ec_slave_find_next_dc_slave[t] # DcNone,
         ec_slave_find_next_dc_slave[t] = ec_slave_find_next_dc_slave[v]
  PROVE  FALSE
<1>1. PICK d : d = ec_slave_find_next_dc_slave[t]
  OBVIOUS
<1>2. InTheLine(t, d) /\ InTheLine(v, d)
  BY <1>1, Lines
<1>3. v \in DcIds \ {0} /\ v <= d /\ d \in Nat /\ v \in Nat
  BY <1>2, LinedFacts, Slaves DEF InTheLine
<1>4. dc_parent[v] \in DcIds /\ dc_parent[v] < v /\ dc_parent[v] \in Nat
  BY <1>3, LinedFacts, Parents
<1>5. t <= dc_parent[v] /\ dc_parent[v] < d
  BY <1>2, <1>3, <1>4 DEF InTheLine
<1> QED
  BY <1>2, <1>4, <1>5 DEF InTheLine

-----------------------------------------------------------------------------
(***************************************************************************)
(* The clocks wrap around.                                                 *)
(***************************************************************************)
LEMMA Remainder ==
  ASSUME NEW m \in Nat \ {0}, NEW k \in Int, NEW r \in 0 .. m - 1, NEW a \in Int, a = k * m + r
  PROVE  a % m = r
<1> DEFINE q == a \div m
           A == q * m
           B == k * m
<1>1. q \in Int /\ a % m \in 0 .. m - 1 /\ a = A + (a % m) /\ A \in Int /\ B \in Int
  OBVIOUS
<1>2. q + 1 <= k => (q + 1) * m <= k * m
  BY <1>1
<1>3. k + 1 <= q => (k + 1) * m <= q * m
  BY <1>1
<1>4. (q + 1) * m = A + m /\ (k + 1) * m = B + m
  BY <1>1
<1>5. ~(q + 1 <= k) /\ ~(k + 1 <= q)
  <2>1. a = B + r
    OBVIOUS
  <2> HIDE DEF A, B, q
  <2> QED
    BY <1>1, <1>2, <1>3, <1>4, <2>1 DEF A, B
<1>6. q = k
  <2> HIDE DEF q
  <2> QED
    BY <1>1, <1>5
<1>7. A = B
  BY <1>6
<1> QED
  BY <1>1, <1>7

LEMMA Difference ==
  ASSUME NEW m \in Nat \ {0}, NEW y \in Nat, NEW e \in 0 .. m - 1
  PROVE  (((y + e) % m) - (y % m)) % m = e
<1> DEFINE x == y + e
           A == (x \div m) * m
           B == (y \div m) * m
           k == (y \div m) - (x \div m)
<1>1. /\ x \div m \in Int /\ x % m \in 0 .. m - 1 /\ x = A + (x % m)
      /\ y \div m \in Int /\ y % m \in 0 .. m - 1 /\ y = B + (y % m)
      /\ A \in Int /\ B \in Int
  OBVIOUS
<1>2. k \in Int /\ k * m = B - A
  BY <1>1
<1>3. (x % m) - (y % m) = k * m + e
  <2> HIDE DEF A, B, k
  <2>1. x = y + e
    OBVIOUS
  <2> HIDE DEF x
  <2> QED
    BY <1>1, <1>2, <2>1
<1>4. (x % m) - (y % m) \in Int
  BY <1>1
<1> HIDE DEF k, x
<1>5. ((x % m) - (y % m)) % m = e
  BY <1>2, <1>3, <1>4, Remainder
<1> QED
  BY <1>5 DEF x

LEMMA Small ==
  ASSUME NEW m \in Nat \ {0}, NEW e \in 0 .. m - 1
  PROVE  e % m = e /\ (2 * e < m => (2 * e) % m = 2 * e)
<1>1. e % m = e
  BY Remainder, e = 0 * m + e
<1>2. 2 * e < m => 2 * e \in 0 .. m - 1 /\ 2 * e = 0 * m + 2 * e
  OBVIOUS
<1>3. 2 * e < m => (2 * e) % m = 2 * e
  BY <1>2, Remainder
<1> QED
  BY <1>1, <1>3

-----------------------------------------------------------------------------
(***************************************************************************)
(* What the receive times say.                                             *)
(***************************************************************************)
\* The frame is back within one round of the clocks, and its times have been latched.
Latched ==
  /\ Found
  /\ dc_clock \in [DcIds -> Nat]
  /\ DcUntil(0, 3) < DcModulus
  /\ \A s \in DcIds, p \in DcPorts :
       dc_support[s] /\ p \in {0} \cup DcOpen(s) =>
         dc_receive[s][p] = (dc_clock[s] + DcArrival[s] + DcUntil(s, DcRank[p])) % DcModulus

LEMMA Bounded ==
  ASSUME Built, DcUntil(0, 3) < DcModulus
  PROVE  /\ \A t \in DcIds \ {0} : DcRoundTrip[t] \in 0 .. DcModulus - 1
         /\ \A s \in DcIds : \A k \in 0 .. 3 : DcUntil(s, k) \in 0 .. DcModulus - 1
         /\ \A s \in DcIds : Done(s) \in 0 .. DcModulus - 1
<1>1. DcModulus \in Nat /\ 0 \in DcIds /\ DcUntil(0, 3) \in Nat
  BY DcTimesAssumption, Slaves, TimeTypes
<1>2. ASSUME NEW t \in DcIds \ {0} PROVE DcRoundTrip[t] \in 0 .. DcModulus - 1
  <2>1. DcRoundTrip[t] \in Nat /\ DcRoundTrip[t] <= DcUntil(0, 3)
    BY TimeTypes, BackLast
  <2> QED
    BY <1>1, <2>1
<1>3. ASSUME NEW s \in DcIds PROVE Done(s) \in 0 .. DcModulus - 1
  <2>1. Done(s) \in Nat /\ Done(s) <= DcUntil(0, 3)
    BY TimeTypes, BackLast
  <2> QED
    BY <1>1, <2>1
<1>4. ASSUME NEW s \in DcIds, NEW k \in 0 .. 3 PROVE DcUntil(s, k) \in 0 .. DcModulus - 1
  <2>1. /\ DcUntil(s, 3) <= Done(s) /\ DcUntil(s, 3) \in Nat /\ Done(s) \in Nat
        /\ DcUntil(s, 1) \in Nat /\ DcUntil(s, 2) \in Nat /\ DcUntil(s, 0) = 0
    <3>1. 1 \in 0 .. 3 /\ 2 \in 0 .. 3 /\ 3 \in 0 .. 3
      OBVIOUS
    <3>2. /\ DcArrival[s] \in Nat /\ DcUntil(s, 3) = Done(s) - DcArrival[s] /\ Done(s) \in Nat
          /\ DcUntil(s, 1) \in Nat /\ DcUntil(s, 2) \in Nat /\ DcUntil(s, 3) \in Nat
          /\ DcUntil(s, 0) = 0
      BY <3>1, TimeTypes, Untils
    <3> QED
      BY <3>2
  <2>2. DcUntil(s, 1) <= DcUntil(s, 3) /\ DcUntil(s, 2) <= DcUntil(s, 3)
    <3>1. DcUntil(s, 3) = DcUntil(s, 3 - 1) + Through(s, 2)
      BY Untils, Loop
    <3>2. DcUntil(s, 2) = DcUntil(s, 2 - 1) + Through(s, 1)
      BY Untils, Loop
    <3>3. Through(s, 1) \in Nat /\ Through(s, 2) \in Nat
      BY Untils, Loop
    <3>4. DcUntil(s, 3) = DcUntil(s, 2) + Through(s, 2) /\ DcUntil(s, 2) = DcUntil(s, 1) + Through(s, 1)
      BY <3>1, <3>2
    <3> QED
      BY <2>1, <3>3, <3>4
  <2>3. k = 0 \/ k = 1 \/ k = 2 \/ k = 3
    OBVIOUS
  <2>4. Done(s) <= DcModulus - 1
    BY <1>1, <1>3
  <2> QED
    BY <1>1, <2>1, <2>2, <2>3, <2>4
<1> QED
  BY <1>2, <1>3, <1>4

\* The round trip through a port is the time spent behind it.
LEMMA RoundTripSeen ==
  ASSUME Latched, NEW s \in DcIds, dc_support[s], NEW p \in DcPorts \ {0}, p \in DcOpen(s)
  PROVE  DcRtt(s, p) = Through(s, p) /\ Through(s, p) \in 0 .. DcModulus - 1
<1> DEFINE q == ec_slave_get_previous_port(s, p)
           M == DcModulus
<1>1. Built /\ Found /\ M \in Nat \ {0} /\ \A v \in DcIds : DcAt(s, p) = v => v \in DcIds
  BY DcTimesAssumption DEF Latched, Found
<1>2. Through(s, p) \in 0 .. M - 1
  <2>1. Through(s, p) = DcRoundTrip[DcAt(s, p)] /\ DcAt(s, p) \in DcIds \ {0}
    BY <1>1, AtPort DEF Through
  <2>2. DcRoundTrip[DcAt(s, p)] \in 0 .. M - 1
    BY <1>1, <2>1, Bounded DEF Latched
  <2> QED
    BY <2>1, <2>2
<1>3. q \in {0} \cup DcOpen(s) /\ q \in DcPorts /\ DcUntil(s, DcRank[q]) = DcUntil(s, DcRank[p] - 1)
  <2>1. DcPrevTable[3] = 0 /\ DcPrevTable[1] = 3 /\ DcPrevTable[2] = 1
    BY DEF DcPrevTable, DcPorts
  <2>2. \A o \in {3, 1, 2} : dc_next[s][o] # DcNone <=> o \in DcOpen(s)
    <3>1. \A o \in {3, 1, 2} : dc_next[s][o] = IF o \in DcOpen(s) THEN DcAt(s, o) ELSE DcNone
      BY <1>1, NextSlaves, Loop
    <3>2. \A o \in {3, 1, 2} : o \in DcOpen(s) => DcAt(s, o) # DcNone
      BY <1>1, AtPort, Loop, Slaves
    <3> QED
      BY <3>1, <3>2
  <2>3. \A o \in {3, 1, 2} : o \notin DcOpen(s) => Through(s, o) = 0
    BY DEF Through
  <2>4. DcUntil(s, 1) = DcUntil(s, 0) + Through(s, 3) /\ DcUntil(s, 2) = DcUntil(s, 1) + Through(s, 1)
    <3>1. DcUntil(s, 1) = DcUntil(s, 1 - 1) + Through(s, 3)
      BY <1>1, Untils, Loop
    <3>2. DcUntil(s, 2) = DcUntil(s, 2 - 1) + Through(s, 1)
      BY <1>1, Untils, Loop
    <3> QED
      BY <3>1, <3>2
  <2>5. DcUntil(s, 0) = 0 /\ DcUntil(s, 1) \in Nat /\ DcUntil(s, 2) \in Nat
    BY <1>1, Untils
  <2>6. CASE p = 3
    <3>1. q = 0
      BY <2>1, <2>6 DEF ec_slave_get_previous_port
    <3>2. DcRank[q] = 0 /\ DcRank[p] - 1 = 0 /\ q \in DcPorts
      BY <2>6, <3>1, Loop
    <3> QED
      BY <3>1, <3>2
  <2>7. CASE p = 1
    <3>1. q = IF 3 \in DcOpen(s) THEN 3 ELSE 0
      BY <2>1, <2>2, <2>7 DEF ec_slave_get_previous_port
    <3>2. DcRank[p] - 1 = 1 /\ DcRank[3] = 1 /\ DcRank[0] = 0 /\ 3 \in DcPorts /\ 0 \in DcPorts
      BY <2>7, Loop
    <3>3. 3 \notin DcOpen(s) => DcUntil(s, 1) = DcUntil(s, 0)
      BY <2>3, <2>4, <2>5
    <3> HIDE DEF q
    <3> QED
      BY <3>1, <3>2, <3>3
  <2>8. CASE p = 2
    <3>1. q = IF 1 \in DcOpen(s) THEN 1 ELSE IF 3 \in DcOpen(s) THEN 3 ELSE 0
      BY <2>1, <2>2, <2>8 DEF ec_slave_get_previous_port
    <3>2. /\ DcRank[p] - 1 = 2 /\ DcRank[1] = 2 /\ DcRank[3] = 1 /\ DcRank[0] = 0
          /\ 3 \in DcPorts /\ 0 \in DcPorts /\ 1 \in DcPorts
      BY <2>8, Loop
    <3>3. 3 \notin DcOpen(s) => DcUntil(s, 1) = DcUntil(s, 0)
      BY <2>3, <2>4, <2>5
    <3>4. 1 \notin DcOpen(s) => DcUntil(s, 2) = DcUntil(s, 1)
      BY <2>3, <2>4, <2>5
    <3> HIDE DEF q
    <3> QED
      BY <3>1, <3>2, <3>3, <3>4
  <2> QED
    BY <2>6, <2>7, <2>8, Loop
<1> DEFINE y == dc_clock[s] + DcArrival[s] + DcUntil(s, DcRank[p] - 1)
           e == Through(s, p)
<1>4. y \in Nat /\ dc_clock[s] + DcArrival[s] + DcUntil(s, DcRank[p]) = y + e
  <2>1. dc_clock[s] \in Nat /\ DcArrival[s] \in Nat
    BY <1>1, TimeTypes DEF Latched
  <2>2. /\ DcRank[p] - 1 \in 0 .. 2 /\ DcUntil(s, DcRank[p]) = DcUntil(s, DcRank[p] - 1) + e
        /\ e \in Nat
    BY <1>1, Untils
  <2>3. DcUntil(s, DcRank[p] - 1) \in Nat
    <3>1. DcRank[p] - 1 \in 0 .. 3
      BY <2>2
    <3> QED
      BY <1>1, <3>1, Untils
  <2> HIDE DEF e
  <2> QED
    BY <2>1, <2>2, <2>3
<1>5. dc_receive[s][p] = (y + e) % M
  BY <1>4 DEF Latched
<1>6. dc_receive[s][q] = y % M
  <2> HIDE DEF q
  <2> QED
    BY <1>3 DEF Latched
<1>7. DcRtt(s, p) = (((y + e) % M) - (y % M)) % M
  <2> HIDE DEF y, e
  <2> QED
    BY <1>5, <1>6 DEF DcRtt, DcMinus
<1> HIDE DEF y, e, M
<1>8. (((y + e) % M) - (y % M)) % M = e
  BY <1>1, <1>2, <1>4, Difference DEF e, M
<1> QED
  BY <1>2, <1>7, <1>8 DEF e, M

\* The sum for a slave is the time spent behind it.
LEMMA SumSeen ==
  ASSUME Latched, NEW s \in DcIds, dc_support[s]
  PROVE  ec_slave_calc_rtt_sum(s) = DcUntil(s, 3)
<1> DEFINE M == DcModulus
           Add(sum, p) == IF dc_next[s][p] = DcNone THEN sum ELSE (sum + DcRtt(s, p)) % M
<1>1. Built /\ Found /\ M \in Nat \ {0}
  BY DcTimesAssumption DEF Latched, Found
<1>2. ASSUME NEW p \in DcPorts \ {0}
      PROVE  Add(DcUntil(s, DcRank[p] - 1), p) = DcUntil(s, DcRank[p])
  <2>1. /\ DcRank[p] \in 0 .. 3 /\ DcRank[p] - 1 \in 0 .. 3
        /\ DcUntil(s, DcRank[p]) = DcUntil(s, DcRank[p] - 1) + Through(s, p)
    <3>1. /\ DcRank[p] \in 1 .. 3
          /\ DcUntil(s, DcRank[p]) = DcUntil(s, DcRank[p] - 1) + Through(s, p)
      BY <1>1, Untils
    <3> QED
      BY <3>1
  <2>2. DcUntil(s, DcRank[p]) \in 0 .. M - 1 /\ DcUntil(s, DcRank[p] - 1) \in Nat
    BY <1>1, <2>1, Bounded, Untils DEF Latched
  <2>3. CASE p \in DcOpen(s)
    <3>1. DcAt(s, p) # DcNone /\ dc_next[s][p] = DcAt(s, p)
      BY <1>1, <2>3, AtPort, NextSlaves, Slaves
    <3>2. DcRtt(s, p) = Through(s, p)
      BY <2>3, RoundTripSeen
    <3>3. DcUntil(s, DcRank[p]) % M = DcUntil(s, DcRank[p])
      BY <1>1, <2>2, Small
    <3> HIDE DEF M
    <3> QED
      BY <2>1, <3>1, <3>2, <3>3
  <2>4. CASE p \notin DcOpen(s)
    <3>1. dc_next[s][p] = DcNone /\ Through(s, p) = 0
      BY <1>1, <2>4, NextSlaves DEF Through
    <3> QED
      BY <2>1, <2>2, <3>1
  <2> QED
    BY <2>3, <2>4
<1>3. /\ Add(DcUntil(s, 0), 3) = DcUntil(s, 1)
      /\ Add(DcUntil(s, 1), 1) = DcUntil(s, 2)
      /\ Add(DcUntil(s, 2), 2) = DcUntil(s, 3)
  <2>1. Add(DcUntil(s, 1 - 1), 3) = DcUntil(s, 1)
    BY <1>2, Loop
  <2>2. Add(DcUntil(s, 2 - 1), 1) = DcUntil(s, 2)
    BY <1>2, Loop
  <2>3. Add(DcUntil(s, 3 - 1), 2) = DcUntil(s, 3)
    BY <1>2, Loop
  <2> HIDE DEF Add
  <2> QED
    BY <2>1, <2>2, <2>3
<1>4. DcUntil(s, 0) = 0
  BY <1>1, Untils
<1>5. ec_slave_calc_rtt_sum(s) = Add(Add(Add(0, 3), 1), 2)
  BY Loop DEF ec_slave_calc_rtt_sum, DcOverPorts
<1> HIDE DEF Add
<1> QED
  BY <1>3, <1>4, <1>5

\* Half of what is left of a round trip is the time from a slave to the next one: the frame
\* comes as long before it passes that one as it needs to come back from it.
LEMMA DelaySeen ==
  ASSUME Latched, Lined, NEW t \in Behind \ {0}, dc_support[dc_parent[t]],
         dc_parent[t] \in Behind, ec_slave_find_next_dc_slave[t] # DcNone
  PROVE  LET s == dc_parent[t]
             p == dc_port[t]
             d == ec_slave_find_next_dc_slave[t]
         IN /\ DcNextDc(s, p) = d
            /\ DcPortDelay(s, p) = DcArrival[d] - Back(s, DcRank[p] - 1)
            /\ DcPortDelay(s, p) = Back(s, DcRank[p]) - Done(d)
            /\ DcPortDelay(s, p) \in Nat
<1> DEFINE s == dc_parent[t]
           p == dc_port[t]
           k == DcRank[p]
           M == DcModulus
<1>1. PICK d : d = ec_slave_find_next_dc_slave[t]
  OBVIOUS
<1>2. Built /\ Found /\ M \in Nat \ {0} /\ t \in DcIds \ {0} /\ s \in DcIds
  BY DcTimesAssumption, LinedFacts DEF Latched
<1>3. p \in DcPorts \ {0} /\ p \in DcOpen(s) /\ DcAt(s, p) = t /\ t # DcNone
  BY <1>2, Parents, Slaves
<1>4. InTheLine(t, d) /\ d \in DcIds
  BY <1>1, Lines, LinedFacts DEF InTheLine
<1>5. dc_next[s][p] = t
  BY <1>2, <1>3, NextSlaves
<1>6. DcNextDc(s, p) = d
  <2> HIDE DEF s, p
  <2>1. dc_support[s]
    BY DEF s
  <2> QED
    BY <1>1, <1>3, <1>5, <2>1 DEF DcNextDc
<1>7. DcRtt(s, p) = DcRoundTrip[t] /\ DcRoundTrip[t] \in 0 .. M - 1
  <2>1. Through(s, p) = DcRoundTrip[t]
    BY <1>3 DEF Through
  <2> QED
    BY <1>2, <1>3, <2>1, RoundTripSeen
<1>8. ec_slave_calc_rtt_sum(d) = DcUntil(d, 3)
  BY <1>4, SumSeen DEF InTheLine
<1> DEFINE e == DcArrival[d] - Back(s, k - 1)
<1>9. /\ e \in Nat /\ e = Back(s, k) - Done(d)
      /\ DcRoundTrip[t] - DcUntil(d, 3) = 2 * e
      /\ 2 * e <= DcRoundTrip[t]
  <2> DEFINE a == Back(s, k - 1)
             b == Back(s, k)
  <2>1. DcArrival[t] = a + dc_link[t] /\ b = Done(t) + dc_link[t] /\ b = a + DcRoundTrip[t]
    BY <1>2, Times
  <2>2. /\ DcArrival[t] <= DcArrival[d]
        /\ DcArrival[d] - DcArrival[t] = Done(t) - Done(d)
    BY <1>4 DEF InTheLine
  <2>3. /\ DcArrival[t] \in Nat /\ DcArrival[d] \in Nat /\ Done(t) \in Nat /\ Done(d) \in Nat
        /\ dc_link[t] \in Nat /\ DcRoundTrip[t] \in Nat
        /\ DcUntil(d, 3) = Done(d) - DcArrival[d] /\ DcArrival[d] <= Done(d)
    BY <1>2, <1>4, TimeTypes
  <2>4. a \in Nat
    <3>1. k \in 1 .. 3
      BY <1>2, Parents
    <3>2. k - 1 \in 0 .. 3
      BY <3>1
    <3> QED
      BY <1>2, <3>2, TimeTypes
  <2> HIDE DEF a, b
  <2>5. /\ DcArrival[d] - a \in Nat /\ DcArrival[d] - a = b - Done(d)
        /\ DcRoundTrip[t] - DcUntil(d, 3) = 2 * (DcArrival[d] - a)
        /\ 2 * (DcArrival[d] - a) <= DcRoundTrip[t]
    BY <2>1, <2>2, <2>3, <2>4
  <2> QED
    BY <2>5 DEF a, b
<1>10. DcPortDelay(s, p) = ((2 * e) % M) \div 2
  <2> HIDE DEF s, p, e
  <2> QED
    BY <1>6, <1>7, <1>8, <1>9 DEF DcPortDelay, DcMinus
<1> HIDE DEF e, M
<1>11. ((2 * e) % M) \div 2 = e
  <2>1. e \in 0 .. M - 1 /\ 2 * e < M
    BY <1>2, <1>7, <1>9
  <2>2. (2 * e) % M = 2 * e
    BY <1>2, <2>1, Small
  <2> QED
    BY <1>9, <2>2
<1> QED
  BY <1>1, <1>6, <1>9, <1>10, <1>11 DEF e

-----------------------------------------------------------------------------
(***************************************************************************)
(* The sums.                                                               *)
(***************************************************************************)
\* The neighbours are known, and so are the delays behind the ports.
Measured == Found /\ dc_port_delay \in [DcIds -> [DcPorts -> Nat]]

LEMMA ReachLater ==
  ASSUME Found, NEW s \in DcIds, NEW p \in DcPorts, Reach(s, p) # DcNone
  PROVE  /\ p \in DcOpen(s) /\ Reach(s, p) = ec_slave_find_next_dc_slave[DcAt(s, p)]
         /\ Reach(s, p) \in DcSubtree(DcAt(s, p)) /\ dc_support[Reach(s, p)]
         /\ Reach(s, p) \in DcIds /\ s < Reach(s, p)
<1>1. p \in DcOpen(s) /\ Reach(s, p) = ec_slave_find_next_dc_slave[DcAt(s, p)]
  BY DEF Reach
<1>2. PICK t \in DcIds \ {0} : t = DcAt(s, p) /\ s < t
  BY <1>1, AtPort DEF Found
<1>3. Reach(s, p) \in DcSubtree(t) /\ dc_support[Reach(s, p)]
  BY <1>1, <1>2, NextDcBehind
<1>4. Reach(s, p) \in DcIds /\ t <= Reach(s, p)
  BY <1>2, <1>3, Subtrees DEF Found
<1>5. s \in Nat /\ t \in Nat /\ Reach(s, p) \in Nat
  BY <1>2, <1>4, Slaves
<1> QED
  BY <1>1, <1>2, <1>3, <1>4, <1>5

LEMMA Adds ==
  ASSUME NEW sum \in DcSums, NEW delay \in Nat
  PROVE  /\ DcAdd(sum, delay) \in DcSums
         /\ DcAdd(sum, delay).of = sum.of
         /\ DcAdd(sum, delay).delay = (sum.delay + delay) % DcModulus
<1>1. /\ sum.delay \in 0 .. DcModulus - 1 /\ sum.of \in [DcIds -> 0 .. DcModulus - 1]
      /\ DcModulus \in Nat \ {0}
  BY DcTimesAssumption DEF DcSums
<1>2. (sum.delay + delay) % DcModulus \in 0 .. DcModulus - 1
  BY <1>1
<1>3. DcAdd(sum, delay) = [delay |-> (sum.delay + delay) % DcModulus, of |-> sum.of]
  BY DEF DcAdd, DcSums
<1> QED
  BY <1>1, <1>2, <1>3 DEF DcSums

\* A call of ec_slave_calc_transmission_delays as it begins, and one round of its loop.
Enter(s, sum) == [sum EXCEPT !.of[s] = sum.delay]

Visit(s, sum, p) ==
  IF Reach(s, p) = DcNone THEN sum
  ELSE ec_slave_calc_transmission_delays[Reach(s, p)][DcAdd(sum, dc_port_delay[s][p])]

LEMMA Enters ==
  ASSUME NEW s \in DcIds, NEW sum \in DcSums
  PROVE  /\ Enter(s, sum) \in DcSums /\ Enter(s, sum).delay = sum.delay
         /\ Enter(s, sum).of[s] = sum.delay
         /\ \A u \in DcIds : u # s => Enter(s, sum).of[u] = sum.of[u]
BY DEF Enter, DcSums

LEMMA Transmissions ==
  ASSUME Measured
  PROVE  /\ ec_slave_calc_transmission_delays \in [DcIds -> [DcSums -> DcSums]]
         /\ \A s \in DcIds, sum \in DcSums :
              ec_slave_calc_transmission_delays[s][sum] =
                DcAdd(Visit(s, Visit(s, Visit(s, Enter(s, sum), 3), 1), 2), dc_port_delay[s][0])
<1> DEFINE V == [DcSums -> DcSums]
           Once(h, s, sum, p) == IF Reach(s, p) = DcNone THEN sum
                                 ELSE h[Reach(s, p)][DcAdd(sum, dc_port_delay[s][p])]
           All(h, s, sum) == Once(h, s, Once(h, s, Once(h, s, Enter(s, sum), 3), 1), 2)
           Sum(h, s) == [sum \in DcSums |-> DcAdd(All(h, s, sum), dc_port_delay[s][0])]
           Body(h) == [s \in DcIds |-> Sum(h, s)]
           Over(h, s, sum) ==
             DcOverPorts(s,
               LAMBDA result, p :
                 LET next_dc == ec_slave_find_next_dc_slave[dc_next[s][p]]
                 IN IF next_dc = DcNone THEN result
                    ELSE h[next_dc][DcAdd(result, dc_port_delay[s][p])],
               [sum EXCEPT !.of[s] = sum.delay])
           Code(h) == [s \in DcIds |-> [sum \in DcSums |->
             LET behind == Over(h, s, sum) IN DcAdd(behind, dc_port_delay[s][0])]]
           m == [s \in DcIds |-> DcSlaves - s]
           F == [h \in [DcIds -> V] |-> Body(h)]
           C == ec_slave_calc_transmission_delays
           T == {s \in DcIds : C[s] \in V}
<1>1. m \in [DcIds -> Nat] /\ (\A s \in DcIds : m[s] < DcSlaves + 1) /\ DcSlaves + 1 \in Nat
  BY Slaves
<1>2. Found /\ \A s \in DcIds, p \in DcPorts : dc_port_delay[s][p] \in Nat
  BY DEF Measured
<1>3. ASSUME NEW s \in DcIds, NEW p \in {3, 1, 2}, Reach(s, p) # DcNone
      PROVE  Reach(s, p) \in DcIds /\ m[Reach(s, p)] < m[s]
  <2>1. Reach(s, p) \in DcIds /\ s < Reach(s, p)
    BY <1>2, <1>3, ReachLater, Loop
  <2>2. Reach(s, p) \in Nat /\ s \in Nat /\ DcSlaves \in Nat
    BY <2>1, Slaves
  <2> QED
    BY <2>1, <2>2
<1>4. ASSUME NEW h, NEW s \in DcIds, NEW p \in {3, 1, 2}, NEW sum \in DcSums,
             \A t \in DcIds : m[t] < m[s] => h[t] \in V
      PROVE  Once(h, s, sum, p) \in DcSums
  <2>1. DcAdd(sum, dc_port_delay[s][p]) \in DcSums
    BY <1>2, Adds, Loop
  <2>2. CASE Reach(s, p) = DcNone
    BY <2>2
  <2>3. CASE Reach(s, p) # DcNone
    <3>1. h[Reach(s, p)] \in V
      BY <1>3, <1>4, <2>3
    <3> QED
      BY <2>1, <2>3, <3>1
  <2> QED
    BY <2>2, <2>3
<1>5. ASSUME NEW h, NEW s \in DcIds, NEW sum \in DcSums,
             \A t \in DcIds : m[t] < m[s] => h[t] \in V
      PROVE  /\ Enter(s, sum) \in DcSums
             /\ Once(h, s, Enter(s, sum), 3) \in DcSums
             /\ Once(h, s, Once(h, s, Enter(s, sum), 3), 1) \in DcSums
             /\ All(h, s, sum) \in DcSums
  <2>1. Enter(s, sum) \in DcSums
    BY Enters
  <2>2. Once(h, s, Enter(s, sum), 3) \in DcSums
    <3> HIDE DEF Once, m, V
    <3> QED
      BY <1>4, <1>5, <2>1
  <2>3. Once(h, s, Once(h, s, Enter(s, sum), 3), 1) \in DcSums
    <3> HIDE DEF Once, m, V
    <3> QED
      BY <1>4, <1>5, <2>2
  <2>4. All(h, s, sum) \in DcSums
    <3> HIDE DEF Once, m, V
    <3> QED
      BY <1>4, <1>5, <2>3
  <2> QED
    BY <2>1, <2>2, <2>3, <2>4
<1>6. ASSUME NEW h, NEW s \in DcIds, \A t \in DcIds : m[t] < m[s] => h[t] \in V
      PROVE  Sum(h, s) \in V
  <2>1. ASSUME NEW sum \in DcSums PROVE DcAdd(All(h, s, sum), dc_port_delay[s][0]) \in DcSums
    <3>1. All(h, s, sum) \in DcSums
      BY <1>5, <1>6
    <3>2. dc_port_delay[s][0] \in Nat
      BY <1>2, Loop
    <3> HIDE DEF All
    <3> QED
      BY <3>1, <3>2, Adds
  <2> HIDE DEF All
  <2> QED
    BY <2>1
<1>7. F \in [[DcIds -> V] -> [DcIds -> V]]
  <2>1. ASSUME NEW h \in [DcIds -> V], NEW s \in DcIds PROVE Sum(h, s) \in V
    <3>1. \A t \in DcIds : m[t] < m[s] => h[t] \in V
      OBVIOUS
    <3> HIDE DEF Sum, V, m
    <3> QED
      BY <1>6, <3>1
  <2> HIDE DEF Sum, V
  <2> QED
    BY <2>1
<1>8. ASSUME NEW g, NEW h, NEW s \in DcIds,
             \A t \in DcIds : m[t] < m[s] => g[t] = h[t]
      PROVE  Body(g)[s] = Body(h)[s]
  <2>1. ASSUME NEW p \in {3, 1, 2}, NEW sum PROVE Once(g, s, sum, p) = Once(h, s, sum, p)
    BY <1>3, <1>8
  <2>2. ASSUME NEW sum PROVE All(g, s, sum) = All(h, s, sum)
    <3> HIDE DEF Once
    <3> QED
      BY <2>1
  <2>3. Sum(g, s) = Sum(h, s)
    <3> HIDE DEF All
    <3> QED
      BY <2>2
  <2> HIDE DEF Sum
  <2> QED
    BY <2>3
<1>9. \E f \in [DcIds -> V] : f = F[f]
  <2>1. V # {}
    <3>1. [sum \in DcSums |-> sum] \in V
      OBVIOUS
    <3> QED
      BY <3>1
  <2>2. \A g, h \in [DcIds -> V], s \in DcIds :
          (\A t \in DcIds : m[t] < m[s] => g[t] = h[t]) => F[g][s] = F[h][s]
    <3> HIDE DEF m, Body, V
    <3> QED
      BY <1>8
  <2>3. Recurses(DcIds, V, m, DcSlaves + 1, F)
    <3> HIDE DEF V, m, F
    <3> QED
      BY <1>1, <1>7, <2>1, <2>2 DEF Recurses
  <2> HIDE DEF V, m, F
  <2> QED
    BY <2>3, ByRecursion
<1>10. ASSUME NEW h, NEW s \in DcIds, NEW sum PROVE Over(h, s, sum) = All(h, s, sum)
  <2>1. \A p \in {3, 1, 2} : dc_next[s][p] = IF p \in DcOpen(s) THEN DcAt(s, p) ELSE DcNone
    BY <1>2, NextSlaves, Loop
  <2>2. \A p \in {3, 1, 2} : p \in DcOpen(s) => DcAt(s, p) # DcNone
    BY <1>2, AtPort, Slaves, Loop DEF Found
  <2>3. \A p \in {3, 1, 2} :
          /\ dc_next[s][p] = DcNone => Reach(s, p) = DcNone
          /\ dc_next[s][p] # DcNone => Reach(s, p) = ec_slave_find_next_dc_slave[dc_next[s][p]]
    BY <2>1, <2>2 DEF Reach
  <2> QED
    BY <2>3, Loop DEF DcOverPorts, Enter
<1>11. ASSUME NEW h PROVE Code(h) = Body(h)
  <2> HIDE DEF Over, All
  <2> QED
    BY <1>10
<1>12. \E f : f = Code(f)
  <2> HIDE DEF Body, Code
  <2> QED
    BY <1>9, <1>11
<1>13. C = Code(C)
  BY <1>12, Zenon DEF ec_slave_calc_transmission_delays
<1>14. C = Body(C)
  <2> HIDE DEF Body, Code, C
  <2> QED
    BY <1>11, <1>13
<1>15. \A s \in DcIds : C[s] = Sum(C, s)
  <2> HIDE DEF Sum, C
  <2> QED
    BY <1>14
<1>16. DcIds \subseteq T
  <2>1. ASSUME NEW s \in DcIds, \A t \in DcIds : m[t] < m[s] => t \in T
        PROVE  s \in T
    <3>1. \A t \in DcIds : m[t] < m[s] => C[t] \in V
      BY <2>1
    <3>2. Sum(C, s) \in V
      <4> HIDE DEF Sum, C, V, m
      <4> QED
        BY <1>6, <3>1
    <3> HIDE DEF Sum, C, V
    <3> QED
      BY <1>15, <3>2
  <2> HIDE DEF m, T
  <2> QED
    BY <1>1, <2>1, ByRank
<1>17. C \in [DcIds -> V]
  <2>1. \A s \in DcIds : C[s] \in V
    BY <1>16
  <2> HIDE DEF C, V, Sum
  <2> QED
    BY <1>14, <2>1
<1>18. ASSUME NEW s \in DcIds, NEW sum \in DcSums
       PROVE  C[s][sum] = DcAdd(All(C, s, sum), dc_port_delay[s][0])
  <2> HIDE DEF C, All
  <2> QED
    BY <1>15
<1> QED
  BY <1>17, <1>18 DEF Visit

-----------------------------------------------------------------------------
(***************************************************************************)
(* The sums are right.                                                     *)
(***************************************************************************)
\* Behind each port the delay to the next slave with distributed clocks has been measured.
DelaysKnown ==
  \A t \in Behind \ {0} :
    LET s == dc_parent[t]
        p == dc_port[t]
        d == ec_slave_find_next_dc_slave[t]
    IN s \in Behind /\ dc_support[s] /\ d # DcNone =>
         /\ dc_port_delay[s][p] = DcArrival[d] - Back(s, DcRank[p] - 1)
         /\ dc_port_delay[s][p] = Back(s, DcRank[p]) - Done(d)
         /\ dc_port_delay[d][0] = dc_port_delay[s][p]

Known ==
  /\ Measured /\ Lined /\ DelaysKnown
  /\ DcUntil(0, 3) < DcModulus

\* The time from the arrival at the reference clock.
Since(time) == time - DcArrival[dc_ref]

\* What the call for a slave makes of a sum: no other slave's delay changes, if it has come
\* with the delay of that slave then those of all behind it are right, and it goes back with
\* the time up to there, if there is a slave that will need it.
Right(s, sum, result) ==
  /\ \A u \in DcIds \ DcSubtree(s) : result.of[u] = sum.of[u]
  /\ sum.delay = Since(DcArrival[s]) =>
       /\ \A u \in DcSubtree(s) : dc_support[u] => result.of[u] = Since(DcArrival[u])
       /\ \/ result.delay = (Since(Done(s)) + dc_port_delay[s][0]) % DcModulus
          \/ \A v \in Behind \ DcSubtree(s) : s < v => ~dc_support[v]

\* The neighbours behind the ports that the loop of a call has been at, and the slaves that
\* it has still to come to.
Seen(s, k) == {t \in DcIds \ {0} : dc_parent[t] = s /\ DcRank[dc_port[t]] <= k}
Ahead(s, k) == {v \in Behind : s < v /\ \A t \in Seen(s, k) : t < v /\ v \notin DcSubtree(t)}

RightUntil(s, sum, result, k) ==
  /\ result \in DcSums
  /\ \A u \in DcIds \ DcSubtree(s) : result.of[u] = sum.of[u]
  /\ sum.delay = Since(DcArrival[s]) =>
       /\ result.of[s] = Since(DcArrival[s])
       /\ \A t \in Seen(s, k) : \A u \in DcSubtree(t) :
            dc_support[u] => result.of[u] = Since(DcArrival[u])
       /\ \/ result.delay = Since(Back(s, k))
          \/ \A v \in Ahead(s, k) : ~dc_support[v]

LEMMA SinceTypes ==
  ASSUME Known, NEW s \in Behind
  PROVE  /\ Since(DcArrival[s]) \in 0 .. DcModulus - 1
         /\ Since(Done(s)) \in 0 .. DcModulus - 1
         /\ \A k \in 0 .. 3 : Since(Back(s, k)) \in 0 .. DcModulus - 1
<1>1. Built /\ dc_ref \in DcIds /\ s \in DcIds /\ DcModulus \in Nat
  BY LinedFacts, DcTimesAssumption DEF Known
<1>2. DcArrival[dc_ref] <= DcArrival[s]
  BY <1>1, ArrivesLater DEF Behind
<1>3. /\ DcArrival[s] \in Nat /\ DcArrival[dc_ref] \in Nat /\ Done(s) \in 0 .. DcModulus - 1
      /\ DcArrival[s] <= Done(s)
  BY <1>1, TimeTypes, Bounded DEF Known
<1>4. ASSUME NEW k \in 0 .. 3 PROVE DcArrival[s] <= Back(s, k) /\ Back(s, k) <= Done(s) /\ Back(s, k) \in Nat
  <2>1. k = 0 \/ k = 1 \/ k = 2 \/ k = 3
    OBVIOUS
  <2>2. /\ DcUntil(s, 3) = DcUntil(s, 3 - 1) + Through(s, 2)
        /\ DcUntil(s, 2) = DcUntil(s, 2 - 1) + Through(s, 1)
        /\ DcUntil(s, 1) = DcUntil(s, 1 - 1) + Through(s, 3)
        /\ Through(s, 1) \in Nat /\ Through(s, 2) \in Nat /\ Through(s, 3) \in Nat
    BY <1>1, Untils, Loop
  <2>3. /\ DcUntil(s, 3) = DcUntil(s, 2) + Through(s, 2)
        /\ DcUntil(s, 2) = DcUntil(s, 1) + Through(s, 1)
        /\ DcUntil(s, 1) = DcUntil(s, 0) + Through(s, 3) /\ DcUntil(s, 0) = 0
    BY <1>1, <2>2, Untils
  <2> QED
    BY <1>3, <2>1, <2>2, <2>3 DEF Back, Done
<1> QED
  BY <1>1, <1>2, <1>3, <1>4 DEF Since

\* A port with nothing behind it changes nothing.
LEMMA SeenStep ==
  ASSUME Built, NEW s \in DcIds, NEW p \in DcPorts \ {0}
  PROVE  Seen(s, DcRank[p]) =
           Seen(s, DcRank[p] - 1) \cup (IF p \in DcOpen(s) THEN {DcAt(s, p)} ELSE {})
<1>1. DcRank[p] \in 1 .. 3
  BY Untils
<1>2. ASSUME NEW t \in DcIds \ {0}, dc_parent[t] = s
      PROVE  /\ DcRank[dc_port[t]] \in 1 .. 3 /\ dc_port[t] \in DcOpen(s)
             /\ DcAt(s, dc_port[t]) = t /\ dc_port[t] \in DcPorts \ {0}
  BY <1>2, Parents
<1>3. \A q \in DcPorts \ {0} : DcRank[q] = DcRank[p] => q = p
  BY Loop
<1>4. p \in DcOpen(s) =>
        DcAt(s, p) \in DcIds \ {0} /\ dc_parent[DcAt(s, p)] = s /\ dc_port[DcAt(s, p)] = p
  BY AtPort
<1>5. ASSUME NEW t \in Seen(s, DcRank[p])
      PROVE  t \in Seen(s, DcRank[p] - 1) \/ (p \in DcOpen(s) /\ t = DcAt(s, p))
  <2>1. t \in DcIds \ {0} /\ dc_parent[t] = s /\ DcRank[dc_port[t]] <= DcRank[p]
    BY DEF Seen
  <2>2. DcRank[dc_port[t]] <= DcRank[p] - 1 \/ DcRank[dc_port[t]] = DcRank[p]
    BY <1>1, <1>2, <2>1
  <2> QED
    BY <1>2, <1>3, <2>1, <2>2 DEF Seen
<1>6. ASSUME NEW t \in Seen(s, DcRank[p] - 1) PROVE t \in Seen(s, DcRank[p])
  BY <1>1, <1>2 DEF Seen
<1>7. p \in DcOpen(s) => DcAt(s, p) \in Seen(s, DcRank[p])
  BY <1>1, <1>4 DEF Seen
<1> QED
  BY <1>5, <1>6, <1>7

LEMMA VisitsNothing ==
  ASSUME Known, NEW s \in Behind, dc_support[s], NEW sum, NEW result,
         NEW p \in DcPorts \ {0}, p \notin DcOpen(s), RightUntil(s, sum, result, DcRank[p] - 1)
  PROVE  RightUntil(s, sum, Visit(s, result, p), DcRank[p])
<1>1. Built /\ s \in DcIds
  BY LinedFacts DEF Known
<1>2. Visit(s, result, p) = result
  BY DEF Visit, Reach
<1>3. Seen(s, DcRank[p]) = Seen(s, DcRank[p] - 1)
  BY <1>1, SeenStep
<1>4. Ahead(s, DcRank[p]) = Ahead(s, DcRank[p] - 1)
  BY <1>3 DEF Ahead
<1>5. Back(s, DcRank[p]) = Back(s, DcRank[p] - 1)
  <2>1. /\ DcUntil(s, DcRank[p]) = DcUntil(s, DcRank[p] - 1) + Through(s, p)
        /\ DcRank[p] - 1 \in 0 .. 2
    BY <1>1, Untils
  <2>2. Through(s, p) = 0
    BY DEF Through
  <2>3. DcUntil(s, DcRank[p] - 1) \in Nat
    <3>1. DcRank[p] - 1 \in 0 .. 3
      BY <2>1
    <3> QED
      BY <1>1, <3>1, Untils
  <2>4. DcUntil(s, DcRank[p]) = DcUntil(s, DcRank[p] - 1)
    BY <2>1, <2>2, <2>3
  <2> QED
    BY <2>4 DEF Back
<1> QED
  BY <1>2, <1>3, <1>4, <1>5 DEF RightUntil

\* Nor does a port with no distributed clocks behind it: then there are none further on.
LEMMA VisitsBranch ==
  ASSUME Known, NEW s \in Behind, dc_support[s], NEW sum, NEW result,
         NEW p \in DcPorts \ {0}, p \in DcOpen(s), Reach(s, p) = DcNone,
         RightUntil(s, sum, result, DcRank[p] - 1)
  PROVE  RightUntil(s, sum, Visit(s, result, p), DcRank[p])
<1>1. Built /\ s \in DcIds
  BY LinedFacts DEF Known
<1>2. Visit(s, result, p) = result
  BY DEF Visit
<1>3. PICK t : t = DcAt(s, p)
  OBVIOUS
<1>4. t \in DcIds \ {0} /\ dc_parent[t] = s /\ ec_slave_find_next_dc_slave[t] = DcNone
  BY <1>1, <1>3, AtPort DEF Reach
<1>5. t \in Behind
  BY <1>1, <1>4, LinedFacts, Subtrees DEF Behind, Known
<1>6. NoneFrom(t)
  BY <1>4, <1>5, Lines DEF Known
<1>7. Seen(s, DcRank[p]) = Seen(s, DcRank[p] - 1) \cup {t}
  BY <1>1, <1>3, SeenStep
<1>8. ASSUME NEW u \in DcSubtree(t) PROVE ~dc_support[u]
  <2>1. u \in Behind /\ t <= u
    BY <1>1, <1>4, <1>5, LinedFacts, Subtrees DEF Behind, Known
  <2> QED
    BY <1>6, <2>1 DEF NoneFrom
<1>9. ASSUME NEW v \in Ahead(s, DcRank[p]) PROVE ~dc_support[v]
  <2>1. v \in Behind /\ t < v
    BY <1>7 DEF Ahead
  <2>2. v \in Nat /\ t \in Nat
    BY <1>4, <2>1, LinedFacts, Slaves DEF Known
  <2>3. t <= v
    BY <2>1, <2>2
  <2> QED
    BY <1>6, <2>1, <2>3 DEF NoneFrom
<1> QED
  BY <1>2, <1>7, <1>8, <1>9 DEF RightUntil

\* Behind any other port the call for the next slave with distributed clocks does it all.
LEMMA VisitsNext ==
  ASSUME Known, NEW s \in Behind, dc_support[s], NEW sum \in DcSums, NEW result,
         NEW p \in DcPorts \ {0}, p \in DcOpen(s), Reach(s, p) # DcNone,
         RightUntil(s, sum, result, DcRank[p] - 1),
         \A other \in DcSums :
           Right(Reach(s, p), other, ec_slave_calc_transmission_delays[Reach(s, p)][other])
  PROVE  RightUntil(s, sum, Visit(s, result, p), DcRank[p])
<1> DEFINE k == DcRank[p]
           M == DcModulus
<1>1. PICK t : t = DcAt(s, p)
  OBVIOUS
<1>2. PICK d : d = Reach(s, p)
  OBVIOUS
<1>3. Built /\ Found /\ Lined /\ Measured /\ s \in DcIds /\ M \in Nat \ {0}
  BY LinedFacts, DcTimesAssumption DEF Known
<1>4. /\ t \in DcIds \ {0} /\ dc_parent[t] = s /\ dc_port[t] = p
      /\ d = ec_slave_find_next_dc_slave[t] /\ d # DcNone
  BY <1>1, <1>2, <1>3, AtPort DEF Reach
<1>5. t \in Behind \ {0} /\ t \in DcSubtree(s) /\ s < t
  <2>1. s < t
    BY <1>1, <1>3, AtPort
  <2>2. t \in DcSubtree(s)
    BY <1>3, <1>4, Subtrees
  <2>3. t \in Behind
    BY <1>3, <1>4, LinedFacts, Subtrees DEF Behind
  <2> QED
    BY <1>4, <2>1, <2>2, <2>3
<1>6. InTheLine(t, d) /\ d \in DcSubtree(t) /\ dc_support[d] /\ d \in Behind
  BY <1>3, <1>4, <1>5, Lines, NextDcBehind DEF InTheLine
<1>7. /\ DcSubtree(d) \subseteq DcSubtree(t) /\ DcSubtree(t) \subseteq DcSubtree(s)
      /\ DcSubtree(s) \subseteq Behind
  BY <1>3, <1>4, <1>5, <1>6, LinedFacts, Subtrees DEF Behind
<1>8. /\ dc_port_delay[s][p] = DcArrival[d] - Back(s, k - 1)
      /\ dc_port_delay[s][p] = Back(s, k) - Done(d)
      /\ dc_port_delay[d][0] = dc_port_delay[s][p]
  <2>1. DelaysKnown
    BY DEF Known
  <2> QED
    BY <1>4, <1>5, <2>1 DEF DelaysKnown
<1>9. d \in DcIds /\ s \in Nat /\ t \in Nat /\ d \in Nat /\ t <= d /\ DcIds \subseteq Nat
  BY <1>3, <1>4, <1>6, LinedFacts, Slaves DEF InTheLine
<1>10. dc_port_delay[s][p] \in Nat /\ dc_port_delay[d][0] \in Nat
  BY <1>3, <1>9, Loop DEF Measured
<1>11. Seen(s, k) = Seen(s, k - 1) \cup {t}
  BY <1>1, <1>3, SeenStep
<1>12. ASSUME NEW v \in Seen(s, k - 1)
       PROVE  v \in DcIds \ {0} /\ dc_parent[v] = s /\ v < t /\ v \in Nat
  <2>1. v \in DcIds \ {0} /\ dc_parent[v] = s /\ DcRank[dc_port[v]] <= k - 1
    BY DEF Seen
  <2>2. v \in Nat /\ DcRank[dc_port[v]] \in 1 .. 3 /\ DcRank[dc_port[t]] = k /\ k \in 1 .. 3
    BY <1>3, <1>4, <2>1, Parents
  <2>3. ~(t < v)
    <3>1. SUFFICES ASSUME t < v PROVE FALSE
      OBVIOUS
    <3>2. DcRank[dc_port[t]] < DcRank[dc_port[v]]
      BY <1>3, <1>4, <2>1, <3>1, Parents
    <3> QED
      BY <2>1, <2>2, <3>2
  <2>4. v # t
    BY <2>1, <2>2
  <2> QED
    BY <1>9, <2>1, <2>2, <2>3, <2>4
<1>13. ASSUME NEW v \in Seen(s, k - 1) PROVE DcSubtree(v) \cap DcSubtree(t) = {}
  BY <1>3, <1>4, <1>12, Siblings
\* The sum, as it comes to the call.
<1>14. result \in DcSums
  BY DEF RightUntil
<1> DEFINE sent == DcAdd(result, dc_port_delay[s][p])
           new == ec_slave_calc_transmission_delays[d][sent]
<1>15. sent \in DcSums /\ sent.of = result.of
       /\ sent.delay = (result.delay + dc_port_delay[s][p]) % M
  BY <1>10, <1>14, Adds
<1>16. Visit(s, result, p) = new
  BY <1>2, <1>4 DEF Visit
<1>17. new \in DcSums
  BY <1>3, <1>9, <1>15, Transmissions
<1>18. Right(d, sent, new)
  BY <1>2, <1>15
<1>19. ASSUME NEW u \in DcIds, u \notin DcSubtree(t) PROVE new.of[u] = result.of[u]
  <2>1. u \in DcIds \ DcSubtree(d)
    BY <1>7, <1>19
  <2>2. new.of[u] = sent.of[u]
    BY <1>18, <2>1 DEF Right
  <2> QED
    BY <1>15, <2>2
<1> HIDE DEF sent, new
<1>20. \A u \in DcIds \ DcSubtree(s) : new.of[u] = sum.of[u]
  <2>1. \A u \in DcIds \ DcSubtree(s) : result.of[u] = sum.of[u]
    BY DEF RightUntil
  <2> QED
    BY <1>7, <1>19, <2>1
<1>21. ASSUME sum.delay = Since(DcArrival[s])
       PROVE  /\ new.of[s] = Since(DcArrival[s])
              /\ \A v \in Seen(s, k) : \A u \in DcSubtree(v) :
                   dc_support[u] => new.of[u] = Since(DcArrival[u])
              /\ \/ new.delay = Since(Back(s, k))
                 \/ \A v \in Ahead(s, k) : ~dc_support[v]
  <2>1. /\ result.of[s] = Since(DcArrival[s])
        /\ \A v \in Seen(s, k - 1) : \A u \in DcSubtree(v) :
             dc_support[u] => result.of[u] = Since(DcArrival[u])
        /\ \/ result.delay = Since(Back(s, k - 1))
           \/ \A v \in Ahead(s, k - 1) : ~dc_support[v]
    BY <1>21 DEF RightUntil
  <2>2. d \in Ahead(s, k - 1)
    <3>1. s < d
      BY <1>5, <1>9
    <3>2. ASSUME NEW v \in Seen(s, k - 1) PROVE v < d /\ d \notin DcSubtree(v)
      BY <1>6, <1>9, <1>12, <1>13
    <3> QED
      BY <1>6, <3>1, <3>2 DEF Ahead
  <2>3. result.delay = Since(Back(s, k - 1))
    BY <1>6, <2>1, <2>2
  <2>4. sent.delay = Since(DcArrival[d])
    <3>1. Since(DcArrival[d]) \in 0 .. M - 1
      BY <1>6, SinceTypes
    <3>2. result.delay + dc_port_delay[s][p] = Since(DcArrival[d])
      <4>1. k - 1 \in 0 .. 3
        <5>1. k \in 1 .. 3
          BY <1>3, Untils
        <5> QED
          BY <5>1
      <4>2. Back(s, k - 1) \in Nat /\ DcArrival[d] \in Nat /\ DcArrival[dc_ref] \in Nat
        BY <1>3, <1>9, <4>1, TimeTypes, LinedFacts
      <4>3. Back(s, k - 1) - DcArrival[dc_ref] + (DcArrival[d] - Back(s, k - 1))
              = DcArrival[d] - DcArrival[dc_ref]
        <5> HIDE DEF k
        <5> QED
          BY <4>2
      <4> QED
        BY <1>8, <2>3, <4>3 DEF Since
    <3> QED
      BY <1>3, <1>15, <3>1, <3>2, Small
  <2>5. /\ \A u \in DcSubtree(d) : dc_support[u] => new.of[u] = Since(DcArrival[u])
        /\ \/ new.delay = (Since(Done(d)) + dc_port_delay[d][0]) % M
           \/ \A v \in Behind \ DcSubtree(d) : d < v => ~dc_support[v]
    BY <1>18, <2>4 DEF Right
  <2>6. new.of[s] = Since(DcArrival[s])
    <3>1. s \notin DcSubtree(t)
      <4>1. ~(t <= s)
        BY <1>5, <1>9
      <4> QED
        BY <1>3, <1>4, <4>1, Subtrees
    <3> QED
      BY <1>3, <1>19, <2>1, <3>1
  <2>7. ASSUME NEW v \in Seen(s, k), NEW u \in DcSubtree(v), dc_support[u]
        PROVE  new.of[u] = Since(DcArrival[u])
    <3>1. CASE v = t
      <4>1. u \in DcSubtree(d)
        BY <1>3, <1>4, <1>5, <2>7, <3>1, BehindNext
      <4> QED
        BY <2>5, <2>7, <4>1
    <3>2. CASE v # t
      <4>1. v \in Seen(s, k - 1)
        BY <1>11, <2>7, <3>2
      <4>2. u \notin DcSubtree(t) /\ u \in DcIds
        BY <1>3, <1>12, <1>13, <2>7, <4>1, Subtrees
      <4> QED
        BY <1>19, <2>1, <2>7, <4>1, <4>2
    <3> QED
      BY <3>1, <3>2
  <2>8. new.delay = Since(Back(s, k)) \/ \A v \in Ahead(s, k) : ~dc_support[v]
    <3>1. CASE new.delay = (Since(Done(d)) + dc_port_delay[d][0]) % M
      <4>1. k \in 0 .. 3
        <5>1. k \in 1 .. 3
          BY <1>3, Untils
        <5> QED
          BY <5>1
      <4>2. Since(Back(s, k)) \in 0 .. M - 1
        BY <4>1, SinceTypes
      <4>3. Since(Done(d)) + dc_port_delay[d][0] = Since(Back(s, k))
        <5>1. Back(s, k) \in Nat /\ Done(d) \in Nat /\ DcArrival[dc_ref] \in Nat
          BY <1>3, <1>9, <4>1, TimeTypes, LinedFacts
        <5>2. Done(d) - DcArrival[dc_ref] + (Back(s, k) - Done(d)) = Back(s, k) - DcArrival[dc_ref]
          BY <5>1
        <5> QED
          BY <1>8, <5>2 DEF Since
      <4> QED
        BY <1>3, <3>1, <4>2, <4>3, Small
    <3>2. CASE \A v \in Behind \ DcSubtree(d) : d < v => ~dc_support[v]
      <4>1. ASSUME NEW v \in Ahead(s, k) PROVE ~dc_support[v]
        <5>1. v \in Behind /\ t < v /\ v \notin DcSubtree(t)
          BY <1>11 DEF Ahead
        <5>2. v \in DcIds /\ v \in Nat
          BY <1>3, <1>9, <5>1, LinedFacts
        <5>3. ~(v <= d)
          <6>1. SUFFICES ASSUME v <= d PROVE FALSE
            OBVIOUS
          <6>2. t <= v
            BY <1>9, <5>1, <5>2
          <6> QED
            BY <1>3, <1>4, <1>6, <5>1, <5>2, <6>1, <6>2, Subtrees
        <5>4. d < v /\ v \notin DcSubtree(d)
          BY <1>7, <1>9, <5>1, <5>2, <5>3
        <5> QED
          BY <3>2, <5>1, <5>4
      <4> QED
        BY <4>1
    <3> QED
      BY <2>5, <3>1, <3>2
  <2> QED
    BY <2>6, <2>7, <2>8
<1> QED
  BY <1>16, <1>17, <1>20, <1>21 DEF RightUntil

LEMMA Visits ==
  ASSUME Known, NEW s \in Behind, dc_support[s], NEW sum \in DcSums, NEW result,
         NEW p \in DcPorts \ {0}, RightUntil(s, sum, result, DcRank[p] - 1),
         \A d \in Behind : s < d /\ dc_support[d] =>
           \A other \in DcSums : Right(d, other, ec_slave_calc_transmission_delays[d][other])
  PROVE  RightUntil(s, sum, Visit(s, result, p), DcRank[p])
<1>1. CASE p \notin DcOpen(s)
  BY <1>1, VisitsNothing
<1>2. CASE p \in DcOpen(s) /\ Reach(s, p) = DcNone
  BY <1>2, VisitsBranch
<1>3. CASE p \in DcOpen(s) /\ Reach(s, p) # DcNone
  <2>1. Built /\ Found /\ s \in DcIds
    BY LinedFacts DEF Known
  <2>2. PICK t : t = DcAt(s, p)
    OBVIOUS
  <2>3. /\ t \in DcIds \ {0} /\ dc_parent[t] = s
        /\ Reach(s, p) \in DcSubtree(t) /\ dc_support[Reach(s, p)] /\ s < Reach(s, p)
        /\ Reach(s, p) = ec_slave_find_next_dc_slave[t]
    BY <1>3, <2>1, <2>2, AtPort, ReachLater
  <2>4. t \in Behind
    BY <2>1, <2>3, LinedFacts, Subtrees DEF Behind, Known
  <2>5. Reach(s, p) \in Behind
    BY <1>3, <2>3, <2>4, Lines DEF InTheLine, Known
  <2>6. \A other \in DcSums :
          Right(Reach(s, p), other, ec_slave_calc_transmission_delays[Reach(s, p)][other])
    BY <2>3, <2>5
  <2> QED
    BY <1>3, <2>6, VisitsNext
<1> QED
  BY <1>1, <1>2, <1>3

\* A call begins right, and goes back right.
LEMMA EntersRight ==
  ASSUME Known, NEW s \in Behind, NEW sum \in DcSums
  PROVE  RightUntil(s, sum, Enter(s, sum), 0)
<1>1. Built /\ s \in DcIds
  BY LinedFacts DEF Known
<1>2. Seen(s, 0) = {}
  <2>1. \A t \in DcIds \ {0} : DcRank[dc_port[t]] \in 1 .. 3
    BY <1>1, Parents
  <2> QED
    BY <2>1 DEF Seen
<1>3. Back(s, 0) = DcArrival[s]
  BY <1>1, TimeTypes
<1>4. s \in DcSubtree(s)
  BY <1>1, Subtrees
<1> QED
  BY <1>1, <1>2, <1>3, <1>4, Enters DEF RightUntil

LEMMA LeavesRight ==
  ASSUME Known, NEW s \in Behind, NEW sum \in DcSums, NEW result,
         RightUntil(s, sum, result, 3)
  PROVE  Right(s, sum, DcAdd(result, dc_port_delay[s][0]))
<1>1. Built /\ s \in DcIds /\ s \in Nat /\ dc_port_delay[s][0] \in Nat /\ DcIds \subseteq Nat
  <2>1. Built /\ s \in DcIds /\ DcIds \subseteq Nat
    BY LinedFacts, Slaves DEF Known
  <2>2. dc_port_delay \in [DcIds -> [DcPorts -> Nat]] /\ 0 \in DcPorts
    BY Loop DEF Known, Measured
  <2> QED
    BY <2>1, <2>2
<1>2. PICK last : last = DcAdd(result, dc_port_delay[s][0])
  OBVIOUS
<1>3. last.of = result.of /\ last.delay = (result.delay + dc_port_delay[s][0]) % DcModulus
  BY <1>1, <1>2, Adds DEF RightUntil
<1>4. Back(s, 3) = Done(s)
  BY DEF Done
<1>5. ASSUME NEW u \in DcSubtree(s), u # s PROVE \E t \in Seen(s, 3) : u \in DcSubtree(t)
  <2>1. PICK t \in DcIds \ {0} : dc_parent[t] = s /\ u \in DcSubtree(t)
    BY <1>1, <1>5, Branches
  <2>2. DcRank[dc_port[t]] <= 3
    <3>1. DcRank[dc_port[t]] \in 1 .. 3
      BY <1>1, <2>1, Parents
    <3> QED
      BY <3>1
  <2> QED
    BY <2>1, <2>2 DEF Seen
<1>6. ASSUME NEW v \in Behind \ DcSubtree(s), s < v PROVE v \in Ahead(s, 3)
  <2>1. v \in DcIds /\ v \in Nat
    BY <1>1, LinedFacts DEF Known
  <2>2. ASSUME NEW t \in Seen(s, 3) PROVE t < v /\ v \notin DcSubtree(t)
    <3>1. t \in DcIds \ {0} /\ dc_parent[t] = s /\ t \in Nat
      BY <1>1 DEF Seen
    <3>2. t \in DcSubtree(s)
      BY <1>1, <3>1, Subtrees
    <3>3. DcSubtree(t) \subseteq DcSubtree(s)
      BY <1>1, <3>2, Subtrees
    <3>4. ~(v <= t)
      <4>1. s <= v
        BY <1>1, <1>6, <2>1
      <4> QED
        BY <1>1, <2>1, <3>2, <4>1, Subtrees
    <3> QED
      BY <2>1, <3>1, <3>3, <3>4
  <2> QED
    BY <1>6, <2>2 DEF Ahead
<1>7. \A u \in DcIds \ DcSubtree(s) : last.of[u] = sum.of[u]
  BY <1>3 DEF RightUntil
<1>8. ASSUME sum.delay = Since(DcArrival[s])
      PROVE  /\ \A u \in DcSubtree(s) : dc_support[u] => last.of[u] = Since(DcArrival[u])
             /\ \/ last.delay = (Since(Done(s)) + dc_port_delay[s][0]) % DcModulus
                \/ \A v \in Behind \ DcSubtree(s) : s < v => ~dc_support[v]
  <2>1. /\ result.of[s] = Since(DcArrival[s])
        /\ \A t \in Seen(s, 3) : \A u \in DcSubtree(t) :
             dc_support[u] => result.of[u] = Since(DcArrival[u])
        /\ \/ result.delay = Since(Done(s))
           \/ \A v \in Ahead(s, 3) : ~dc_support[v]
    BY <1>4, <1>8 DEF RightUntil
  <2>2. \A u \in DcSubtree(s) : dc_support[u] => last.of[u] = Since(DcArrival[u])
    BY <1>3, <1>5, <2>1
  <2>3. \/ last.delay = (Since(Done(s)) + dc_port_delay[s][0]) % DcModulus
        \/ \A v \in Behind \ DcSubtree(s) : s < v => ~dc_support[v]
    BY <1>3, <1>6, <2>1
  <2> QED
    BY <2>2, <2>3
<1> QED
  BY <1>2, <1>7, <1>8 DEF Right

LEMMA CallsRight ==
  ASSUME Known, NEW s \in Behind, dc_support[s], NEW sum \in DcSums
  PROVE  Right(s, sum, ec_slave_calc_transmission_delays[s][sum])
<1> DEFINE C == ec_slave_calc_transmission_delays
           T == {v \in Behind : dc_support[v] => \A other \in DcSums : Right(v, other, C[v][other])}
           m == [v \in Behind |-> DcSlaves - v]
<1>1. Behind \subseteq DcIds /\ DcIds \subseteq Nat
  BY LinedFacts, Slaves DEF Known
<1>2. m \in [Behind -> Nat] /\ \A v \in Behind : m[v] = DcSlaves - v /\ v \in Nat /\ DcSlaves \in Nat
  BY <1>1, Slaves
<1>3. ASSUME NEW v \in Behind, \A d \in Behind : m[d] < m[v] => d \in T, dc_support[v],
             NEW other \in DcSums
      PROVE  Right(v, other, C[v][other])
  <2>1. \A d \in Behind : v < d /\ dc_support[d] => \A o \in DcSums : Right(d, o, C[d][o])
    BY <1>2, <1>3
  <2> DEFINE a == Enter(v, other)
             b == Visit(v, a, 3)
             c == Visit(v, b, 1)
             e == Visit(v, c, 2)
  <2>2. RightUntil(v, other, a, 0)
    BY EntersRight
  <2> HIDE DEF a
  <2>3. RightUntil(v, other, b, 1)
    <3>1. RightUntil(v, other, a, DcRank[3] - 1) /\ 3 \in DcPorts \ {0} /\ DcRank[3] = 1
      BY <2>2, Loop
    <3>2. RightUntil(v, other, b, DcRank[3])
      BY <1>3, <2>1, <3>1, Visits
    <3> QED
      BY <3>1, <3>2
  <2> HIDE DEF b
  <2>4. RightUntil(v, other, c, 2)
    <3>1. RightUntil(v, other, b, DcRank[1] - 1) /\ 1 \in DcPorts \ {0} /\ DcRank[1] = 2
      BY <2>3, Loop
    <3>2. RightUntil(v, other, c, DcRank[1])
      BY <1>3, <2>1, <3>1, Visits
    <3> QED
      BY <3>1, <3>2
  <2> HIDE DEF c
  <2>5. RightUntil(v, other, e, 3)
    <3>1. RightUntil(v, other, c, DcRank[2] - 1) /\ 2 \in DcPorts \ {0} /\ DcRank[2] = 3
      BY <2>4, Loop
    <3>2. RightUntil(v, other, e, DcRank[2])
      BY <1>3, <2>1, <3>1, Visits
    <3> QED
      BY <3>1, <3>2
  <2> HIDE DEF e
  <2>6. C[v][other] = DcAdd(e, dc_port_delay[v][0])
    BY <1>1, Transmissions DEF Known, a, b, c, e
  <2> QED
    BY <2>5, <2>6, LeavesRight
<1>4. ASSUME NEW v \in Behind, \A d \in Behind : m[d] < m[v] => d \in T
      PROVE  v \in T
  <2> HIDE DEF m
  <2> QED
    BY <1>3, <1>4
<1>5. Behind \subseteq T
  <2> HIDE DEF T, m
  <2> QED
    BY <1>2, <1>4, ByRank
<1> QED
  BY <1>5

\* The calls for the reference clock write the delays that are right.
LEMMA DelaysComputed ==
  ASSUME Known, NEW sum \in DcSums, sum.delay = 0, NEW u \in Behind, dc_support[u]
  PROVE  ec_slave_calc_transmission_delays[dc_ref][sum].of[u] = DcArrival[u] - DcArrival[dc_ref]
<1>1. dc_ref \in Behind /\ dc_support[dc_ref] /\ dc_ref \in DcIds /\ Built
  BY LinedFacts DEF Known, Lined
<1>2. Since(DcArrival[dc_ref]) = 0
  BY <1>1, TimeTypes DEF Since
<1>3. Right(dc_ref, sum, ec_slave_calc_transmission_delays[dc_ref][sum])
  BY <1>1, CallsRight
<1> QED
  BY <1>2, <1>3 DEF Right, Since, Behind

-----------------------------------------------------------------------------
(***************************************************************************)
(* DcTransmission.                                                         *)
(***************************************************************************)
DelayTypes ==
  /\ dc_stage \in {"bus", "latch", "ref_clock", "topology", "delays", "done"}
  /\ dc_support \in [DcIds -> BOOLEAN]
  /\ dc_link \in [DcIds \ {0} -> Nat]
  /\ dc_clock \in [DcIds -> Nat]
  /\ dc_receive \in [DcIds -> [DcPorts -> Nat]]
  /\ dc_port_delay \in [DcIds -> [DcPorts -> Nat]]
  /\ dc_delay \in [DcIds -> 0 .. DcModulus - 1]

TimesLatched ==
  \A s \in DcIds, p \in DcPorts :
    dc_support[s] /\ p \in {0} \cup DcOpen(s) =>
      dc_receive[s][p] = (dc_clock[s] + DcArrival[s] + DcUntil(s, DcRank[p])) % DcModulus

RefFirst ==
  dc_ref # DcNone =>
    dc_ref \in DcIds /\ dc_support[dc_ref] /\ \A t \in DcIds : t < dc_ref => ~dc_support[t]

DelaysMeasured == Lined /\ DcUntil(0, 3) < DcModulus => DelaysKnown

DelayInv ==
  /\ WiringInv /\ DelayTypes
  /\ dc_stage # "bus" => dc_pc # "idle"
  /\ dc_stage \in {"ref_clock", "topology"} => TimesLatched
  /\ dc_stage \in {"topology", "delays"} => RefFirst
  /\ dc_stage \in {"delays", "done"} => dc_pc = "found"
  /\ dc_stage = "delays" => DelaysMeasured
  /\ DcDelaysRight

LEMMA SameTimes ==
  ASSUME UNCHANGED <<dc_parent, dc_port, dc_link>>
  PROVE  /\ DcArrival' = DcArrival
         /\ \A s, k : DcUntil(s, k)' = DcUntil(s, k)
         /\ \A s : DcOpen(s)' = DcOpen(s) /\ DcSubtree(s)' = DcSubtree(s)
         /\ \A s, k : DcBehind(s, k)' = DcBehind(s, k)
<1>1. \A s, p : DcAt(s, p)' = DcAt(s, p)
  BY DEF DcAt
<1>2. \A s : DcOpen(s)' = DcOpen(s) /\ DcSubtree(s)' = DcSubtree(s)
  BY DEF DcOpen, DcBehind, DcSubtree
<1>3. DcRoundTrip' = DcRoundTrip
  BY <1>1, <1>2 DEF DcRoundTrip
<1>4. \A s, k : DcUntil(s, k)' = DcUntil(s, k)
  BY <1>1, <1>2, <1>3 DEF DcUntil
<1>5. DcArrival' = DcArrival
  BY <1>4 DEF DcArrival
<1>6. \A s, k : DcBehind(s, k)' = DcBehind(s, k)
  BY DEF DcBehind
<1> QED
  BY <1>2, <1>4, <1>5, <1>6

LEMMA SameLines ==
  ASSUME UNCHANGED <<dcWiringVars, dc_support, dc_link, dc_ref>>
  PROVE  /\ Lined' <=> Lined
         /\ Behind' = Behind
         /\ ec_slave_find_next_dc_slave' = ec_slave_find_next_dc_slave
         /\ \A s \in DcIds : DcInLine(s)' <=> DcInLine(s)
<1>1. UNCHANGED <<dc_pc, dc_parent, dc_port, dc_next, dc_position, dc_at, dc_index,
                  dc_support, dc_link, dc_ref>>
  BY DEF dcWiringVars, dcWiring
<1>2. /\ \A s : DcOpen(s)' = DcOpen(s) /\ DcSubtree(s)' = DcSubtree(s)
      /\ \A s, k : DcBehind(s, k)' = DcBehind(s, k)
  BY <1>1, SameTimes
<1>3. ec_slave_find_next_dc_slave' = ec_slave_find_next_dc_slave
  BY <1>1 DEF ec_slave_find_next_dc_slave, DcOverPorts
<1>4. Behind' = Behind
  BY <1>1, <1>2 DEF Behind
<1>5. \A s \in DcIds : DcInLine(s)' <=> DcInLine(s)
  BY <1>1, <1>2 DEF DcInLine
<1>6. Found' <=> Found
  BY <1>1, <1>2 DEF Found, Built, WiringTypes, DcWired, Neighbours
<1>7. (\A s \in DcSubtree(dc_ref) : dc_support[s] \/ DcInLine(s))'
        <=> (\A s \in DcSubtree(dc_ref) : dc_support[s] \/ DcInLine(s))
  <2>1. DcSubtree(dc_ref)' = DcSubtree(dc_ref) /\ DcSubtree(dc_ref) \subseteq DcIds
    BY <1>1, <1>2 DEF DcSubtree
  <2> QED
    BY <1>1, <1>5, <2>1
<1>8. Lined' <=> Lined
  BY <1>1, <1>6, <1>7 DEF Lined
<1> QED
  BY <1>3, <1>4, <1>5, <1>8

LEMMA InvBuilt ==
  ASSUME WiringInv, DelayTypes, dc_pc # "idle"
  PROVE  Built /\ (dc_pc = "found" => Found)
BY DEF WiringInv, Wired, DelayTypes, Built, Found

LEMMA DelaysBegin == DcInit => DelayInv
<1> SUFFICES ASSUME DcInit PROVE DelayInv
  OBVIOUS
<1>1. WiringInv
  BY WiringInitially DEF DcInit
<1>2. DcModulus \in Nat \ {0}
  BY DcTimesAssumption
<1>3. DelayTypes
  BY <1>2 DEF DcInit, DelayTypes, DcZero
<1> QED
  BY <1>1, <1>3 DEF DcInit, DelayInv, DcDelaysRight

LEMMA KeepsBus ==
  ASSUME DelayInv, DcBus
  PROVE  DelayInv'
<1>1. /\ dc_stage' = "latch" /\ DcConnect /\ dc_support' \in [DcIds -> BOOLEAN]
      /\ dc_link' \in [DcIds \ {0} -> DcDelays] /\ dc_clock' \in DcClocks
      /\ UNCHANGED <<dc_receive, dc_ref, dc_port_delay, dc_delay>>
  BY DEF DcBus, dcTimes
<1>2. WiringInv'
  BY <1>1, WiringStep DEF DelayInv, DcWiringNext
<1>3. DelayTypes'
  <2>1. dc_link' \in [DcIds \ {0} -> Nat] /\ dc_clock' \in [DcIds -> Nat]
    BY <1>1, DcTimesAssumption
  <2> QED
    BY <1>1, <2>1 DEF DelayInv, DelayTypes
<1>4. dc_pc' # "idle"
  BY <1>1 DEF DcConnect
<1> QED
  BY <1>1, <1>2, <1>3, <1>4 DEF DelayInv, DcDelaysRight

LEMMA KeepsLatch ==
  ASSUME DelayInv, DcLatch
  PROVE  DelayInv'
<1>1. /\ dc_stage = "latch" /\ dc_stage' = "ref_clock"
      /\ UNCHANGED <<dcWiringVars, dc_support, dc_link, dc_clock, dc_ref, dc_port_delay, dc_delay>>
      /\ UNCHANGED <<dc_pc, dc_parent, dc_port>>
  BY DEF DcLatch, dcBus, dcWiringVars, dcWiring
<1>2. Built /\ DcModulus \in Nat \ {0} /\ WiringInv /\ DelayTypes
  BY <1>1, InvBuilt, DcTimesAssumption DEF DelayInv
<1>3. WiringInv'
  BY <1>1, <1>2, WiringStep
<1> DEFINE time(s, p) == (dc_clock[s] + DcArrival[s] + DcUntil(s, DcRank[p])) % DcModulus
<1>4. dc_receive' = [s \in DcIds |-> [p \in DcPorts |->
                       IF dc_support[s] /\ p \in {0} \cup DcOpen(s) THEN time(s, p) ELSE 0]]
  BY DEF DcLatch
<1>5. ASSUME NEW s \in DcIds, NEW p \in DcPorts PROVE time(s, p) \in Nat
  <2>1. DcRank[p] \in 0 .. 3
    BY DEF DcPorts, DcRank
  <2>2. DcUntil(s, DcRank[p]) \in Nat /\ DcArrival[s] \in Nat /\ dc_clock[s] \in Nat
    BY <1>2, <2>1, Untils, Arrivals DEF DelayTypes
  <2>3. PICK a \in Nat : time(s, p) = a % DcModulus
    BY <2>2
  <2> QED
    BY <1>2, <2>3
<1>6. DelayTypes'
  <2> HIDE DEF time
  <2>1. dc_receive' \in [DcIds -> [DcPorts -> Nat]]
    BY <1>4, <1>5
  <2> QED
    BY <1>1, <1>2, <2>1 DEF DelayTypes
<1>7. TimesLatched'
  <2>1. /\ DcArrival' = DcArrival /\ \A s, k : DcUntil(s, k)' = DcUntil(s, k)
        /\ \A s : DcOpen(s)' = DcOpen(s)
    BY <1>1, SameTimes
  <2> QED
    BY <1>1, <1>4, <2>1 DEF TimesLatched
<1> QED
  BY <1>1, <1>3, <1>6, <1>7 DEF DelayInv, DcDelaysRight

LEMMA SameLatched ==
  ASSUME TimesLatched, UNCHANGED <<dc_parent, dc_port, dc_link, dc_support, dc_clock, dc_receive>>
  PROVE  TimesLatched'
<1>1. /\ DcArrival' = DcArrival /\ \A s, k : DcUntil(s, k)' = DcUntil(s, k)
      /\ \A s : DcOpen(s)' = DcOpen(s)
  BY SameTimes
<1> QED
  BY <1>1 DEF TimesLatched

LEMMA KeepsRefClock ==
  ASSUME DelayInv, ec_master_find_dc_ref_clock
  PROVE  DelayInv'
<1>1. /\ dc_stage = "ref_clock" /\ dc_stage' = "topology"
      /\ dc_ref' = IF \E s \in DcIds : dc_support[s]
                   THEN CHOOSE s \in DcIds : dc_support[s] /\ \A t \in 0 .. s - 1 : ~dc_support[t]
                   ELSE DcNone
      /\ UNCHANGED <<dcWiringVars, dc_support, dc_link, dc_clock, dc_receive, dc_port_delay, dc_delay>>
      /\ UNCHANGED <<dc_pc, dc_parent, dc_port>>
  BY DEF ec_master_find_dc_ref_clock, dcBus, dcWiringVars, dcWiring
<1>2. WiringInv' /\ DelayTypes' /\ TimesLatched'
  BY <1>1, WiringStep, SameLatched DEF DelayInv, DelayTypes
<1>3. RefFirst'
  <2>1. SUFFICES ASSUME NEW w \in DcIds, dc_support[w]
                 PROVE  /\ dc_ref' \in DcIds /\ dc_support[dc_ref']
                        /\ \A t \in DcIds : t < dc_ref' => ~dc_support[t]
    BY <1>1 DEF RefFirst
  <2> DEFINE S == {s \in DcIds : dc_support[s]}
  <2>2. S \in SUBSET Nat /\ S # {}
    BY <2>1, Slaves
  <2>3. PICK n \in S : \A k \in S : n <= k
    BY <2>2, Smallest
  <2>4. ASSUME NEW s \in DcIds
        PROVE  \A t : t \in 0 .. s - 1 <=> t \in DcIds /\ t < s
    BY Slaves DEF DcIds
  <2>5. \A t \in 0 .. n - 1 : ~dc_support[t]
    <3>1. ASSUME NEW t \in DcIds, t < n PROVE ~dc_support[t]
      <4>1. t \in Nat /\ n \in Nat
        BY <2>2, Slaves
      <4>2. t \in S => n <= t
        BY <2>3
      <4> QED
        BY <3>1, <4>1, <4>2
    <3> QED
      BY <2>3, <2>4, <3>1
  <2>6. /\ dc_ref' \in DcIds /\ dc_support[dc_ref'] /\ \A t \in 0 .. dc_ref' - 1 : ~dc_support[t]
    <3>1. \E s \in DcIds : dc_support[s] /\ \A t \in 0 .. s - 1 : ~dc_support[t]
      BY <2>3, <2>5
    <3> QED
      BY <1>1, <2>1, <3>1
  <2> QED
    BY <2>4, <2>6
<1> QED
  BY <1>1, <1>2, <1>3 DEF DelayInv, DcDelaysRight

LEMMA KeepsTopology ==
  ASSUME DelayInv, ec_master_calc_topology
  PROVE  DelayInv'
<1>1. /\ dc_stage = "topology" /\ dc_stage' = "topology" /\ DcTraverse
      /\ UNCHANGED <<dc_support, dc_link, dc_clock, dc_receive, dc_ref, dc_port_delay, dc_delay>>
  BY DEF ec_master_calc_topology, dcBus, dcTimes, DelayInv
<1>2. dc_pc' # "idle" /\ UNCHANGED <<dc_parent, dc_port>>
  BY <1>1 DEF DcTraverse, DcCalcTopology, DcClosedPort, DcOpenPort, DcReturn, DcReturnLast, dcWiring
<1>3. WiringInv' /\ DelayTypes' /\ TimesLatched'
  BY <1>1, <1>2, WiringStep, SameLatched DEF DelayInv, DelayTypes, DcWiringNext
<1>4. RefFirst'
  BY <1>1 DEF DelayInv, RefFirst
<1> QED
  BY <1>1, <1>2, <1>3, <1>4 DEF DelayInv, DcDelaysRight

\* Only from one port is the delay to a slave measured.
LEMMA MeasuredOnce ==
  ASSUME Lined, NEW t \in Behind \ {0}, dc_parent[t] \in Behind, dc_support[dc_parent[t]],
         ec_slave_find_next_dc_slave[t] # DcNone,
         NEW s \in DcIds, NEW p \in DcPorts, DcNextDc(s, p) = ec_slave_find_next_dc_slave[t]
  PROVE  s = dc_parent[t] /\ p = dc_port[t]
<1>1. PICK d : d = ec_slave_find_next_dc_slave[t]
  OBVIOUS
<1>2. /\ Built /\ Found /\ dc_ref \in DcIds /\ t \in DcIds \ {0}
  BY LinedFacts
<1>3. /\ dc_support[s] /\ p \in DcPorts \ {0} /\ dc_next[s][p] # DcNone
      /\ ec_slave_find_next_dc_slave[dc_next[s][p]] = d
  BY <1>1 DEF DcNextDc
<1>4. PICK v : v = DcAt(s, p)
  OBVIOUS
<1>5. p \in DcOpen(s) /\ dc_next[s][p] = v
  BY <1>2, <1>3, <1>4, NextSlaves
<1>6. v \in DcIds \ {0} /\ s < v /\ dc_parent[v] = s /\ dc_port[v] = p
  BY <1>2, <1>4, <1>5, AtPort
<1>7. v \in Behind
  <2>1. v <= d
    BY <1>1, <1>2, <1>3, <1>5, <1>6, NextDcBehind, Subtrees
  <2>2. d \in Behind
    BY <1>1, Lines DEF InTheLine
  <2>3. dc_ref <= v
    <3>1. ~(s < dc_ref)
      BY <1>3 DEF Lined
    <3> QED
      BY <1>2, <1>6, <3>1, Slaves
  <2> QED
    BY <1>2, <1>6, <2>1, <2>2, <2>3, Subtrees DEF Behind
<1>8. CASE t < v
  BY <1>1, <1>3, <1>5, <1>6, <1>7, <1>8, OneMeasurer
<1>9. CASE v < t
  BY <1>1, <1>3, <1>5, <1>6, <1>7, <1>9, OneMeasurer
<1>10. t \in Nat /\ v \in Nat
  BY <1>2, <1>6, Slaves
<1> QED
  BY <1>6, <1>8, <1>9, <1>10

\* What is computed from receive times is a number, whatever they are.
LEMMA PortDelayTypes ==
  ASSUME Found, dc_receive \in [DcIds -> [DcPorts -> Nat]], NEW s \in DcIds, NEW p \in DcPorts,
         DcNextDc(s, p) # DcNone
  PROVE  DcPortDelay(s, p) \in Nat
<1>1. DcModulus \in Nat \ {0}
  BY DcTimesAssumption
<1>2. ASSUME NEW a \in Int, NEW b \in Int PROVE DcMinus(a, b) \in Nat
  BY <1>1 DEF DcMinus
<1>3. ASSUME NEW u \in DcIds, NEW q \in DcPorts PROVE DcRtt(u, q) \in Nat
  <2>1. \A r \in DcPorts : DcPrevTable[r] \in DcPorts
    BY DEF DcPrevTable, DcPorts
  <2>2. PICK r : r = ec_slave_get_previous_port(u, q)
    OBVIOUS
  <2>3. r \in DcPorts
    BY <2>1, <2>2 DEF ec_slave_get_previous_port
  <2>4. dc_receive[u][q] \in Int /\ dc_receive[u][r] \in Int
    BY <2>3
  <2> QED
    BY <1>2, <2>2, <2>4 DEF DcRtt
<1>4. ASSUME NEW u \in DcIds PROVE ec_slave_calc_rtt_sum(u) \in Nat
  <2> DEFINE Add(sum, q) == IF dc_next[u][q] = DcNone THEN sum ELSE (sum + DcRtt(u, q)) % DcModulus
  <2>1. ec_slave_calc_rtt_sum(u) = Add(Add(Add(0, 3), 1), 2)
    BY Loop DEF ec_slave_calc_rtt_sum, DcOverPorts
  <2>2. \A sum \in Nat, q \in DcPorts : Add(sum, q) \in Nat
    BY <1>1, <1>3
  <2>3. 3 \in DcPorts /\ 1 \in DcPorts /\ 2 \in DcPorts
    BY DEF DcPorts
  <2> HIDE DEF Add
  <2> QED
    BY <2>1, <2>2, <2>3
<1>5. DcNextDc(s, p) \in DcIds
  <2>1. p \in DcPorts \ {0} /\ dc_next[s][p] # DcNone
    BY DEF DcNextDc
  <2>2. dc_next[s][p] \in DcIds
    BY <2>1, NextSlaves, AtPort DEF Found
  <2> QED
    BY <2>2, NextDcs DEF DcNextDc
<1>6. PICK x \in Nat : x = DcMinus(DcRtt(s, p), ec_slave_calc_rtt_sum(DcNextDc(s, p)))
  BY <1>2, <1>3, <1>4, <1>5
<1> QED
  BY <1>6 DEF DcPortDelay

\* The delays behind the ports are right once they have been measured.
LEMMA DelaysWritten ==
  ASSUME Latched, Lined, dc_receive \in [DcIds -> [DcPorts -> Nat]], DcCalcPortDelays,
         NEW t \in Behind \ {0}, dc_parent[t] \in Behind, dc_support[dc_parent[t]],
         ec_slave_find_next_dc_slave[t] # DcNone
  PROVE  LET s == dc_parent[t]
             p == dc_port[t]
             d == ec_slave_find_next_dc_slave[t]
         IN /\ dc_port_delay'[s][p] = DcArrival[d] - Back(s, DcRank[p] - 1)
            /\ dc_port_delay'[s][p] = Back(s, DcRank[p]) - Done(d)
            /\ dc_port_delay'[d][0] = dc_port_delay'[s][p]
<1> DEFINE s == dc_parent[t]
           p == dc_port[t]
           d == ec_slave_find_next_dc_slave[t]
           MeasuredFrom(u) == {m \in DcIds \X DcPorts : DcNextDc(m[1], m[2]) = u}
<1>1. /\ Built /\ Found /\ t \in DcIds \ {0} /\ s \in DcIds
  BY LinedFacts
<1>2. p \in DcPorts
  BY <1>1, Parents
<1>3. d \in DcIds /\ d # DcNone
  BY <1>1, NextDcs
<1>4. /\ DcNextDc(s, p) = d
      /\ DcPortDelay(s, p) = DcArrival[d] - Back(s, DcRank[p] - 1)
      /\ DcPortDelay(s, p) = Back(s, DcRank[p]) - Done(d)
  BY DelaySeen
<1>5. MeasuredFrom(d) = {<<s, p>>}
  <2>1. <<s, p>> \in MeasuredFrom(d)
    BY <1>1, <1>2, <1>4
  <2>2. ASSUME NEW m \in MeasuredFrom(d) PROVE m = <<s, p>>
    <3>1. m[1] \in DcIds /\ m[2] \in DcPorts /\ DcNextDc(m[1], m[2]) = d /\ m = <<m[1], m[2]>>
      OBVIOUS
    <3>2. m[1] = s /\ m[2] = p
      BY <3>1, MeasuredOnce
    <3> QED
      BY <3>1, <3>2
  <2> QED
    BY <2>1, <2>2
<1>6. dc_port_delay' =
        [u \in DcIds |-> [q \in DcPorts |->
           IF DcNextDc(u, q) # DcNone THEN DcPortDelay(u, q)
           ELSE IF q = 0 /\ MeasuredFrom(u) # {}
             THEN LET m == CHOOSE m \in MeasuredFrom(u) : TRUE IN DcPortDelay(m[1], m[2])
           ELSE dc_port_delay[u][q]]]
  BY DEF DcCalcPortDelays
<1> HIDE DEF s, p, d, MeasuredFrom
<1>7. dc_port_delay'[s][p] = DcPortDelay(s, p)
  BY <1>1, <1>2, <1>3, <1>4, <1>6
<1>8. dc_port_delay'[d][0] = DcPortDelay(s, p)
  <2>1. DcNextDc(d, 0) = DcNone /\ 0 \in DcPorts
    BY DEF DcNextDc, DcPorts
  <2>2. (CHOOSE m \in MeasuredFrom(d) : TRUE) = <<s, p>>
    BY <1>5
  <2>3. dc_port_delay'[d][0] = LET m == CHOOSE m \in MeasuredFrom(d) : TRUE IN DcPortDelay(m[1], m[2])
    BY <1>3, <1>5, <1>6, <2>1
  <2>4. \A m : m = <<s, p>> => DcPortDelay(m[1], m[2]) = DcPortDelay(s, p)
    OBVIOUS
  <2> QED
    BY <2>2, <2>3, <2>4
<1> QED
  BY <1>4, <1>7, <1>8 DEF s, p, d

LEMMA KeepsPortDelays ==
  ASSUME DelayInv, DcCalcPortDelays
  PROVE  DelayInv'
<1>1. /\ dc_stage = "topology" /\ dc_stage' = "delays" /\ dc_pc = "found"
      /\ UNCHANGED <<dcWiringVars, dc_support, dc_link, dc_clock, dc_receive, dc_ref, dc_delay>>
      /\ UNCHANGED <<dc_pc, dc_parent, dc_port>>
  BY DEF DcCalcPortDelays, dcBus, dcWiringVars, dcWiring
<1>2. Built /\ Found /\ DelayTypes /\ TimesLatched /\ RefFirst
  BY <1>1, InvBuilt DEF DelayInv
<1>3. WiringInv' /\ RefFirst'
  BY <1>1, <1>2, WiringStep DEF DelayInv, RefFirst
<1>4. DelayTypes'
  <2> DEFINE MeasuredFrom(u) == {m \in DcIds \X DcPorts : DcNextDc(m[1], m[2]) = u}
             delay(u, q) == IF DcNextDc(u, q) # DcNone THEN DcPortDelay(u, q)
                            ELSE IF q = 0 /\ MeasuredFrom(u) # {}
                              THEN LET m == CHOOSE m \in MeasuredFrom(u) : TRUE
                                   IN DcPortDelay(m[1], m[2])
                            ELSE dc_port_delay[u][q]
  <2>1. dc_port_delay' = [u \in DcIds |-> [q \in DcPorts |-> delay(u, q)]]
    BY DEF DcCalcPortDelays
  <2>2. ASSUME NEW u \in DcIds, NEW q \in DcPorts PROVE delay(u, q) \in Nat
    <3>1. CASE DcNextDc(u, q) # DcNone
      BY <1>2, <3>1, PortDelayTypes DEF DelayTypes
    <3>2. CASE DcNextDc(u, q) = DcNone /\ MeasuredFrom(u) # {}
      <4>1. PICK m \in MeasuredFrom(u) : m = CHOOSE n \in MeasuredFrom(u) : TRUE
        BY <3>2
      <4>2. m[1] \in DcIds /\ m[2] \in DcPorts /\ DcNextDc(m[1], m[2]) # DcNone
        BY Slaves
      <4>3. DcPortDelay(m[1], m[2]) \in Nat
        BY <1>2, <4>2, PortDelayTypes DEF DelayTypes
      <4>4. dc_port_delay[u][q] \in Nat
        BY <1>2 DEF DelayTypes
      <4> HIDE DEF MeasuredFrom
      <4> QED
        BY <3>2, <4>1, <4>3, <4>4
    <3>3. CASE DcNextDc(u, q) = DcNone /\ MeasuredFrom(u) = {}
      BY <1>2, <3>3 DEF DelayTypes
    <3> QED
      BY <3>1, <3>2, <3>3
  <2> HIDE DEF delay
  <2>3. dc_port_delay' \in [DcIds -> [DcPorts -> Nat]]
    BY <2>1, <2>2
  <2> QED
    BY <1>1, <1>2, <2>3 DEF DelayTypes
<1>5. /\ Lined' <=> Lined
      /\ Behind' = Behind /\ ec_slave_find_next_dc_slave' = ec_slave_find_next_dc_slave
      /\ DcArrival' = DcArrival /\ \A s, k : DcUntil(s, k)' = DcUntil(s, k)
  BY <1>1, SameLines, SameTimes
<1>6. DelaysMeasured'
  <2>1. SUFFICES ASSUME Lined, DcUntil(0, 3) < DcModulus PROVE DelaysKnown'
    BY <1>5 DEF DelaysMeasured
  <2>2. Latched
    BY <1>2, <2>1 DEF Latched, DelayTypes, TimesLatched
  <2>3. ASSUME NEW t \in Behind \ {0}, dc_parent[t] \in Behind, dc_support[dc_parent[t]],
               ec_slave_find_next_dc_slave[t] # DcNone
        PROVE  LET s == dc_parent[t]
                   p == dc_port[t]
                   d == ec_slave_find_next_dc_slave[t]
               IN /\ dc_port_delay'[s][p] = DcArrival[d] - Back(s, DcRank[p] - 1)
                  /\ dc_port_delay'[s][p] = Back(s, DcRank[p]) - Done(d)
                  /\ dc_port_delay'[d][0] = dc_port_delay'[s][p]
    BY <1>2, <2>1, <2>2, <2>3, DelaysWritten DEF DelayTypes
  <2> QED
    BY <1>1, <1>5, <2>3 DEF DelaysKnown, Back, Done
<1> QED
  BY <1>1, <1>3, <1>4, <1>6 DEF DelayInv, DcDelaysRight

LEMMA KeepsDelays ==
  ASSUME DelayInv, ec_master_calc_transmission_delays
  PROVE  DelayInv'
<1> DEFINE sum == [delay |-> 0, of |-> dc_delay]
<1>1. /\ dc_stage = "delays" /\ dc_stage' = "done"
      /\ dc_delay' = IF dc_ref = DcNone THEN dc_delay
                     ELSE ec_slave_calc_transmission_delays[dc_ref][sum].of
      /\ UNCHANGED <<dcWiringVars, dc_support, dc_link, dc_clock, dc_receive, dc_ref, dc_port_delay>>
      /\ UNCHANGED <<dc_pc, dc_parent, dc_port>>
  BY DEF ec_master_calc_transmission_delays, dcBus, dcWiringVars, dcWiring
<1>2. Built /\ Found /\ DelayTypes /\ RefFirst /\ DelaysMeasured /\ dc_pc' = "found"
  BY <1>1, InvBuilt DEF DelayInv
<1>3. WiringInv'
  BY <1>1, <1>2, WiringStep DEF DelayInv
<1>4. sum \in DcSums /\ sum.delay = 0 /\ Measured
  <2>1. 0 \in 0 .. DcModulus - 1
    BY DcTimesAssumption
  <2> QED
    BY <1>2, <2>1 DEF DcSums, DelayTypes, Measured
<1> HIDE DEF sum
<1>5. DelayTypes'
  <2>1. dc_delay' \in [DcIds -> 0 .. DcModulus - 1]
    <3>1. CASE dc_ref = DcNone
      BY <1>1, <1>2, <3>1 DEF DelayTypes
    <3>2. CASE dc_ref # DcNone
      <4>1. ec_slave_calc_transmission_delays[dc_ref][sum] \in DcSums
        BY <1>2, <1>4, <3>2, Transmissions DEF RefFirst
      <4> QED
        BY <1>1, <3>2, <4>1 DEF DcSums
    <3> QED
      BY <3>1, <3>2
  <2> QED
    BY <1>1, <1>2, <2>1 DEF DelayTypes
<1>6. DcDelaysRight'
  <2>1. /\ DcArrival' = DcArrival /\ \A s, k : DcUntil(s, k)' = DcUntil(s, k)
        /\ \A s : DcSubtree(s)' = DcSubtree(s)
        /\ \A s \in DcIds : DcInLine(s)' <=> DcInLine(s)
    BY <1>1, SameLines, SameTimes
  <2>2. DcSubtree(dc_ref) \subseteq DcIds
    BY DEF DcSubtree
  <2>3. ASSUME dc_ref # DcNone, DcUntil(0, 3) < DcModulus,
               \A s \in DcSubtree(dc_ref) : dc_support[s] \/ DcInLine(s),
               NEW u \in DcSubtree(dc_ref), dc_support[u]
        PROVE  dc_delay'[u] = DcArrival[u] - DcArrival[dc_ref]
    <3>1. Lined
      BY <1>2, <2>3 DEF Lined, RefFirst
    <3>2. Known
      BY <1>2, <1>4, <2>3, <3>1 DEF Known, DelaysMeasured
    <3> QED
      BY <1>1, <1>4, <2>3, <3>2, DelaysComputed DEF Behind
  <2> QED
    BY <1>1, <2>1, <2>2, <2>3 DEF DcDelaysRight
<1> QED
  BY <1>1, <1>2, <1>3, <1>5, <1>6 DEF DelayInv

LEMMA KeepsStill ==
  ASSUME DelayInv, UNCHANGED dcVars
  PROVE  DelayInv'
<1>1. /\ UNCHANGED <<dcWiringVars, dc_stage, dc_support, dc_link, dc_clock, dc_receive, dc_ref,
                     dc_port_delay, dc_delay>>
      /\ UNCHANGED <<dc_pc, dc_parent, dc_port>>
  BY DEF dcVars, dcBus, dcTimes, dcWiringVars, dcWiring
<1>2. WiringInv' /\ DelayTypes' /\ (RefFirst => RefFirst') /\ (TimesLatched => TimesLatched')
  BY <1>1, WiringStep, SameLatched DEF DelayInv, DelayTypes, RefFirst
<1>3. /\ Lined' <=> Lined
      /\ Behind' = Behind /\ ec_slave_find_next_dc_slave' = ec_slave_find_next_dc_slave
      /\ DcArrival' = DcArrival /\ \A s, k : DcUntil(s, k)' = DcUntil(s, k)
      /\ \A s : DcSubtree(s)' = DcSubtree(s)
      /\ \A s \in DcIds : DcInLine(s)' <=> DcInLine(s)
  BY <1>1, SameLines, SameTimes
<1>4. DelaysMeasured => DelaysMeasured'
  BY <1>1, <1>3 DEF DelaysMeasured, DelaysKnown, Back, Done
<1>5. DcDelaysRight'
  <2>1. DcSubtree(dc_ref) \subseteq DcIds
    BY DEF DcSubtree
  <2> QED
    BY <1>1, <1>3, <2>1 DEF DelayInv, DcDelaysRight
<1> QED
  BY <1>1, <1>2, <1>4, <1>5 DEF DelayInv

LEMMA DelayStep == DelayInv /\ [DcNext]_dcVars => DelayInv'
BY KeepsBus, KeepsLatch, KeepsRefClock, KeepsTopology, KeepsPortDelays, KeepsDelays, KeepsStill
   DEF DcNext

\* The transmission delay of each slave with distributed clocks behind the reference clock is
\* the time that the frame takes from there to it, for any number of slaves, every wiring,
\* links of any length, clocks that show anything and wrap around at any time, if the slaves
\* without distributed clocks stand in a line and the frame is back within one round of the
\* clocks (ec_slave.c:136-276, 853-895).
THEOREM DcDelaysAlwaysRight == DcSpec => []DcDelaysRight
<1>1. DelayInv => DcDelaysRight
  BY DEF DelayInv
<1> QED
  BY <1>1, DelaysBegin, DelayStep, PTL DEF DcSpec
=============================================================================
