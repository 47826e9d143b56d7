----------------------------- MODULE Timestamp -----------------------------
(***************************************************************************)
(* The 64-bit cycle count behind ec_timestamp_get_time_ns, which every     *)
(* timeout is measured with (ec_timestamp.c): made from a 32-bit counter   *)
(* and two global variables on ARM, from the two halves of a 64-bit        *)
(* counter on RISC-V.                                                      *)
(*                                                                         *)
(* Threads and interrupt handlers read it without a lock: a reader with a  *)
(* larger number preempts one with a smaller number between any two        *)
(* accesses to memory.  Each step is one access.  In the model the counter *)
(* has few values, so that an access may take none of its cycles; that two *)
(* reads of it by the same reader differ matters on RISC-V only, and there *)
(* an access takes a cycle.                                                *)
(***************************************************************************)
EXTENDS Integers

CONSTANTS
  TsModulus,    \* the range of the counter, or of its lower half: 2^32
  TsReaders,    \* the number of readers
  TsHorizon     \* the bound on the number of cycles

ASSUME TsAssumption ==
  /\ TsModulus \in Nat \ {0}
  /\ TsReaders \in Nat
  /\ TsHorizon \in Nat

TsReaderIds == 1 .. TsReaders
TsLows == 0 .. TsModulus - 1

VARIABLES
  ts_arch,
  ts_count,      \* the cycles since the counter was set to zero
  ts_high,       \* g_dwt_high
  ts_last_low,   \* g_dwt_last_low,
  ts_stored,     \* and the cycle at which it was read from the counter
  ts_pc,         \* what each reader does next
  ts_begin,      \* the cycle of its first access,
  ts_low,        \* resultl_first, current_low
  ts_copy,       \* resulth, or g_dwt_high while it is incremented
  ts_returned,   \* {} or {the read that the last step has ended}
  ts_overlap     \* some read has been interrupted by another

tsGlobals == <<ts_high, ts_last_low, ts_stored>>
tsLocals == <<ts_begin, ts_low, ts_copy>>
tsVars == <<ts_arch, ts_count, tsGlobals, ts_pc, tsLocals, ts_returned, ts_overlap>>

TsZero == [r \in TsReaderIds |-> 0]

TsInit ==
  /\ ts_arch \in {"arm", "riscv"}
  /\ ts_count = 0
  /\ ts_high = 0
  /\ ts_last_low = 0
  /\ ts_stored = 0
  /\ ts_pc = [r \in TsReaderIds |-> "idle"]
  /\ ts_begin = TsZero
  /\ ts_low = TsZero
  /\ ts_copy = TsZero
  /\ ts_returned = {}
  /\ ts_overlap = FALSE

\* The counter, and its halves on RISC-V.
TsLow == ts_count % TsModulus
TsHigh == ts_count \div TsModulus

TsCycle == ts_count < TsHorizon /\ ts_count' = ts_count + 1

TsActive == {r \in TsReaderIds : ts_pc[r] # "idle"}
TsRuns(r) == \A q \in TsActive : q <= r

TsGoto(r, label) ==
  /\ ts_pc' = [ts_pc EXCEPT ![r] = label]
  /\ ts_returned' = {}

\* A read begins with the first access to the counter.
TsBegin(r, label) ==
  /\ ts_pc[r] = "idle"
  /\ TsGoto(r, label)
  /\ ts_begin' = [ts_begin EXCEPT ![r] = ts_count]
  /\ ts_low' = [ts_low EXCEPT ![r] = TsLow]
  /\ ts_overlap' = (ts_overlap \/ TsActive # {})

\* A read ends; its registers are free.
TsReturns(r, value) ==
  /\ ts_pc' = [ts_pc EXCEPT ![r] = "idle"]
  /\ ts_returned' = {[begin |-> ts_begin[r], value |-> value]}
  /\ ts_begin' = [ts_begin EXCEPT ![r] = 0]
  /\ ts_low' = [ts_low EXCEPT ![r] = 0]
  /\ ts_copy' = [ts_copy EXCEPT ![r] = 0]

-----------------------------------------------------------------------------
(***************************************************************************)
(* arm_dwt_get_cycle_count.                                                *)
(***************************************************************************)
\* Somebody reads the counter twice in a round, counted from what last_low holds: the
\* threads poll many times a second, a round takes several seconds.
TsSample(r) ==
  /\ 2 * (ts_count - ts_stored) < TsModulus
  /\ TsBegin(r, "compare")
  /\ UNCHANGED <<tsGlobals, ts_copy>>

\* Mutants: last_low is stored before the comparison has had its effect; last_low is
\* stored by a read that has seen the counter wrap only.
TsCompareStoresFirst(r) ==
  /\ ts_pc[r] = "compare"
  /\ TsGoto(r, IF ts_low[r] < ts_last_low THEN "load" ELSE "store_last")
  /\ ts_last_low' = ts_low[r]
  /\ ts_stored' = ts_begin[r]
  /\ UNCHANGED <<ts_high, tsLocals, ts_overlap>>

TsCompareForgets(r) ==
  /\ ts_pc[r] = "compare"
  /\ TsGoto(r, IF ts_low[r] < ts_last_low THEN "load" ELSE "combine")
  /\ ts_stored' = ts_begin[r]
  /\ UNCHANGED <<ts_high, ts_last_low, tsLocals, ts_overlap>>

TsCompare(r) ==
  /\ ts_pc[r] = "compare"
  /\ TsGoto(r, IF ts_low[r] < ts_last_low THEN "load" ELSE "store_last")
  /\ UNCHANGED <<tsGlobals, tsLocals, ts_overlap>>

\* g_dwt_high++
TsLoad(r) ==
  /\ ts_pc[r] = "load"
  /\ TsGoto(r, "store")
  /\ ts_copy' = [ts_copy EXCEPT ![r] = ts_high]
  /\ UNCHANGED <<tsGlobals, ts_begin, ts_low, ts_overlap>>

TsStore(r) ==
  /\ ts_pc[r] = "store"
  /\ TsGoto(r, "store_last")
  /\ ts_high' = ts_copy[r] + 1
  /\ UNCHANGED <<ts_last_low, ts_stored, tsLocals, ts_overlap>>

TsStoreLast(r) ==
  /\ ts_pc[r] = "store_last"
  /\ TsGoto(r, "combine")
  /\ ts_last_low' = ts_low[r]
  /\ ts_stored' = ts_begin[r]
  /\ UNCHANGED <<ts_high, tsLocals, ts_overlap>>

TsCombine(r) ==
  /\ ts_pc[r] = "combine"
  /\ TsReturns(r, ts_high * TsModulus + ts_low[r])
  /\ UNCHANGED <<tsGlobals, ts_overlap>>

TsArm(r) ==
  TsSample(r) \/ TsCompare(r) \/ TsLoad(r) \/ TsStore(r) \/ TsStoreLast(r) \/ TsCombine(r)

-----------------------------------------------------------------------------
(***************************************************************************)
(* riscv_csr_get_core_mcycle.                                              *)
(***************************************************************************)
TsFirst(r) ==
  /\ TsBegin(r, "high")
  /\ UNCHANGED <<tsGlobals, ts_copy>>

TsReadHigh(r) ==
  /\ ts_pc[r] = "high"
  /\ TsGoto(r, "second")
  /\ ts_copy' = [ts_copy EXCEPT ![r] = TsHigh]
  /\ UNCHANGED <<tsGlobals, ts_begin, ts_low, ts_overlap>>

\* Mutant: the upper half is not read again when the lower one has wrapped.
TsSecondTrustsHigh(r) ==
  /\ ts_pc[r] = "second"
  /\ TsReturns(r, ts_copy[r] * TsModulus + ts_low[r])
  /\ UNCHANGED <<tsGlobals, ts_overlap>>

\* The lower half once more: the first value, or, when it has wrapped, this one.
TsSecond(r) ==
  /\ ts_pc[r] = "second"
  /\ IF ts_low[r] < TsLow
       THEN TsReturns(r, ts_copy[r] * TsModulus + ts_low[r])
       ELSE /\ TsGoto(r, "high_again")
            /\ ts_low' = [ts_low EXCEPT ![r] = TsLow]
            /\ UNCHANGED <<ts_begin, ts_copy>>
  /\ UNCHANGED <<tsGlobals, ts_overlap>>

TsHighAgain(r) ==
  /\ ts_pc[r] = "high_again"
  /\ TsReturns(r, TsHigh * TsModulus + ts_low[r])
  /\ UNCHANGED <<tsGlobals, ts_overlap>>

TsRiscv(r) == TsFirst(r) \/ TsReadHigh(r) \/ TsSecond(r) \/ TsHighAgain(r)

-----------------------------------------------------------------------------
\* A read takes less than half a round, however often it is interrupted.
TsInTime(r) == ts_pc[r] # "idle" => 2 * (ts_count - ts_begin[r]) < TsModulus

TsRead(r) ==
  /\ TsRuns(r) /\ TsInTime(r)
  /\ \/ ts_arch = "arm" /\ TsArm(r) /\ UNCHANGED ts_count
     \/ ts_arch = "riscv" /\ TsRiscv(r) /\ TsCycle
  /\ UNCHANGED ts_arch

TsNext ==
  \/ \E r \in TsReaderIds : TsRead(r)
  \/ TsCycle /\ ts_returned' = {} /\ UNCHANGED <<ts_arch, tsGlobals, ts_pc, tsLocals, ts_overlap>>

TsSpec == TsInit /\ [][TsNext]_tsVars

-----------------------------------------------------------------------------
\* On ARM no read returns a time before it began, wherever it is interrupted, by whom and
\* at which place of the counter's round: a race can add a round, and never loses one
\* (ec_timestamp.c:58-65).
TsArmNeverBehind ==
  ts_arch = "arm" => \A read \in ts_returned : read.value >= read.begin

\* On ARM, as long as no read has been interrupted by another, every read returns the cycle
\* at which it read the counter, over any number of rounds (ec_timestamp.c:58-67).
TsArmExact ==
  ts_arch = "arm" /\ ~ts_overlap => \A read \in ts_returned : read.value = read.begin

\* On RISC-V a read returns a cycle between its beginning and its end, although the two
\* halves of the counter are read one after the other, wherever it is interrupted
\* (ec_timestamp.c:19-28).
TsRiscvExact ==
  ts_arch = "riscv" =>
    \A read \in ts_returned : read.begin <= read.value /\ read.value <= ts_count
=============================================================================
