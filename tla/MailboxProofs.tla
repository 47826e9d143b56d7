--------------------------- MODULE MailboxProofs ---------------------------
(***************************************************************************)
(* Proofs about Mailbox, for mailboxes and objects of any size and any     *)
(* calls of any number of users: every request fits in the mailbox, no     *)
(* download is reported that the slave has not carried out, a lone reader  *)
(* gets its object whole, and calls that take turns succeed.               *)
(***************************************************************************)
EXTENDS Mailbox, TLAPS

\* A download in one message is all that the slave carries out: the first part of a
\* longer one announces its own size, so that no segment of a download finds a transfer
\* it fits.
OneMessage ==
  /\ \A m \in mbx_in : m.kind = "download" /\ ~m.segment => m.data = m.total
  /\ \A a \in mbx_out : a.kind = "download" => ~a.segment
  /\ mbx_server.kind # "download"
  /\ mbx_server.moved <= mbx_server.total

\* How far a download has come.
Bounded ==
  \A u \in MbxUsers :
    mbx_call[u].kind = "download" =>
      /\ mbx_at[u].moved <= mbx_call[u].size
      /\ MbxInFirst(u) => mbx_at[u].moved = 0

AtType == [moved : Nat, total : Nat, toggle : BOOLEAN]
ServerType == [kind : {"none", "download", "upload"}, object : MbxObjects, moved : Nat,
               total : Nat, toggle : BOOLEAN]
Results == {"none", "ok", "failed", "abort", "request", "toggle", "size"}
Labels == {"idle", "send", "poll", "fetch", "send_segment", "poll_segment", "fetch_segment"}

\* The parts of the types that a user's step changes, and the rest.
UsersTyped ==
  /\ mbx_pc \in [MbxUsers -> Labels]
  /\ mbx_call \in [MbxUsers -> MbxCallType]
  /\ mbx_at \in [MbxUsers -> AtType]
  /\ mbx_result \in [MbxUsers -> Results]
  /\ mbx_budget \in Nat
  /\ mbx_intact \in [MbxUsers -> BOOLEAN]

SlaveTyped ==
  /\ \A m \in mbx_in : m \in MbxRequestType /\ MbxBytes(m) <= MbxRxSize
  /\ \A a \in mbx_out : a \in MbxAnswerType
  /\ mbx_server \in ServerType
  /\ mbx_clean \in BOOLEAN
  /\ mbx_unconfirmed \in [MbxObjects -> Int]

MbxInv == UsersTyped /\ SlaveTyped /\ OneMessage /\ Bounded /\ MbxOwnExecution

LEMMA TypeSplits == MbxTypeOK <=> UsersTyped /\ SlaveTyped
BY DEF MbxTypeOK, UsersTyped, SlaveTyped, AtType, ServerType, Results, Labels

-----------------------------------------------------------------------------
(***************************************************************************)
(* The operators.                                                          *)
(***************************************************************************)
LEMMA Lesser ==
  ASSUME NEW a \in Nat, NEW b \in Nat
  PROVE  MbxLesser(a, b) \in Nat /\ MbxLesser(a, b) <= a /\ MbxLesser(a, b) <= b
BY DEF MbxLesser

LEMMA Sizes ==
  /\ MbxRxSize \in Nat /\ MbxTxSize \in Nat /\ MbxRxSize > 20 /\ MbxTxSize > 20
  /\ MbxFirst \in Nat /\ MbxFirst = MbxRxSize - 16
  /\ MbxSegment \in Nat /\ MbxSegment = MbxRxSize - 9
  /\ MbxTxSize - 16 \in Nat /\ MbxTxSize - 9 \in Nat
BY MbxAssumption DEF MbxFirst, MbxSegment

LEMMA SomeObject == MbxSomeObject \in MbxObjects /\ MbxSomeObject.index \in MbxIndices
<1>1. (CHOOSE i \in MbxIndices : TRUE) \in MbxIndices
  BY MbxAssumption
<1>2. QED
  BY <1>1 DEF MbxSomeObject, MbxObjects, MbxSubindices

LEMMA CallObject ==
  ASSUME NEW r \in MbxCallType
  PROVE  MbxWire(r) \in MbxObjects /\ MbxExpected(r) \in MbxObjects
<1>1. MbxWire(r) \in MbxObjects
  BY DEF MbxCallType, MbxWire, MbxObjects, MbxSubindices
<1>2. [index |-> r.index, subindex |-> r.subindex] \in MbxObjects
  BY DEF MbxCallType, MbxObjects
<1>3. QED
  BY <1>1, <1>2 DEF MbxExpected

\* A first request fits, and announces what it carries.
LEMMA FirstRequest ==
  ASSUME NEW r \in MbxCallType
  PROVE  LET m == MbxFirstRequest(r) IN
           /\ m \in MbxRequestType /\ MbxBytes(m) <= MbxRxSize
           /\ ~m.segment /\ m.data = m.total
           /\ r.kind = "download" => m.data <= r.size
<1> DEFINE part == IF r.kind = "download" THEN MbxLesser(r.size, MbxFirst) ELSE 0
           m == MbxFirstRequest(r)
<1>1. r.kind \in {"download", "upload"} /\ r.size \in Nat
  BY DEF MbxCallType
<1>2. part \in Nat /\ part <= MbxFirst /\ (r.kind = "download" => part <= r.size)
  <2>1. CASE r.kind = "download"
    <3>1. /\ MbxLesser(r.size, MbxFirst) \in Nat /\ MbxLesser(r.size, MbxFirst) <= r.size
          /\ MbxLesser(r.size, MbxFirst) <= MbxFirst
      BY <1>1, Lesser, Sizes
    <3>2. QED
      BY <2>1, <3>1
  <2>2. CASE r.kind # "download"
    BY <2>2, Sizes
  <2>3. QED
    BY <2>1, <2>2
<1>3. m = [kind |-> r.kind, segment |-> FALSE, object |-> MbxWire(r), data |-> part,
           total |-> part, toggle |-> FALSE, last |-> TRUE]
  BY DEF MbxFirstRequest
<1> HIDE DEF part, m
<1>4. m \in MbxRequestType
  BY <1>1, <1>2, <1>3, CallObject DEF MbxRequestType
<1>5. ~m.segment /\ m.data = part /\ m.total = part
  BY <1>3
<1>6. MbxBytes(m) <= MbxRxSize
  BY <1>2, <1>5, Sizes DEF MbxBytes
<1>7. QED
  BY <1>2, <1>4, <1>5, <1>6 DEF m

\* A segment fits.
LEMMA SegmentRequest ==
  ASSUME NEW r \in MbxCallType, NEW at \in AtType,
         r.kind = "download" => at.moved <= r.size
  PROVE  LET m == MbxSegmentRequest(r, at) IN
           /\ m \in MbxRequestType /\ MbxBytes(m) <= MbxRxSize /\ m.segment
           /\ r.kind = "download" => at.moved + m.data <= r.size
<1> DEFINE left == r.size - at.moved
           part == IF r.kind = "download" THEN MbxLesser(left, MbxSegment) ELSE 0
           m == MbxSegmentRequest(r, at)
<1>1. r.kind \in {"download", "upload"} /\ r.size \in Nat /\ at.moved \in Nat
      /\ at.toggle \in BOOLEAN
  BY DEF MbxCallType, AtType
<1>2. part \in Nat /\ part <= MbxSegment /\ (r.kind = "download" => at.moved + part <= r.size)
  <2>1. CASE r.kind = "download"
    <3>1. left \in Nat
      BY <1>1, <2>1
    <3>2. MbxLesser(left, MbxSegment) \in Nat /\ MbxLesser(left, MbxSegment) <= left
          /\ MbxLesser(left, MbxSegment) <= MbxSegment
      BY <3>1, Lesser, Sizes
    <3>3. QED
      BY <1>1, <2>1, <3>2
  <2>2. CASE r.kind # "download"
    BY <2>2, Sizes
  <2>3. QED
    BY <2>1, <2>2
<1>3. m = [kind |-> r.kind, segment |-> TRUE, object |-> MbxWire(r), data |-> part,
           total |-> 0, toggle |-> at.toggle, last |-> (part = left)]
  BY DEF MbxSegmentRequest
<1>4. (part = left) \in BOOLEAN
  OBVIOUS
<1> HIDE DEF part, left, m
<1>5. m \in MbxRequestType
  BY <1>1, <1>2, <1>3, <1>4, CallObject DEF MbxRequestType
<1>6. m.segment /\ m.data = part
  BY <1>3
<1>7. MbxBytes(m) <= MbxRxSize
  BY <1>2, <1>6, Sizes DEF MbxBytes
<1>8. QED
  BY <1>2, <1>5, <1>6, <1>7 DEF m

\* What the verdict on an answer may be.
LEMMA VerdictTypes ==
  ASSUME NEW u, NEW a
  PROVE  MbxVerdict(u, a) \in {"ok", "more", "abort", "request", "toggle", "size"}
BY DEF MbxVerdict

-----------------------------------------------------------------------------
(***************************************************************************)
(* The initial state, and the steps of a user but the reading of an        *)
(* answer.                                                                 *)
(***************************************************************************)
LEMMA InitInv == MbxInit => MbxInv
<1> SUFFICES ASSUME MbxInit PROVE MbxInv
  OBVIOUS
<1>1. MbxNoCall \in MbxCallType /\ MbxBeginning \in AtType /\ MbxBeginning.moved = 0
  BY SomeObject DEF MbxNoCall, MbxCallType, MbxSubindices, MbxBeginning, AtType
<1>2. MbxNoCall.kind = "upload"
  BY DEF MbxNoCall
<1>3. MbxClosed \in ServerType /\ MbxClosed.kind = "none" /\ MbxClosed.moved <= MbxClosed.total
  BY SomeObject DEF MbxClosed, ServerType
<1>4. UsersTyped
  BY <1>1, MbxAssumption DEF MbxInit, UsersTyped, Labels, Results
<1>5. SlaveTyped
  BY <1>3 DEF MbxInit, SlaveTyped
<1>6. OneMessage
  BY <1>3 DEF MbxInit, OneMessage
<1>7. Bounded
  BY <1>2 DEF MbxInit, Bounded
<1>8. MbxOwnExecution
  BY DEF MbxInit, MbxOwnExecution
<1>9. QED
  BY <1>4, <1>5, <1>6, <1>7, <1>8 DEF MbxInv

\* Where neither the slave nor what lies in the mailboxes has changed.
LEMMA SlaveKept ==
  ASSUME SlaveTyped, OneMessage, MbxOwnExecution, mbx_clean' \in BOOLEAN,
         UNCHANGED <<mbx_in, mbx_out, mbx_server, mbx_unconfirmed>>
  PROVE  SlaveTyped' /\ OneMessage' /\ MbxOwnExecution'
BY DEF SlaveTyped, OneMessage, MbxOwnExecution

LEMMA CallStep ==
  ASSUME MbxInv, NEW u \in MbxUsers, MbxCall(u)
  PROVE  MbxInv'
<1> USE DEF MbxInv
<1>1. PICK r \in MbxCalls[u] : mbx_call' = [mbx_call EXCEPT ![u] = r]
  BY DEF MbxCall
<1>2. r \in MbxCallType /\ r.size \in Nat
  BY MbxAssumption DEF MbxCallType
<1>3. MbxBeginning \in AtType /\ MbxBeginning.moved = 0
  BY DEF MbxBeginning, AtType
<1>4. /\ mbx_pc' = [mbx_pc EXCEPT ![u] = "send"]
      /\ mbx_result' = [mbx_result EXCEPT ![u] = "none"]
      /\ mbx_at' = [mbx_at EXCEPT ![u] = MbxBeginning]
      /\ mbx_intact' = [mbx_intact EXCEPT ![u] = TRUE]
      /\ mbx_budget' = mbx_budget - 1 /\ mbx_budget > 0
      /\ UNCHANGED <<mbx_in, mbx_out, mbx_server, mbx_unconfirmed>>
      /\ mbx_clean' \in BOOLEAN
  BY DEF MbxCall, MbxGoto
<1>5. UsersTyped'
  <2>1. mbx_pc' \in [MbxUsers -> Labels] /\ mbx_result' \in [MbxUsers -> Results]
    BY <1>4 DEF UsersTyped, Labels, Results
  <2>2. mbx_call' \in [MbxUsers -> MbxCallType] /\ mbx_at' \in [MbxUsers -> AtType]
    BY <1>1, <1>2, <1>3, <1>4 DEF UsersTyped
  <2>3. mbx_budget' \in Nat
    BY <1>4 DEF UsersTyped
  <2>4. mbx_intact' \in [MbxUsers -> BOOLEAN]
    BY <1>4 DEF UsersTyped
  <2>5. QED
    BY <2>1, <2>2, <2>3, <2>4 DEF UsersTyped
<1>6. Bounded'
  <2> SUFFICES ASSUME NEW v \in MbxUsers, mbx_call'[v].kind = "download"
               PROVE  /\ mbx_at'[v].moved <= mbx_call'[v].size
                      /\ MbxInFirst(v)' => mbx_at'[v].moved = 0
    BY DEF Bounded
  <2>1. CASE v = u
    BY <1>1, <1>2, <1>3, <1>4, <2>1 DEF UsersTyped
  <2>2. CASE v # u
    BY <1>1, <1>4, <2>2 DEF UsersTyped, Bounded, MbxInFirst
  <2>3. QED
    BY <2>1, <2>2
<1>7. QED
  BY <1>4, <1>5, <1>6, SlaveKept

\* A step of a user that changes only what it does next and what the call returned.
LEMMA OnlyPc ==
  ASSUME UsersTyped, Bounded, NEW u \in MbxUsers, NEW label \in Labels,
         mbx_pc' = [mbx_pc EXCEPT ![u] = label],
         label \in {"send", "poll", "fetch"} => MbxInFirst(u),
         mbx_result' \in [MbxUsers -> Results],
         UNCHANGED <<mbx_call, mbx_at, mbx_budget, mbx_intact>>
  PROVE  UsersTyped' /\ Bounded'
<1>1. UsersTyped'
  BY DEF UsersTyped
<1>2. \A v \in MbxUsers : MbxInFirst(v)' => MbxInFirst(v)
  BY DEF UsersTyped, MbxInFirst
<1>3. Bounded'
  BY <1>2 DEF Bounded
<1>4. QED
  BY <1>1, <1>3

\* A call ends, with any result.
LEMMA Ends ==
  ASSUME UsersTyped, Bounded, NEW u \in MbxUsers, NEW result \in Results, MbxEnd(u, result),
         UNCHANGED <<mbx_call, mbx_at, mbx_budget, mbx_intact>>
  PROVE  UsersTyped' /\ Bounded'
<1>1. mbx_pc' = [mbx_pc EXCEPT ![u] = "idle"] /\ mbx_result' \in [MbxUsers -> Results]
  BY DEF MbxEnd, MbxGoto, UsersTyped
<1>2. "idle" \in Labels /\ "idle" \notin {"send", "poll", "fetch"}
  BY DEF Labels
<1>3. QED
  BY <1>1, <1>2, OnlyPc

\* A call goes on.
LEMMA GoesOn ==
  ASSUME UsersTyped, Bounded, NEW u \in MbxUsers, NEW label \in Labels, MbxGoOn(u, label),
         label \in {"send", "poll", "fetch"} => MbxInFirst(u),
         UNCHANGED <<mbx_call, mbx_at, mbx_budget, mbx_intact>>
  PROVE  UsersTyped' /\ Bounded'
<1>1. mbx_pc' = [mbx_pc EXCEPT ![u] = label] /\ mbx_result' \in [MbxUsers -> Results]
  BY DEF MbxGoOn, MbxGoto, UsersTyped
<1>2. QED
  BY <1>1, OnlyPc

LEMMA PollStep ==
  ASSUME MbxInv, NEW u \in MbxUsers, MbxPollFails(u) \/ ec_mailbox_read_status(u)
  PROVE  MbxInv'
<1> USE DEF MbxInv
<1>1. /\ UNCHANGED <<mbx_in, mbx_out, mbx_server, mbx_unconfirmed>>
      /\ UNCHANGED <<mbx_call, mbx_at, mbx_budget, mbx_intact>>
      /\ mbx_clean' \in BOOLEAN
  BY DEF MbxPollFails, ec_mailbox_read_status, SlaveTyped
<1>2. SlaveTyped' /\ OneMessage' /\ MbxOwnExecution'
  BY <1>1, SlaveKept
<1>3. CASE MbxPollFails(u)
  BY <1>1, <1>2, <1>3, Ends DEF MbxPollFails, Results
<1>4. CASE ec_mailbox_read_status(u)
  <2>1. MbxGoOn(u, IF mbx_pc[u] = "poll" THEN "fetch" ELSE "fetch_segment")
    BY <1>4 DEF ec_mailbox_read_status
  <2>2. CASE mbx_pc[u] = "poll"
    BY <1>1, <1>2, <2>1, <2>2, GoesOn DEF Labels, MbxInFirst
  <2>3. CASE mbx_pc[u] # "poll"
    BY <1>1, <1>2, <2>1, <2>3, GoesOn DEF Labels
  <2>4. QED
    BY <2>2, <2>3
<1>5. QED
  BY <1>3, <1>4

\* What is sent.
LEMMA RequestFits ==
  ASSUME UsersTyped, Bounded, NEW u \in MbxUsers, mbx_pc[u] \in {"send", "send_segment"}
  PROVE  LET m == MbxRequest(u) IN
           /\ m \in MbxRequestType /\ MbxBytes(m) <= MbxRxSize
           /\ m.kind = "download" /\ ~m.segment => m.data = m.total
<1>1. mbx_call[u] \in MbxCallType /\ mbx_at[u] \in AtType
  BY DEF UsersTyped
<1>2. mbx_call[u].kind = "download" => mbx_at[u].moved <= mbx_call[u].size
  BY DEF Bounded
<1>3. CASE mbx_pc[u] = "send"
  <2>1. MbxRequest(u) = MbxFirstRequest(mbx_call[u])
    BY <1>3 DEF MbxRequest
  <2>2. QED
    BY <1>1, <2>1, FirstRequest
<1>4. CASE mbx_pc[u] # "send"
  <2>1. MbxRequest(u) = MbxSegmentRequest(mbx_call[u], mbx_at[u])
    BY <1>4 DEF MbxRequest
  <2>2. QED
    BY <1>1, <1>2, <2>1, SegmentRequest
<1>5. QED
  BY <1>3, <1>4

LEMMA SendStep ==
  ASSUME MbxInv, NEW u \in MbxUsers, ec_mailbox_send(u)
  PROVE  MbxInv'
<1> USE DEF MbxInv
<1>1. /\ UNCHANGED <<mbx_out, mbx_server, mbx_unconfirmed>>
      /\ UNCHANGED <<mbx_call, mbx_at, mbx_budget, mbx_intact>>
      /\ mbx_pc[u] \in {"send", "send_segment"}
      /\ mbx_in' \in {mbx_in, {MbxRequest(u)}}
      /\ \/ /\ MbxGoOn(u, IF mbx_pc[u] = "send" THEN "poll" ELSE "poll_segment")
            /\ mbx_clean' = mbx_clean
         \/ MbxEnd(u, "failed") /\ mbx_clean' = FALSE
  BY DEF ec_mailbox_send
<1>2. UsersTyped' /\ Bounded'
  <2>1. CASE MbxEnd(u, "failed")
    BY <1>1, <2>1, Ends DEF Results
  <2>2. CASE MbxGoOn(u, IF mbx_pc[u] = "send" THEN "poll" ELSE "poll_segment")
    <3>1. CASE mbx_pc[u] = "send"
      BY <1>1, <2>2, <3>1, GoesOn DEF Labels, MbxInFirst
    <3>2. CASE mbx_pc[u] # "send"
      BY <1>1, <2>2, <3>2, GoesOn DEF Labels
    <3>3. QED
      BY <3>1, <3>2
  <2>3. QED
    BY <1>1, <2>1, <2>2
<1>3. \A m \in mbx_in' : /\ m \in MbxRequestType /\ MbxBytes(m) <= MbxRxSize
                         /\ m.kind = "download" /\ ~m.segment => m.data = m.total
  BY <1>1, RequestFits DEF SlaveTyped, OneMessage
<1>4. mbx_clean' \in BOOLEAN
  BY <1>1 DEF SlaveTyped
<1>5. SlaveTyped' /\ OneMessage'
  BY <1>1, <1>3, <1>4 DEF SlaveTyped, OneMessage
<1>6. MbxOwnExecution'
  BY <1>1 DEF MbxOwnExecution
<1>7. QED
  BY <1>2, <1>5, <1>6

-----------------------------------------------------------------------------
(***************************************************************************)
(* The reading of an answer.                                               *)
(***************************************************************************)
LEMMA Advance ==
  ASSUME UsersTyped, Bounded, NEW u \in MbxUsers, NEW a \in MbxAnswerType
  PROVE  LET next == MbxAdvanced(u, a) IN
           /\ next \in AtType
           /\ mbx_call[u].kind = "download" => next.moved <= mbx_call[u].size
<1> DEFINE r == mbx_call[u]
           at == mbx_at[u]
           first == MbxInFirst(u)
           part == IF r.kind = "upload" THEN a.data
                   ELSE IF first THEN MbxFirstRequest(r).data ELSE MbxSegmentRequest(r, at).data
           total == IF r.kind = "download" THEN r.size
                    ELSE IF first THEN a.total ELSE at.total
<1>1. r \in MbxCallType /\ at \in AtType
  BY DEF UsersTyped
<1>2. /\ r.kind \in {"download", "upload"} /\ r.size \in Nat
      /\ at.moved \in Nat /\ at.total \in Nat
      /\ a.data \in Nat /\ a.total \in Nat
  BY <1>1 DEF MbxCallType, AtType, MbxAnswerType
<1>3. r.kind = "download" => at.moved <= r.size /\ (first => at.moved = 0)
  BY DEF Bounded
<1>4. /\ MbxFirstRequest(r).data \in Nat
      /\ r.kind = "download" => MbxFirstRequest(r).data <= r.size
  BY <1>1, FirstRequest DEF MbxRequestType
<1>5. /\ MbxSegmentRequest(r, at).data \in Nat
      /\ r.kind = "download" => at.moved + MbxSegmentRequest(r, at).data <= r.size
  BY <1>1, <1>3, SegmentRequest DEF MbxRequestType
<1>6. part \in Nat /\ total \in Nat
  BY <1>2, <1>4, <1>5
<1>7. r.kind = "download" => at.moved + part <= r.size
  BY <1>2, <1>3, <1>4, <1>5
<1>8. MbxAdvanced(u, a) =
        [moved |-> at.moved + part, total |-> total, toggle |-> (~first /\ ~at.toggle)]
  BY DEF MbxAdvanced
<1>9. (~first /\ ~at.toggle) \in BOOLEAN
  OBVIOUS
<1> HIDE DEF part, total, first
<1>10. QED
  BY <1>2, <1>6, <1>7, <1>8, <1>9 DEF AtType

\* An answer that ends a download with success confirms the object of the call.
LEMMA Confirmed ==
  ASSUME OneMessage, NEW u \in MbxUsers, NEW a \in mbx_out, MbxVerdict(u, a) = "ok",
         mbx_call[u].kind = "download"
  PROVE  MbxConfirms(a, MbxExpected(mbx_call[u]))
<1>1. CASE MbxInFirst(u)
  <2>1. MbxFirstMatches(mbx_call[u], a)
    BY <1>1 DEF MbxVerdict
  <2>2. QED
    BY <2>1 DEF MbxFirstMatches, MbxSameKind, MbxConfirms
<1>2. CASE ~MbxInFirst(u)
  <2>1. MbxSameKind(mbx_call[u], a, TRUE)
    BY <1>2 DEF MbxVerdict
  <2>2. QED
    BY <2>1 DEF MbxSameKind, OneMessage
<1>3. QED
  BY <1>1, <1>2

LEMMA TakeStep ==
  ASSUME MbxInv, NEW u \in MbxUsers, NEW a \in mbx_out, MbxTake(u, a), mbx_out' = {},
         UNCHANGED <<mbx_in, mbx_server, mbx_call, mbx_budget, mbx_clean>>
  PROVE  MbxInv'
<1> USE DEF MbxInv
<1> DEFINE verdict == MbxVerdict(u, a)
           next == MbxAdvanced(u, a)
           taken == verdict \in {"ok", "more"}
           intact == taken /\ mbx_call[u].kind = "upload"
                       => a.object = MbxWire(mbx_call[u]) /\ a.from = mbx_at[u].moved
<1>1. /\ IF verdict = "more" THEN MbxGoOn(u, "send_segment") ELSE MbxEnd(u, verdict)
      /\ mbx_at' = IF taken THEN [mbx_at EXCEPT ![u] = next] ELSE mbx_at
      /\ mbx_intact' = [mbx_intact EXCEPT ![u] = @ /\ intact]
      /\ mbx_unconfirmed' =
           IF verdict = "ok" /\ mbx_call[u].kind = "download"
           THEN [mbx_unconfirmed EXCEPT ![MbxExpected(mbx_call[u])] = @ - 1]
           ELSE mbx_unconfirmed
  BY DEF MbxTake
<1>2. verdict \in {"ok", "more", "abort", "request", "toggle", "size"}
  BY VerdictTypes
<1>3. a \in MbxAnswerType
  BY DEF SlaveTyped
<1>4. next \in AtType /\ (mbx_call[u].kind = "download" => next.moved <= mbx_call[u].size)
  BY <1>3, Advance
<1>5. intact \in BOOLEAN
  OBVIOUS
<1>6. verdict = "ok" /\ mbx_call[u].kind = "download"
        => MbxConfirms(a, MbxExpected(mbx_call[u]))
  BY Confirmed
<1>7. MbxExpected(mbx_call[u]) \in MbxObjects
  BY CallObject DEF UsersTyped
<1> HIDE DEF verdict, next, taken, intact
<1>8. PICK label \in {"idle", "send_segment"} :
        mbx_pc' = [mbx_pc EXCEPT ![u] = label] /\ mbx_result' \in [MbxUsers -> Results]
  <2>1. CASE verdict = "more"
    BY <1>1, <2>1 DEF MbxGoOn, MbxGoto, UsersTyped
  <2>2. CASE verdict # "more"
    <3>1. verdict \in Results
      BY <1>2, <2>2 DEF Results
    <3>2. QED
      BY <1>1, <2>2, <3>1 DEF MbxEnd, MbxGoto, UsersTyped
  <2>3. QED
    BY <2>1, <2>2
<1>9. mbx_at' \in [MbxUsers -> AtType]
  BY <1>1, <1>4 DEF UsersTyped
<1>10. mbx_intact' \in [MbxUsers -> BOOLEAN]
  BY <1>1, <1>5 DEF UsersTyped
<1>11. UsersTyped'
  <2>1. mbx_pc' \in [MbxUsers -> Labels]
    BY <1>8 DEF UsersTyped, Labels
  <2>2. QED
    BY <1>8, <1>9, <1>10, <2>1 DEF UsersTyped
<1>12. Bounded'
  <2> SUFFICES ASSUME NEW v \in MbxUsers, mbx_call[v].kind = "download"
               PROVE  /\ mbx_at'[v].moved <= mbx_call[v].size
                      /\ MbxInFirst(v)' => mbx_at'[v].moved = 0
    BY DEF Bounded
  <2>1. CASE v = u
    <3>1. ~MbxInFirst(v)'
      BY <1>8, <2>1 DEF UsersTyped, MbxInFirst
    <3>2. mbx_at'[v].moved <= mbx_call[v].size
      BY <1>1, <1>4, <2>1 DEF UsersTyped, Bounded
    <3>3. QED
      BY <3>1, <3>2
  <2>2. CASE v # u
    BY <1>1, <1>8, <2>2 DEF UsersTyped, Bounded, MbxInFirst
  <2>3. QED
    BY <2>1, <2>2
<1>13. SlaveTyped'
  BY <1>1, <1>7 DEF SlaveTyped
<1>14. OneMessage'
  BY DEF OneMessage
<1>15. MbxOwnExecution'
  <2>1. \A o \in MbxObjects : mbx_unconfirmed'[o] >= 0
    <3>1. CASE verdict = "ok" /\ mbx_call[u].kind = "download"
      <4>1. mbx_unconfirmed[MbxExpected(mbx_call[u])] > 0
        BY <1>6, <1>7, <3>1 DEF MbxOwnExecution
      <4>2. QED
        BY <1>1, <1>7, <3>1, <4>1 DEF SlaveTyped, MbxOwnExecution
    <3>2. CASE ~(verdict = "ok" /\ mbx_call[u].kind = "download")
      BY <1>1, <3>2 DEF MbxOwnExecution
    <3>3. QED
      BY <3>1, <3>2
  <2>2. QED
    BY <2>1 DEF MbxOwnExecution
<1>16. QED
  BY <1>11, <1>12, <1>13, <1>14, <1>15

LEMMA FetchStep ==
  ASSUME MbxInv, NEW u \in MbxUsers, MbxFetch(u)
  PROVE  MbxInv'
<1> USE DEF MbxInv
<1>1. UNCHANGED <<mbx_in, mbx_server, mbx_call, mbx_budget>>
  BY DEF MbxFetch
<1>2. CASE \E a \in mbx_out : mbx_out' = {} /\ MbxTake(u, a) /\ UNCHANGED mbx_clean
  BY <1>1, <1>2, TakeStep
<1>3. CASE \E reached \in BOOLEAN :
             /\ mbx_out' = IF reached THEN {} ELSE mbx_out
             /\ MbxEnd(u, "failed")
             /\ mbx_clean' = FALSE
             /\ UNCHANGED <<mbx_at, mbx_intact, mbx_unconfirmed>>
  <2>1. UsersTyped' /\ Bounded'
    BY <1>1, <1>3, Ends DEF Results
  <2>2. mbx_out' \subseteq mbx_out /\ mbx_clean' \in BOOLEAN /\ mbx_unconfirmed' = mbx_unconfirmed
    BY <1>3
  <2>3. SlaveTyped' /\ OneMessage' /\ MbxOwnExecution'
    BY <1>1, <2>2 DEF SlaveTyped, OneMessage, MbxOwnExecution
  <2>4. QED
    BY <2>1, <2>3
<1>4. QED
  BY <1>2, <1>3 DEF MbxFetch

-----------------------------------------------------------------------------
(***************************************************************************)
(* The slave.                                                              *)
(***************************************************************************)
LEMMA UsersKept ==
  ASSUME UsersTyped, Bounded, UNCHANGED mbxUserVars
  PROVE  UsersTyped' /\ Bounded'
BY DEF UsersTyped, Bounded, mbxUserVars, MbxInFirst

LEMMA Opens ==
  ASSUME NEW m \in MbxRequestType, NEW moved \in Nat, NEW total \in Nat, NEW toggle \in BOOLEAN,
         m.kind = "upload" \/ ~(moved < total)
  PROVE  LET s == MbxOpen(m, moved, total, toggle) IN
           s \in ServerType /\ s.kind # "download" /\ s.moved <= s.total
<1>1. MbxClosed \in ServerType /\ MbxClosed.kind = "none" /\ MbxClosed.moved <= MbxClosed.total
  BY SomeObject DEF MbxClosed, ServerType
<1>2. m.object \in MbxObjects
  BY DEF MbxRequestType
<1>3. CASE moved < total
  BY <1>2, <1>3 DEF MbxOpen, ServerType
<1>4. CASE ~(moved < total)
  BY <1>1, <1>4 DEF MbxOpen
<1>5. QED
  BY <1>3, <1>4

LEMMA Replies ==
  ASSUME NEW m \in MbxRequestType, NEW object \in MbxObjects, NEW data \in Nat,
         NEW total \in Nat, NEW last \in BOOLEAN, NEW from \in Nat
  PROVE  LET a == MbxReply(m, object, data, total, last, from) IN
           /\ a \in MbxAnswerType
           /\ a.kind = m.kind /\ a.segment = m.segment /\ a.object = object
<1>1. /\ m.kind \in {"download", "upload"}
      /\ m.segment \in BOOLEAN /\ m.toggle \in BOOLEAN
  BY DEF MbxRequestType
<1>2. QED
  BY <1>1 DEF MbxReply, MbxAnswerType

LEMMA ServeDownload ==
  ASSUME SlaveTyped, OneMessage, MbxOwnExecution, NEW m \in mbx_in, MbxServeDownload(m),
         mbx_in' = {}, UNCHANGED mbx_clean
  PROVE  SlaveTyped' /\ OneMessage' /\ MbxOwnExecution'
<1> DEFINE reply == MbxReply(m, m.object, 0, 0, FALSE, 0)
<1>1. /\ m \in MbxRequestType /\ m.object \in MbxObjects /\ m.data \in Nat /\ m.total \in Nat
      /\ m.kind = "download" /\ ~m.segment /\ m.data = m.total
      /\ m.segment \in BOOLEAN /\ m.toggle \in BOOLEAN
  BY DEF SlaveTyped, OneMessage, MbxServeDownload, MbxRequestType
<1>2. /\ mbx_out' = {reply} /\ mbx_server' = MbxOpen(m, m.data, m.total, FALSE)
      /\ mbx_unconfirmed' = [mbx_unconfirmed EXCEPT ![m.object] = @ + 1]
  BY <1>1 DEF MbxServeDownload, MbxWritten
<1>3. reply \in MbxAnswerType /\ ~reply.segment /\ reply.object = m.object
  BY <1>1 DEF MbxReply, MbxAnswerType
<1>4. /\ mbx_server' \in ServerType /\ mbx_server'.kind # "download"
      /\ mbx_server'.moved <= mbx_server'.total
  <2>1. ~(m.data < m.total) /\ FALSE \in BOOLEAN
    BY <1>1
  <2>2. QED
    BY <1>1, <1>2, <2>1, Opens
<1> HIDE DEF reply
<1>5. SlaveTyped'
  <2>1. mbx_unconfirmed' \in [MbxObjects -> Int]
    BY <1>1, <1>2 DEF SlaveTyped
  <2>2. /\ \A x \in mbx_in' : x \in MbxRequestType /\ MbxBytes(x) <= MbxRxSize
        /\ \A a \in mbx_out' : a \in MbxAnswerType
    BY <1>2, <1>3
  <2>3. mbx_clean' \in BOOLEAN
    BY DEF SlaveTyped
  <2>4. QED
    BY <1>4, <2>1, <2>2, <2>3 DEF SlaveTyped
<1>6. OneMessage'
  BY <1>2, <1>3, <1>4 DEF OneMessage
<1>7. MbxOwnExecution'
  BY <1>1, <1>2, <1>3 DEF MbxOwnExecution, MbxConfirms, SlaveTyped
<1>8. QED
  BY <1>5, <1>6, <1>7

\* An upload confirms no download.
LEMMA ServesUpload ==
  ASSUME SlaveTyped, OneMessage, MbxOwnExecution, NEW a \in MbxAnswerType,
         a.kind # "download", mbx_in' = {}, mbx_out' = {a}, mbx_clean' \in BOOLEAN,
         mbx_server' \in ServerType, mbx_server'.kind # "download",
         mbx_server'.moved <= mbx_server'.total, UNCHANGED mbx_unconfirmed
  PROVE  SlaveTyped' /\ OneMessage' /\ MbxOwnExecution'
BY DEF SlaveTyped, OneMessage, MbxOwnExecution, MbxConfirms

LEMMA ServeUpload ==
  ASSUME SlaveTyped, OneMessage, MbxOwnExecution, NEW m \in mbx_in, MbxServeUpload(m),
         mbx_in' = {}, UNCHANGED mbx_clean
  PROVE  SlaveTyped' /\ OneMessage' /\ MbxOwnExecution'
<1> DEFINE total == MbxLength[m.object.index]
           part == MbxLesser(total, MbxTxSize - 16)
           reply == MbxReply(m, m.object, part, total, FALSE, 0)
<1>1. m \in MbxRequestType /\ m.object \in MbxObjects /\ m.kind = "upload"
  BY DEF SlaveTyped, MbxServeUpload, MbxRequestType
<1>2. total \in Nat
  BY <1>1, MbxAssumption DEF MbxObjects
<1>3. part \in Nat
  BY <1>2, Lesser, Sizes
<1>4. /\ mbx_out' = {reply} /\ mbx_server' = MbxOpen(m, part, total, FALSE)
      /\ UNCHANGED mbx_unconfirmed
  BY DEF MbxServeUpload
<1> HIDE DEF total, part
<1>5. reply \in MbxAnswerType /\ reply.kind = "upload"
  <2>1. m.segment \in BOOLEAN /\ m.toggle \in BOOLEAN
    BY <1>1 DEF MbxRequestType
  <2>2. QED
    BY <1>1, <1>2, <1>3, <2>1 DEF MbxReply, MbxAnswerType
<1>6. /\ mbx_server' \in ServerType /\ mbx_server'.kind # "download"
      /\ mbx_server'.moved <= mbx_server'.total
  BY <1>1, <1>2, <1>3, <1>4, Opens
<1>7. mbx_clean' \in BOOLEAN
  BY DEF SlaveTyped
<1> HIDE DEF reply
<1>8. QED
  BY <1>4, <1>5, <1>6, <1>7, ServesUpload

LEMMA ServeSegment ==
  ASSUME SlaveTyped, OneMessage, MbxOwnExecution, NEW m \in mbx_in, MbxServeSegment(m),
         mbx_in' = {}, UNCHANGED mbx_clean
  PROVE  SlaveTyped' /\ OneMessage' /\ MbxOwnExecution'
<1> DEFINE s == mbx_server
           part == MbxLesser(s.total - s.moved, MbxTxSize - 9)
           last == (s.moved + part = s.total)
           reply == MbxReply(m, s.object, part, 0, last, s.moved)
           opener == [m EXCEPT !.object = s.object]
<1>1. /\ s.kind \in {"none", "download", "upload"} /\ s.object \in MbxObjects
      /\ s.moved \in Nat /\ s.total \in Nat /\ s.toggle \in BOOLEAN
      /\ s.moved <= s.total /\ s.kind # "download"
  BY DEF SlaveTyped, OneMessage, ServerType
<1>2. m \in MbxRequestType /\ m.segment
  BY DEF SlaveTyped, MbxServeSegment
<1>3. m.kind = "upload"
  BY <1>1, <1>2 DEF MbxServeSegment, MbxFits, MbxRequestType
<1>4. part \in Nat
  <2>1. s.total - s.moved \in Nat
    BY <1>1
  <2>2. QED
    BY <2>1, Lesser, Sizes
<1>5. /\ mbx_out' = {reply}
      /\ mbx_server' = MbxOpen(opener, s.moved + part, s.total, ~s.toggle)
      /\ UNCHANGED mbx_unconfirmed
  BY <1>3 DEF MbxServeSegment
<1>6. last \in BOOLEAN /\ (~s.toggle) \in BOOLEAN /\ s.moved + part \in Nat
  BY <1>1, <1>4
<1>7. opener \in MbxRequestType /\ opener.kind = "upload"
  BY <1>1, <1>2, <1>3 DEF MbxRequestType
<1> HIDE DEF part, last, opener, s
<1>8. reply \in MbxAnswerType /\ reply.kind = "upload"
  BY <1>1, <1>2, <1>3, <1>4, <1>6, Replies
<1>9. /\ mbx_server' \in ServerType /\ mbx_server'.kind # "download"
      /\ mbx_server'.moved <= mbx_server'.total
  BY <1>1, <1>5, <1>6, <1>7, Opens
<1>10. mbx_clean' \in BOOLEAN
  BY DEF SlaveTyped
<1> HIDE DEF reply
<1>11. QED
  BY <1>5, <1>8, <1>9, <1>10, ServesUpload

LEMMA ServeStep == MbxInv /\ MbxServe => MbxInv'
<1> SUFFICES ASSUME MbxInv, MbxServe PROVE MbxInv'
  OBVIOUS
<1>1. UsersTyped' /\ Bounded'
  BY UsersKept DEF MbxInv, MbxServe
<1>2. PICK m \in mbx_in : MbxServeDownload(m) \/ MbxServeUpload(m) \/ MbxServeSegment(m)
  BY DEF MbxServe
<1>3. mbx_in' = {} /\ mbx_clean' = mbx_clean
  BY DEF MbxServe
<1>4. SlaveTyped' /\ OneMessage' /\ MbxOwnExecution'
  BY <1>2, <1>3, ServeDownload, ServeUpload, ServeSegment DEF MbxInv
<1>5. QED
  BY <1>1, <1>4 DEF MbxInv

\* The other steps of the slave, and the reset.
LEMMA OtherStep == MbxInv /\ (MbxRefuse \/ MbxSendEmergency \/ MbxReset) => MbxInv'
<1> SUFFICES ASSUME MbxInv, MbxRefuse \/ MbxSendEmergency \/ MbxReset PROVE MbxInv'
  OBVIOUS
<1>1. /\ UNCHANGED mbxUserVars /\ UNCHANGED mbx_unconfirmed
      /\ mbx_in' \in {{}, mbx_in} /\ mbx_out' \in {{}, {MbxAbort}, {MbxEmergency}}
      /\ mbx_server' \in {MbxClosed, mbx_server} /\ mbx_clean' \in BOOLEAN
  BY DEF MbxRefuse, MbxSendEmergency, MbxReset, MbxInv, SlaveTyped
<1>2. UsersTyped' /\ Bounded'
  BY <1>1, UsersKept DEF MbxInv
<1>3. \A a \in mbx_out' : a \in MbxAnswerType /\ a.kind # "download"
  <2>1. MbxAbort \in MbxAnswerType /\ MbxAbort.kind = "abort"
    BY SomeObject DEF MbxAbort, MbxAnswerType
  <2>2. MbxEmergency \in MbxAnswerType /\ MbxEmergency.kind = "emergency"
    BY <2>1 DEF MbxEmergency, MbxAnswerType
  <2>3. QED
    BY <1>1, <2>1, <2>2
<1>4. /\ MbxClosed \in ServerType /\ MbxClosed.kind = "none"
      /\ MbxClosed.moved <= MbxClosed.total
  BY SomeObject DEF MbxClosed, ServerType
<1>5. SlaveTyped'
  BY <1>1, <1>3, <1>4 DEF MbxInv, SlaveTyped
<1>6. OneMessage'
  BY <1>1, <1>3, <1>4 DEF MbxInv, OneMessage
<1>7. MbxOwnExecution'
  BY <1>1, <1>3 DEF MbxInv, MbxOwnExecution, MbxConfirms
<1>8. QED
  BY <1>2, <1>5, <1>6, <1>7 DEF MbxInv

-----------------------------------------------------------------------------
(***************************************************************************)
(* The theorems.                                                           *)
(***************************************************************************)
LEMMA MbxInductive == MbxSpec => []MbxInv
<1>1. MbxInit => MbxInv
  BY InitInv
<1>2. MbxInv /\ [MbxNext]_mbxVars => MbxInv'
  <2> SUFFICES ASSUME MbxInv, [MbxNext]_mbxVars PROVE MbxInv'
    OBVIOUS
  <2>1. CASE MbxNext
    BY <2>1, CallStep, SendStep, PollStep, FetchStep, ServeStep, OtherStep DEF MbxNext
  <2>2. CASE UNCHANGED mbxVars
    <3>1. UsersTyped' /\ Bounded'
      BY <2>2, UsersKept DEF MbxInv, mbxVars
    <3>2. SlaveTyped' /\ OneMessage' /\ MbxOwnExecution'
      BY <2>2 DEF MbxInv, mbxVars, SlaveTyped, OneMessage, MbxOwnExecution
    <3>3. QED
      BY <3>1, <3>2 DEF MbxInv
  <2>3. QED
    BY <2>1, <2>2
<1>3. QED
  BY <1>1, <1>2, PTL DEF MbxSpec

\* Every variable keeps its type, and every request fits in the mailbox of the slave with
\* its headers: the assertion of ec_mailbox_fill_send never fails (ec_mailbox.c:21).
THEOREM MbxTypeCorrect == MbxSpec => []MbxTypeOK
<1>1. MbxInv => MbxTypeOK
  BY TypeSplits DEF MbxInv
<1>2. QED
  BY <1>1, MbxInductive, PTL

\* However messages are lost and answers left behind, every download that is reported
\* is one that the slave has carried out since the last report on that object
\* (ec_mailbox.c:74-76, ec_coe.c:104-108).
THEOREM MbxAlwaysOwn == MbxSpec => []MbxOwnExecution
<1>1. MbxInv => MbxOwnExecution
  BY DEF MbxInv
<1>2. QED
  BY <1>1, MbxInductive, PTL

-----------------------------------------------------------------------------
(***************************************************************************)
(* What one reader gets from the mailbox is one object, whole and in       *)
(* order, although answers to segments name no object and answers of       *)
(* earlier calls may lie in the mailbox.  Others may download at any time, *)
(* and the slave may be reset.  With a second reader it is not so.         *)
(***************************************************************************)
\* Nobody but one user reads from the slave.
OneReader ==
  \A u, v \in MbxUsers : \A q \in MbxCalls[u], r \in MbxCalls[v] :
    q.kind = "upload" /\ r.kind = "upload" => u = v

\* The slave has no upload open, or one of this object that has come this far.
IsAt(server, object, moved, toggle) ==
  server.kind = "upload" =>
    /\ server.object = object /\ server.moved = moved
    /\ server.toggle <=> toggle

ServerAt(object, moved, toggle) == IsAt(mbx_server, object, moved, toggle)

FirstPart(object) == MbxLesser(MbxLength[object.index], MbxTxSize - 16)

\* An answer that lies in the mailbox is the last thing that the slave has done.
AnswersFit ==
  /\ mbx_server.kind = "upload" => mbx_server.total = MbxLength[mbx_server.object.index]
  /\ \A a \in mbx_out : a.kind = "upload" =>
       /\ ServerAt(a.object, a.from + a.data, a.segment /\ ~a.toggle)
       /\ ~a.segment => /\ a.from = 0 /\ a.data = FirstPart(a.object)
                        /\ a.total = MbxLength[a.object.index]

Calling(u) == mbx_pc[u] # "idle" => mbx_call[u] \in MbxCalls[u] /\ mbx_result[u] = "none"

Reading(u) == mbx_pc[u] # "idle" /\ mbx_call[u].kind = "upload"
Wanted(u) == MbxWire(mbx_call[u])
NoSegmentAnswered == \A a \in mbx_out : a.kind = "upload" => ~a.segment
ServerHere(u) == ServerAt(Wanted(u), mbx_at[u].moved, mbx_at[u].toggle)

\* Until the first answer has been taken: of uploads there is no request but its own.
ReadsFirst(u) ==
  /\ MbxInFirst(u) => mbx_at[u] = MbxBeginning
  /\ mbx_pc[u] \in {"poll", "fetch"} =>
       \A m \in mbx_in : m.kind = "upload" => ~m.segment /\ m.object = Wanted(u)

\* Then the slave is as far as the reader when a request of the reader comes to it.  Its
\* first request may still be under way, if the answer to an equal one was taken for the
\* answer to it.
ReadsNext(u) ==
  mbx_pc[u] = "send_segment" =>
    /\ ServerHere(u) /\ NoSegmentAnswered
    /\ \A m \in mbx_in : m.kind = "upload" =>
         /\ ~m.segment /\ m.object = Wanted(u)
         /\ mbx_at[u].moved = FirstPart(Wanted(u)) /\ ~mbx_at[u].toggle

\* The request for a segment and its answer are not both under way.
AwaitsSegment(u) ==
  mbx_pc[u] \in {"poll_segment", "fetch_segment"} =>
    /\ \A m \in mbx_in : m.kind = "upload" =>
         /\ m.segment /\ (m.toggle <=> mbx_at[u].toggle)
         /\ ServerHere(u) /\ NoSegmentAnswered
    /\ \A a \in mbx_out : a.kind = "upload" /\ a.segment =>
         /\ a.object = Wanted(u) /\ a.from = mbx_at[u].moved
         /\ a.toggle <=> mbx_at[u].toggle

Reader(u) ==
  Reading(u) =>
    /\ mbx_intact[u]
    /\ ~MbxInFirst(u) => mbx_at[u].total = MbxLength[mbx_call[u].index]
    /\ ReadsFirst(u) /\ ReadsNext(u) /\ AwaitsSegment(u)

HasRead(u) ==
  mbx_result[u] = "ok" /\ mbx_call[u].kind = "upload"
    => mbx_intact[u] /\ mbx_at[u].moved = MbxLength[mbx_call[u].index]

UserReads(u) == Calling(u) /\ Reader(u) /\ HasRead(u)

ReadInv == AnswersFit /\ \A u \in MbxUsers : UserReads(u)

-----------------------------------------------------------------------------
(***************************************************************************)
(* The users that do not take the step.                                    *)
(***************************************************************************)
\* No upload is begun or answered, and none of the user's own variables changes.
LEMMA Unconcerned ==
  ASSUME NEW u \in MbxUsers, UserReads(u),
         UNCHANGED <<mbx_pc[u], mbx_call[u], mbx_at[u], mbx_result[u], mbx_intact[u]>>,
         UNCHANGED mbx_server,
         \A m \in mbx_in' : Reading(u) /\ m.kind = "upload" => m \in mbx_in,
         \A a \in mbx_out' : a.kind = "upload" => a \in mbx_out
  PROVE  UserReads(u)'
<1>1. Calling(u)' /\ HasRead(u)'
  BY DEF UserReads, Calling, HasRead
<1>2. ASSUME Reading(u)' PROVE Reader(u)'
  <2>1. Reading(u) /\ Reader(u) /\ (MbxInFirst(u)' <=> MbxInFirst(u))
    BY <1>2 DEF Reading, UserReads, MbxInFirst
  <2>2. (Wanted(u)' = Wanted(u)) /\ (ServerHere(u) => ServerHere(u)')
        /\ (NoSegmentAnswered => NoSegmentAnswered')
    BY DEF Wanted, ServerHere, ServerAt, IsAt, NoSegmentAnswered
  <2>3. /\ mbx_intact'[u]
        /\ (~MbxInFirst(u) => mbx_at[u].total = MbxLength[mbx_call[u].index])'
    BY <2>1 DEF Reader
  <2>4. ReadsFirst(u)'
    BY <2>1, <2>2 DEF Reader, ReadsFirst
  <2>5. ReadsNext(u)'
    BY <2>1, <2>2 DEF Reader, ReadsNext, FirstPart
  <2>6. AwaitsSegment(u)'
    BY <2>1, <2>2 DEF Reader, AwaitsSegment
  <2>7. QED
    BY <2>3, <2>4, <2>5, <2>6 DEF Reader
<1>3. QED
  BY <1>1, <1>2 DEF UserReads, Reader

\* Two users do not read at once.
LEMMA Alone ==
  ASSUME OneReader, ReadInv, NEW u \in MbxUsers, NEW v \in MbxUsers, Reading(u), Reading(v)
  PROVE  u = v
BY DEF OneReader, ReadInv, UserReads, Calling, Reading

\* A user that is not in a call, and whose last call did not succeed, has nothing to show.
LEMMA Failed ==
  ASSUME NEW u \in MbxUsers, mbx_pc'[u] = "idle", mbx_result'[u] # "ok"
  PROVE  UserReads(u)'
BY DEF UserReads, Calling, Reader, Reading, HasRead

LEMMA AnswersKept ==
  ASSUME AnswersFit, UNCHANGED mbx_server, \A a \in mbx_out' : a.kind = "upload" => a \in mbx_out
  PROVE  AnswersFit'
BY DEF AnswersFit, ServerAt, IsAt, FirstPart

LEMMA Ended ==
  ASSUME UsersTyped, NEW u \in MbxUsers, NEW result, MbxEnd(u, result)
  PROVE  mbx_pc'[u] = "idle" /\ mbx_result'[u] = result
BY DEF UsersTyped, MbxEnd, MbxGoto

LEMMA WentOn ==
  ASSUME UsersTyped, NEW u \in MbxUsers, NEW label, MbxGoOn(u, label)
  PROVE  mbx_pc'[u] = label /\ mbx_result'[u] = mbx_result[u]
BY DEF UsersTyped, MbxGoOn, MbxGoto

\* What a step of one user leaves alone of the others.
LEMMA OthersAlone ==
  ASSUME UsersTyped, NEW u \in MbxUsers, NEW v \in MbxUsers, u # v,
         (\E result : MbxEnd(u, result)) \/ (\E label : MbxGoOn(u, label))
  PROVE  UNCHANGED <<mbx_pc[v], mbx_result[v]>>
BY DEF UsersTyped, MbxEnd, MbxGoOn, MbxGoto

-----------------------------------------------------------------------------
(***************************************************************************)
(* The initial state, and the steps of a user but the reading of an        *)
(* answer.                                                                 *)
(***************************************************************************)
LEMMA ReadInit == MbxInit => ReadInv
<1> SUFFICES ASSUME MbxInit PROVE ReadInv
  OBVIOUS
<1>1. AnswersFit
  BY DEF MbxInit, AnswersFit, MbxClosed
<1>2. ASSUME NEW u \in MbxUsers PROVE UserReads(u)
  BY DEF MbxInit, UserReads, Calling, Reader, Reading, HasRead
<1>3. QED
  BY <1>1, <1>2 DEF ReadInv

LEMMA CallReads ==
  ASSUME MbxInv, ReadInv, NEW u \in MbxUsers, MbxCall(u)
  PROVE  ReadInv'
<1>1. PICK r \in MbxCalls[u] : mbx_call' = [mbx_call EXCEPT ![u] = r]
  BY DEF MbxCall
<1>2. /\ mbx_pc' = [mbx_pc EXCEPT ![u] = "send"]
      /\ mbx_result' = [mbx_result EXCEPT ![u] = "none"]
      /\ mbx_at' = [mbx_at EXCEPT ![u] = MbxBeginning]
      /\ mbx_intact' = [mbx_intact EXCEPT ![u] = TRUE]
      /\ UNCHANGED <<mbx_in, mbx_out, mbx_server>>
  BY DEF MbxCall, MbxGoto
<1>3. AnswersFit'
  BY <1>2, AnswersKept DEF ReadInv
<1>4. ASSUME NEW v \in MbxUsers PROVE UserReads(v)'
  <2>1. CASE v # u
    <3>1. UNCHANGED <<mbx_pc[v], mbx_call[v], mbx_at[v], mbx_result[v], mbx_intact[v]>>
      BY <1>1, <1>2, <2>1 DEF MbxInv, UsersTyped
    <3>2. QED
      BY <1>2, <3>1, Unconcerned DEF ReadInv
  <2>2. CASE v = u
    <3>1. /\ mbx_pc'[u] = "send" /\ mbx_result'[u] = "none" /\ mbx_at'[u] = MbxBeginning
          /\ mbx_intact'[u] /\ mbx_call'[u] = r
      BY <1>1, <1>2 DEF MbxInv, UsersTyped
    <3>2. Calling(u)' /\ HasRead(u)'
      BY <3>1 DEF Calling, HasRead
    <3>3. Reader(u)'
      BY <3>1 DEF Reader, MbxInFirst, ReadsFirst, ReadsNext, AwaitsSegment
    <3>4. QED
      BY <2>2, <3>2, <3>3 DEF UserReads
  <2>3. QED
    BY <2>1, <2>2
<1>5. QED
  BY <1>3, <1>4 DEF ReadInv

LEMMA PollReads ==
  ASSUME MbxInv, ReadInv, NEW u \in MbxUsers, MbxPollFails(u) \/ ec_mailbox_read_status(u)
  PROVE  ReadInv'
<1>1. /\ UNCHANGED <<mbx_in, mbx_out, mbx_server, mbx_call, mbx_at, mbx_intact>>
      /\ mbx_pc[u] \in {"poll", "poll_segment"}
      /\ \/ MbxEnd(u, "failed")
         \/ MbxGoOn(u, IF mbx_pc[u] = "poll" THEN "fetch" ELSE "fetch_segment")
  BY DEF MbxPollFails, ec_mailbox_read_status
<1>2. AnswersFit'
  BY <1>1, AnswersKept DEF ReadInv
<1>3. ASSUME NEW v \in MbxUsers PROVE UserReads(v)'
  <2>1. CASE v # u
    <3>1. UNCHANGED <<mbx_pc[v], mbx_result[v]>>
      BY <1>1, <2>1, OthersAlone DEF MbxInv
    <3>2. QED
      BY <1>1, <3>1, Unconcerned DEF ReadInv
  <2>2. CASE v = u /\ MbxEnd(u, "failed")
    BY <2>2, Ended, Failed DEF MbxInv
  <2>3. CASE v = u /\ MbxGoOn(u, IF mbx_pc[u] = "poll" THEN "fetch" ELSE "fetch_segment")
    <3>1. /\ mbx_pc'[u] = IF mbx_pc[u] = "poll" THEN "fetch" ELSE "fetch_segment"
          /\ mbx_result'[u] = mbx_result[u]
      BY <2>3, WentOn DEF MbxInv
    <3>2. UserReads(u)
      BY DEF ReadInv
    <3>3. Calling(u)' /\ HasRead(u)' /\ (Reading(u)' => Reading(u) /\ Reader(u))
      BY <1>1, <3>1, <3>2 DEF UserReads, Calling, HasRead, Reading
    <3>4. /\ Wanted(u)' = Wanted(u) /\ (ServerHere(u)' <=> ServerHere(u))
          /\ NoSegmentAnswered' <=> NoSegmentAnswered
          /\ MbxInFirst(u)' <=> MbxInFirst(u)
      BY <1>1, <3>1 DEF Wanted, ServerHere, ServerAt, IsAt, NoSegmentAnswered, MbxInFirst
    <3>5. Reading(u)' => ReadsFirst(u)' /\ ReadsNext(u)' /\ AwaitsSegment(u)'
      BY <1>1, <3>1, <3>3, <3>4 DEF Reader, Reading, ReadsFirst, ReadsNext, AwaitsSegment
    <3>6. QED
      BY <1>1, <2>3, <3>3, <3>4, <3>5 DEF UserReads, Reader, Reading
  <2>4. QED
    BY <1>1, <2>1, <2>2, <2>3
<1>4. QED
  BY <1>2, <1>3 DEF ReadInv

\* A download that is sent concerns no reader, and a reader sends only what it may.
LEMMA SendReads ==
  ASSUME OneReader, MbxInv, ReadInv, NEW u \in MbxUsers, ec_mailbox_send(u)
  PROVE  ReadInv'
<1>1. /\ UNCHANGED <<mbx_out, mbx_server, mbx_call, mbx_at, mbx_intact>>
      /\ mbx_pc[u] \in {"send", "send_segment"}
      /\ mbx_in' = mbx_in \/ mbx_in' = {MbxRequest(u)}
      /\ \/ MbxEnd(u, "failed")
         \/ /\ MbxGoOn(u, IF mbx_pc[u] = "send" THEN "poll" ELSE "poll_segment")
            /\ mbx_in' = {MbxRequest(u)}
  BY DEF ec_mailbox_send, MbxAccesses
<1>2. AnswersFit'
  BY <1>1, AnswersKept DEF ReadInv
<1>3. MbxRequest(u).kind = mbx_call[u].kind
  BY DEF MbxRequest, MbxFirstRequest, MbxSegmentRequest
<1>4. ASSUME NEW v \in MbxUsers PROVE UserReads(v)'
  <2>1. CASE v # u
    <3>1. UNCHANGED <<mbx_pc[v], mbx_result[v]>>
      BY <1>1, <2>1, OthersAlone DEF MbxInv
    <3>2. ASSUME Reading(v) PROVE MbxRequest(u).kind # "upload"
      <4>1. ~Reading(u)
        BY <2>1, <3>2, Alone
      <4>2. QED
        BY <1>1, <1>3, <4>1 DEF Reading
    <3>3. \A m \in mbx_in' : Reading(v) /\ m.kind = "upload" => m \in mbx_in
      BY <1>1, <3>2
    <3>4. UserReads(v)
      BY DEF ReadInv
    <3>5. QED
      BY <1>1, <3>1, <3>3, <3>4, Unconcerned
  <2>2. CASE v = u /\ MbxEnd(u, "failed")
    BY <2>2, Ended, Failed DEF MbxInv
  <2>3. CASE v = u /\ MbxGoOn(u, IF mbx_pc[u] = "send" THEN "poll" ELSE "poll_segment")
                   /\ mbx_in' = {MbxRequest(u)}
    <3>1. /\ mbx_pc'[u] = IF mbx_pc[u] = "send" THEN "poll" ELSE "poll_segment"
          /\ mbx_result'[u] = mbx_result[u]
      BY <2>3, WentOn DEF MbxInv
    <3>2. UserReads(u)
      BY DEF ReadInv
    <3>3. Calling(u)' /\ HasRead(u)' /\ (Reading(u)' => Reading(u) /\ Reader(u))
      BY <1>1, <3>1, <3>2 DEF UserReads, Calling, HasRead, Reading
    <3>4. /\ Wanted(u)' = Wanted(u) /\ (ServerHere(u)' <=> ServerHere(u))
          /\ NoSegmentAnswered' <=> NoSegmentAnswered
          /\ MbxInFirst(u)' <=> MbxInFirst(u)
      BY <1>1, <3>1 DEF Wanted, ServerHere, ServerAt, IsAt, NoSegmentAnswered, MbxInFirst
    <3>5. ASSUME Reading(u)', mbx_pc[u] = "send"
          PROVE  ReadsFirst(u)' /\ ReadsNext(u)' /\ AwaitsSegment(u)'
      <4>1. mbx_pc'[u] = "poll" /\ mbx_at'[u] = mbx_at[u] /\ mbx_at[u] = MbxBeginning
        BY <1>1, <3>1, <3>3, <3>5 DEF Reader, ReadsFirst, MbxInFirst
      <4>2. ~MbxRequest(u).segment /\ MbxRequest(u).object = Wanted(u)
        BY <3>5 DEF MbxRequest, MbxFirstRequest, Wanted
      <4>3. QED
        BY <2>3, <3>4, <4>1, <4>2 DEF ReadsFirst, ReadsNext, AwaitsSegment
    <3>6. ASSUME Reading(u)', mbx_pc[u] = "send_segment"
          PROVE  ReadsFirst(u)' /\ ReadsNext(u)' /\ AwaitsSegment(u)'
      <4>1. mbx_pc'[u] = "poll_segment" /\ mbx_at'[u] = mbx_at[u]
            /\ ServerHere(u)' /\ NoSegmentAnswered'
        BY <1>1, <3>1, <3>3, <3>4, <3>6 DEF Reader, ReadsNext
      <4>2. MbxRequest(u).segment /\ MbxRequest(u).toggle = mbx_at[u].toggle
        BY <3>6 DEF MbxRequest, MbxSegmentRequest
      <4>3. ReadsFirst(u)' /\ ReadsNext(u)'
        BY <4>1 DEF ReadsFirst, ReadsNext, MbxInFirst
      <4>4. \A m \in mbx_in' : m.segment /\ (m.toggle <=> mbx_at'[u].toggle)
        BY <2>3, <4>1, <4>2
      <4>5. \A a \in mbx_out' : ~(a.kind = "upload" /\ a.segment)
        BY <4>1 DEF NoSegmentAnswered
      <4>6. QED
        BY <4>1, <4>3, <4>4, <4>5 DEF AwaitsSegment
    <3>7. QED
      BY <1>1, <2>3, <3>3, <3>4, <3>5, <3>6 DEF UserReads, Reader, Reading
  <2>4. QED
    BY <1>1, <2>1, <2>2, <2>3
<1>5. QED
  BY <1>2, <1>4 DEF ReadInv

-----------------------------------------------------------------------------
(***************************************************************************)
(* The reading of an answer.                                               *)
(***************************************************************************)
\* The first answer that a reader takes is about the object it asked for, and the slave
\* has gone no further since.
LEMMA FirstTaken ==
  ASSUME MbxInv, ReadInv, NEW u \in MbxUsers, Reading(u), mbx_pc[u] = "fetch",
         NEW a \in mbx_out, MbxVerdict(u, a) \in {"ok", "more"}
  PROVE  LET next == MbxAdvanced(u, a) IN
           /\ a.object = Wanted(u) /\ a.from = mbx_at[u].moved
           /\ next.moved = FirstPart(Wanted(u)) /\ ~next.toggle
           /\ next.total = MbxLength[mbx_call[u].index]
           /\ ServerAt(Wanted(u), next.moved, next.toggle)
           /\ MbxVerdict(u, a) = "ok" => next.moved = next.total
<1> DEFINE next == MbxAdvanced(u, a)
           length == MbxLength[mbx_call[u].index]
<1>1. MbxInFirst(u) /\ mbx_call[u].kind = "upload"
  BY DEF MbxInFirst, Reading
<1>2. a.kind = "upload" /\ ~a.segment /\ a.object = Wanted(u)
  BY <1>1 DEF MbxVerdict, MbxFirstMatches, MbxSameKind, MbxExpected, Wanted
<1>3. mbx_at[u].moved = 0
  BY <1>1 DEF ReadInv, UserReads, Reader, ReadsFirst, MbxBeginning
<1>4. a.from = 0 /\ a.data = FirstPart(Wanted(u)) /\ a.total = MbxLength[Wanted(u).index]
      /\ ServerAt(Wanted(u), a.from + a.data, a.segment /\ ~a.toggle)
  BY <1>2 DEF ReadInv, AnswersFit
<1>5. Wanted(u).index = mbx_call[u].index
  BY DEF Wanted, MbxWire
<1>6. length \in Nat /\ FirstPart(Wanted(u)) \in Nat /\ FirstPart(Wanted(u)) <= length
  <2>1. mbx_call[u].index \in MbxIndices
    BY DEF MbxInv, UsersTyped, MbxCallType
  <2>2. length \in Nat
    BY <2>1, MbxAssumption
  <2>3. QED
    BY <1>5, <2>2, Sizes, Lesser DEF FirstPart
<1>7. next.moved = mbx_at[u].moved + a.data /\ next.total = a.total /\ ~next.toggle
  BY <1>1 DEF MbxAdvanced
<1>8. next.moved = FirstPart(Wanted(u)) /\ next.total = length
  BY <1>3, <1>4, <1>5, <1>6, <1>7
<1>9. ServerAt(Wanted(u), next.moved, next.toggle)
  BY <1>2, <1>4, <1>6, <1>7, <1>8 DEF ServerAt, IsAt
<1>10. ASSUME MbxVerdict(u, a) = "ok" PROVE next.moved = next.total
  <2>1. ~(next.moved < next.total)
    BY <1>1, <1>10 DEF MbxVerdict
  <2>2. QED
    BY <1>6, <1>8, <2>1
<1>11. QED
  BY <1>2, <1>3, <1>4, <1>7, <1>8, <1>9, <1>10

\* So is every answer to a segment, which names no object.
LEMMA SegmentTaken ==
  ASSUME MbxInv, ReadInv, NEW u \in MbxUsers, Reading(u), mbx_pc[u] = "fetch_segment",
         NEW a \in mbx_out, MbxVerdict(u, a) \in {"ok", "more"}
  PROVE  LET next == MbxAdvanced(u, a) IN
           /\ a.object = Wanted(u) /\ a.from = mbx_at[u].moved
           /\ next.total = MbxLength[mbx_call[u].index]
           /\ ServerAt(Wanted(u), next.moved, next.toggle)
           /\ \A m \in mbx_in : m.kind # "upload"
           /\ MbxVerdict(u, a) = "ok" => next.moved = next.total
<1> DEFINE next == MbxAdvanced(u, a)
<1>1. ~MbxInFirst(u) /\ mbx_call[u].kind = "upload"
  BY DEF MbxInFirst, Reading
<1>2. a.kind = "upload" /\ a.segment
  BY <1>1 DEF MbxVerdict, MbxSameKind
<1>3. Reader(u)
  BY DEF ReadInv, UserReads
<1>4. /\ a.object = Wanted(u) /\ a.from = mbx_at[u].moved
      /\ a.toggle <=> mbx_at[u].toggle
      /\ mbx_at[u].total = MbxLength[mbx_call[u].index]
  BY <1>1, <1>2, <1>3 DEF Reader, AwaitsSegment
<1>5. ServerAt(a.object, a.from + a.data, a.segment /\ ~a.toggle)
  BY <1>2 DEF ReadInv, AnswersFit
<1>6. next.moved = mbx_at[u].moved + a.data /\ next.total = mbx_at[u].total
      /\ (next.toggle <=> ~mbx_at[u].toggle)
  BY <1>1 DEF MbxAdvanced
<1>7. ServerAt(Wanted(u), next.moved, next.toggle)
  BY <1>2, <1>4, <1>5, <1>6 DEF ServerAt, IsAt
<1>8. \A m \in mbx_in : m.kind # "upload"
  BY <1>2, <1>3 DEF Reader, AwaitsSegment, NoSegmentAnswered
<1>9. ASSUME MbxVerdict(u, a) = "ok" PROVE next.moved = next.total
  <2> HIDE DEF next
  <2>1. a.last
    BY <1>1, <1>9 DEF MbxVerdict
  <2>2. ~(a.last /\ next.moved # next.total)
    BY <1>1, <1>9 DEF MbxVerdict, next
  <2>3. QED
    BY <2>1, <2>2
<1>10. QED
  BY <1>4, <1>6, <1>7, <1>8, <1>9

LEMMA TakeReads ==
  ASSUME MbxInv, ReadInv, NEW u \in MbxUsers, mbx_pc[u] \in {"fetch", "fetch_segment"},
         NEW a \in mbx_out, MbxTake(u, a), mbx_out' = {},
         UNCHANGED <<mbx_in, mbx_server, mbx_call>>
  PROVE  UserReads(u)'
<1> DEFINE next == MbxAdvanced(u, a)
           verdict == MbxVerdict(u, a)
<1>1. /\ IF verdict = "more" THEN MbxGoOn(u, "send_segment") ELSE MbxEnd(u, verdict)
      /\ verdict \in {"ok", "more"} => mbx_at' = [mbx_at EXCEPT ![u] = next]
      /\ mbx_intact' =
           [mbx_intact EXCEPT ![u] =
              @ /\ (verdict \in {"ok", "more"} /\ mbx_call[u].kind = "upload"
                      => a.object = MbxWire(mbx_call[u]) /\ a.from = mbx_at[u].moved)]
  BY DEF MbxTake
<1>2. UserReads(u)
  BY DEF ReadInv
<1>3. CASE verdict \notin {"ok", "more"}
  <2>1. mbx_pc'[u] = "idle" /\ mbx_result'[u] = verdict
    BY <1>1, <1>3, Ended DEF MbxInv
  <2>2. QED
    BY <1>3, <2>1, Failed
<1>4. CASE verdict \in {"ok", "more"} /\ mbx_call[u].kind # "upload"
  <2>1. ~Reading(u)' /\ HasRead(u)'
    BY <1>4 DEF Reading, HasRead
  <2>2. CASE verdict = "ok"
    <3>1. mbx_pc'[u] = "idle"
      BY <1>1, <2>2, Ended DEF MbxInv
    <3>2. QED
      BY <2>1, <3>1 DEF UserReads, Calling, Reader
  <2>3. CASE verdict = "more"
    <3>1. mbx_result'[u] = mbx_result[u]
      BY <1>1, <2>3, WentOn DEF MbxInv
    <3>2. QED
      BY <1>2, <2>1, <3>1 DEF UserReads, Calling, Reader
  <2>4. QED
    BY <1>4, <2>2, <2>3
<1>5. CASE verdict \in {"ok", "more"} /\ mbx_call[u].kind = "upload"
  <2>1. Reading(u) /\ mbx_intact[u]
    BY <1>2, <1>5 DEF Reading, UserReads, Reader
  <2>2. /\ a.object = Wanted(u) /\ a.from = mbx_at[u].moved
        /\ next.total = MbxLength[mbx_call[u].index]
        /\ ServerAt(Wanted(u), next.moved, next.toggle)
        /\ verdict = "ok" => next.moved = next.total
        /\ \A m \in mbx_in : m.kind = "upload" =>
             /\ ~m.segment /\ m.object = Wanted(u)
             /\ next.moved = FirstPart(Wanted(u)) /\ ~next.toggle
    <3>1. CASE mbx_pc[u] = "fetch"
      <4>1. \A m \in mbx_in : m.kind = "upload" => ~m.segment /\ m.object = Wanted(u)
        BY <1>2, <2>1, <3>1 DEF UserReads, Reader, ReadsFirst
      <4>2. QED
        BY <1>5, <2>1, <3>1, <4>1, FirstTaken
    <3>2. CASE mbx_pc[u] = "fetch_segment"
      BY <1>5, <2>1, <3>2, SegmentTaken
    <3>3. QED
      BY <3>1, <3>2
  <2> HIDE DEF next, verdict
  <2>3. mbx_at'[u] = next
    BY <1>1, <1>5 DEF MbxInv, UsersTyped
  <2>4. mbx_intact'[u]
    BY <1>1, <2>1, <2>2 DEF MbxInv, UsersTyped, Wanted
  <2>5. CASE verdict = "ok"
    <3>1. mbx_pc'[u] = "idle"
      BY <1>1, <2>5, Ended DEF MbxInv
    <3>2. HasRead(u)'
      BY <2>2, <2>3, <2>4, <2>5 DEF HasRead
    <3>3. QED
      BY <3>1, <3>2 DEF UserReads, Calling, Reader, Reading
  <2>6. CASE verdict = "more"
    <3>1. mbx_pc'[u] = "send_segment" /\ mbx_result'[u] = mbx_result[u]
      BY <1>1, <2>6, WentOn DEF MbxInv
    <3>2. Calling(u)' /\ HasRead(u)'
      BY <1>2, <2>1, <3>1 DEF UserReads, Calling, HasRead, Reading
    <3>3. Wanted(u)' = Wanted(u) /\ ~MbxInFirst(u)'
      BY <3>1 DEF Wanted, MbxInFirst
    <3>4. ServerHere(u)' /\ NoSegmentAnswered'
      BY <2>2, <2>3, <3>3 DEF ServerHere, ServerAt, IsAt, NoSegmentAnswered
    <3>5. ReadsNext(u)'
      BY <2>2, <2>3, <3>3, <3>4 DEF ReadsNext, FirstPart
    <3>6. ReadsFirst(u)' /\ AwaitsSegment(u)'
      BY <3>1 DEF ReadsFirst, AwaitsSegment, MbxInFirst
    <3>7. QED
      BY <2>2, <2>3, <2>4, <3>2, <3>3, <3>5, <3>6 DEF UserReads, Reader
  <2>7. QED
    BY <1>5, <2>5, <2>6
<1>6. QED
  BY <1>3, <1>4, <1>5

LEMMA FetchReads ==
  ASSUME MbxInv, ReadInv, NEW u \in MbxUsers, MbxFetch(u)
  PROVE  ReadInv'
<1>1. /\ UNCHANGED <<mbx_in, mbx_server, mbx_call>>
      /\ mbx_pc[u] \in {"fetch", "fetch_segment"}
      /\ mbx_out' \subseteq mbx_out
  BY DEF MbxFetch
<1>2. \/ \E a \in mbx_out : mbx_out' = {} /\ MbxTake(u, a)
      \/ MbxEnd(u, "failed") /\ UNCHANGED <<mbx_at, mbx_intact>>
  BY DEF MbxFetch
<1>3. AnswersFit'
  BY <1>1, AnswersKept DEF ReadInv
<1>4. ASSUME NEW v \in MbxUsers PROVE UserReads(v)'
  <2>1. CASE v # u
    <3>1. UNCHANGED <<mbx_at[v], mbx_intact[v]>>
      BY <1>2, <2>1 DEF MbxTake, MbxInv, UsersTyped
    <3>2. (\E result : MbxEnd(u, result)) \/ (\E label : MbxGoOn(u, label))
      BY <1>2 DEF MbxTake
    <3>3. UNCHANGED <<mbx_pc[v], mbx_result[v]>>
      BY <2>1, <3>2, OthersAlone DEF MbxInv
    <3>4. UserReads(v)
      BY DEF ReadInv
    <3>5. QED
      BY <1>1, <3>1, <3>3, <3>4, Unconcerned
  <2>2. CASE v = u /\ MbxEnd(u, "failed")
    BY <2>2, Ended, Failed DEF MbxInv
  <2>3. CASE v = u /\ \E a \in mbx_out : mbx_out' = {} /\ MbxTake(u, a)
    BY <1>1, <2>3, TakeReads
  <2>4. QED
    BY <1>2, <2>1, <2>2, <2>3
<1>5. QED
  BY <1>3, <1>4 DEF ReadInv

-----------------------------------------------------------------------------
(***************************************************************************)
(* The slave.                                                              *)
(***************************************************************************)
\* An answer leaves no request behind: a reader is where it was if the slave is, or if
\* the slave has answered what the reader asked for.
LEMMA UploadAnswered ==
  ASSUME NEW u \in MbxUsers, UserReads(u), UNCHANGED mbxUserVars, mbx_in' = {},
         Reading(u) /\ mbx_pc[u] = "send_segment" => ServerHere(u)' /\ NoSegmentAnswered',
         Reading(u) /\ mbx_pc[u] \in {"poll_segment", "fetch_segment"} =>
           \A a \in mbx_out' : a.kind = "upload" /\ a.segment =>
             /\ a.object = Wanted(u) /\ a.from = mbx_at[u].moved
             /\ a.toggle <=> mbx_at[u].toggle
  PROVE  UserReads(u)'
<1>1. /\ Calling(u)' /\ HasRead(u)' /\ (Reading(u)' <=> Reading(u))
      /\ (MbxInFirst(u)' <=> MbxInFirst(u)) /\ Wanted(u)' = Wanted(u)
  BY DEF mbxUserVars, UserReads, Calling, HasRead, Reading, MbxInFirst, Wanted
<1>2. ASSUME Reading(u) PROVE Reader(u)'
  <2>1. Reader(u)
    BY <1>2 DEF UserReads
  <2>2. ReadsFirst(u)'
    BY <1>1, <1>2, <2>1 DEF mbxUserVars, Reader, ReadsFirst
  <2>3. ReadsNext(u)'
    BY <1>2 DEF mbxUserVars, ReadsNext
  <2>4. AwaitsSegment(u)'
    BY <1>1, <1>2 DEF mbxUserVars, AwaitsSegment
  <2>5. QED
    BY <1>1, <1>2, <2>1, <2>2, <2>3, <2>4 DEF mbxUserVars, Reader
<1>3. QED
  BY <1>1, <1>2 DEF UserReads, Reader

\* Where no upload is open and none has been answered, there is nothing to show.
LEMMA NothingOpen ==
  ASSUME ReadInv, UNCHANGED mbxUserVars, mbx_in' = {}, mbx_server'.kind # "upload",
         \A a \in mbx_out' : a.kind # "upload"
  PROVE  ReadInv'
<1>1. AnswersFit'
  BY DEF AnswersFit
<1>2. ASSUME NEW u \in MbxUsers PROVE UserReads(u)'
  <2>1. ServerHere(u)' /\ NoSegmentAnswered'
    BY DEF ServerHere, ServerAt, IsAt, NoSegmentAnswered
  <2>2. UserReads(u)
    BY DEF ReadInv
  <2>3. QED
    BY <2>1, <2>2, UploadAnswered
<1>3. QED
  BY <1>1, <1>2 DEF ReadInv

LEMMA UploadOpened ==
  ASSUME NEW m, m.kind = "upload", NEW moved \in Nat, NEW total \in Nat, NEW toggle \in BOOLEAN,
         mbx_server' = MbxOpen(m, moved, total, toggle)
  PROVE  /\ IsAt(mbx_server', m.object, moved, toggle)
         /\ mbx_server'.kind = "upload" =>
              mbx_server'.object = m.object /\ mbx_server'.total = total
BY DEF MbxOpen, MbxClosed, ServerAt, IsAt

LEMMA AnswerFits ==
  ASSUME NEW a, mbx_out' = {a}, a.kind = "upload",
         mbx_server'.kind = "upload" => /\ mbx_server'.total = MbxLength[mbx_server'.object.index]
                                        /\ mbx_server'.object = a.object
                                        /\ mbx_server'.moved = a.from + a.data
                                        /\ mbx_server'.toggle <=> (a.segment /\ ~a.toggle),
         ~a.segment => /\ a.from = 0 /\ a.data = FirstPart(a.object)
                       /\ a.total = MbxLength[a.object.index]
  PROVE  AnswersFit'
BY DEF AnswersFit, ServerAt, IsAt, FirstPart

LEMMA ServeDownloadReads ==
  ASSUME MbxInv, ReadInv, NEW m \in mbx_in, MbxServeDownload(m), mbx_in' = {},
         UNCHANGED mbxUserVars
  PROVE  ReadInv'
<1>1. /\ m.kind = "download" /\ m.data = m.total /\ m.data \in Nat
      /\ mbx_out' = {MbxReply(m, m.object, 0, 0, FALSE, 0)}
      /\ mbx_server' = MbxOpen(m, m.data, m.total, FALSE)
  BY DEF MbxServeDownload, MbxInv, OneMessage, SlaveTyped, MbxRequestType
<1>2. mbx_server' = MbxClosed
  BY <1>1 DEF MbxOpen
<1>3. \A a \in mbx_out' : a.kind # "upload"
  BY <1>1 DEF MbxReply
<1>4. QED
  BY <1>2, <1>3, NothingOpen DEF MbxClosed

LEMMA ServeUploadReads ==
  ASSUME MbxInv, ReadInv, NEW m \in mbx_in, MbxServeUpload(m), mbx_in' = {},
         UNCHANGED mbxUserVars
  PROVE  ReadInv'
<1> DEFINE total == MbxLength[m.object.index]
           part == FirstPart(m.object)
           reply == MbxReply(m, m.object, part, total, FALSE, 0)
<1>1. m \in MbxRequestType /\ m.object \in MbxObjects /\ m.kind = "upload" /\ ~m.segment
  BY DEF MbxInv, SlaveTyped, MbxServeUpload, MbxRequestType
<1>2. total \in Nat
  BY <1>1, MbxAssumption DEF MbxObjects
<1>3. part \in Nat
  BY <1>2, Lesser, Sizes DEF FirstPart
<1>4. mbx_out' = {reply} /\ mbx_server' = MbxOpen(m, part, total, FALSE)
  BY DEF MbxServeUpload, FirstPart
<1>5. /\ reply.kind = "upload" /\ ~reply.segment /\ reply.object = m.object
      /\ reply.from = 0 /\ reply.data = part /\ reply.total = total
  BY <1>1 DEF MbxReply
<1> HIDE DEF part, total, reply
<1>6. IsAt(mbx_server', m.object, part, FALSE)
      /\ (mbx_server'.kind = "upload" =>
            mbx_server'.object = m.object /\ mbx_server'.total = total)
  BY <1>1, <1>2, <1>3, <1>4, UploadOpened
<1>7. AnswersFit'
  <2>1. reply.from + reply.data = part
    BY <1>3, <1>5
  <2>2. mbx_server'.kind = "upload" => /\ mbx_server'.total = MbxLength[mbx_server'.object.index]
                                       /\ mbx_server'.object = reply.object
                                       /\ mbx_server'.moved = reply.from + reply.data
                                       /\ mbx_server'.toggle <=> (reply.segment /\ ~reply.toggle)
    BY <1>5, <1>6, <2>1 DEF IsAt, total
  <2>3. reply.data = FirstPart(reply.object) /\ reply.total = MbxLength[reply.object.index]
    BY <1>5 DEF part, total
  <2>4. QED
    BY <1>4, <1>5, <2>2, <2>3, AnswerFits
<1>8. ASSUME NEW u \in MbxUsers PROVE UserReads(u)'
  <2>1. UserReads(u)
    BY DEF ReadInv
  <2>2. NoSegmentAnswered'
    BY <1>4, <1>5 DEF NoSegmentAnswered
  <2>3. ASSUME Reading(u), mbx_pc[u] = "send_segment" PROVE ServerHere(u)'
    <3>1. /\ m.object = Wanted(u) /\ mbx_at[u].moved = FirstPart(Wanted(u))
          /\ ~mbx_at[u].toggle
      BY <1>1, <2>1, <2>3 DEF UserReads, Reader, ReadsNext
    <3>2. Wanted(u)' = Wanted(u) /\ mbx_at' = mbx_at
      BY DEF Wanted, mbxUserVars
    <3>3. QED
      BY <1>6, <3>1, <3>2 DEF ServerHere, ServerAt, IsAt, part
  <2>4. QED
    BY <1>4, <1>5, <2>1, <2>2, <2>3, UploadAnswered
<1>9. QED
  BY <1>7, <1>8 DEF ReadInv

\* A request for a segment is its reader's, who waits for the answer.
LEMMA ServeSegmentReads ==
  ASSUME MbxInv, ReadInv, NEW m \in mbx_in, MbxServeSegment(m), mbx_in' = {},
         UNCHANGED mbxUserVars
  PROVE  ReadInv'
<1> DEFINE s == mbx_server
           part == MbxLesser(s.total - s.moved, MbxTxSize - 9)
           reply == MbxReply(m, s.object, part, 0, s.moved + part = s.total, s.moved)
           opener == [m EXCEPT !.object = s.object]
<1>1. /\ s.object \in MbxObjects /\ s.moved \in Nat /\ s.total \in Nat
      /\ s.toggle \in BOOLEAN /\ s.moved <= s.total
      /\ s.kind \in {"none", "upload"}
      /\ m \in MbxRequestType /\ m.segment
      /\ m.kind = s.kind /\ m.toggle = s.toggle
  BY DEF MbxInv, SlaveTyped, OneMessage, ServerType, MbxServeSegment, MbxFits
<1>2. m.kind = "upload" /\ s.kind = "upload"
  BY <1>1 DEF MbxRequestType
<1>3. part \in Nat
  <2>1. s.total - s.moved \in Nat
    BY <1>1
  <2>2. QED
    BY <2>1, Lesser, Sizes
<1>4. /\ mbx_out' = {reply}
      /\ mbx_server' = MbxOpen(opener, s.moved + part, s.total, ~s.toggle)
  BY <1>2 DEF MbxServeSegment
<1>5. /\ reply.kind = "upload" /\ reply.segment /\ reply.object = s.object
      /\ reply.from = s.moved /\ reply.data = part /\ (reply.toggle <=> s.toggle)
  BY <1>1, <1>2 DEF MbxReply
<1>6. opener.kind = "upload" /\ opener.object = s.object
  BY <1>1, <1>2 DEF MbxRequestType
<1>7. s.moved + part \in Nat /\ (~s.toggle) \in BOOLEAN
  BY <1>1, <1>3
<1>8. s.total = MbxLength[s.object.index]
  BY <1>2 DEF ReadInv, AnswersFit
<1> HIDE DEF part, reply, opener
<1>9. /\ IsAt(mbx_server', opener.object, s.moved + part, ~s.toggle)
      /\ mbx_server'.kind = "upload" =>
           mbx_server'.object = opener.object /\ mbx_server'.total = s.total
  BY <1>1, <1>4, <1>6, <1>7, UploadOpened
<1>10. AnswersFit'
  <2>1. mbx_server'.kind = "upload" => /\ mbx_server'.total = MbxLength[mbx_server'.object.index]
                                       /\ mbx_server'.object = reply.object
                                       /\ mbx_server'.moved = reply.from + reply.data
                                       /\ mbx_server'.toggle <=> (reply.segment /\ ~reply.toggle)
    BY <1>5, <1>6, <1>8, <1>9 DEF IsAt
  <2>2. QED
    BY <1>4, <1>5, <2>1, AnswerFits
<1>11. ASSUME NEW u \in MbxUsers PROVE UserReads(u)'
  <2>1. UserReads(u)
    BY DEF ReadInv
  <2>2. ~(Reading(u) /\ mbx_pc[u] = "send_segment")
    BY <1>1, <1>2, <2>1 DEF UserReads, Reader, ReadsNext
  <2>3. ASSUME Reading(u), mbx_pc[u] \in {"poll_segment", "fetch_segment"}
        PROVE  /\ reply.object = Wanted(u) /\ reply.from = mbx_at[u].moved
               /\ reply.toggle <=> mbx_at[u].toggle
    <3>1. ServerHere(u)
      BY <1>2, <2>1, <2>3 DEF UserReads, Reader, AwaitsSegment
    <3>2. QED
      BY <1>2, <1>5, <3>1 DEF ServerHere, ServerAt, IsAt
  <2>4. QED
    BY <1>4, <2>1, <2>2, <2>3, UploadAnswered
<1>12. QED
  BY <1>10, <1>11 DEF ReadInv

LEMMA ServeReads == MbxInv /\ ReadInv /\ MbxServe => ReadInv'
BY ServeDownloadReads, ServeUploadReads, ServeSegmentReads DEF MbxServe

LEMMA OtherReads ==
  ASSUME MbxInv, ReadInv, MbxRefuse \/ MbxSendEmergency \/ MbxReset
  PROVE  ReadInv'
<1>1. CASE MbxRefuse \/ MbxReset
  <2>1. /\ mbx_in' = {} /\ mbx_out' \in {{}, {MbxAbort}} /\ mbx_server' = MbxClosed
        /\ UNCHANGED mbxUserVars
    BY <1>1 DEF MbxRefuse, MbxReset
  <2>2. QED
    BY <2>1, NothingOpen DEF MbxClosed, MbxAbort
<1>2. CASE MbxSendEmergency
  <2>1. /\ mbx_out' = {MbxEmergency} /\ UNCHANGED <<mbx_in, mbx_server>>
        /\ UNCHANGED mbxUserVars
    BY <1>2 DEF MbxSendEmergency
  <2>2. \A a \in mbx_out' : a.kind # "upload"
    BY <2>1 DEF MbxEmergency, MbxAbort
  <2>3. AnswersFit'
    BY <2>1, <2>2, AnswersKept DEF ReadInv
  <2>4. ASSUME NEW u \in MbxUsers PROVE UserReads(u)'
    BY <2>1, <2>2, Unconcerned DEF ReadInv, mbxUserVars
  <2>5. QED
    BY <2>3, <2>4 DEF ReadInv
<1>3. QED
  BY <1>1, <1>2

-----------------------------------------------------------------------------
\* As long as one user alone reads from the slave, an upload that succeeds hands out the
\* whole of the object asked for, in order, whatever calls were given up before it, is
\* written meanwhile or refused, and however often the slave is reset: the toggle bit of
\* the answers, which nobody looks at, is not needed for that (ec_coe.c:485-517).
THEOREM MbxAlwaysIntact == OneReader => (MbxSpec => []MbxUploadIntact)
<1> SUFFICES ASSUME OneReader PROVE MbxSpec => []MbxUploadIntact
  OBVIOUS
<1>1. MbxInit => ReadInv
  BY ReadInit
<1>2. MbxInv /\ ReadInv /\ [MbxNext]_mbxVars => ReadInv'
  <2> SUFFICES ASSUME MbxInv, ReadInv, [MbxNext]_mbxVars PROVE ReadInv'
    OBVIOUS
  <2>1. CASE MbxNext
    BY <2>1, CallReads, SendReads, PollReads, FetchReads, ServeReads, OtherReads DEF MbxNext
  <2>2. CASE UNCHANGED mbxVars
    <3>1. /\ UNCHANGED <<mbx_in, mbx_out, mbx_server>>
          /\ UNCHANGED mbxUserVars
      BY <2>2 DEF mbxVars
    <3>2. AnswersFit'
      BY <3>1, AnswersKept DEF ReadInv
    <3>3. ASSUME NEW u \in MbxUsers PROVE UserReads(u)'
      BY <3>1, Unconcerned DEF ReadInv, mbxUserVars
    <3>4. QED
      BY <3>2, <3>3 DEF ReadInv
  <2>3. QED
    BY <2>1, <2>2
<1>3. ReadInv => MbxUploadIntact
  BY DEF ReadInv, UserReads, HasRead, MbxUploadIntact
<1>4. QED
  BY <1>1, <1>2, <1>3, MbxInductive, PTL DEF MbxSpec

-----------------------------------------------------------------------------
(***************************************************************************)
(* Calls that take turns over an undisturbed mailbox.                      *)
(***************************************************************************)
Busy(u) == mbx_pc[u] # "idle"
Silent == mbx_in = {} /\ mbx_out = {}
Long(r) == r.kind = "download" => r.size > MbxFirst
Total(r) == MbxLength[r.index]

\* The slave has as much of an upload open as has not been sent.
Opened(r, moved, toggle) ==
  moved < Total(r) => /\ mbx_server.kind = "upload" /\ mbx_server.moved = moved
                      /\ mbx_server.total = Total(r) /\ (mbx_server.toggle <=> toggle)

\* The request in the mailbox is that of the call, and its answer the one that fits.
AsksFor(u, m) ==
  LET r == mbx_call[u]
  IN IF MbxInFirst(u) THEN m.kind = r.kind /\ ~m.segment /\ m.object = MbxWire(r)
     ELSE r.kind = "upload" => /\ m.kind = "upload" /\ m.segment
                               /\ m.toggle <=> mbx_at[u].toggle
                               /\ Opened(r, mbx_at[u].moved, mbx_at[u].toggle)

AnswersFirst(r, a) ==
  /\ a.kind = r.kind /\ ~a.segment /\ a.object = MbxWire(r)
  /\ r.kind = "upload" => /\ a.total = Total(r) /\ a.data = MbxLesser(Total(r), MbxTxSize - 16)
                          /\ Opened(r, a.data, FALSE)

AnswersSegment(r, at, a) ==
  r.kind = "upload" =>
    /\ a.kind = "upload" /\ a.segment
    /\ at.moved + a.data <= Total(r)
    /\ a.last <=> at.moved + a.data = Total(r)
    /\ Opened(r, at.moved + a.data, ~at.toggle)

Answered(u) ==
  /\ mbx_in = {}
  /\ \E a \in mbx_out :
       /\ mbx_out = {a}
       /\ IF MbxInFirst(u) THEN AnswersFirst(mbx_call[u], a)
                           ELSE AnswersSegment(mbx_call[u], mbx_at[u], a)

Asked(u) == mbx_out = {} /\ \E m \in mbx_in : mbx_in = {m} /\ AsksFor(u, m)

\* How far a call has come: its first message, and then its segments.
Position(u) ==
  LET r == mbx_call[u]
      at == mbx_at[u]
  IN IF MbxInFirst(u) THEN at = MbxBeginning
     ELSE /\ Long(r)
          /\ r.kind = "upload" => at.moved < at.total /\ at.total = Total(r) /\ Total(r) <= r.size

UnderWay(u) ==
  /\ mbx_result[u] = "none"
  /\ Position(u)
  /\ mbx_pc[u] \in {"send", "send_segment"} => Silent
  /\ mbx_pc[u] = "send_segment" /\ mbx_call[u].kind = "upload"
       => Opened(mbx_call[u], mbx_at[u].moved, mbx_at[u].toggle)
  /\ mbx_pc[u] \in {"poll", "poll_segment"} => Asked(u) \/ Answered(u)
  /\ mbx_pc[u] \in {"fetch", "fetch_segment"} => Answered(u)

Succeeded(u) ==
  LET r == mbx_call[u]
  IN /\ r.kind = "download" /\ r.size <= MbxFirst /\ (r.complete => r.subindex = 0)
          => mbx_result[u] \in {"none", "ok"}
     /\ r.kind = "upload"
          => mbx_result[u] \in {"none", IF Total(r) <= r.size THEN "ok" ELSE "size"}

CleanInv ==
  mbx_clean =>
    /\ \A u, v \in MbxUsers : Busy(u) /\ Busy(v) => u = v
    /\ (\A u \in MbxUsers : ~Busy(u)) => Silent
    /\ \A u \in MbxUsers : IF Busy(u) THEN UnderWay(u) ELSE Succeeded(u)

LEMMA TotalType ==
  ASSUME NEW r \in MbxCallType
  PROVE  Total(r) \in Nat
BY MbxAssumption DEF MbxCallType, Total

\* A step in which only one user is busy, before and after.
LEMMA CleanStep ==
  ASSUME CleanInv, mbx_clean, NEW u \in MbxUsers,
         \A v \in MbxUsers : v # u =>
           /\ ~Busy(v)
           /\ UNCHANGED <<mbx_pc[v], mbx_call[v], mbx_result[v]>>,
         IF Busy(u)' THEN UnderWay(u)' ELSE Silent' /\ Succeeded(u)'
  PROVE  CleanInv'
<1>1. \A v \in MbxUsers : v # u => ~Busy(v)' /\ Succeeded(v)'
  BY DEF CleanInv, Busy, Succeeded, Total
<1>2. (\A v \in MbxUsers : ~Busy(v)') => Silent'
  BY DEF CleanInv
<1>3. \A v, w \in MbxUsers : Busy(v)' /\ Busy(w)' => v = w
  BY <1>1
<1>4. \A v \in MbxUsers : IF Busy(v)' THEN UnderWay(v)' ELSE Succeeded(v)'
  BY <1>1
<1>5. QED
  BY <1>2, <1>3, <1>4 DEF CleanInv

\* A new call finds the mailbox empty.
LEMMA CleanCall ==
  ASSUME UsersTyped, CleanInv, mbx_clean', NEW u \in MbxUsers, MbxCall(u)
  PROVE  CleanInv'
<1>1. mbx_clean /\ (\A v \in MbxUsers : ~Busy(v)) /\ Silent
  BY DEF MbxCall, CleanInv, Busy
<1>2. /\ mbx_pc'[u] = "send" /\ mbx_at'[u] = MbxBeginning /\ mbx_result'[u] = "none"
      /\ Silent'
  BY <1>1 DEF MbxCall, MbxGoto, UsersTyped, Silent
<1>3. Busy(u)' /\ UnderWay(u)'
  BY <1>2 DEF Busy, UnderWay, Position, MbxInFirst
<1>4. \A v \in MbxUsers : v # u => UNCHANGED <<mbx_pc[v], mbx_call[v], mbx_result[v]>>
  <2>1. \E r : mbx_call' = [mbx_call EXCEPT ![u] = r]
    BY DEF MbxCall
  <2>2. QED
    BY <2>1 DEF MbxCall, MbxGoto, UsersTyped
<1>5. QED
  BY <1>1, <1>3, <1>4, CleanStep

\* The one that is busy, in a step of its own.
LEMMA CleanBusy ==
  ASSUME CleanInv, mbx_clean, NEW u \in MbxUsers, Busy(u)
  PROVE  UnderWay(u) /\ \A v \in MbxUsers : v # u => ~Busy(v)
BY DEF CleanInv

LEMMA CleanSend ==
  ASSUME UsersTyped, CleanInv, mbx_clean', NEW u \in MbxUsers, ec_mailbox_send(u)
  PROVE  CleanInv'
<1> DEFINE r == mbx_call[u]
<1>0. PICK m : m = MbxRequest(u)
  OBVIOUS
<1>1. mbx_pc[u] \in {"send", "send_segment"} /\ Busy(u)
  BY DEF ec_mailbox_send, Busy
<1>2. /\ mbx_clean /\ mbx_in' = {m}
      /\ MbxGoOn(u, IF mbx_pc[u] = "send" THEN "poll" ELSE "poll_segment")
  BY <1>0 DEF ec_mailbox_send, MbxAccesses
<1>3. UnderWay(u) /\ Silent /\ \A v \in MbxUsers : v # u => ~Busy(v)
  BY <1>1, <1>2, CleanBusy DEF UnderWay
<1>4. /\ mbx_pc'[u] = IF mbx_pc[u] = "send" THEN "poll" ELSE "poll_segment"
      /\ \A v \in MbxUsers : v # u => mbx_pc'[v] = mbx_pc[v]
      /\ UNCHANGED <<mbx_result, mbx_call, mbx_at, mbx_server, mbx_out>>
  BY <1>2 DEF ec_mailbox_send, MbxGoOn, MbxGoto, UsersTyped
<1>5. MbxInFirst(u)' <=> MbxInFirst(u)
  BY <1>1, <1>4 DEF MbxInFirst
<1>6. Asked(u)'
  <2>1. mbx_out' = {}
    BY <1>3, <1>4 DEF Silent
  <2>2. CASE mbx_pc[u] = "send"
    <3>1. m.kind = r.kind /\ ~m.segment /\ m.object = MbxWire(r)
      BY <1>0, <2>2 DEF MbxRequest, MbxFirstRequest
    <3>2. MbxInFirst(u)' /\ mbx_call'[u] = r
      BY <1>4, <2>2 DEF MbxInFirst
    <3>3. AsksFor(u, m)'
      BY <1>4, <3>1, <3>2 DEF AsksFor
    <3>4. QED
      BY <1>2, <2>1, <3>3 DEF Asked
  <2>3. CASE mbx_pc[u] = "send_segment"
    <3>1. m = MbxSegmentRequest(r, mbx_at[u])
      BY <1>0, <2>3 DEF MbxRequest
    <3>2. m.kind = r.kind /\ m.segment /\ m.toggle = mbx_at[u].toggle
      BY <3>1 DEF MbxSegmentRequest
    <3>3. ~MbxInFirst(u)'
      BY <1>4, <2>3 DEF MbxInFirst
    <3>4. r.kind = "upload" => Opened(r, mbx_at[u].moved, mbx_at[u].toggle)
      BY <1>3, <2>3 DEF UnderWay
    <3>5. r.kind = "upload" => Opened(mbx_call[u], mbx_at[u].moved, mbx_at[u].toggle)'
      BY <1>4, <3>4 DEF Opened, Total
    <3>6. AsksFor(u, m)'
      BY <1>4, <3>2, <3>3, <3>5 DEF AsksFor
    <3>7. QED
      BY <1>2, <2>1, <3>6 DEF Asked
  <2>4. QED
    BY <1>1, <2>2, <2>3
<1>7. UnderWay(u)' /\ Busy(u)'
  <2>1. mbx_pc'[u] \in {"poll", "poll_segment"}
    BY <1>4
  <2>2. Position(u)' /\ mbx_result'[u] = "none"
    BY <1>3, <1>4, <1>5 DEF UnderWay, Position, Long, Total
  <2>3. QED
    BY <1>6, <2>1, <2>2 DEF UnderWay, Busy
<1>8. QED
  BY <1>2, <1>3, <1>4, <1>7, CleanStep

LEMMA CleanStatus ==
  ASSUME UsersTyped, CleanInv, mbx_clean', NEW u \in MbxUsers, ec_mailbox_read_status(u)
  PROVE  CleanInv'
<1>1. /\ mbx_pc[u] \in {"poll", "poll_segment"} /\ Busy(u) /\ mbx_clean /\ mbx_out # {}
      /\ mbx_pc'[u] = IF mbx_pc[u] = "poll" THEN "fetch" ELSE "fetch_segment"
      /\ \A v \in MbxUsers : v # u => mbx_pc'[v] = mbx_pc[v]
      /\ UNCHANGED <<mbx_result, mbx_call, mbx_at, mbx_server, mbx_out, mbx_in>>
  BY DEF ec_mailbox_read_status, Busy, MbxGoOn, MbxGoto, UsersTyped
<1>2. UnderWay(u) /\ \A v \in MbxUsers : v # u => ~Busy(v)
  BY <1>1, CleanBusy
<1>3. Answered(u)
  BY <1>1, <1>2 DEF UnderWay, Asked
<1>4. MbxInFirst(u)' <=> MbxInFirst(u)
  BY <1>1 DEF MbxInFirst
<1>5. Answered(u)'
  BY <1>1, <1>3, <1>4 DEF Answered, AnswersFirst, AnswersSegment, Opened, Total
<1>6. UnderWay(u)' /\ Busy(u)'
  <2>1. mbx_pc'[u] \in {"fetch", "fetch_segment"}
    BY <1>1
  <2>2. Position(u)' /\ mbx_result'[u] = "none"
    BY <1>1, <1>2, <1>4 DEF UnderWay, Position, Long, Total
  <2>3. QED
    BY <1>5, <2>1, <2>2 DEF UnderWay, Busy
<1>7. QED
  BY <1>1, <1>2, <1>6, CleanStep

\* The first answer ends a call that is one message, and an upload for which there is no room.
LEMMA FirstVerdict ==
  ASSUME UsersTyped, NEW u \in MbxUsers, NEW a \in MbxAnswerType, MbxInFirst(u),
         mbx_at[u] = MbxBeginning, AnswersFirst(mbx_call[u], a)
  PROVE  LET r == mbx_call[u]
             verdict == MbxVerdict(u, a)
             next == MbxAdvanced(u, a)
         IN /\ r.kind = "download" =>
                 /\ verdict = "more" => r.size > MbxFirst
                 /\ r.size <= MbxFirst /\ (r.complete => r.subindex = 0) => verdict = "ok"
            /\ r.kind = "upload" =>
                 /\ next = [moved |-> a.data, total |-> Total(r), toggle |-> FALSE]
                 /\ verdict = IF r.size < Total(r) THEN "size"
                              ELSE IF a.data < Total(r) THEN "more" ELSE "ok"
<1> DEFINE r == mbx_call[u]
           verdict == MbxVerdict(u, a)
           next == MbxAdvanced(u, a)
<1>1. /\ r \in MbxCallType /\ r.size \in Nat /\ r.kind \in {"download", "upload"}
      /\ a.data \in Nat /\ a.total \in Nat
  BY DEF UsersTyped, MbxCallType, MbxAnswerType
<1>2. /\ mbx_at[u].moved = 0 /\ ~mbx_at[u].toggle
      /\ a.kind = r.kind /\ ~a.segment /\ a.object = MbxWire(r)
  BY DEF MbxBeginning, AnswersFirst
<1>3. ASSUME r.kind = "download"
      PROVE  /\ verdict = "more" => r.size > MbxFirst
             /\ r.size <= MbxFirst /\ (r.complete => r.subindex = 0) => verdict = "ok"
  <2>1. MbxFirstRequest(r).data = MbxLesser(r.size, MbxFirst)
    BY <1>3 DEF MbxFirstRequest
  <2>2. next.moved = MbxLesser(r.size, MbxFirst) /\ next.total = r.size
    <3>1. next.moved = 0 + MbxFirstRequest(r).data /\ next.total = r.size
      BY <1>2, <1>3 DEF MbxAdvanced
    <3>2. MbxLesser(r.size, MbxFirst) \in Nat
      BY <1>1, Lesser, Sizes
    <3>3. QED
      BY <2>1, <3>1, <3>2
  <2>3. verdict \in {"request", "ok", "more"} /\ (verdict = "more" => next.moved < next.total)
    BY <1>1, <1>2, <1>3 DEF MbxVerdict
  <2>4. verdict = "more" => r.size > MbxFirst
    BY <1>1, <2>2, <2>3, Sizes DEF MbxLesser
  <2>5. ASSUME r.size <= MbxFirst, r.complete => r.subindex = 0
        PROVE  verdict = "ok"
    <3>1. MbxWire(r) = MbxExpected(r)
      BY <1>3, <2>5 DEF MbxWire, MbxExpected
    <3>2. MbxFirstMatches(r, a)
      BY <1>2, <3>1 DEF MbxFirstMatches, MbxSameKind
    <3>3. next.moved = r.size /\ ~(next.moved < next.total)
      BY <1>1, <2>2, <2>5, Sizes DEF MbxLesser
    <3>4. QED
      BY <1>1, <1>2, <1>3, <3>2, <3>3 DEF MbxVerdict
  <2>6. QED
    BY <2>4, <2>5
<1>4. ASSUME r.kind = "upload"
      PROVE  /\ next = [moved |-> a.data, total |-> Total(r), toggle |-> FALSE]
             /\ verdict = IF r.size < Total(r) THEN "size"
                          ELSE IF a.data < Total(r) THEN "more" ELSE "ok"
  <2>1. a.total = Total(r)
    BY <1>4 DEF AnswersFirst
  <2>2. next = [moved |-> 0 + a.data, total |-> a.total, toggle |-> FALSE]
    BY <1>2, <1>4 DEF MbxAdvanced
  <2>3. next = [moved |-> a.data, total |-> Total(r), toggle |-> FALSE]
    <3>1. 0 + a.data = a.data
      BY <1>1
    <3>2. QED
      BY <2>1, <2>2, <3>1
  <2>4. MbxFirstMatches(r, a)
    BY <1>2, <1>4 DEF MbxFirstMatches, MbxSameKind, MbxExpected
  <2>5. next.moved = a.data /\ next.total = Total(r)
    BY <2>3
  <2> HIDE DEF next
  <2>6. verdict = IF r.size < Total(r) THEN "size"
                  ELSE IF a.data < Total(r) THEN "more" ELSE "ok"
    BY <1>2, <1>4, <2>1, <2>4, <2>5 DEF MbxVerdict, next
  <2>7. QED
    BY <2>3, <2>6
<1>5. QED
  BY <1>1, <1>3, <1>4

\* A segment that follows goes on with an upload until it is whole.
LEMMA SegmentVerdict ==
  ASSUME UsersTyped, NEW u \in MbxUsers, NEW a \in MbxAnswerType, ~MbxInFirst(u),
         Position(u), AnswersSegment(mbx_call[u], mbx_at[u], a), mbx_call[u].kind = "upload"
  PROVE  LET r == mbx_call[u]
             at == mbx_at[u]
         IN /\ MbxAdvanced(u, a) = [moved |-> at.moved + a.data, total |-> Total(r),
                                    toggle |-> ~at.toggle]
            /\ MbxVerdict(u, a) = IF at.moved + a.data < Total(r) THEN "more" ELSE "ok"
<1> DEFINE r == mbx_call[u]
           at == mbx_at[u]
           next == MbxAdvanced(u, a)
<1>1. /\ at.moved \in Nat /\ at.total \in Nat /\ at.toggle \in BOOLEAN
      /\ a.data \in Nat /\ a.last \in BOOLEAN
  BY DEF UsersTyped, AtType, MbxAnswerType
<1>2. /\ at.total = Total(r)
      /\ a.kind = "upload" /\ a.segment
      /\ at.moved + a.data <= Total(r)
      /\ a.last <=> at.moved + a.data = Total(r)
  BY DEF Position, AnswersSegment
<1>3. next = [moved |-> at.moved + a.data, total |-> Total(r), toggle |-> ~at.toggle]
  BY <1>2 DEF MbxAdvanced
<1>4. next.moved = at.moved + a.data /\ next.total = Total(r)
  BY <1>3
<1>5. MbxSameKind(r, a, TRUE)
  BY <1>2 DEF MbxSameKind
<1> HIDE DEF next
<1>6. MbxVerdict(u, a) = IF at.moved + a.data < Total(r) THEN "more" ELSE "ok"
  BY <1>1, <1>2, <1>4, <1>5 DEF MbxVerdict, next
<1>7. QED
  BY <1>3, <1>6 DEF next

LEMMA CleanFetch ==
  ASSUME UsersTyped, SlaveTyped, CleanInv, mbx_clean', NEW u \in MbxUsers, MbxFetch(u)
  PROVE  CleanInv'
<1> DEFINE r == mbx_call[u]
           at == mbx_at[u]
<1>1. /\ mbx_pc[u] \in {"fetch", "fetch_segment"} /\ Busy(u)
      /\ UNCHANGED <<mbx_in, mbx_server, mbx_call>>
  BY DEF MbxFetch, Busy
<1>2. PICK a \in mbx_out : mbx_out' = {} /\ MbxTake(u, a) /\ mbx_clean
  BY DEF MbxFetch
<1>3. /\ UnderWay(u) /\ Answered(u) /\ Position(u) /\ mbx_result[u] = "none"
      /\ \A v \in MbxUsers : v # u => ~Busy(v)
  BY <1>1, <1>2, CleanBusy DEF UnderWay
<1>4. Silent' /\ mbx_out = {a}
  BY <1>1, <1>2, <1>3 DEF Answered, Silent
<1>5. /\ a \in MbxAnswerType /\ r \in MbxCallType /\ r.kind \in {"download", "upload"}
      /\ r.size \in Nat /\ at \in AtType /\ a.data \in Nat /\ at.moved \in Nat
      /\ at.toggle \in BOOLEAN
  BY <1>2 DEF UsersTyped, SlaveTyped, MbxCallType, AtType, MbxAnswerType
<1> DEFINE verdict == MbxVerdict(u, a)
           next == MbxAdvanced(u, a)
<1>6. /\ mbx_pc'[u] = IF verdict = "more" THEN "send_segment" ELSE "idle"
      /\ mbx_result'[u] = IF verdict = "more" THEN "none" ELSE verdict
      /\ \A v \in MbxUsers : v # u => UNCHANGED <<mbx_pc[v], mbx_call[v], mbx_result[v]>>
  BY <1>1, <1>2, <1>3 DEF MbxTake, MbxGoOn, MbxEnd, MbxGoto, UsersTyped
<1>7. verdict = "more" => mbx_at'[u] = next
  BY <1>2 DEF MbxTake, UsersTyped
<1> HIDE DEF verdict, next
<1>8. CASE MbxInFirst(u)
  <2>1. AnswersFirst(r, a) /\ at = MbxBeginning
    BY <1>3, <1>4, <1>8 DEF Answered, Position
  <2>2. /\ r.kind = "download" =>
             /\ verdict = "more" => r.size > MbxFirst
             /\ r.size <= MbxFirst /\ (r.complete => r.subindex = 0) => verdict = "ok"
        /\ r.kind = "upload" =>
             /\ next = [moved |-> a.data, total |-> Total(r), toggle |-> FALSE]
             /\ verdict = IF r.size < Total(r) THEN "size"
                          ELSE IF a.data < Total(r) THEN "more" ELSE "ok"
    BY <1>5, <1>8, <2>1, FirstVerdict DEF verdict, next
  <2>3. CASE verdict = "more"
    <3>1. mbx_pc'[u] = "send_segment" /\ mbx_result'[u] = "none" /\ mbx_at'[u] = next
      BY <1>6, <1>7, <2>3
    <3>2. CASE r.kind = "download"
      BY <1>1, <1>4, <2>2, <2>3, <3>1, <3>2, CleanStep, <1>2, <1>3, <1>6
         DEF UnderWay, Position, MbxInFirst, Long, Busy
    <3>3. CASE r.kind = "upload"
      <4>1. /\ mbx_at'[u] = [moved |-> a.data, total |-> Total(r), toggle |-> FALSE]
            /\ a.data < Total(r) /\ ~(r.size < Total(r))
        BY <2>2, <2>3, <3>1, <3>3
      <4>2. Opened(r, a.data, FALSE)
        BY <2>1, <3>3 DEF AnswersFirst
      <4>3. Opened(mbx_call[u], mbx_at[u].moved, mbx_at[u].toggle)'
        BY <1>1, <4>1, <4>2 DEF Opened, Total
      <4>4. Position(u)'
        BY <1>1, <1>5, <3>1, <3>3, <4>1, TotalType DEF Position, MbxInFirst, Long, Total
      <4>5. UnderWay(u)' /\ Busy(u)'
        BY <1>4, <3>1, <4>3, <4>4 DEF UnderWay, Busy
      <4>6. QED
        BY <1>2, <1>3, <1>6, <4>5, CleanStep
    <3>4. QED
      BY <1>5, <3>2, <3>3
  <2>4. CASE verdict # "more"
    <3>1. mbx_pc'[u] = "idle" /\ mbx_result'[u] = verdict
      BY <1>6, <2>4
    <3>2. Succeeded(u)'
      BY <1>1, <1>5, <2>2, <2>4, <3>1, TotalType DEF Succeeded, Total
    <3>3. QED
      BY <1>2, <1>3, <1>4, <1>6, <3>1, <3>2, CleanStep DEF Busy
  <2>5. QED
    BY <2>3, <2>4
<1>9. CASE ~MbxInFirst(u)
  <2>1. AnswersSegment(r, at, a) /\ Long(r)
    BY <1>3, <1>4, <1>9 DEF Answered, Position
  <2>2. CASE r.kind = "download"
    <3>1. CASE verdict = "more"
      BY <1>1, <1>2, <1>3, <1>4, <1>6, <2>1, <2>2, <3>1, CleanStep
         DEF UnderWay, Position, MbxInFirst, Long, Busy
    <3>2. CASE verdict # "more"
      <4>1. Succeeded(u)'
        BY <1>1, <1>5, <2>1, <2>2, Sizes DEF Succeeded, Long
      <4>2. QED
        BY <1>2, <1>3, <1>4, <1>6, <3>2, <4>1, CleanStep DEF Busy
    <3>3. QED
      BY <3>1, <3>2
  <2>3. CASE r.kind = "upload"
    <3>1. /\ next = [moved |-> at.moved + a.data, total |-> Total(r), toggle |-> ~at.toggle]
          /\ verdict = IF at.moved + a.data < Total(r) THEN "more" ELSE "ok"
      BY <1>3, <1>5, <1>9, <2>1, <2>3, SegmentVerdict DEF verdict, next
    <3>2. Total(r) <= r.size
      BY <1>3, <1>9, <2>3 DEF Position
    <3>3. CASE verdict = "more"
      <4>1. /\ mbx_pc'[u] = "send_segment" /\ mbx_result'[u] = "none"
            /\ mbx_at'[u] = [moved |-> at.moved + a.data, total |-> Total(r),
                             toggle |-> ~at.toggle]
            /\ at.moved + a.data < Total(r)
        BY <1>6, <1>7, <3>1, <3>3
      <4>2. Opened(r, at.moved + a.data, ~at.toggle)
        BY <2>1, <2>3 DEF AnswersSegment
      <4>3. Opened(mbx_call[u], mbx_at[u].moved, mbx_at[u].toggle)'
        <5> PICK n, flipped : n = at.moved + a.data /\ flipped = ~at.toggle
          OBVIOUS
        <5>0. mbx_at'[u] = [moved |-> n, total |-> Total(r), toggle |-> flipped]
          BY <4>1, Zenon
        <5>1. mbx_at'[u].moved = at.moved + a.data /\ (mbx_at'[u].toggle <=> ~at.toggle)
          <6>1. mbx_at'[u].moved = n /\ mbx_at'[u].toggle = flipped
            BY <5>0
          <6>2. QED
            BY <6>1, Zenon
        <5>2. mbx_call'[u] = r /\ mbx_server' = mbx_server
          BY <1>1
        <5>3. at.moved + a.data < Total(r)
                => /\ mbx_server.kind = "upload" /\ mbx_server.moved = at.moved + a.data
                   /\ mbx_server.total = Total(r) /\ (mbx_server.toggle <=> ~at.toggle)
          BY <4>2 DEF Opened
        <5>4. mbx_at'[u].moved < Total(r)
                => /\ mbx_server.kind = "upload" /\ mbx_server.moved = mbx_at'[u].moved
                   /\ mbx_server.total = Total(r) /\ (mbx_server.toggle <=> mbx_at'[u].toggle)
          BY <5>1, <5>3, Zenon
        <5>5. QED
          BY <5>2, <5>4, Zenon DEF Opened, Total
      <4>4. Position(u)'
        BY <1>1, <2>3, <3>2, <4>1 DEF Position, MbxInFirst, Long, Total
      <4>5. UnderWay(u)' /\ Busy(u)'
        BY <1>4, <4>1, <4>3, <4>4 DEF UnderWay, Busy
      <4>6. QED
        BY <1>2, <1>3, <1>6, <4>5, CleanStep
    <3>4. CASE verdict # "more"
      <4>1. mbx_pc'[u] = "idle" /\ mbx_result'[u] = "ok"
        BY <1>6, <3>1, <3>4
      <4>2. Succeeded(u)'
        BY <1>1, <2>3, <3>2, <4>1 DEF Succeeded, Total
      <4>3. QED
        BY <1>2, <1>3, <1>4, <1>6, <4>1, <4>2, CleanStep DEF Busy
    <3>5. QED
      BY <3>3, <3>4
  <2>4. QED
    BY <1>5, <2>2, <2>3
<1>10. QED
  BY <1>8, <1>9

\* A request in an undisturbed mailbox is that of the call under way.
LEMMA CleanAsked ==
  ASSUME UsersTyped, CleanInv, mbx_clean, NEW m \in mbx_in
  PROVE  \E u \in MbxUsers :
           /\ Busy(u) /\ UnderWay(u) /\ mbx_in = {m} /\ mbx_out = {} /\ AsksFor(u, m)
           /\ mbx_pc[u] \in {"poll", "poll_segment"}
           /\ \A v \in MbxUsers : v # u => ~Busy(v)
<1>1. PICK u \in MbxUsers : Busy(u)
  BY DEF CleanInv, Silent
<1>2. UnderWay(u) /\ \A v \in MbxUsers : v # u => ~Busy(v)
  BY <1>1, CleanBusy
<1>3. mbx_pc[u] \in {"poll", "poll_segment"} /\ Asked(u)
  <2>1. ~Silent /\ ~Answered(u)
    BY DEF Silent, Answered
  <2>2. mbx_pc[u] \in Labels
    BY DEF UsersTyped
  <2>3. QED
    BY <1>1, <1>2, <2>1, <2>2 DEF UnderWay, Labels, Busy
<1>4. QED
  BY <1>1, <1>2, <1>3 DEF Asked

\* What the slave makes of it is the answer that fits.
LEMMA CleanAnswered ==
  ASSUME CleanInv, mbx_clean, UNCHANGED mbxUserVars, NEW u \in MbxUsers, Busy(u), UnderWay(u),
         mbx_pc[u] \in {"poll", "poll_segment"},
         \A v \in MbxUsers : v # u => ~Busy(v), mbx_in' = {}, NEW a, mbx_out' = {a},
         IF MbxInFirst(u) THEN AnswersFirst(mbx_call[u], a)'
                          ELSE AnswersSegment(mbx_call[u], mbx_at[u], a)'
  PROVE  CleanInv'
<1>1. UNCHANGED <<mbx_pc, mbx_call, mbx_at, mbx_result>>
  BY DEF mbxUserVars
<1>2. Answered(u)'
  BY <1>1 DEF Answered, MbxInFirst
<1>3. Position(u)' /\ mbx_result'[u] = "none"
  BY <1>1 DEF UnderWay, Position, MbxInFirst, Long, Total
<1>4. UnderWay(u)' /\ Busy(u)'
  BY <1>1, <1>2, <1>3 DEF UnderWay, Busy
<1>5. QED
  BY <1>1, <1>4, CleanStep

LEMMA CleanServe ==
  ASSUME UsersTyped, SlaveTyped, CleanInv, mbx_clean', MbxServe
  PROVE  CleanInv'
<1>1. /\ mbx_clean /\ mbx_in' = {} /\ UNCHANGED mbxUserVars
      /\ UNCHANGED <<mbx_pc, mbx_call, mbx_at>>
  BY DEF MbxServe, mbxUserVars
<1>2. PICK m \in mbx_in : MbxServeDownload(m) \/ MbxServeUpload(m) \/ MbxServeSegment(m)
  BY DEF MbxServe
<1>3. PICK u \in MbxUsers :
        /\ Busy(u) /\ UnderWay(u) /\ AsksFor(u, m)
        /\ mbx_pc[u] \in {"poll", "poll_segment"}
        /\ \A v \in MbxUsers : v # u => ~Busy(v)
  BY <1>1, CleanAsked
<1> DEFINE r == mbx_call[u]
           at == mbx_at[u]
           s == mbx_server
<1>4. /\ m \in MbxRequestType /\ m.toggle \in BOOLEAN /\ m.segment \in BOOLEAN
      /\ r \in MbxCallType /\ r.kind \in {"download", "upload"} /\ Total(r) \in Nat
      /\ at.moved \in Nat /\ at.toggle \in BOOLEAN
  BY TotalType DEF UsersTyped, SlaveTyped, MbxCallType, AtType, MbxRequestType
<1>5. CASE MbxServeDownload(m)
  <2>0. PICK a : a = MbxReply(m, m.object, 0, 0, FALSE, 0)
    OBVIOUS
  <2>1. m.kind = "download" /\ ~m.segment /\ mbx_out' = {a}
    BY <1>5, <2>0 DEF MbxServeDownload
  <2>2. r.kind = "download"
    BY <1>3, <1>4, <2>1 DEF AsksFor
  <2>3. a.kind = m.kind /\ a.segment = m.segment /\ a.object = m.object
    BY <2>0 DEF MbxReply
  <2>4. IF MbxInFirst(u) THEN AnswersFirst(mbx_call[u], a)'
                         ELSE AnswersSegment(mbx_call[u], mbx_at[u], a)'
    BY <1>1, <1>3, <2>1, <2>2, <2>3 DEF AsksFor, AnswersFirst, AnswersSegment
  <2>5. QED
    BY <1>1, <1>3, <2>1, <2>4, CleanAnswered
<1>6. CASE MbxServeUpload(m)
  <2> DEFINE total == MbxLength[m.object.index]
             part == MbxLesser(total, MbxTxSize - 16)
  <2>0. PICK a : a = MbxReply(m, m.object, part, total, FALSE, 0)
    OBVIOUS
  <2>1. /\ m.kind = "upload" /\ ~m.segment /\ mbx_out' = {a}
        /\ mbx_server' = MbxOpen(m, part, total, FALSE)
    BY <1>6, <2>0 DEF MbxServeUpload
  <2>2. /\ a.kind = m.kind /\ a.segment = m.segment /\ a.object = m.object
        /\ a.total = total /\ a.data = part
    BY <2>0 DEF MbxReply
  <2>3. CASE MbxInFirst(u)
    <3>1. r.kind = "upload" /\ m.object = MbxWire(r)
      BY <1>3, <2>1, <2>3 DEF AsksFor
    <3>2. total = Total(r)
      BY <3>1 DEF MbxWire, Total
    <3>3. part < total => /\ mbx_server'.kind = "upload" /\ mbx_server'.moved = part
                          /\ mbx_server'.total = total /\ ~mbx_server'.toggle
      BY <2>1 DEF MbxOpen
    <3>4. Opened(mbx_call[u], part, FALSE)'
      BY <1>1, <3>2, <3>3 DEF Opened, Total
    <3>5. AnswersFirst(mbx_call[u], a)'
      BY <1>1, <2>1, <2>2, <3>1, <3>2, <3>4 DEF AnswersFirst, Total, Opened
    <3>6. QED
      BY <1>1, <1>3, <2>1, <2>3, <3>5, CleanAnswered
  <2>4. CASE ~MbxInFirst(u)
    <3>1. r.kind = "download"
      BY <1>3, <1>4, <2>1, <2>4 DEF AsksFor
    <3>2. AnswersSegment(mbx_call[u], mbx_at[u], a)'
      BY <1>1, <3>1 DEF AnswersSegment
    <3>3. QED
      BY <1>1, <1>3, <2>1, <2>4, <3>2, CleanAnswered
  <2>5. QED
    BY <2>3, <2>4
<1>7. CASE MbxServeSegment(m)
  <2>0. PICK part, last, a :
          /\ part = IF m.kind = "download" THEN m.data
                    ELSE MbxLesser(s.total - s.moved, MbxTxSize - 9)
          /\ last = (s.moved + part = s.total)
          /\ a = MbxReply(m, s.object, IF m.kind = "upload" THEN part ELSE 0, 0, last, s.moved)
    OBVIOUS
  <2>1. /\ m.segment /\ mbx_out' = {a}
        /\ mbx_server' = MbxOpen([m EXCEPT !.object = s.object], s.moved + part, s.total, ~s.toggle)
    BY <1>7, <2>0 DEF MbxServeSegment
  <2>2. ~MbxInFirst(u)
    BY <1>3, <2>1 DEF AsksFor
  <2>3. CASE r.kind = "download"
    <3>1. AnswersSegment(mbx_call[u], mbx_at[u], a)'
      BY <1>1, <2>3 DEF AnswersSegment
    <3>2. QED
      BY <1>1, <1>3, <2>1, <2>2, <3>1, CleanAnswered
  <2>4. CASE r.kind = "upload"
    <3>1. m.kind = "upload" /\ Opened(r, at.moved, at.toggle)
      BY <1>3, <2>2, <2>4 DEF AsksFor
    <3>2. at.moved < Total(r)
      BY <1>3, <2>2, <2>4 DEF UnderWay, Position
    <3>3. /\ s.kind = "upload" /\ s.moved = at.moved /\ s.total = Total(r)
          /\ (s.toggle <=> at.toggle)
      BY <3>1, <3>2 DEF Opened
    <3>4. part = MbxLesser(Total(r) - at.moved, MbxTxSize - 9)
      BY <2>0, <3>1, <3>3
    <3>5. Total(r) - at.moved \in Nat /\ MbxTxSize - 9 \in Nat
      BY <1>4, <3>2, Sizes
    <3>6. part \in Nat /\ part <= Total(r) - at.moved
      BY <3>4, <3>5, Lesser
    <3>7. /\ a.kind = "upload" /\ a.segment /\ a.data = part
          /\ a.last = (at.moved + part = Total(r))
      BY <2>0, <2>1, <3>1, <3>3 DEF MbxReply
    <3>8. at.moved + part < Total(r)
            => /\ mbx_server'.kind = "upload" /\ mbx_server'.moved = at.moved + part
               /\ mbx_server'.total = Total(r) /\ (mbx_server'.toggle <=> ~at.toggle)
      <4>1. [m EXCEPT !.object = s.object].kind = "upload"
        BY <1>4, <3>1 DEF MbxRequestType
      <4>2. QED
        BY <2>1, <3>3, <4>1 DEF MbxOpen
    <3>9. Opened(mbx_call[u], mbx_at[u].moved + part, ~mbx_at[u].toggle)'
      BY <1>1, <3>8 DEF Opened, Total
    <3>10. at.moved + part <= Total(r)
      BY <1>4, <3>6
    <3>11. AnswersSegment(mbx_call[u], mbx_at[u], a)'
      BY <1>1, <3>7, <3>9, <3>10 DEF AnswersSegment, Total, Opened
    <3>12. QED
      BY <1>1, <1>3, <2>1, <2>2, <3>11, CleanAnswered
  <2>5. QED
    BY <1>4, <2>3, <2>4
<1>8. QED
  BY <1>2, <1>5, <1>6, <1>7

\* The slave refuses only a segment of a download, which ends with an abort.
LEMMA CleanRefuse ==
  ASSUME UsersTyped, SlaveTyped, CleanInv, mbx_clean', MbxRefuse
  PROVE  CleanInv'
<1>1. /\ mbx_in' = {} /\ mbx_out' = {MbxAbort} /\ UNCHANGED mbxUserVars
      /\ UNCHANGED <<mbx_pc, mbx_call, mbx_at>>
  BY DEF MbxRefuse, mbxUserVars
<1>2. PICK m \in mbx_in : m.segment /\ ~MbxFits(m) /\ mbx_clean
  BY DEF MbxRefuse
<1>3. PICK u \in MbxUsers :
        /\ Busy(u) /\ UnderWay(u) /\ AsksFor(u, m)
        /\ mbx_pc[u] \in {"poll", "poll_segment"}
        /\ \A v \in MbxUsers : v # u => ~Busy(v)
  BY <1>2, CleanAsked
<1> DEFINE r == mbx_call[u]
           at == mbx_at[u]
<1>4. ~MbxInFirst(u)
  BY <1>2, <1>3 DEF AsksFor
<1>5. r.kind # "upload"
  <2> SUFFICES ASSUME r.kind = "upload" PROVE FALSE
    OBVIOUS
  <2>1. /\ m.kind = "upload" /\ (m.toggle <=> at.toggle) /\ Opened(r, at.moved, at.toggle)
        /\ at.moved < Total(r)
    BY <1>3, <1>4 DEF AsksFor, UnderWay, Position
  <2>2. mbx_server.kind = "upload" /\ (mbx_server.toggle <=> at.toggle)
    BY <2>1 DEF Opened
  <2>3. m.toggle \in BOOLEAN /\ mbx_server.toggle \in BOOLEAN
    BY DEF SlaveTyped, MbxRequestType, ServerType
  <2>4. m.toggle = mbx_server.toggle
    BY <2>1, <2>2, <2>3
  <2>5. QED
    BY <1>2, <2>1, <2>2, <2>4 DEF MbxFits
<1>6. AnswersSegment(mbx_call[u], mbx_at[u], MbxAbort)'
  BY <1>1, <1>5 DEF AnswersSegment
<1>7. QED
  BY <1>1, <1>2, <1>3, <1>4, <1>6, CleanAnswered

\* Users that take turns over a mailbox that loses, delays and refuses nothing get what
\* they ask for: a download of one message and an upload with room always succeed, and no
\* answer is left behind for the next call, however many calls there are.
THEOREM MbxAlwaysClean == MbxSpec => []MbxCleanSucceeds
<1>1. MbxInit => CleanInv
  BY DEF MbxInit, CleanInv, Busy, Silent, Succeeded
<1>2. MbxInv /\ CleanInv /\ [MbxNext]_mbxVars => CleanInv'
  <2> SUFFICES ASSUME MbxInv, CleanInv, [MbxNext]_mbxVars, mbx_clean'
               PROVE  CleanInv'
    BY DEF CleanInv
  <2>0. UsersTyped /\ SlaveTyped
    BY DEF MbxInv
  <2>1. ASSUME NEW u \in MbxUsers,
               \/ MbxCall(u) \/ ec_mailbox_send(u) \/ MbxPollFails(u)
               \/ ec_mailbox_read_status(u) \/ MbxFetch(u)
        PROVE  CleanInv'
    BY <2>0, <2>1, CleanCall, CleanSend, CleanStatus, CleanFetch DEF MbxPollFails
  <2>2. CASE MbxServe \/ MbxRefuse
    BY <2>0, <2>2, CleanServe, CleanRefuse
  <2>3. CASE MbxSendEmergency \/ MbxReset
    BY <2>3 DEF MbxSendEmergency, MbxReset
  <2>4. CASE UNCHANGED mbxVars
    <3>1. UNCHANGED <<mbx_in, mbx_out, mbx_server, mbx_pc, mbx_call, mbx_at, mbx_result,
                      mbx_clean>>
      BY <2>4 DEF mbxVars, mbxUserVars
    <3>2. \A u \in MbxUsers : /\ Busy(u)' <=> Busy(u)
                              /\ UnderWay(u)' <=> UnderWay(u)
                              /\ Succeeded(u)' <=> Succeeded(u)
      BY <3>1 DEF Busy, UnderWay, Succeeded, Position, MbxInFirst, Long, Total, Silent, Opened,
                  Asked, AsksFor, Answered, AnswersFirst, AnswersSegment
    <3>3. QED
      BY <3>1, <3>2 DEF CleanInv, Silent
  <2>5. QED
    BY <2>1, <2>2, <2>3, <2>4 DEF MbxNext
<1>3. CleanInv => MbxCleanSucceeds
  BY DEF CleanInv, MbxCleanSucceeds, Succeeded, Total, Busy
<1>5. QED
  BY <1>1, <1>2, <1>3, MbxInductive, PTL DEF MbxSpec
=============================================================================
