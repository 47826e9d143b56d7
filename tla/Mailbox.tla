------------------------------ MODULE Mailbox ------------------------------
(***************************************************************************)
(* The mailbox of one slave (ec_mailbox.c) and SDO transfers over it       *)
(* (ec_coe.c).  The scan thread configures the slave with downloads        *)
(* (ec_slave.c:561-668) while applications and the shell call              *)
(* ec_coe_download and ec_coe_upload (ec_cmd.c:587-649); each has its own  *)
(* datagram and no lock keeps them apart.                                  *)
(*                                                                         *)
(* Sync manager 0 holds one message to the slave, sync manager 1 one from  *)
(* it.  Each step of a user is one register access, which may not reach    *)
(* the slave and whose answer may be lost.  Data is the number of bytes.   *)
(* The slave's SDO server, which is not in the repository, follows the     *)
(* standard: a new transfer ends the one it has open, a segment that does  *)
(* not fit the open transfer is answered by an abort.                      *)
(***************************************************************************)
EXTENDS Integers, FiniteSets

CONSTANTS
  MbxRxSize, MbxTxSize,  \* configured_rx_mailbox_size, configured_tx_mailbox_size
  MbxUsers,
  MbxIndices,
  MbxLength,     \* the bytes in each object of the slave
  MbxCalls,      \* what each user may call
  MbxBudget      \* how many calls there are

MbxSubindices == {0, 1}
MbxObjects == [index : MbxIndices, subindex : MbxSubindices]

\* "size" is what is to be written, or the room for what is read (maxsize).
MbxCallType == [kind : {"download", "upload"}, index : MbxIndices, subindex : MbxSubindices,
                complete : BOOLEAN, size : Nat]

ASSUME MbxAssumption ==
  /\ MbxRxSize \in Nat /\ MbxRxSize > 20
  /\ MbxTxSize \in Nat /\ MbxTxSize > 20
  /\ MbxIndices # {}
  /\ MbxLength \in [MbxIndices -> Nat]
  /\ MbxCalls \in [MbxUsers -> SUBSET MbxCallType]
  /\ MbxBudget \in Nat

VARIABLES
  mbx_in,        \* sync manager 0: {} or {a request}
  mbx_out,       \* sync manager 1: {} or {an answer}
  mbx_server,    \* the transfer the slave has open
  mbx_pc,        \* what each user does next
  mbx_call,      \* its call,
  mbx_at,        \* how far the transfer has come, and
  mbx_result,    \* what the last call returned
  mbx_budget,
  mbx_intact,    \* each piece read so far was the next one of the object asked for
  mbx_clean,     \* nothing was lost, late or refused and the users took turns
  mbx_unconfirmed \* for each object: downloads carried out less downloads reported

mbxUserVars == <<mbx_pc, mbx_call, mbx_at, mbx_result, mbx_budget, mbx_intact>>
mbxVars == <<mbx_in, mbx_out, mbx_server, mbxUserVars, mbx_clean, mbx_unconfirmed>>

MbxLesser(a, b) == IF a < b THEN a ELSE b

\* The subindex of a complete access is sent as 0.
MbxWire(r) == [index |-> r.index, subindex |-> IF r.complete THEN 0 ELSE r.subindex]

MbxBeginning == [moved |-> 0, total |-> 0, toggle |-> FALSE]
MbxSomeObject == [index |-> CHOOSE i \in MbxIndices : TRUE, subindex |-> 0]
MbxNoCall == [kind |-> "upload", index |-> MbxSomeObject.index, subindex |-> 0,
              complete |-> FALSE, size |-> 0]
MbxClosed == [kind |-> "none", object |-> MbxSomeObject, moved |-> 0, total |-> 0,
              toggle |-> FALSE]

MbxInit ==
  /\ mbx_in = {}
  /\ mbx_out = {}
  /\ mbx_server = MbxClosed
  /\ mbx_pc = [u \in MbxUsers |-> "idle"]
  /\ mbx_call = [u \in MbxUsers |-> MbxNoCall]
  /\ mbx_at = [u \in MbxUsers |-> MbxBeginning]
  /\ mbx_result = [u \in MbxUsers |-> "none"]
  /\ mbx_budget = MbxBudget
  /\ mbx_intact = [u \in MbxUsers |-> TRUE]
  /\ mbx_clean = TRUE
  /\ mbx_unconfirmed = [o \in MbxObjects |-> 0]

MbxAccesses == {a \in [reached : BOOLEAN, answered : BOOLEAN] : a.answered => a.reached}

-----------------------------------------------------------------------------
(***************************************************************************)
(* ec_coe_download and ec_coe_upload: the requests.                        *)
(***************************************************************************)
\* The data of the first request beside the headers; a segment has 7 bytes more.
MbxFirst == MbxRxSize - 16

\* Mutant: a segment that has room for the whole of the first header.
MbxSegmentTooLong == MbxFirst + 10

MbxSegment == MbxFirst + 7

\* The first part of a long download announces its own size as the total.
MbxFirstRequest(r) ==
  LET part == IF r.kind = "download" THEN MbxLesser(r.size, MbxFirst) ELSE 0
  IN [kind |-> r.kind, segment |-> FALSE, object |-> MbxWire(r),
      data |-> part, total |-> part, toggle |-> FALSE, last |-> TRUE]

MbxSegmentRequest(r, at) ==
  LET left == r.size - at.moved
      part == IF r.kind = "download" THEN MbxLesser(left, MbxSegment) ELSE 0
  IN [kind |-> r.kind, segment |-> TRUE, object |-> MbxWire(r),
      data |-> part, total |-> 0, toggle |-> at.toggle, last |-> part = left]

\* The bytes of a request with its headers: four bytes travel in the first header, and
\* a segment is padded to seven (ec_mailbox_fill_send).
MbxBytes(m) ==
  IF m.segment THEN 9 + (IF m.data < 7 THEN 7 ELSE m.data)
               ELSE 16 + (IF m.data <= 4 THEN 0 ELSE m.data)

\* What a call goes on with: its first request until an answer has been taken.
MbxInFirst(u) == mbx_pc[u] \in {"send", "poll", "fetch"}

MbxRequest(u) == IF mbx_pc[u] = "send" THEN MbxFirstRequest(mbx_call[u])
                                       ELSE MbxSegmentRequest(mbx_call[u], mbx_at[u])

MbxGoto(u, label) == mbx_pc' = [mbx_pc EXCEPT ![u] = label]

MbxEnd(u, result) ==
  /\ MbxGoto(u, "idle")
  /\ mbx_result' = [mbx_result EXCEPT ![u] = result]

MbxGoOn(u, label) == MbxGoto(u, label) /\ UNCHANGED mbx_result

MbxCall(u) ==
  /\ mbx_pc[u] = "idle" /\ mbx_budget > 0
  /\ \E r \in MbxCalls[u] : mbx_call' = [mbx_call EXCEPT ![u] = r]
  /\ MbxGoto(u, "send")
  /\ mbx_result' = [mbx_result EXCEPT ![u] = "none"]
  /\ mbx_at' = [mbx_at EXCEPT ![u] = MbxBeginning]
  /\ mbx_intact' = [mbx_intact EXCEPT ![u] = TRUE]
  /\ mbx_budget' = mbx_budget - 1
  /\ mbx_clean' = (mbx_clean /\ \A v \in MbxUsers : mbx_pc[v] = "idle")
  /\ UNCHANGED <<mbx_in, mbx_out, mbx_server, mbx_unconfirmed>>

\* A full mailbox does not take the message, which shows in the working counter.
ec_mailbox_send(u) ==
  /\ mbx_pc[u] \in {"send", "send_segment"}
  /\ \E a \in MbxAccesses :
       /\ mbx_in' = IF a.reached /\ mbx_in = {} THEN {MbxRequest(u)} ELSE mbx_in
       /\ IF a.answered /\ mbx_in = {}
            THEN /\ MbxGoOn(u, IF mbx_pc[u] = "send" THEN "poll" ELSE "poll_segment")
                 /\ UNCHANGED mbx_clean
            ELSE MbxEnd(u, "failed") /\ mbx_clean' = FALSE
  /\ UNCHANGED <<mbx_out, mbx_server, mbx_call, mbx_at, mbx_budget, mbx_intact,
                 mbx_unconfirmed>>

\* The mailbox is found empty after a second, or the poll is lost.
MbxPollFails(u) ==
  /\ mbx_pc[u] \in {"poll", "poll_segment"}
  /\ MbxEnd(u, "failed")
  /\ mbx_clean' = FALSE
  /\ UNCHANGED <<mbx_in, mbx_out, mbx_server, mbx_call, mbx_at, mbx_budget, mbx_intact,
                 mbx_unconfirmed>>

ec_mailbox_read_status(u) ==
  /\ mbx_pc[u] \in {"poll", "poll_segment"}
  /\ mbx_out # {}
  /\ MbxGoOn(u, IF mbx_pc[u] = "poll" THEN "fetch" ELSE "fetch_segment")
  /\ UNCHANGED <<mbx_in, mbx_out, mbx_server, mbx_call, mbx_at, mbx_budget, mbx_intact,
                 mbx_clean, mbx_unconfirmed>>

-----------------------------------------------------------------------------
(***************************************************************************)
(* ec_coe_download and ec_coe_upload: the answers.                         *)
(***************************************************************************)
MbxSameKind(r, a, segment) == a.kind = r.kind /\ a.segment = segment

\* A download is compared with the subindex of the call, an upload with the one sent.
MbxExpected(r) == IF r.kind = "download" THEN [index |-> r.index, subindex |-> r.subindex]
                                         ELSE MbxWire(r)

\* Mutant: the object of an answer is not looked at.
MbxFirstMatchesKind(r, a) == MbxSameKind(r, a, FALSE)

MbxFirstMatches(r, a) == MbxSameKind(r, a, FALSE) /\ a.object = MbxExpected(r)

\* Mutant: the toggle bit stays what it is.
MbxAdvancedUntoggled(u, a) ==
  LET r == mbx_call[u]
      at == mbx_at[u]
      first == MbxInFirst(u)
      part == IF r.kind = "upload" THEN a.data
              ELSE IF first THEN MbxFirstRequest(r).data ELSE MbxSegmentRequest(r, at).data
      total == IF r.kind = "download" THEN r.size
               ELSE IF first THEN a.total ELSE at.total
  IN [moved |-> at.moved + part, total |-> total, toggle |-> FALSE]

\* How far a transfer has come with an answer that fits.
MbxAdvanced(u, a) ==
  LET r == mbx_call[u]
      at == mbx_at[u]
      first == MbxInFirst(u)
      part == IF r.kind = "upload" THEN a.data
              ELSE IF first THEN MbxFirstRequest(r).data ELSE MbxSegmentRequest(r, at).data
      total == IF r.kind = "download" THEN r.size
               ELSE IF first THEN a.total ELSE at.total
  IN [moved |-> at.moved + part, total |-> total, toggle |-> ~first /\ ~at.toggle]

\* What becomes of a call: the first test that an answer does not pass ends it.
MbxVerdict(u, a) ==
  LET r == mbx_call[u]
      next == MbxAdvanced(u, a)
      first == MbxInFirst(u)
      upload == r.kind = "upload"
      fits == IF first THEN MbxFirstMatches(r, a) ELSE MbxSameKind(r, a, TRUE)
      oversized == IF first THEN r.size < a.total
                   ELSE next.moved > next.total \/ (a.last /\ next.moved # next.total)
      unfinished == IF upload /\ ~first THEN ~a.last ELSE next.moved < next.total
  IN IF a.kind = "abort" THEN "abort"
     ELSE IF ~fits THEN "request"
     ELSE IF ~first /\ ~upload /\ a.toggle # mbx_at[u].toggle THEN "toggle"
     ELSE IF upload /\ oversized THEN "size"
     ELSE IF unfinished THEN "more"
     ELSE "ok"

MbxTake(u, a) ==
  LET verdict == MbxVerdict(u, a)
      taken == verdict \in {"ok", "more"}
      r == mbx_call[u]
  IN /\ IF verdict = "more" THEN MbxGoOn(u, "send_segment") ELSE MbxEnd(u, verdict)
     /\ mbx_at' = IF taken THEN [mbx_at EXCEPT ![u] = MbxAdvanced(u, a)] ELSE mbx_at
     /\ mbx_intact' =
          [mbx_intact EXCEPT ![u] =
             @ /\ (taken /\ r.kind = "upload" => a.object = MbxWire(r) /\ a.from = mbx_at[u].moved)]
     /\ mbx_unconfirmed' =
          IF verdict = "ok" /\ r.kind = "download"
          THEN [mbx_unconfirmed EXCEPT ![MbxExpected(r)] = @ - 1] ELSE mbx_unconfirmed

\* The mailbox is empty again once it has been read, also if the answer is lost; an
\* empty one does not answer.
MbxFetch(u) ==
  /\ mbx_pc[u] \in {"fetch", "fetch_segment"}
  /\ \/ \E a \in mbx_out :
          /\ mbx_out' = {}
          /\ MbxTake(u, a)
          /\ UNCHANGED mbx_clean
     \/ \E reached \in BOOLEAN :
          /\ mbx_out' = IF reached THEN {} ELSE mbx_out
          /\ MbxEnd(u, "failed")
          /\ mbx_clean' = FALSE
          /\ UNCHANGED <<mbx_at, mbx_intact, mbx_unconfirmed>>
  /\ UNCHANGED <<mbx_in, mbx_server, mbx_call, mbx_budget>>

-----------------------------------------------------------------------------
(***************************************************************************)
(* The slave.                                                              *)
(***************************************************************************)
MbxAbort == [kind |-> "abort", segment |-> FALSE, object |-> MbxSomeObject, data |-> 0,
             total |-> 0, toggle |-> FALSE, last |-> FALSE, from |-> 0]
MbxEmergency == [MbxAbort EXCEPT !.kind = "emergency"]

MbxOpen(m, moved, total, toggle) ==
  IF moved < total
  THEN [kind |-> m.kind, object |-> m.object, moved |-> moved, total |-> total,
        toggle |-> toggle]
  ELSE MbxClosed

MbxReply(m, object, data, total, last, from) ==
  [kind |-> m.kind, segment |-> m.segment, object |-> object, data |-> data, total |-> total,
   toggle |-> m.toggle, last |-> last, from |-> from]

MbxWritten(object) == mbx_unconfirmed' = [mbx_unconfirmed EXCEPT ![object] = @ + 1]

MbxServeDownload(m) ==
  /\ m.kind = "download" /\ ~m.segment
  /\ mbx_out' = {MbxReply(m, m.object, 0, 0, FALSE, 0)}
  /\ mbx_server' = MbxOpen(m, m.data, m.total, FALSE)
  /\ IF m.data < m.total THEN UNCHANGED mbx_unconfirmed ELSE MbxWritten(m.object)

MbxServeUpload(m) ==
  LET total == MbxLength[m.object.index]
      part == MbxLesser(total, MbxTxSize - 16)
  IN /\ m.kind = "upload" /\ ~m.segment
     /\ mbx_out' = {MbxReply(m, m.object, part, total, FALSE, 0)}
     /\ mbx_server' = MbxOpen(m, part, total, FALSE)
     /\ UNCHANGED mbx_unconfirmed

MbxFits(m) ==
  /\ m.kind = mbx_server.kind /\ m.toggle = mbx_server.toggle
  /\ m.kind = "download" => /\ mbx_server.moved + m.data <= mbx_server.total
                            /\ m.last <=> mbx_server.moved + m.data = mbx_server.total

MbxServeSegment(m) ==
  LET s == mbx_server
      part == IF m.kind = "download" THEN m.data
              ELSE MbxLesser(s.total - s.moved, MbxTxSize - 9)
      last == s.moved + part = s.total
  IN /\ m.segment /\ MbxFits(m)
     /\ mbx_out' = {MbxReply(m, s.object, IF m.kind = "upload" THEN part ELSE 0, 0, last,
                             s.moved)}
     /\ mbx_server' = MbxOpen([m EXCEPT !.object = s.object], s.moved + part, s.total, ~s.toggle)
     /\ IF m.kind = "download" /\ last THEN MbxWritten(s.object) ELSE UNCHANGED mbx_unconfirmed

MbxServe ==
  /\ mbx_out = {}
  /\ \E m \in mbx_in : MbxServeDownload(m) \/ MbxServeUpload(m) \/ MbxServeSegment(m)
  /\ mbx_in' = {}
  /\ UNCHANGED <<mbxUserVars, mbx_clean>>

\* Any first request may be refused (no such object, read only), and a segment that
\* does not fit always is.
MbxRefuse ==
  /\ mbx_out = {}
  /\ \E m \in mbx_in :
       /\ m.segment => ~MbxFits(m)
       /\ mbx_clean' = (mbx_clean /\ m.segment)
  /\ mbx_in' = {}
  /\ mbx_out' = {MbxAbort}
  /\ mbx_server' = MbxClosed
  /\ UNCHANGED <<mbxUserVars, mbx_unconfirmed>>

\* An emergency message goes through the same mailbox.
MbxSendEmergency ==
  /\ mbx_out = {}
  /\ mbx_out' = {MbxEmergency}
  /\ mbx_clean' = FALSE
  /\ UNCHANGED <<mbx_in, mbx_server, mbxUserVars, mbx_unconfirmed>>

\* The scan thread takes the slave through INIT, in which it has no mailbox
\* (ec_slave.c:435-550).
MbxReset ==
  /\ mbx_pc["scan"] = "idle"
  /\ mbx_in # {} \/ mbx_out # {} \/ mbx_server # MbxClosed
  /\ mbx_in' = {} /\ mbx_out' = {}
  /\ mbx_server' = MbxClosed
  /\ mbx_clean' = FALSE
  /\ UNCHANGED <<mbxUserVars, mbx_unconfirmed>>

MbxNext ==
  \/ \E u \in MbxUsers :
       \/ MbxCall(u) \/ ec_mailbox_send(u) \/ MbxPollFails(u)
       \/ ec_mailbox_read_status(u) \/ MbxFetch(u)
  \/ MbxServe \/ MbxRefuse \/ MbxSendEmergency \/ MbxReset

MbxSpec == MbxInit /\ [][MbxNext]_mbxVars
-----------------------------------------------------------------------------
MbxRequestType ==
  [kind : {"download", "upload"}, segment : BOOLEAN, object : MbxObjects, data : Nat,
   total : Nat, toggle : BOOLEAN, last : BOOLEAN]

MbxAnswerType ==
  [kind : {"download", "upload", "abort", "emergency"}, segment : BOOLEAN,
   object : MbxObjects, data : Nat, total : Nat, toggle : BOOLEAN, last : BOOLEAN,
   from : Nat]

\* The values of the variables.  A request fits in the mailbox with its headers, which
\* ec_mailbox_fill_send asserts (ec_mailbox.c:21).
MbxTypeOK ==
  /\ \A m \in mbx_in : m \in MbxRequestType /\ MbxBytes(m) <= MbxRxSize
  /\ \A a \in mbx_out : a \in MbxAnswerType
  /\ mbx_server \in [kind : {"none", "download", "upload"}, object : MbxObjects, moved : Nat,
                     total : Nat, toggle : BOOLEAN]
  /\ mbx_pc \in [MbxUsers -> {"idle", "send", "poll", "fetch", "send_segment", "poll_segment",
                              "fetch_segment"}]
  /\ mbx_call \in [MbxUsers -> MbxCallType]
  /\ mbx_at \in [MbxUsers -> [moved : Nat, total : Nat, toggle : BOOLEAN]]
  /\ mbx_result \in [MbxUsers -> {"none", "ok", "failed", "abort", "request", "toggle", "size"}]
  /\ mbx_budget \in Nat
  /\ mbx_intact \in [MbxUsers -> BOOLEAN]
  /\ mbx_clean \in BOOLEAN
  /\ mbx_unconfirmed \in [MbxObjects -> Int]

\* No answer confirms two downloads, and none confirms a download of another object: a
\* success is an execution of its own, although an answer that a timed out call left
\* behind is what the next call reads (ec_mailbox.c:74-76, ec_coe.c:104-108).
MbxConfirms(a, o) == a.kind = "download" /\ a.object = o /\ (a.segment => a.last)

MbxOwnExecution ==
  \A o \in MbxObjects : /\ mbx_unconfirmed[o] >= 0
                        /\ (\E a \in mbx_out : MbxConfirms(a, o)) => mbx_unconfirmed[o] > 0

\* What a successful upload hands out is one object, whole and in order, also when
\* answers of earlier calls lie in the mailbox or the scan thread configures the slave in
\* the middle of it: answers to segments name no object, and their toggle bit is not
\* looked at (ec_coe.c:485-517).
MbxUploadIntact ==
  \A u \in MbxUsers :
    mbx_result[u] = "ok" /\ mbx_call[u].kind = "upload"
      => mbx_intact[u] /\ mbx_at[u].moved = MbxLength[mbx_call[u].index]

\* While nothing is lost, late or refused and the users take turns, a download of one
\* message and an upload for which there is room succeed: no answer is left for the next
\* call.  Writing a sub-object other than 0 with complete access is reported as a failure
\* (ec_coe.c:74, 107), and so is an upload without room.
MbxCleanSucceeds ==
  \A u \in MbxUsers :
    LET r == mbx_call[u]
        one_message == r.size <= MbxFirst /\ (r.complete => r.subindex = 0)
        room == MbxLength[r.index] <= r.size
    IN mbx_clean /\ mbx_pc[u] = "idle"
         => /\ r.kind = "download" /\ one_message => mbx_result[u] \in {"none", "ok"}
            /\ r.kind = "upload" => mbx_result[u] \in {"none", IF room THEN "ok" ELSE "size"}

\* ec_coe_download writes data of any size to an object of the slave (docs/source/api.rst):
\* while nothing is lost, late or refused and the users take turns, no download ends in an
\* abort by the slave.
MbxDownloadDelivers ==
  \A u \in MbxUsers :
    mbx_clean /\ mbx_call[u].kind = "download" => mbx_result[u] # "abort"
=============================================================================
