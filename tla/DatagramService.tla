--------------------------- MODULE DatagramService --------------------------
(***************************************************************************)
(* What ec_master_queue_ext_datagram promises its callers.  A client hands *)
(* over one request at a time; each request is completed once, with one    *)
(* outcome that stays as it is until the call returns it.  "OK" and "WC"   *)
(* say that the bus answered this very request, with and without a slave   *)
(* having processed it; "TIMEOUT" and "IO" that it did not answer in time  *)
(* or that the link was down.                                              *)
(***************************************************************************)
CONSTANT Clients

VARIABLES
  request,  \* client |-> "none", "pending" or "done"
  outcome   \* client |-> the outcome of a done request
serviceVars == <<request, outcome>>

Outcomes == {"OK", "WC", "TIMEOUT", "IO"}

ServiceInit ==
  /\ request = [c \in Clients |-> "none"]
  /\ outcome = [c \in Clients |-> "none"]

Ask(c) ==
  /\ request[c] = "none"
  /\ request' = [request EXCEPT ![c] = "pending"]
  /\ outcome' = [outcome EXCEPT ![c] = "none"]

\* One step of the master may complete several requests.
Complete(S) ==
  /\ S # {}
  /\ \A c \in S : request[c] = "pending"
  /\ request' = [c \in Clients |-> IF c \in S THEN "done" ELSE request[c]]
  /\ \E o \in [S -> Outcomes] :
       outcome' = [c \in Clients |-> IF c \in S THEN o[c] ELSE outcome[c]]

\* The call returns, with the outcome it had when it was completed.
Answer(c) ==
  /\ request[c] = "done"
  /\ request' = [request EXCEPT ![c] = "none"]
  /\ UNCHANGED outcome

ServiceNext ==
  \/ \E c \in Clients : Ask(c) \/ Answer(c)
  \/ \E S \in SUBSET Clients : Complete(S)

ServiceSafety == ServiceInit /\ [][ServiceNext]_serviceVars

ServiceLiveness ==
  \A c \in Clients :
    /\ WF_serviceVars(Answer(c))
    /\ WF_serviceVars(\E S \in SUBSET Clients : c \in S /\ Complete(S))

ServiceSpec == ServiceSafety /\ ServiceLiveness
=============================================================================
