----------------------------- MODULE SiiAccess -----------------------------
(***************************************************************************)
(* The EEPROM (SII) of one slave (ec_sii.c) and its two users: the scan    *)
(* reads the category headers and then the whole image                     *)
(* (ec_slave.c:1217-1246), the shell writes the image (ec_cmd.c:660-680),  *)
(* both with scan_lock held.  Each step is one register access: it may not *)
(* reach the slave, and its answer may be lost.                            *)
(*                                                                         *)
(* A word of the EEPROM is "old" or "new", which is what the shell writes. *)
(* The EEPROM finishes a command, or hangs; a lost answer is noticed after *)
(* 50 ms (EC_IO_TIMEOUT), when a command that does not hang is finished.   *)
(***************************************************************************)
EXTENDS Integers

CONSTANT SiiWords    \* the length of the image in words

ASSUME SiiAssumption == SiiWords \in Nat \ {0} /\ SiiWords % 2 = 0

SiiUsers == {"scan", "shell"}
SiiAddresses == 0 .. SiiWords - 1
SiiVersions == {"old", "new"}

VARIABLES
  sii_lock,      \* scan_lock: "free", or who holds it
  sii_pc,        \* what each user does next
  sii_call,      \* the scan's call: "headers" or "image"
  sii_word,      \* the word offset each user has come to
  sii_walk,      \* what the scan has read of each word in category headers
  sii_image,     \* slave->sii_image: "none" where nothing has been read
  sii_fresh,     \* the scan is complete and no write has begun since
  sii_last,      \* who made the last access, and
  sii_result,    \* of each user's last access: "none", "ok" or "failed"
  sii_eeprom,    \* the contents
  sii_owner,     \* who may command the EEPROM: "ecat" or "pdi" (the slave)
  sii_command,   \* {} or {the command that is carried out}
  sii_error,     \* the error bits of the last command
  sii_hung

siiUserVars == <<sii_lock, sii_pc, sii_call, sii_word, sii_walk, sii_image, sii_fresh,
                 sii_last, sii_result>>
siiSlaveVars == <<sii_eeprom, sii_owner, sii_command, sii_error, sii_hung>>
siiVars == <<siiUserVars, siiSlaveVars>>

SiiInit ==
  /\ sii_lock = "free"
  /\ sii_pc = [u \in SiiUsers |-> "idle"]
  /\ sii_call = "headers"
  /\ sii_word = [u \in SiiUsers |-> 0]
  /\ sii_walk = [w \in SiiAddresses |-> "none"]
  /\ sii_image = [w \in SiiAddresses |-> "none"]
  /\ sii_fresh = FALSE
  /\ sii_last = "none"
  /\ sii_result = [u \in SiiUsers |-> "none"]
  /\ sii_eeprom = [w \in SiiAddresses |-> "old"]
  /\ sii_owner = "pdi"
  /\ sii_command = {}
  /\ sii_error = FALSE
  /\ sii_hung = FALSE

SiiAccesses == {a \in [reached : BOOLEAN, answered : BOOLEAN] : a.answered => a.reached}

SiiGoto(u, label) == sii_pc' = [sii_pc EXCEPT ![u] = label]

-----------------------------------------------------------------------------
(***************************************************************************)
(* ec_sii_read and ec_sii_write.                                           *)
(***************************************************************************)
\* An access ends: the lock is given back whatever the result.
SiiEnd(u, result) ==
  /\ SiiGoto(u, "idle")
  /\ sii_result' = [sii_result EXCEPT ![u] = result]
  /\ sii_last' = u
  /\ sii_lock' = "free"

SiiGoOn(u, label) == SiiGoto(u, label) /\ UNCHANGED <<sii_lock, sii_last, sii_result>>

\* Mutant: the shell writes without scan_lock.
SiiMayTake(u) == sii_lock = "free" \/ u = "shell"

SiiCanTake(u) == sii_lock = "free"

SiiReady == sii_command = {} \/ sii_hung

\* The scan begins with the header of some category, in a new slave table.
SiiScan ==
  /\ sii_pc["scan"] = "idle" /\ SiiCanTake("scan") /\ SiiReady
  /\ sii_lock' = "scan"
  /\ SiiGoto("scan", "assign")
  /\ sii_call' = "headers"
  /\ sii_word' = [sii_word EXCEPT !["scan"] = 0]
  /\ sii_walk' = [w \in SiiAddresses |-> "none"]
  /\ sii_image' = [w \in SiiAddresses |-> "none"]
  /\ sii_fresh' = FALSE
  /\ UNCHANGED <<sii_last, sii_result, siiSlaveVars>>

SiiWrite ==
  /\ sii_pc["shell"] = "idle" /\ SiiCanTake("shell") /\ SiiReady
  /\ sii_lock' = "shell"
  /\ SiiGoto("shell", "assign")
  /\ sii_word' = [sii_word EXCEPT !["shell"] = 0]
  /\ sii_fresh' = FALSE
  /\ UNCHANGED <<sii_call, sii_walk, sii_image, sii_last, sii_result, siiSlaveVars>>

ec_sii_assign_master(u) ==
  /\ sii_pc[u] = "assign"
  /\ \E a \in SiiAccesses :
       /\ sii_owner' = IF a.reached THEN "ecat" ELSE sii_owner
       /\ IF a.answered THEN SiiGoOn(u, "command") ELSE SiiEnd(u, "failed")
  /\ UNCHANGED <<sii_call, sii_word, sii_walk, sii_image, sii_fresh, sii_eeprom, sii_command,
                 sii_error, sii_hung>>

\* The EEPROM takes a command from its owner only, and while it is not busy.
SiiCommand(u) ==
  /\ sii_pc[u] = "command"
  /\ \E a \in SiiAccesses :
       /\ IF a.reached /\ sii_owner = "ecat" /\ sii_command = {}
            THEN /\ sii_command' = {[by |-> u, word |-> sii_word[u]]}
                 /\ sii_error' = FALSE
            ELSE UNCHANGED <<sii_command, sii_error>>
       /\ IF a.answered THEN SiiGoOn(u, "poll") ELSE SiiEnd(u, "failed")
  /\ UNCHANGED <<sii_call, sii_word, sii_walk, sii_image, sii_fresh, sii_eeprom, sii_owner,
                 sii_hung>>

\* No answer, an error or a timeout, which takes longer than any command that ends.
SiiPollFails(u) ==
  /\ sii_pc[u] = "poll"
  /\ SiiEnd(u, "failed")
  /\ UNCHANGED <<sii_call, sii_word, sii_walk, sii_image, sii_fresh, siiSlaveVars>>

\* A dword is read, a word is written.
SiiStep(u) == IF u = "scan" THEN 2 ELSE 1

\* Mutants: the loop ends an access too early or too late.
SiiLastEarly(u) ==
  (u = "scan" /\ sii_call = "headers") \/ sii_word[u] + 2 * SiiStep(u) >= SiiWords

SiiLastLate(u) ==
  (u = "scan" /\ sii_call = "headers") \/ sii_word[u] + SiiStep(u) > SiiWords

SiiLast(u) == (u = "scan" /\ sii_call = "headers") \/ sii_word[u] + SiiStep(u) >= SiiWords

SiiFetched(u, into) ==
  [w \in SiiAddresses |-> IF w \in {sii_word[u], sii_word[u] + 1} THEN sii_eeprom[w] ELSE into[w]]

\* Mutant: the busy bit is not waited for.
SiiPollOnce(u) ==
  /\ sii_pc[u] = "poll"
  /\ ~sii_error
  /\ sii_walk' = IF u = "scan" /\ sii_call = "headers" THEN SiiFetched(u, sii_walk)
                                                       ELSE sii_walk
  /\ sii_image' = IF u = "scan" /\ sii_call = "image" THEN SiiFetched(u, sii_image)
                                                      ELSE sii_image
  /\ IF SiiLast(u)
       THEN SiiGoOn(u, "hand_back") /\ UNCHANGED sii_word
       ELSE /\ SiiGoOn(u, "command")
            /\ sii_word' = [sii_word EXCEPT ![u] = @ + SiiStep(u)]
  /\ UNCHANGED <<sii_call, sii_fresh, siiSlaveVars>>

SiiPoll(u) ==
  /\ sii_pc[u] = "poll"
  /\ ~sii_error /\ sii_command = {}
  /\ sii_walk' = IF u = "scan" /\ sii_call = "headers" THEN SiiFetched(u, sii_walk)
                                                       ELSE sii_walk
  /\ sii_image' = IF u = "scan" /\ sii_call = "image" THEN SiiFetched(u, sii_image)
                                                      ELSE sii_image
  /\ IF SiiLast(u)
       THEN SiiGoOn(u, "hand_back") /\ UNCHANGED sii_word
       ELSE /\ SiiGoOn(u, "command")
            /\ sii_word' = [sii_word EXCEPT ![u] = @ + SiiStep(u)]
  /\ UNCHANGED <<sii_call, sii_fresh, siiSlaveVars>>

\* The scan goes on: to the header of another category, or to the image.
SiiNextRead ==
  /\ SiiGoOn("scan", "assign")
  /\ \/ /\ sii_call' = "headers"
        /\ \E w \in SiiAddresses :
             /\ w > sii_word["scan"] /\ w + 1 \in SiiAddresses
             /\ sii_word' = [sii_word EXCEPT !["scan"] = w]
     \/ /\ sii_call' = "image"
        /\ sii_word' = [sii_word EXCEPT !["scan"] = 0]
  /\ UNCHANGED sii_fresh

SiiSucceeds(u) ==
  /\ SiiEnd(u, "ok")
  /\ sii_fresh' = (u = "scan" \/ sii_fresh)
  /\ UNCHANGED <<sii_call, sii_word>>

esc_sii_assign_pdi(u) ==
  /\ sii_pc[u] = "hand_back"
  /\ \E a \in SiiAccesses :
       /\ sii_owner' = IF a.reached THEN "pdi" ELSE sii_owner
       /\ \/ /\ ~a.answered
             /\ SiiEnd(u, "failed")
             /\ UNCHANGED <<sii_call, sii_word, sii_fresh>>
          \/ /\ a.answered
             /\ IF u = "scan" /\ sii_call = "headers" THEN SiiNextRead ELSE SiiSucceeds(u)
  /\ UNCHANGED <<sii_walk, sii_image, sii_eeprom, sii_command, sii_error, sii_hung>>

-----------------------------------------------------------------------------
(***************************************************************************)
(* The EEPROM.                                                             *)
(***************************************************************************)
SiiExecutes ==
  /\ ~sii_hung
  /\ \E c \in sii_command :
       \/ /\ sii_eeprom' = IF c.by = "shell" THEN [sii_eeprom EXCEPT ![c.word] = "new"]
                                             ELSE sii_eeprom
          /\ UNCHANGED sii_error
       \/ sii_error' = TRUE /\ UNCHANGED sii_eeprom
  /\ sii_command' = {}
  /\ UNCHANGED <<siiUserVars, sii_owner, sii_hung>>

SiiHangs ==
  /\ sii_command # {} /\ ~sii_hung
  /\ sii_hung' = TRUE
  /\ UNCHANGED <<siiUserVars, sii_eeprom, sii_owner, sii_command, sii_error>>

\* A power cycle.
SiiRestarts ==
  /\ sii_hung /\ sii_lock = "free"
  /\ sii_hung' = FALSE
  /\ sii_command' = {}
  /\ sii_owner' = "pdi"
  /\ UNCHANGED <<siiUserVars, sii_eeprom, sii_error>>

SiiNext ==
  \/ SiiScan \/ SiiWrite
  \/ \E u \in SiiUsers :
       \/ ec_sii_assign_master(u) \/ SiiCommand(u)
       \/ SiiPollFails(u) \/ SiiPoll(u) \/ esc_sii_assign_pdi(u)
  \/ SiiExecutes \/ SiiHangs \/ SiiRestarts

SiiSpec == SiiInit /\ [][SiiNext]_siiVars

-----------------------------------------------------------------------------
\* The values of the variables.
SiiTypeOK ==
  /\ sii_lock \in {"free"} \cup SiiUsers
  /\ sii_pc \in [SiiUsers -> {"idle", "assign", "command", "poll", "hand_back"}]
  /\ sii_call \in {"headers", "image"}
  /\ sii_word \in [SiiUsers -> SiiAddresses]
  /\ sii_walk \in [SiiAddresses -> SiiVersions \cup {"none"}]
  /\ sii_image \in [SiiAddresses -> SiiVersions \cup {"none"}]
  /\ sii_fresh \in BOOLEAN
  /\ sii_last \in SiiUsers \cup {"none"}
  /\ sii_result \in [SiiUsers -> {"none", "ok", "failed"}]
  /\ sii_eeprom \in [SiiAddresses -> SiiVersions]
  /\ sii_owner \in {"ecat", "pdi"}
  /\ \A c \in sii_command : c.by \in SiiUsers /\ c.word \in SiiAddresses
  /\ sii_error \in BOOLEAN
  /\ sii_hung \in BOOLEAN

\* The image that a successful scan keeps is what the EEPROM holds, and so is every
\* category header from which its length was determined, although the image was read
\* again after the headers: no write got between two of the reads (ec_slave.c:1217-1246,
\* ec_cmd.c:669-671).
SiiImageFaithful ==
  sii_fresh => /\ sii_image = sii_eeprom
               /\ \A w \in SiiAddresses : sii_walk[w] \in {"none", sii_eeprom[w]}

\* A write that fails, wherever it does, has replaced a beginning of the image and
\* nothing behind it, so that a repeated write repairs it (ec_sii.c:168-173).
SiiWrittenInOrder ==
  \A v, w \in SiiAddresses : v < w /\ sii_eeprom[w] = "new" => sii_eeprom[v] = "new"

\* A write that succeeded is in the EEPROM to its last word, and the interface is the
\* slave's again when the last access, of either kind, succeeded (ec_sii.c:145, 175).
SiiSuccess ==
  /\ sii_pc["shell"] = "idle" /\ sii_result["shell"] = "ok"
       => \A w \in SiiAddresses : sii_eeprom[w] = "new"
  /\ sii_lock = "free" /\ sii_last # "none" /\ sii_owner = "ecat"
       => sii_result[sii_last] = "failed"
=============================================================================
