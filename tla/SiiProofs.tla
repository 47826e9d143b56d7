----------------------------- MODULE SiiProofs -----------------------------
(***************************************************************************)
(* Proofs about SiiAccess, for an EEPROM of any length, and about          *)
(* SiiCategories, for any number of categories of any sizes.               *)
(***************************************************************************)
EXTENDS SiiAccess, SiiCategories, TLAPS

Active(u) == sii_pc[u] # "idle"

Types ==
  /\ SiiTypeOK
  /\ sii_command = {} \/ \E c \in [by : SiiUsers, word : SiiAddresses] : sii_command = {c}

\* Who is in an access holds the lock; the EEPROM is free when a command is given.
Control ==
  /\ \A u \in SiiUsers : Active(u) => sii_lock = u
  /\ sii_hung => sii_command # {}
  /\ \A u \in SiiUsers : sii_pc[u] = "hand_back" => sii_command = {}
  /\ \A u \in SiiUsers : sii_pc[u] \in {"assign", "command"} => sii_command = {} \/ sii_hung
  /\ \A u \in SiiUsers : sii_pc[u] \in {"command", "poll"} => sii_owner = "ecat"
  /\ \A u \in SiiUsers, c \in sii_command :
       sii_pc[u] = "poll" /\ ~sii_hung => c.by = u /\ c.word = sii_word[u]

\* What the shell has come past is written, and so is the word it has waited for.
Written ==
  /\ Active("shell") => \A w \in SiiAddresses : w < sii_word["shell"] => sii_eeprom[w] = "new"
  /\ \A c \in sii_command :
       c.by = "shell" => \A w \in SiiAddresses : w < c.word => sii_eeprom[w] = "new"
  /\ sii_pc["shell"] = "poll" /\ sii_command = {} /\ ~sii_error
       => sii_eeprom[sii_word["shell"]] = "new"
  /\ sii_pc["shell"] = "hand_back" => \A w \in SiiAddresses : sii_eeprom[w] = "new"

\* While the scan reads, and until the next write, no command of the shell can change
\* what has been read.
Quiet == \A c \in sii_command : c.by = "shell" => sii_hung
ReadSoFar ==
  /\ Active("scan") \/ sii_fresh
       => /\ Quiet
          /\ \A w \in SiiAddresses : /\ sii_walk[w] \in {"none", sii_eeprom[w]}
                                    /\ sii_image[w] \in {"none", sii_eeprom[w]}
  /\ Active("scan") /\ sii_call = "image"
       => \A w \in SiiAddresses : w < sii_word["scan"] => sii_image[w] # "none"
  /\ (sii_pc["scan"] = "hand_back" /\ sii_call = "image") \/ sii_fresh
       => \A w \in SiiAddresses : sii_image[w] # "none"
  /\ sii_fresh => ~Active("shell") /\ ~Active("scan")

LEMMA UsersDiffer == "scan" \in SiiUsers /\ "shell" \in SiiUsers /\ "scan" # "shell"
BY DEF SiiUsers

LEMMA InitTypes == SiiInit => Types /\ Control
<1> SUFFICES ASSUME SiiInit PROVE Types /\ Control
  OBVIOUS
<1>1. 0 \in SiiAddresses
  BY SiiAssumption DEF SiiAddresses
<1>2. QED
  BY <1>1 DEF SiiInit, Types, SiiTypeOK, Control, Active, SiiUsers, SiiVersions

USE DEF siiUserVars, siiSlaveVars

\* Where a user that does not give the lock back goes on, and where one that does.
LEMMA TypesStep ==
  ASSUME Types, SiiNext
  PROVE  Types'
<1> USE DEF Types, SiiTypeOK
<1>0. 0 \in SiiAddresses /\ SiiWords \in Nat
  BY SiiAssumption DEF SiiAddresses
<1>1. CASE SiiScan
  BY <1>0, <1>1, UsersDiffer DEF SiiScan, SiiGoto, SiiVersions
<1>2. CASE SiiWrite
  BY <1>0, <1>2, UsersDiffer DEF SiiWrite, SiiGoto
<1>3. CASE \E u \in SiiUsers : ec_sii_assign_master(u)
  BY <1>3 DEF ec_sii_assign_master, SiiGoOn, SiiEnd, SiiGoto
<1>4. CASE \E u \in SiiUsers : SiiCommand(u)
  <2>1. PICK u \in SiiUsers : SiiCommand(u)
    BY <1>4
  <2>2. /\ \/ sii_command' = {[by |-> u, word |-> sii_word[u]]} /\ sii_error' = FALSE
           \/ UNCHANGED <<sii_command, sii_error>>
        /\ SiiGoOn(u, "poll") \/ SiiEnd(u, "failed")
        /\ UNCHANGED <<sii_call, sii_word, sii_walk, sii_image, sii_fresh, sii_eeprom,
                       sii_owner, sii_hung>>
    BY <2>1 DEF SiiCommand
  <2>3. [by |-> u, word |-> sii_word[u]] \in [by : SiiUsers, word : SiiAddresses]
    OBVIOUS
  <2>4. /\ sii_command' = {} \/ \E c \in [by : SiiUsers, word : SiiAddresses] : sii_command' = {c}
        /\ \A c \in sii_command' : c.by \in SiiUsers /\ c.word \in SiiAddresses
        /\ sii_error' \in BOOLEAN
    BY <2>2, <2>3
  <2>5. QED
    BY <2>2, <2>4 DEF SiiGoOn, SiiEnd, SiiGoto
<1>5. CASE \E u \in SiiUsers : SiiPollFails(u)
  BY <1>5 DEF SiiPollFails, SiiEnd, SiiGoto
<1>6. CASE \E u \in SiiUsers : SiiPoll(u)
  <2>1. PICK u \in SiiUsers : SiiPoll(u)
    BY <1>6
  <2>2. /\ SiiFetched(u, sii_walk) \in [SiiAddresses -> SiiVersions \cup {"none"}]
        /\ SiiFetched(u, sii_image) \in [SiiAddresses -> SiiVersions \cup {"none"}]
    BY DEF SiiFetched
  <2>3. /\ sii_walk' \in [SiiAddresses -> SiiVersions \cup {"none"}]
        /\ sii_image' \in [SiiAddresses -> SiiVersions \cup {"none"}]
    BY <2>1, <2>2 DEF SiiPoll
  <2>4. ~SiiLast(u) => sii_word[u] + SiiStep(u) \in SiiAddresses
    BY <1>0 DEF SiiLast, SiiStep, SiiAddresses
  <2>5. sii_word' \in [SiiUsers -> SiiAddresses]
    BY <2>1, <2>4 DEF SiiPoll
  <2>6. SiiGoOn(u, "hand_back") \/ SiiGoOn(u, "command")
    BY <2>1 DEF SiiPoll
  <2>7. QED
    BY <2>1, <2>3, <2>5, <2>6 DEF SiiPoll, SiiGoOn, SiiGoto
<1>7. CASE \E u \in SiiUsers : esc_sii_assign_pdi(u)
  <2>1. PICK u \in SiiUsers : esc_sii_assign_pdi(u)
    BY <1>7
  <2>2. /\ sii_owner' \in {"ecat", "pdi"}
        /\ UNCHANGED <<sii_walk, sii_image, sii_eeprom, sii_command, sii_error, sii_hung>>
        /\ \/ SiiEnd(u, "failed") /\ UNCHANGED <<sii_call, sii_word, sii_fresh>>
           \/ SiiNextRead
           \/ SiiSucceeds(u)
    BY <2>1 DEF esc_sii_assign_pdi
  <2>3. CASE SiiEnd(u, "failed") /\ UNCHANGED <<sii_call, sii_word, sii_fresh>>
    BY <2>2, <2>3 DEF SiiEnd, SiiGoto
  <2>4. CASE SiiNextRead
    BY <1>0, <2>2, <2>4, UsersDiffer DEF SiiNextRead, SiiGoOn, SiiGoto
  <2>5. CASE SiiSucceeds(u)
    BY <2>2, <2>5 DEF SiiSucceeds, SiiEnd, SiiGoto
  <2>6. QED
    BY <2>2, <2>3, <2>4, <2>5
<1>8. CASE SiiExecutes
  BY <1>8 DEF SiiExecutes, SiiVersions
<1>9. CASE SiiHangs
  BY <1>9 DEF SiiHangs
<1>10. CASE SiiRestarts
  BY <1>10 DEF SiiRestarts
<1>11. QED
  BY <1>1, <1>2, <1>3, <1>4, <1>5, <1>6, <1>7, <1>8, <1>9, <1>10 DEF SiiNext

LEMMA TypesInductive == SiiSpec => []Types
<1>1. Types /\ [SiiNext]_siiVars => Types'
  <2> SUFFICES ASSUME Types, [SiiNext]_siiVars PROVE Types'
    OBVIOUS
  <2>1. CASE SiiNext
    BY <2>1, TypesStep
  <2>2. CASE UNCHANGED siiVars
    BY <2>2 DEF siiVars, Types, SiiTypeOK
  <2>3. QED
    BY <2>1, <2>2
<1>2. QED
  BY <1>1, InitTypes, PTL DEF SiiSpec

\* Every variable keeps its type: no word offset beyond the image is asked for
\* (ec_sii.c:118-176).
THEOREM SiiTypeCorrect == SiiSpec => []SiiTypeOK
<1>1. Types => SiiTypeOK
  BY DEF Types
<1>2. QED
  BY <1>1, TypesInductive, PTL

-----------------------------------------------------------------------------
(***************************************************************************)
(* One access at a time.                                                   *)
(***************************************************************************)
LEMMA ControlStep ==
  ASSUME Types, Control, SiiNext
  PROVE  Control'
<1> USE DEF Types, SiiTypeOK, Control, Active
<1>1. CASE SiiScan
  <2>1. \A u \in SiiUsers : sii_pc[u] = "idle"
    BY <1>1 DEF SiiScan, SiiCanTake, SiiUsers
  <2>2. QED
    BY <1>1, <2>1, UsersDiffer DEF SiiScan, SiiGoto, SiiReady
<1>2. CASE SiiWrite
  <2>1. \A u \in SiiUsers : sii_pc[u] = "idle"
    BY <1>2 DEF SiiWrite, SiiCanTake, SiiUsers
  <2>2. QED
    BY <1>2, <2>1, UsersDiffer DEF SiiWrite, SiiGoto, SiiReady
<1>3. CASE \E u \in SiiUsers : ec_sii_assign_master(u)
  <2>1. PICK u \in SiiUsers : ec_sii_assign_master(u)
    BY <1>3
  <2>2. PICK a \in SiiAccesses :
          /\ sii_owner' = IF a.reached THEN "ecat" ELSE sii_owner
          /\ IF a.answered THEN SiiGoOn(u, "command") ELSE SiiEnd(u, "failed")
    BY <2>1 DEF ec_sii_assign_master
  <2>3. CASE a.answered
    BY <2>1, <2>2, <2>3 DEF ec_sii_assign_master, SiiGoOn, SiiGoto, SiiAccesses
  <2>4. CASE ~a.answered
    BY <2>1, <2>2, <2>4 DEF ec_sii_assign_master, SiiEnd, SiiGoto
  <2>5. QED
    BY <2>3, <2>4
<1>4. CASE \E u \in SiiUsers : SiiCommand(u)
  <2>1. PICK u \in SiiUsers : SiiCommand(u)
    BY <1>4
  <2>2. PICK a \in SiiAccesses :
          /\ IF a.reached /\ sii_owner = "ecat" /\ sii_command = {}
               THEN /\ sii_command' = {[by |-> u, word |-> sii_word[u]]}
                    /\ sii_error' = FALSE
               ELSE UNCHANGED <<sii_command, sii_error>>
          /\ IF a.answered THEN SiiGoOn(u, "poll") ELSE SiiEnd(u, "failed")
    BY <2>1 DEF SiiCommand
  <2>3. \A v \in SiiUsers \ {u} : sii_pc[v] = "idle"
    BY <2>1 DEF SiiCommand
  <2>4. CASE a.answered
    BY <2>1, <2>2, <2>3, <2>4 DEF SiiCommand, SiiGoOn, SiiGoto, SiiAccesses
  <2>5. CASE ~a.answered
    BY <2>1, <2>2, <2>3, <2>5 DEF SiiCommand, SiiEnd, SiiGoto
  <2>6. QED
    BY <2>4, <2>5
<1>5. CASE \E u \in SiiUsers : SiiPollFails(u)
  BY <1>5 DEF SiiPollFails, SiiEnd, SiiGoto
<1>6. CASE \E u \in SiiUsers : SiiPoll(u)
  <2>1. PICK u \in SiiUsers : SiiPoll(u)
    BY <1>6
  <2>2. (SiiGoOn(u, "hand_back") \/ SiiGoOn(u, "command")) /\ sii_command = {}
    BY <2>1 DEF SiiPoll
  <2>3. QED
    BY <2>1, <2>2 DEF SiiPoll, SiiGoOn, SiiGoto
<1>7. CASE \E u \in SiiUsers : esc_sii_assign_pdi(u)
  <2>1. PICK u \in SiiUsers : esc_sii_assign_pdi(u)
    BY <1>7
  <2>2. /\ UNCHANGED <<sii_command, sii_error, sii_hung>>
        /\ sii_pc[u] = "hand_back"
        /\ SiiEnd(u, "failed") \/ SiiEnd(u, "ok") \/ (u = "scan" /\ SiiGoOn(u, "assign"))
    BY <2>1 DEF esc_sii_assign_pdi, SiiNextRead, SiiSucceeds
  <2>3. \A v \in SiiUsers \ {u} : sii_pc[v] = "idle"
    BY <2>2
  <2>4. QED
    BY <2>2, <2>3 DEF SiiEnd, SiiGoOn, SiiGoto
<1>8. CASE SiiExecutes
  BY <1>8 DEF SiiExecutes
<1>9. CASE SiiHangs
  BY <1>9 DEF SiiHangs
<1>10. CASE SiiRestarts
  <2>1. \A u \in SiiUsers : sii_pc[u] = "idle"
    BY <1>10 DEF SiiRestarts, SiiUsers
  <2>2. QED
    BY <1>10, <2>1 DEF SiiRestarts
<1>11. QED
  BY <1>1, <1>2, <1>3, <1>4, <1>5, <1>6, <1>7, <1>8, <1>9, <1>10 DEF SiiNext

-----------------------------------------------------------------------------
(***************************************************************************)
(* Words are written in order.                                             *)
(***************************************************************************)
LEMMA InitWritten == SiiInit => Written /\ SiiWrittenInOrder
BY UsersDiffer DEF SiiInit, Written, SiiWrittenInOrder, Active

LEMMA WrittenStep ==
  ASSUME Types, Control, Written, SiiWrittenInOrder, SiiNext
  PROVE  Written' /\ SiiWrittenInOrder'
<1> USE DEF Types, SiiTypeOK, Control, Written, SiiWrittenInOrder, Active
<1>0. SiiAddresses \subseteq Int /\ "shell" \in SiiUsers
  BY SiiAssumption DEF SiiAddresses, SiiUsers
<1>1. CASE SiiScan
  BY <1>1, UsersDiffer DEF SiiScan, SiiGoto
<1>2. CASE SiiWrite
  <2>1. \A w \in SiiAddresses : ~(w < 0)
    BY SiiAssumption DEF SiiAddresses
  <2>2. QED
    BY <1>2, <2>1, UsersDiffer DEF SiiWrite, SiiGoto
<1>3. CASE \E u \in SiiUsers : ec_sii_assign_master(u)
  <2>1. PICK u \in SiiUsers : ec_sii_assign_master(u)
    BY <1>3
  <2>2. SiiGoto(u, "command") \/ SiiGoto(u, "idle")
    BY <2>1 DEF ec_sii_assign_master, SiiGoOn, SiiEnd
  <2>3. /\ UNCHANGED <<sii_word, sii_eeprom, sii_command, sii_error>>
        /\ sii_pc[u] = "assign"
    BY <2>1 DEF ec_sii_assign_master
  <2>4. /\ Active("shell")' => Active("shell")
        /\ sii_pc'["shell"] \in {"poll", "hand_back"} => sii_pc'["shell"] = sii_pc["shell"]
    BY <1>0, <2>2, <2>3 DEF SiiGoto
  <2>5. QED
    BY <2>3, <2>4
<1>4. CASE \E u \in SiiUsers : SiiCommand(u)
  <2>1. PICK u \in SiiUsers : SiiCommand(u)
    BY <1>4
  <2>2. \/ sii_command' = {[by |-> u, word |-> sii_word[u]]} /\ sii_error' = FALSE
        \/ UNCHANGED <<sii_command, sii_error>> /\ SiiGoto(u, "idle")
        \/ UNCHANGED <<sii_command, sii_error>> /\ sii_command # {}
    BY <2>1 DEF SiiCommand, SiiEnd, SiiAccesses
  <2>3. SiiGoto(u, "poll") \/ SiiGoto(u, "idle")
    BY <2>1 DEF SiiCommand, SiiGoOn, SiiEnd
  <2>4. UNCHANGED <<sii_word, sii_eeprom>> /\ Active(u)
    BY <2>1 DEF SiiCommand
  <2>5. \A v \in SiiUsers \ {u} : sii_pc[v] = "idle" /\ sii_pc'[v] = "idle"
    BY <2>3, <2>4 DEF SiiGoto
  <2>6. Written'
    <3>1. Active("shell")' => Active("shell")
      BY <1>0, <2>4, <2>5
    <3>2. \A c \in sii_command' :
            c.by = "shell" => \A w \in SiiAddresses : w < c.word => sii_eeprom[w] = "new"
      BY <2>2, <2>4
    <3>3. ~(sii_pc'["shell"] = "poll" /\ sii_command' = {})
      <4>1. CASE u = "shell"
        BY <2>2, <4>1 DEF SiiGoto
      <4>2. CASE u # "shell"
        BY <2>5, <4>2, <1>0
      <4>3. QED
        BY <4>1, <4>2
    <3>4. sii_pc'["shell"] # "hand_back"
      BY <2>3, <2>5, <1>0 DEF SiiGoto
    <3>5. QED
      BY <2>4, <3>1, <3>2, <3>3, <3>4
  <2>7. QED
    BY <2>4, <2>6
<1>5. CASE \E u \in SiiUsers : SiiPollFails(u)
  BY <1>5 DEF SiiPollFails, SiiEnd, SiiGoto
<1>6. CASE \E u \in SiiUsers : SiiPoll(u)
  <2>1. PICK u \in SiiUsers : SiiPoll(u)
    BY <1>6
  <2>2. CASE u = "scan"
    <3>1. sii_pc["shell"] = "idle" /\ sii_pc'["shell"] = "idle"
      BY <2>1, <2>2, UsersDiffer DEF SiiPoll, SiiGoOn, SiiGoto
    <3>2. QED
      BY <2>1, <3>1 DEF SiiPoll
  <2>3. CASE u = "shell"
    <3>1. \A w \in SiiAddresses : w < sii_word["shell"] + 1 => sii_eeprom[w] = "new"
      <4>1. sii_pc["shell"] = "poll" /\ sii_command = {} /\ ~sii_error
        BY <2>1, <2>3 DEF SiiPoll
      <4>2. /\ sii_eeprom[sii_word["shell"]] = "new"
            /\ \A w \in SiiAddresses : w < sii_word["shell"] => sii_eeprom[w] = "new"
        BY <4>1
      <4>3. \A w \in SiiAddresses :
              w < sii_word["shell"] + 1 => w < sii_word["shell"] \/ w = sii_word["shell"]
        <5>1. TAKE w \in SiiAddresses
        <5>2. w \in Int /\ sii_word["shell"] \in Int
          BY <1>0
        <5>3. QED
          BY <5>2
      <4>4. QED
        BY <4>2, <4>3
    <3>2. CASE SiiLast(u)
      <4>1. \A w \in SiiAddresses : w < sii_word["shell"] + 1
        <5>1. sii_word["shell"] + 1 >= SiiWords
          BY <3>2, <2>3, UsersDiffer DEF SiiLast, SiiStep
        <5>2. sii_word["shell"] \in Int
          BY <1>0
        <5>3. TAKE w \in SiiAddresses
        <5>4. w \in Int /\ w <= SiiWords - 1 /\ SiiWords \in Int
          BY SiiAssumption DEF SiiAddresses
        <5>5. QED
          BY <5>1, <5>2, <5>4
      <4>2. QED
        BY <2>1, <2>3, <3>1, <3>2, <4>1 DEF SiiPoll, SiiGoOn, SiiGoto
    <3>3. CASE ~SiiLast(u)
      <4>1. sii_word'["shell"] = sii_word["shell"] + 1 /\ sii_pc'["shell"] = "command"
        BY <2>1, <2>3, <3>3, UsersDiffer DEF SiiPoll, SiiGoOn, SiiGoto, SiiStep
      <4>2. QED
        BY <2>1, <2>3, <3>1, <4>1 DEF SiiPoll
    <3>4. QED
      BY <3>2, <3>3
  <2>4. QED
    BY <2>1, <2>2, <2>3 DEF SiiUsers
<1>7. CASE \E u \in SiiUsers : esc_sii_assign_pdi(u)
  <2>1. PICK u \in SiiUsers : esc_sii_assign_pdi(u)
    BY <1>7
  <2>2. UNCHANGED <<sii_eeprom, sii_command, sii_error>>
    BY <2>1 DEF esc_sii_assign_pdi
  <2>3. \/ SiiGoto(u, "idle") /\ UNCHANGED sii_word
        \/ /\ u = "scan" /\ SiiGoto(u, "assign")
           /\ \E n \in Int : sii_word' = [sii_word EXCEPT !["scan"] = n]
    BY <2>1, <1>0 DEF esc_sii_assign_pdi, SiiNextRead, SiiSucceeds, SiiEnd, SiiGoOn
  <2>4. Active("shell")' => Active("shell") /\ sii_pc'["shell"] = sii_pc["shell"]
    BY <2>3, <1>0 DEF SiiGoto
  <2>5. sii_word'["shell"] = sii_word["shell"]
    BY <2>3, UsersDiffer
  <2>6. QED
    BY <2>2, <2>4, <2>5
<1>8. CASE SiiExecutes
  <2>1. PICK c \in sii_command :
          \/ /\ sii_eeprom' = IF c.by = "shell" THEN [sii_eeprom EXCEPT ![c.word] = "new"]
                                                ELSE sii_eeprom
             /\ UNCHANGED sii_error
          \/ sii_error' = TRUE /\ UNCHANGED sii_eeprom
    BY <1>8 DEF SiiExecutes
  <2>2. \A w \in SiiAddresses : sii_eeprom[w] = "new" => sii_eeprom'[w] = "new"
    BY <2>1
  <2>3. SiiWrittenInOrder'
    BY <1>0, <2>1
  <2>4. sii_pc["shell"] = "poll" /\ ~sii_error' => sii_eeprom'[sii_word["shell"]] = "new"
    BY <1>0, <1>8, <2>1 DEF SiiExecutes
  <2>5. QED
    BY <1>8, <2>2, <2>3, <2>4 DEF SiiExecutes
<1>9. CASE SiiHangs
  BY <1>9 DEF SiiHangs
<1>10. CASE SiiRestarts
  BY <1>0, <1>10 DEF SiiRestarts
<1>11. QED
  BY <1>1, <1>2, <1>3, <1>4, <1>5, <1>6, <1>7, <1>8, <1>9, <1>10 DEF SiiNext

-----------------------------------------------------------------------------
(***************************************************************************)
(* The image of a scan is the EEPROM's.                                    *)
(***************************************************************************)
LEMMA InitRead == SiiInit => ReadSoFar
BY DEF SiiInit, ReadSoFar, Active, SiiUsers

\* A step that reads nothing and leaves alone what has been read keeps the claim.
LEMMA ReadKept ==
  ASSUME ReadSoFar, Quiet',
         UNCHANGED <<sii_walk, sii_image, sii_eeprom, sii_fresh, sii_call, sii_word>>,
         Active("scan")' => Active("scan"),
         Active("shell")' => Active("shell"),
         sii_pc'["scan"] = "hand_back" => sii_pc["scan"] = "hand_back"
  PROVE  ReadSoFar'
BY DEF ReadSoFar, Active

LEMMA ReadStep ==
  ASSUME Types, Control, ReadSoFar, SiiNext
  PROVE  ReadSoFar'
<1> USE DEF Types, SiiTypeOK, Control, Active
<1>0. SiiAddresses \subseteq Int /\ "scan" \in SiiUsers /\ "shell" \in SiiUsers
      /\ "scan" # "shell" /\ sii_word["scan"] \in Int
  BY UsersDiffer, SiiAssumption DEF SiiAddresses
<1>a. \A u \in SiiUsers : Active(u) => \A v \in SiiUsers \ {u} : ~Active(v)
  OBVIOUS
<1>1. CASE SiiScan
  <2>1. /\ \A w \in SiiAddresses : sii_walk'[w] = "none" /\ sii_image'[w] = "none"
        /\ sii_call' = "headers" /\ sii_fresh' = FALSE
        /\ sii_pc'["scan"] = "assign"
    BY <1>0, <1>1 DEF SiiScan, SiiGoto
  <2>2. Quiet'
    BY <1>1 DEF SiiScan, SiiReady, Quiet
  <2>3. QED
    BY <2>1, <2>2 DEF ReadSoFar
<1>2. CASE SiiWrite
  <2>1. ~Active("scan") /\ sii_pc'["scan"] = sii_pc["scan"] /\ sii_fresh' = FALSE
    BY <1>0, <1>2 DEF SiiWrite, SiiCanTake, SiiGoto, SiiUsers
  <2>2. QED
    BY <2>1 DEF ReadSoFar
<1>3. CASE \E u \in SiiUsers : ec_sii_assign_master(u)
  <2>1. PICK u \in SiiUsers : ec_sii_assign_master(u)
    BY <1>3
  <2>2. /\ UNCHANGED <<sii_walk, sii_image, sii_eeprom, sii_fresh, sii_call, sii_word,
                       sii_command, sii_hung>>
        /\ SiiGoto(u, "command") \/ SiiGoto(u, "idle")
        /\ Active(u)
    BY <2>1 DEF ec_sii_assign_master, SiiGoOn, SiiEnd
  <2>3. /\ \A v \in SiiUsers : Active(v)' => Active(v)
        /\ sii_pc'["scan"] = "hand_back" => sii_pc["scan"] = "hand_back"
    BY <1>0, <2>2 DEF SiiGoto
  <2>4. CASE Active("scan") \/ sii_fresh
    BY <1>0, <2>2, <2>3, <2>4, ReadKept DEF ReadSoFar, Quiet
  <2>5. CASE ~Active("scan") /\ ~sii_fresh
    BY <1>0, <2>2, <2>3, <2>5 DEF ReadSoFar
  <2>6. QED
    BY <2>4, <2>5
<1>4. CASE \E u \in SiiUsers : SiiCommand(u)
  <2>1. PICK u \in SiiUsers : SiiCommand(u)
    BY <1>4
  <2>2. /\ UNCHANGED <<sii_walk, sii_image, sii_eeprom, sii_fresh, sii_call, sii_word, sii_hung>>
        /\ SiiGoto(u, "poll") \/ SiiGoto(u, "idle")
        /\ \/ sii_command' = {[by |-> u, word |-> sii_word[u]]}
           \/ UNCHANGED sii_command
        /\ Active(u)
    BY <2>1 DEF SiiCommand, SiiGoOn, SiiEnd
  <2>3. /\ \A v \in SiiUsers : Active(v)' => Active(v)
        /\ sii_pc'["scan"] = "hand_back" => sii_pc["scan"] = "hand_back"
    BY <1>0, <2>2 DEF SiiGoto
  <2>4. CASE Active("scan") \/ sii_fresh
    <3>1. u = "scan"
      BY <1>0, <1>a, <2>2, <2>4 DEF ReadSoFar, SiiUsers
    <3>2. Quiet'
      BY <1>0, <2>2, <2>4, <3>1 DEF Quiet, ReadSoFar
    <3>3. QED
      BY <1>0, <2>2, <2>3, <3>2, ReadKept
  <2>5. CASE ~Active("scan") /\ ~sii_fresh
    BY <1>0, <2>2, <2>3, <2>5 DEF ReadSoFar
  <2>6. QED
    BY <2>4, <2>5
<1>5. CASE \E u \in SiiUsers : SiiPollFails(u)
  <2>1. PICK u \in SiiUsers : SiiPollFails(u)
    BY <1>5
  <2>2. /\ UNCHANGED <<sii_walk, sii_image, sii_eeprom, sii_fresh, sii_call, sii_word,
                       sii_command, sii_hung>>
        /\ SiiGoto(u, "idle")
    BY <2>1 DEF SiiPollFails, SiiEnd
  <2>3. /\ \A v \in SiiUsers : Active(v)' => Active(v)
        /\ sii_pc'["scan"] = "hand_back" => sii_pc["scan"] = "hand_back"
    BY <1>0, <2>2 DEF SiiGoto
  <2>4. CASE Active("scan") \/ sii_fresh
    BY <1>0, <2>2, <2>3, <2>4, ReadKept DEF ReadSoFar, Quiet
  <2>5. CASE ~Active("scan") /\ ~sii_fresh
    BY <1>0, <2>2, <2>3, <2>5 DEF ReadSoFar
  <2>6. QED
    BY <2>4, <2>5
<1>6. CASE \E u \in SiiUsers : SiiPoll(u)
  <2>1. PICK u \in SiiUsers : SiiPoll(u)
    BY <1>6
  <2>2. Active(u) /\ UNCHANGED <<sii_eeprom, sii_fresh, sii_call, sii_command, sii_hung>>
        /\ (SiiGoto(u, "hand_back") \/ SiiGoto(u, "command"))
    BY <2>1 DEF SiiPoll, SiiGoOn
  <2>3. CASE u = "shell"
    <3>1. ~Active("scan") /\ sii_pc'["scan"] = sii_pc["scan"] /\ ~sii_fresh
      BY <1>0, <1>a, <2>2, <2>3 DEF SiiGoto, ReadSoFar
    <3>2. QED
      BY <2>2, <3>1 DEF ReadSoFar
  <2>4. CASE u = "scan"
    <3>1. /\ \A w \in SiiAddresses : /\ sii_walk[w] \in {"none", sii_eeprom[w]}
                                     /\ sii_image[w] \in {"none", sii_eeprom[w]}
          /\ Quiet
      BY <2>2, <2>4 DEF ReadSoFar
    <3>2. ~sii_fresh /\ ~Active("shell") /\ sii_pc'["shell"] = sii_pc["shell"]
      BY <1>0, <1>a, <2>2, <2>4 DEF ReadSoFar, SiiGoto
    <3>3. \A w \in SiiAddresses : /\ sii_walk'[w] \in {"none", sii_eeprom[w]}
                                  /\ sii_image'[w] \in {"none", sii_eeprom[w]}
      BY <2>1, <3>1 DEF SiiPoll, SiiFetched
    <3>4. Quiet'
      BY <2>2, <3>1 DEF Quiet
    <3>5. CASE sii_call = "image"
      <4>1. \A w \in SiiAddresses : w < sii_word["scan"] => sii_image[w] # "none"
        BY <2>2, <2>4, <3>5 DEF ReadSoFar
      <4>2. \A w \in SiiAddresses :
              sii_image'[w] = IF w \in {sii_word["scan"], sii_word["scan"] + 1}
                                THEN sii_eeprom[w] ELSE sii_image[w]
        BY <2>1, <2>4, <3>5 DEF SiiPoll, SiiFetched
      <4>3. \A w \in SiiAddresses : w < sii_word["scan"] + 2 => sii_image'[w] # "none"
        <5>1. TAKE w \in SiiAddresses
        <5>2. w \in Int /\ sii_word["scan"] \in Int /\ sii_eeprom[w] # "none"
          BY <1>0 DEF SiiVersions
        <5>3. QED
          BY <4>1, <4>2, <5>2
      <4>4. CASE SiiLast(u)
        <5>1. sii_word["scan"] + 2 >= SiiWords
          BY <2>4, <3>5, <4>4 DEF SiiLast, SiiStep
        <5>2. \A w \in SiiAddresses : w < sii_word["scan"] + 2
          <6>1. TAKE w \in SiiAddresses
          <6>2. w \in Int /\ w <= SiiWords - 1 /\ SiiWords \in Int
            BY SiiAssumption DEF SiiAddresses
          <6>3. QED
            BY <1>0, <5>1, <6>2
        <5>3. \A w \in SiiAddresses : sii_image'[w] # "none"
          BY <4>3, <5>2
        <5>4. QED
          BY <2>2, <3>2, <3>3, <3>4, <5>3 DEF ReadSoFar
      <4>5. CASE ~SiiLast(u)
        <5>1. /\ sii_word'["scan"] = sii_word["scan"] + 2
              /\ sii_pc'["scan"] = "command"
          BY <1>0, <2>1, <2>4, <4>5 DEF SiiPoll, SiiStep, SiiGoOn, SiiGoto
        <5>2. \A w \in SiiAddresses : w < sii_word'["scan"] => sii_image'[w] # "none"
          BY <4>3, <5>1
        <5>3. QED
          BY <2>2, <3>2, <3>3, <3>4, <5>1, <5>2 DEF ReadSoFar
      <4>6. QED
        BY <4>4, <4>5
    <3>6. CASE sii_call # "image"
      BY <2>2, <3>2, <3>3, <3>4, <3>6 DEF ReadSoFar
    <3>7. QED
      BY <3>5, <3>6
  <2>5. QED
    BY <2>1, <2>3, <2>4 DEF SiiUsers
<1>7. CASE \E u \in SiiUsers : esc_sii_assign_pdi(u)
  <2>1. PICK u \in SiiUsers : esc_sii_assign_pdi(u)
    BY <1>7
  <2>2. /\ UNCHANGED <<sii_walk, sii_image, sii_eeprom, sii_command, sii_hung>>
        /\ sii_pc[u] = "hand_back"
        /\ sii_command = {}
        /\ Quiet'
    BY <2>1 DEF esc_sii_assign_pdi, Quiet
  <2>3. CASE SiiEnd(u, "failed") /\ UNCHANGED <<sii_call, sii_word, sii_fresh>>
    <3>1. /\ \A v \in SiiUsers : Active(v)' => Active(v)
          /\ sii_pc'["scan"] = "hand_back" => sii_pc["scan"] = "hand_back"
      BY <1>0, <2>2, <2>3 DEF SiiEnd, SiiGoto
    <3>2. QED
      BY <1>0, <2>2, <2>3, <3>1, ReadKept
  <2>4. CASE u = "scan" /\ SiiNextRead
    <3>1. sii_pc'["scan"] = "assign" /\ sii_pc'["shell"] = sii_pc["shell"]
          /\ UNCHANGED sii_fresh
      BY <1>0, <2>4 DEF SiiNextRead, SiiGoOn, SiiGoto
    <3>2. \A w \in SiiAddresses : sii_call' = "image" => ~(w < sii_word'["scan"])
      <4>1. sii_call' = "image" => sii_word'["scan"] = 0
        BY <1>0, <2>4 DEF SiiNextRead
      <4>2. \A w \in SiiAddresses : ~(w < 0)
        BY SiiAssumption DEF SiiAddresses
      <4>3. QED
        BY <4>1, <4>2
    <3>3. QED
      BY <2>2, <2>4, <3>1, <3>2 DEF ReadSoFar
  <2>5. CASE SiiSucceeds(u) /\ ~(u = "scan" /\ sii_call = "headers")
    <3>1. sii_pc'[u] = "idle" /\ \A v \in SiiUsers \ {u} : sii_pc'[v] = "idle"
      BY <1>a, <2>2, <2>5 DEF SiiSucceeds, SiiEnd, SiiGoto
    <3>2. ~Active("scan")' /\ ~Active("shell")'
      BY <1>0, <3>1
    <3>3. CASE u = "shell"
      BY <1>0, <2>2, <2>5, <3>2, <3>3 DEF SiiSucceeds, ReadSoFar
    <3>4. CASE u = "scan"
      BY <2>2, <2>5, <3>2, <3>4 DEF SiiSucceeds, ReadSoFar
    <3>5. QED
      BY <3>3, <3>4 DEF SiiUsers
  <2>6. QED
    BY <2>1, <2>3, <2>4, <2>5 DEF esc_sii_assign_pdi
<1>8. CASE SiiExecutes
  <2>1. UNCHANGED <<siiUserVars, sii_hung>> /\ sii_command' = {} /\ ~sii_hung
    BY <1>8 DEF SiiExecutes
  <2>2. Active("scan") \/ sii_fresh => UNCHANGED sii_eeprom
    BY <1>8 DEF SiiExecutes, ReadSoFar, Quiet
  <2>3. QED
    BY <2>1, <2>2 DEF ReadSoFar, Quiet
<1>9. CASE SiiHangs
  BY <1>9 DEF SiiHangs, ReadSoFar, Quiet
<1>10. CASE SiiRestarts
  BY <1>10 DEF SiiRestarts, ReadSoFar, Quiet
<1>11. QED
  BY <1>1, <1>2, <1>3, <1>4, <1>5, <1>6, <1>7, <1>8, <1>9, <1>10 DEF SiiNext

-----------------------------------------------------------------------------
(***************************************************************************)
(* Success.                                                                *)
(***************************************************************************)
LEMMA InitSuccess == SiiInit => SiiSuccess
BY UsersDiffer DEF SiiInit, SiiSuccess

LEMMA SuccessStep ==
  ASSUME Types, Control, Written, SiiSuccess, SiiNext
  PROVE  SiiSuccess'
<1> USE UsersDiffer DEF Types, SiiTypeOK, Active
<1>1. CASE SiiScan
  BY <1>1 DEF SiiScan, SiiGoto, SiiSuccess
<1>2. CASE SiiWrite
  BY <1>2 DEF SiiWrite, SiiGoto, SiiSuccess
<1>3. ASSUME NEW u \in SiiUsers, Active(u), UNCHANGED sii_eeprom,
             \/ \E label \in {"assign", "command", "poll", "hand_back"} : SiiGoOn(u, label)
             \/ SiiEnd(u, "failed")
      PROVE  SiiSuccess'
  <2>1. sii_lock = u
    BY <1>3 DEF Control
  <2>2. CASE SiiEnd(u, "failed")
    BY <1>3, <2>2 DEF SiiEnd, SiiGoto, SiiSuccess
  <2>3. CASE \E label \in {"assign", "command", "poll", "hand_back"} : SiiGoOn(u, label)
    <3>1. PICK label \in {"assign", "command", "poll", "hand_back"} : SiiGoOn(u, label)
      BY <2>3
    <3>2. sii_lock' # "free"
      BY <2>1, <3>1 DEF SiiGoOn, SiiUsers
    <3>3. sii_pc'["shell"] = "idle" => sii_pc["shell"] = "idle"
      BY <3>1 DEF SiiGoOn, SiiGoto
    <3>4. QED
      BY <1>3, <3>1, <3>2, <3>3 DEF SiiGoOn, SiiSuccess
  <2>4. QED
    BY <1>3, <2>2, <2>3
<1>4. CASE \E u \in SiiUsers : ec_sii_assign_master(u)
  BY <1>3, <1>4 DEF ec_sii_assign_master
<1>5. CASE \E u \in SiiUsers : SiiCommand(u)
  BY <1>3, <1>5 DEF SiiCommand
<1>6. CASE \E u \in SiiUsers : SiiPollFails(u)
  BY <1>3, <1>6 DEF SiiPollFails, siiSlaveVars
<1>7. CASE \E u \in SiiUsers : SiiPoll(u)
  BY <1>3, <1>7 DEF SiiPoll, siiSlaveVars
<1>8. CASE \E u \in SiiUsers : esc_sii_assign_pdi(u)
  <2>1. PICK u \in SiiUsers : esc_sii_assign_pdi(u)
    BY <1>8
  <2>2. Active(u) /\ UNCHANGED sii_eeprom
    BY <2>1 DEF esc_sii_assign_pdi
  <2>3. \/ SiiEnd(u, "failed")
        \/ SiiNextRead /\ u = "scan"
        \/ SiiSucceeds(u) /\ sii_owner' = "pdi"
    <3>1. PICK a \in SiiAccesses :
            /\ sii_owner' = IF a.reached THEN "pdi" ELSE sii_owner
            /\ \/ ~a.answered /\ SiiEnd(u, "failed")
               \/ a.answered /\ SiiNextRead /\ u = "scan"
               \/ a.answered /\ SiiSucceeds(u)
      BY <2>1 DEF esc_sii_assign_pdi
    <3>2. a.answered => a.reached
      BY DEF SiiAccesses
    <3>3. a.answered => sii_owner' = "pdi"
      BY <3>1, <3>2
    <3>4. QED
      BY <3>1, <3>3
  <2>4. CASE SiiSucceeds(u) /\ sii_owner' = "pdi"
    <3>1. u = "shell" => \A w \in SiiAddresses : sii_eeprom[w] = "new"
      BY <2>1 DEF esc_sii_assign_pdi, Written
    <3>2. QED
      BY <2>2, <2>4, <3>1 DEF SiiSucceeds, SiiEnd, SiiGoto, SiiSuccess
  <2>5. QED
    BY <1>3, <2>2, <2>3, <2>4 DEF SiiNextRead
<1>9. CASE SiiExecutes
  <2>1. \A w \in SiiAddresses : sii_eeprom[w] = "new" => sii_eeprom'[w] = "new"
    BY <1>9 DEF SiiExecutes
  <2>2. QED
    BY <1>9, <2>1 DEF SiiExecutes, SiiSuccess
<1>10. CASE SiiHangs
  BY <1>10 DEF SiiHangs, SiiSuccess
<1>11. CASE SiiRestarts
  BY <1>11 DEF SiiRestarts, SiiSuccess
<1>12. QED
  BY <1>1, <1>2, <1>4, <1>5, <1>6, <1>7, <1>8, <1>9, <1>10, <1>11 DEF SiiNext

-----------------------------------------------------------------------------
(***************************************************************************)
(* The theorems.                                                           *)
(***************************************************************************)
SiiInv == Types /\ Control /\ Written /\ SiiWrittenInOrder /\ ReadSoFar /\ SiiSuccess

LEMMA SiiInductive == SiiSpec => []SiiInv
<1>1. SiiInit => SiiInv
  BY InitTypes, InitWritten, InitRead, InitSuccess DEF SiiInv
<1>2. SiiInv /\ [SiiNext]_siiVars => SiiInv'
  <2> SUFFICES ASSUME SiiInv, [SiiNext]_siiVars PROVE SiiInv'
    OBVIOUS
  <2>1. CASE SiiNext
    BY <2>1, TypesStep, ControlStep, WrittenStep, ReadStep, SuccessStep DEF SiiInv
  <2>2. CASE UNCHANGED siiVars
    <3>1. Types' /\ Control'
      BY <2>2 DEF SiiInv, siiVars, Types, SiiTypeOK, Control, Active
    <3>2. Written' /\ SiiWrittenInOrder'
      BY <2>2 DEF SiiInv, siiVars, Written, SiiWrittenInOrder, Active
    <3>3. ReadSoFar'
      BY <2>2 DEF SiiInv, siiVars, ReadSoFar, Quiet, Active
    <3>4. SiiSuccess'
      BY <2>2 DEF SiiInv, siiVars, SiiSuccess
    <3>5. QED
      BY <3>1, <3>2, <3>3, <3>4 DEF SiiInv
  <2>3. QED
    BY <2>1, <2>2
<1>3. QED
  BY <1>1, <1>2, PTL DEF SiiSpec

\* However accesses fail and whenever the EEPROM hangs, the new words are at the
\* beginning (ec_sii_write, ec_sii.c:148-176).
THEOREM SiiAlwaysInOrder == SiiSpec => []SiiWrittenInOrder
<1>1. SiiInv => SiiWrittenInOrder
  BY DEF SiiInv
<1>2. QED
  BY <1>1, SiiInductive, PTL

\* The lock keeps a write out of the scan: the image kept is the EEPROM's
\* (ec_slave.c:1217-1246, ec_cmd.c:669-671).
THEOREM SiiAlwaysFaithful == SiiSpec => []SiiImageFaithful
<1>1. SiiInv => SiiImageFaithful
  <2> SUFFICES ASSUME SiiInv, sii_fresh
               PROVE  /\ sii_image = sii_eeprom
                      /\ \A w \in SiiAddresses : sii_walk[w] \in {"none", sii_eeprom[w]}
    BY DEF SiiImageFaithful
  <2>1. \A w \in SiiAddresses : sii_image[w] = sii_eeprom[w]
    BY DEF SiiInv, ReadSoFar
  <2>2. sii_image = sii_eeprom
    BY <2>1 DEF SiiInv, Types, SiiTypeOK
  <2>3. QED
    BY <2>2 DEF SiiInv, ReadSoFar
<1>2. QED
  BY <1>1, SiiInductive, PTL

\* A write reported as done is done to its last word, and only a failed access keeps the
\* interface from the slave (ec_sii.c:145, 175).
THEOREM SiiAlwaysSucceeds == SiiSpec => []SiiSuccess
<1>1. SiiInv => SiiSuccess
  BY DEF SiiInv
<1>2. QED
  BY <1>1, SiiInductive, PTL

-----------------------------------------------------------------------------
(***************************************************************************)
(* The categories.  Where the walk and the parser are is the beginning of  *)
(* one of them or the end marker; the walk adds up without a wrap, and the *)
(* length that it finds reaches behind the end marker.                     *)
(***************************************************************************)
CatLayout ==
  /\ cat_sizes \in Seq(CatSizes)
  /\ cat_behind \in 0 .. CatRange - 1
  /\ cat_starts \in Seq(Nat)
  /\ Len(cat_starts) = Len(cat_sizes) + 1
  /\ cat_starts[1] = CatFirst
  /\ \A k \in 1 .. Len(cat_sizes) : cat_starts[k + 1] = cat_starts[k] + 2 + cat_sizes[k]
  /\ \A j, k \in 1 .. Len(cat_sizes) + 1 : j < k => cat_starts[j] < cat_starts[k]

CatWalking ==
  cat_pc = "walk" /\ CatSupported =>
    \E k \in 1 .. Len(cat_sizes) + 1 : cat_offset = cat_starts[k] /\ cat_starts[k] < CatMax

CatParsing ==
  cat_pc \in {"parse", "parsed"} /\ CatSupported =>
    /\ cat_nwords \in Nat /\ CatEnd < cat_nwords
    /\ Len(cat_parsed) <= Len(cat_sizes)
    /\ \A k \in 1 .. Len(cat_parsed) : cat_parsed[k] = cat_sizes[k]
    /\ cat_offset = cat_starts[Len(cat_parsed) + 1]
    /\ cat_pc = "parsed" => Len(cat_parsed) = Len(cat_sizes)

CatInv ==
  /\ CatLayout /\ CatWalking /\ CatParsing
  /\ cat_pc \in {"idle", "walk", "parse", "parsed", "outside"}
  /\ cat_parsed \in Seq(Nat)
  /\ cat_pc \in {"idle", "walk"} => cat_parsed = <<>>
  /\ cat_pc = "outside" => ~CatSupported

LEMMA CatPlaces ==
  ASSUME CatLayout
  PROVE  /\ Len(cat_sizes) \in Nat /\ DOMAIN cat_sizes = 1 .. Len(cat_sizes)
         /\ \A k \in 1 .. Len(cat_sizes) :
              /\ cat_sizes[k] \in CatSizes /\ cat_sizes[k] \in Nat
              /\ cat_starts[k + 1] = cat_starts[k] + 2 + cat_sizes[k]
         /\ \A k \in 1 .. Len(cat_sizes) + 1 : cat_starts[k] \in Nat /\ cat_starts[k] <= CatEnd
         /\ CatEnd \in Nat
<1>1. Len(cat_sizes) \in Nat /\ DOMAIN cat_sizes = 1 .. Len(cat_sizes)
  BY DEF CatLayout
<1>2. \A k \in 1 .. Len(cat_sizes) + 1 : cat_starts[k] \in Nat
  BY <1>1 DEF CatLayout
<1>3. \A k \in 1 .. Len(cat_sizes) : cat_sizes[k] \in CatSizes
  BY <1>1 DEF CatLayout
<1>4. \A x \in CatSizes : x \in Nat
  BY CatAssumption
<1>5. Len(cat_sizes) + 1 \in 1 .. Len(cat_sizes) + 1
  BY <1>1
<1>6. CatEnd \in Nat
  BY <1>2, <1>5 DEF CatEnd
<1>7. ASSUME NEW k \in 1 .. Len(cat_sizes) + 1
      PROVE  cat_starts[k] <= CatEnd
  <2>1. CASE k = Len(cat_sizes) + 1
    BY <1>6, <2>1 DEF CatEnd
  <2>2. CASE k # Len(cat_sizes) + 1
    <3>1. k < Len(cat_sizes) + 1
      BY <1>1, <2>2
    <3>2. cat_starts[k] < CatEnd
      BY <1>5, <3>1 DEF CatLayout, CatEnd
    <3>3. QED
      BY <1>2, <1>6, <3>2
  <2>3. QED
    BY <2>1, <2>2
<1>8. QED
  BY <1>1, <1>2, <1>3, <1>4, <1>6, <1>7 DEF CatLayout

\* At the beginning of a category its header is read, and at the end the end marker.
LEMMA CatHeaderAt ==
  ASSUME CatLayout, NEW k \in 1 .. Len(cat_sizes) + 1
  PROVE  CatHeaders(cat_starts[k]) =
           IF k = Len(cat_sizes) + 1 THEN {[end |-> TRUE, size |-> cat_behind]}
                                     ELSE {[end |-> FALSE, size |-> cat_sizes[k]]}
<1>1. CASE k = Len(cat_sizes) + 1
  BY <1>1 DEF CatHeaders, CatEnd
<1>2. CASE k # Len(cat_sizes) + 1
  <2>0. Len(cat_sizes) \in Nat /\ DOMAIN cat_sizes = 1 .. Len(cat_sizes)
    BY DEF CatLayout
  <2>1. k \in DOMAIN cat_sizes /\ k < Len(cat_sizes) + 1
    BY <1>2, <2>0
  <2>2. \A j \in 1 .. Len(cat_sizes) + 1 : cat_starts[j] \in Nat
    BY <2>0 DEF CatLayout
  <2>3. \A j \in 1 .. Len(cat_sizes) + 1 : cat_starts[j] = cat_starts[k] => j = k
    BY <2>0, <2>2 DEF CatLayout
  <2>4. cat_starts[k] # CatEnd
    BY <1>2, <2>0, <2>3 DEF CatEnd
  <2>5. {j \in DOMAIN cat_sizes : cat_starts[k] = cat_starts[j]} = {k}
    BY <2>0, <2>1, <2>3
  <2>6. QED
    BY <1>2, <2>4, <2>5 DEF CatHeaders
<1>3. QED
  BY <1>1, <1>2

\* A sum of one word that does not reach the range does not wrap around, and one that is
\* short of twice the range wraps once.
LEMMA CatNoWrap ==
  ASSUME NEW n \in 0 .. CatRange - 1
  PROVE  n % CatRange = n /\ (n + CatRange) % CatRange = n
BY CatAssumption

LEMMA CatAligned ==
  ASSUME NEW n \in Nat
  PROVE  CatAlign(n) \in Nat /\ CatAlign(n) >= n
BY DEF CatAlign

LEMMA CatWrittenStep ==
  ASSUME CatInv, CatWritten
  PROVE  CatInv'
<1> DEFINE n == Len(cat_sizes)
<1>0. n \in Nat /\ cat_pc = "idle" /\ cat_parsed = <<>>
  BY DEF CatInv, CatLayout, CatWritten
<1>1. PICK size \in CatSizes : /\ cat_sizes' = Append(cat_sizes, size)
                               /\ cat_starts' = Append(cat_starts, CatEnd + 2 + size)
  BY DEF CatWritten
<1>2. size \in Nat /\ CatEnd \in Nat /\ CatEnd = cat_starts[n + 1]
  BY <1>0, CatAssumption DEF CatInv, CatLayout, CatEnd
<1>3. /\ cat_sizes' \in Seq(CatSizes) /\ Len(cat_sizes') = n + 1
      /\ \A k \in 1 .. n : cat_sizes'[k] = cat_sizes[k]
      /\ cat_sizes'[n + 1] = size
  BY <1>0, <1>1 DEF CatInv, CatLayout
<1>4. /\ cat_starts' \in Seq(Nat) /\ Len(cat_starts') = n + 2
      /\ \A k \in 1 .. n + 1 : cat_starts'[k] = cat_starts[k]
      /\ cat_starts'[n + 2] = CatEnd + 2 + size
  BY <1>0, <1>1, <1>2 DEF CatInv, CatLayout
<1>5. \A k \in 1 .. n + 1 : cat_starts'[k + 1] = cat_starts'[k] + 2 + cat_sizes'[k]
  <2> SUFFICES ASSUME NEW k \in 1 .. n + 1
               PROVE  cat_starts'[k + 1] = cat_starts'[k] + 2 + cat_sizes'[k]
    OBVIOUS
  <2>1. CASE k = n + 1
    <3>1. k + 1 = n + 2 /\ k \in 1 .. n + 1
      BY <1>0, <2>1
    <3>2. QED
      BY <1>2, <1>3, <1>4, <2>1, <3>1
  <2>2. CASE k # n + 1
    <3>1. k \in 1 .. n /\ k + 1 \in 1 .. n + 1
      BY <1>0, <2>2
    <3>2. cat_starts[k + 1] = cat_starts[k] + 2 + cat_sizes[k]
      BY <3>1, CatPlaces DEF CatInv
    <3>3. QED
      BY <1>3, <1>4, <3>1, <3>2
  <2>3. QED
    BY <2>1, <2>2
<1>6. \A k \in 1 .. n + 1 : cat_starts[k] \in Nat /\ cat_starts[k] <= CatEnd
  BY CatPlaces DEF CatInv
<1>7. \A j, k \in 1 .. n + 2 : j < k => cat_starts'[j] < cat_starts'[k]
  <2> SUFFICES ASSUME NEW j \in 1 .. n + 2, NEW k \in 1 .. n + 2, j < k
               PROVE  cat_starts'[j] < cat_starts'[k]
    OBVIOUS
  <2>1. CASE k = n + 2
    <3>1. j \in 1 .. n + 1
      BY <1>0, <2>1
    <3>2. cat_starts'[j] = cat_starts[j] /\ cat_starts[j] \in Nat /\ cat_starts[j] <= CatEnd
      BY <1>4, <1>6, <3>1
    <3>3. QED
      BY <1>2, <1>4, <2>1, <3>2
  <2>2. CASE k # n + 2
    <3>1. j \in 1 .. n + 1 /\ k \in 1 .. n + 1
      BY <1>0, <2>2
    <3>2. cat_starts[j] < cat_starts[k]
      BY <3>1 DEF CatInv, CatLayout
    <3>3. QED
      BY <1>4, <3>1, <3>2
  <2>3. QED
    BY <2>1, <2>2
<1>8. CatLayout'
  <2>1. cat_starts'[1] = CatFirst
    BY <1>0, <1>4 DEF CatInv, CatLayout
  <2>2. cat_behind' = cat_behind
    BY DEF CatWritten
  <2>3. QED
    BY <1>0, <1>3, <1>4, <1>5, <1>7, <2>1, <2>2 DEF CatInv, CatLayout
<1>9. cat_pc' = "idle" /\ cat_parsed' = <<>>
  BY <1>0 DEF CatWritten
<1>10. QED
  BY <1>0, <1>8, <1>9 DEF CatInv, CatWalking, CatParsing

\* A step of the walk comes to the next category, or the image is read.
LEMMA CatWalkStep ==
  ASSUME CatInv, CatWalk
  PROVE  CatInv'
<1> DEFINE n == Len(cat_sizes)
<1>0. /\ n \in Nat /\ cat_pc = "walk" /\ cat_parsed = <<>>
      /\ cat_pc' \in {"walk", "parse"} /\ cat_parsed' = <<>>
      /\ UNCHANGED <<cat_sizes, cat_starts, cat_behind>>
  BY DEF CatInv, CatLayout, CatWalk, catEeprom
<1>1. CatLayout' /\ CatEnd' = CatEnd /\ (CatSupported' <=> CatSupported)
  BY <1>0 DEF CatInv, CatLayout, CatEnd, CatSupported
<1>2. ASSUME CatSupported
      PROVE  CatWalking' /\ CatParsing'
  <2>1. PICK k \in 1 .. n + 1 : cat_offset = cat_starts[k] /\ cat_starts[k] < CatMax
    BY <1>0, <1>2 DEF CatInv, CatWalking
  <2>2. PICK header \in CatHeaders(cat_starts[k]) :
          LET next == CatBehind(cat_starts[k], header.size)
          IN IF ~header.end /\ next < CatMax
             THEN cat_offset' = next /\ cat_pc' = cat_pc
             ELSE /\ cat_offset' = CatFirst /\ cat_pc' = "parse"
                  /\ cat_nwords' = CatAlign(next + 1)
    BY <2>1 DEF CatWalk
  <2> DEFINE next == CatBehind(cat_starts[k], header.size)
  <2>3. /\ cat_starts \in Seq(Nat) /\ Len(cat_starts) = n + 1
        /\ cat_starts[k] \in Nat /\ CatEnd \in Nat /\ CatEnd = cat_starts[n + 1]
        /\ cat_behind \in 0 .. CatRange - 1
        /\ CatEnd < CatRange - 2
    BY <1>0, <1>2 DEF CatInv, CatLayout, CatEnd, CatSupported
  <2>4. CASE k = n + 1
    <3>1. header = [end |-> TRUE, size |-> cat_behind]
      BY <2>2, <2>4, CatHeaderAt DEF CatInv
    <3>2. next = CatEnd + 1 \/ next = CatEnd + 2 + cat_behind
      <4>1. next = (CatEnd + 2 + cat_behind) % CatRange
        BY <2>3, <2>4, <3>1 DEF CatBehind
      <4>2. CASE cat_behind = CatRange - 1
        <5>1. CatEnd + 2 + cat_behind = (CatEnd + 1) + CatRange
          BY <2>3, <4>2, CatAssumption
        <5>2. CatEnd + 1 \in 0 .. CatRange - 1
          BY <2>3, CatAssumption
        <5>3. QED
          BY <4>1, <5>1, <5>2, CatNoWrap
      <4>3. CASE CatEnd + 2 + cat_behind < CatRange
        <5>1. CatEnd + 2 + cat_behind \in 0 .. CatRange - 1
          BY <2>3, <4>3, CatAssumption
        <5>2. QED
          BY <4>1, <5>1, CatNoWrap
      <4>4. QED
        BY <1>2, <2>1, <2>3, <2>4, <4>2, <4>3 DEF CatSupported
    <3>3. next \in Nat /\ next > CatEnd
      BY <2>3, <3>2
    <3>4. cat_offset' = CatFirst /\ cat_pc' = "parse" /\ cat_nwords' = CatAlign(next + 1)
      BY <2>2, <3>1
    <3>5. cat_nwords' \in Nat /\ cat_nwords' > CatEnd
      <4>1. next + 1 \in Nat
        BY <3>3
      <4>2. CatAlign(next + 1) \in Nat /\ CatAlign(next + 1) >= next + 1
        BY <4>1, CatAligned
      <4>3. QED
        BY <2>3, <3>3, <3>4, <4>2
    <3>6. cat_offset' = cat_starts[1]
      BY <3>4 DEF CatInv, CatLayout
    <3>7. QED
      BY <1>0, <1>1, <3>4, <3>5, <3>6 DEF CatWalking, CatParsing
  <2>5. CASE k # n + 1
    <3>1. k \in 1 .. n /\ k + 1 \in 1 .. n + 1
      BY <1>0, <2>5
    <3>2. header = [end |-> FALSE, size |-> cat_sizes[k]]
      BY <2>2, <2>5, CatHeaderAt DEF CatInv
    <3>3. /\ cat_starts[k + 1] \in Nat /\ cat_sizes[k] \in Nat
          /\ cat_starts[k + 1] = cat_starts[k] + 2 + cat_sizes[k]
          /\ cat_starts[k + 1] <= CatEnd
      BY <3>1, CatPlaces DEF CatInv
    <3>4. next = cat_starts[k + 1]
      <4>1. cat_starts[k + 1] \in 0 .. CatRange - 1
        BY <2>3, <3>3, CatAssumption
      <4>2. next = cat_starts[k + 1] % CatRange
        BY <3>2, <3>3 DEF CatBehind
      <4>3. QED
        BY <4>1, <4>2, CatNoWrap
    <3>5. CASE next < CatMax
      <4>1. cat_offset' = cat_starts[k + 1] /\ cat_pc' = "walk"
        BY <1>0, <2>2, <3>2, <3>4, <3>5
      <4>2. QED
        BY <1>0, <3>1, <3>4, <3>5, <4>1 DEF CatWalking, CatParsing
    <3>6. CASE ~(next < CatMax)
      <4>1. k + 1 = n + 1
        <5>1. \A j \in 1 .. n : cat_starts[j] < CatMax
          BY <1>2, CatPlaces DEF CatSupported, CatInv
        <5>2. k + 1 \notin 1 .. n
          BY <3>4, <3>6, <5>1
        <5>3. QED
          BY <1>0, <3>1, <5>2
      <4>2. cat_offset' = CatFirst /\ cat_pc' = "parse" /\ cat_nwords' = CatAlign(next + 1)
        BY <2>2, <3>2, <3>6
      <4>3. next = CatEnd /\ next + 1 \in Nat
        BY <2>3, <3>3, <3>4, <4>1
      <4>4. cat_nwords' \in Nat /\ cat_nwords' > CatEnd
        <5>1. CatAlign(next + 1) \in Nat /\ CatAlign(next + 1) >= next + 1
          BY <4>3, CatAligned
        <5>2. cat_nwords' = CatAlign(CatEnd + 1)
          BY <4>2, <4>3
        <5>3. QED
          BY <2>3, <4>3, <5>1, <5>2
      <4>5. cat_offset' = cat_starts[1]
        BY <4>2 DEF CatInv, CatLayout
      <4>6. QED
        BY <1>0, <1>1, <4>2, <4>4, <4>5 DEF CatWalking, CatParsing
    <3>7. QED
      BY <3>5, <3>6
  <2>6. QED
    BY <2>4, <2>5
<1>3. CatWalking' /\ CatParsing'
  BY <1>1, <1>2 DEF CatWalking, CatParsing
<1>4. QED
  BY <1>0, <1>1, <1>3 DEF CatInv

\* A step of the parser comes to the next category with its size, or to the end marker.
LEMMA CatParseStep ==
  ASSUME CatInv, CatParse
  PROVE  CatInv'
<1> DEFINE n == Len(cat_sizes)
           m == Len(cat_parsed)
<1>0. /\ n \in Nat /\ m \in Nat /\ cat_pc = "parse" /\ cat_parsed \in Seq(Nat)
      /\ cat_pc' \in {"parse", "parsed", "outside"}
      /\ UNCHANGED <<cat_sizes, cat_starts, cat_behind, cat_nwords>>
  BY DEF CatInv, CatLayout, CatParse, catEeprom
<1>1. CatLayout' /\ CatEnd' = CatEnd /\ (CatSupported' <=> CatSupported)
  BY <1>0 DEF CatInv, CatLayout, CatEnd, CatSupported
<1>2. PICK header \in CatHeaders(cat_offset) :
        IF header.end /\ cat_offset < cat_nwords
        THEN cat_pc' = "parsed" /\ UNCHANGED <<cat_offset, cat_parsed>>
        ELSE /\ cat_offset' = cat_offset + 2 + header.size
             /\ cat_parsed' = Append(cat_parsed, header.size)
             /\ cat_pc' = IF cat_offset + 2 + header.size > cat_nwords THEN "outside" ELSE "parse"
  BY DEF CatParse
<1>3. header.size \in Nat
  <2>1. \A x \in CatSizes : x \in Nat
    BY CatAssumption
  <2>2. \A k \in DOMAIN cat_sizes : cat_sizes[k] \in Nat
    BY CatPlaces DEF CatInv
  <2>3. cat_behind \in Nat
    BY CatAssumption DEF CatInv, CatLayout
  <2>4. header \in {[end |-> TRUE, size |-> cat_behind]}
                   \cup {[end |-> FALSE, size |-> cat_sizes[k]] : k \in DOMAIN cat_sizes}
                   \cup [end : BOOLEAN, size : CatSizes]
    BY <1>2 DEF CatHeaders
  <2>5. CASE header \in [end : BOOLEAN, size : CatSizes]
    BY <2>1, <2>5
  <2>6. CASE header \in {[end |-> FALSE, size |-> cat_sizes[k]] : k \in DOMAIN cat_sizes}
    BY <2>2, <2>6
  <2>7. QED
    BY <2>3, <2>4, <2>5, <2>6
<1>4. cat_parsed' \in Seq(Nat)
  <2>1. CASE cat_parsed' = cat_parsed
    BY <1>0, <2>1
  <2>2. CASE cat_parsed' = Append(cat_parsed, header.size)
    BY <1>0, <1>3, <2>2
  <2>3. QED
    BY <1>2, <2>1, <2>2
<1>5. ASSUME CatSupported
      PROVE  CatParsing' /\ cat_pc' # "outside"
  <2>1. /\ cat_nwords \in Nat /\ CatEnd < cat_nwords /\ m <= n
        /\ \A k \in 1 .. m : cat_parsed[k] = cat_sizes[k]
        /\ cat_offset = cat_starts[m + 1]
    BY <1>0, <1>5 DEF CatInv, CatParsing
  <2>2. m + 1 \in 1 .. n + 1 /\ CatEnd \in Nat /\ CatEnd = cat_starts[n + 1]
    BY <1>0, <2>1 DEF CatInv, CatLayout, CatEnd
  <2>3. CASE m = n
    <3>1. header = [end |-> TRUE, size |-> cat_behind]
      BY <1>2, <2>1, <2>2, <2>3, CatHeaderAt DEF CatInv
    <3>2. cat_pc' = "parsed" /\ UNCHANGED <<cat_offset, cat_parsed>>
      BY <1>2, <2>1, <2>2, <2>3, <3>1
    <3>3. QED
      BY <1>0, <1>1, <2>1, <2>3, <3>2 DEF CatParsing
  <2>4. CASE m # n
    <3>1. m + 1 \in 1 .. n /\ m + 2 \in 1 .. n + 1
      BY <1>0, <2>1, <2>4
    <3>2. header = [end |-> FALSE, size |-> cat_sizes[m + 1]]
      <4>1. m + 1 # n + 1
        BY <1>0, <2>4
      <4>2. CatHeaders(cat_starts[m + 1]) = {[end |-> FALSE, size |-> cat_sizes[m + 1]]}
        BY <2>2, <4>1, CatHeaderAt DEF CatInv
      <4>3. QED
        BY <1>2, <2>1, <4>2
    <3>3. cat_offset' = cat_starts[m + 2] /\ cat_parsed' = Append(cat_parsed, cat_sizes[m + 1])
      <4>1. ~header.end /\ header.size = cat_sizes[m + 1]
        BY <3>2
      <4>2. cat_offset' = cat_starts[m + 1] + 2 + cat_sizes[m + 1]
        BY <1>2, <2>1, <4>1
      <4>3. cat_starts[(m + 1) + 1] = cat_starts[m + 1] + 2 + cat_sizes[m + 1]
        BY <3>1, CatPlaces DEF CatInv
      <4>4. (m + 1) + 1 = m + 2
        BY <1>0
      <4>5. QED
        BY <1>2, <4>1, <4>2, <4>3, <4>4
    <3>4. cat_starts[m + 2] <= CatEnd /\ cat_starts[m + 2] \in Nat
      BY <3>1, CatPlaces DEF CatInv
    <3>5. cat_pc' = "parse"
      <4>1. cat_starts[m + 2] = cat_offset + 2 + header.size
        <5>1. cat_starts[(m + 1) + 1] = cat_starts[m + 1] + 2 + cat_sizes[m + 1]
          BY <3>1, CatPlaces DEF CatInv
        <5>2. (m + 1) + 1 = m + 2
          BY <1>0
        <5>3. QED
          BY <2>1, <3>2, <5>1, <5>2
      <4>2. QED
        BY <1>2, <2>1, <2>2, <3>2, <3>4, <4>1
    <3>6. /\ Len(cat_parsed') = m + 1
          /\ \A k \in 1 .. m + 1 : cat_parsed'[k] = cat_sizes[k]
      BY <1>0, <2>1, <3>1, <3>3
    <3>7. QED
      BY <1>0, <1>1, <2>1, <3>1, <3>3, <3>5, <3>6 DEF CatParsing
  <2>5. QED
    BY <2>3, <2>4
<1>6. CatParsing' /\ CatWalking' /\ (cat_pc' = "outside" => ~CatSupported')
  BY <1>0, <1>1, <1>5 DEF CatParsing, CatWalking
<1>7. QED
  BY <1>0, <1>1, <1>4, <1>6 DEF CatInv

LEMMA CatInvStep == CatInv /\ [CatNext]_catVars => CatInv'
<1> SUFFICES ASSUME CatInv, [CatNext]_catVars
             PROVE  CatInv'
  OBVIOUS
<1>1. CASE CatBegin
  <2>1. /\ cat_pc' = "walk" /\ cat_offset' = CatFirst /\ cat_parsed = <<>>
        /\ UNCHANGED <<cat_sizes, cat_starts, cat_behind, cat_parsed>>
    BY <1>1 DEF CatBegin, CatInv, catEeprom
  <2>2. CatLayout' /\ cat_starts'[1] = CatFirst /\ CatFirst < CatMax /\ Len(cat_sizes') \in Nat
    BY <2>1, CatAssumption DEF CatInv, CatLayout
  <2>3. CatWalking'
    BY <2>1, <2>2 DEF CatWalking
  <2>4. QED
    BY <2>1, <2>2, <2>3 DEF CatInv, CatParsing
<1>2. CASE UNCHANGED catVars
  BY <1>2 DEF catVars, catEeprom, CatInv, CatLayout, CatWalking, CatParsing, CatSupported, CatEnd
<1>3. QED
  BY <1>1, <1>2, CatWrittenStep, CatWalkStep, CatParseStep DEF CatNext

\* Whatever lies in the EEPROM of a slave, if the master can hold it, the scan makes
\* room for all of it: the parser comes through every category with its own size, and
\* reads nothing outside the image.
THEOREM CatAlwaysInside == CatSpec => []CatParsedInside
<1>1. CatInit => CatInv
  <2> SUFFICES ASSUME CatInit
               PROVE  CatInv
    OBVIOUS
  <2>1. CatLayout
    BY CatAssumption DEF CatInit, CatLayout
  <2>2. QED
    BY <2>1 DEF CatInit, CatInv, CatWalking, CatParsing
<1>2. CatInv => CatParsedInside
  <2> SUFFICES ASSUME CatInv, CatSupported
               PROVE  /\ cat_pc # "outside"
                      /\ IsPrefix(cat_parsed, cat_sizes)
                      /\ cat_pc = "parsed" => cat_parsed = cat_sizes
    BY DEF CatParsedInside
  <2>1. /\ cat_pc # "outside"
        /\ cat_sizes \in Seq(CatSizes) /\ cat_parsed \in Seq(Nat)
        /\ Len(cat_parsed) <= Len(cat_sizes)
        /\ \A k \in 1 .. Len(cat_parsed) : cat_parsed[k] = cat_sizes[k]
    BY DEF CatInv, CatParsing, CatLayout
  <2>2. SubSeq(cat_parsed, 1, Len(cat_parsed)) = SubSeq(cat_sizes, 1, Len(cat_parsed))
    BY <2>1
  <2>3. IsPrefix(cat_parsed, cat_sizes)
    BY <2>1, <2>2 DEF IsPrefix
  <2>4. ASSUME cat_pc = "parsed"
        PROVE  cat_parsed = cat_sizes
    <3>1. Len(cat_parsed) = Len(cat_sizes)
      BY <2>4 DEF CatInv, CatParsing
    <3>2. QED
      BY <2>1, <3>1
  <2>5. QED
    BY <2>1, <2>3, <2>4
<1>3. QED
  BY <1>1, <1>2, CatInvStep, PTL DEF CatSpec
=============================================================================
