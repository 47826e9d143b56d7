----------------------------- MODULE MCServices -----------------------------
(***************************************************************************)
(* The EEPROM and its categories, the mailbox, the process data layout,    *)
(* the topology, the time and the list in memory: components that share no *)
(* state beyond what their own modules have of the others.  A behaviour    *)
(* picks one of them, which takes all the steps, so that the states of the *)
(* run are the sum of theirs and not the product.                          *)
(***************************************************************************)
EXTENDS SiiAccess, SiiCategories, Mailbox, PdoLayout, DcTransmission, Timestamp,
        DatagramList

CONSTANT Services    \* the components that may be picked

VARIABLE service

MCVars == <<siiVars, catVars, mbxVars, pdoVars, dcVars, tsVars, listVars>>

MCInit ==
  /\ service \in Services
  /\ SiiInit /\ CatInit /\ MbxInit /\ PdoInit /\ DcInit /\ TsInit /\ ListInit
  /\ service # "time" => ts_arch = "arm"
  /\ service # "categories" => cat_behind = CatRange - 1

MCNext ==
  /\ UNCHANGED service
  /\ \/ /\ service = "sii" /\ SiiNext
        /\ UNCHANGED <<catVars, mbxVars, pdoVars, dcVars, tsVars, listVars>>
     \/ /\ service = "categories" /\ CatNext
        /\ UNCHANGED <<siiVars, mbxVars, pdoVars, dcVars, tsVars, listVars>>
     \/ /\ service = "mailbox" /\ MbxNext
        /\ UNCHANGED <<siiVars, catVars, pdoVars, dcVars, tsVars, listVars>>
     \/ /\ service = "layout" /\ PdoNext
        /\ UNCHANGED <<siiVars, catVars, mbxVars, dcVars, tsVars, listVars>>
     \/ /\ service = "topology" /\ DcNext
        /\ UNCHANGED <<siiVars, catVars, mbxVars, pdoVars, tsVars, listVars>>
     \/ /\ service = "time" /\ TsNext
        /\ UNCHANGED <<siiVars, catVars, mbxVars, pdoVars, dcVars, listVars>>
     \/ /\ service = "list" /\ ListNext
        /\ UNCHANGED <<siiVars, catVars, mbxVars, pdoVars, dcVars, tsVars>>

MCSpec == MCInit /\ [][MCNext]_<<service, MCVars>>

-----------------------------------------------------------------------------
MCSdo(kind, index, subindex, complete, size) ==
  [kind |-> kind, index |-> index, subindex |-> subindex, complete |-> complete, size |-> size]

\* With mailboxes of 22 bytes the first message carries 6 bytes of data and a segment 13:
\* object 1 needs three messages, object 2 one.
MCMbxLength == [i \in MbxIndices |-> IF i = 1 THEN 20 ELSE 4]

\* The scan thread writes up to 4 bytes, an application any number; its download of 20
\* bytes is a segmented one.
MCMbxCalls ==
  [u \in MbxUsers |->
     IF u = "scan" THEN {MCSdo("download", 2, 0, FALSE, 1), MCSdo("download", 2, 1, FALSE, 4)}
     ELSE {MCSdo("download", 2, 0, FALSE, 2), MCSdo("download", 2, 1, TRUE, 6),
           MCSdo("download", 1, 0, FALSE, 20), MCSdo("upload", 1, 0, TRUE, 30),
           MCSdo("upload", 1, 0, FALSE, 30), MCSdo("upload", 2, 1, FALSE, 3)}]

MCPdo(sm, dir, bits) == [sm |-> sm, dir |-> dir, bits |-> bits]

\* No sync, a drive, outputs on two sync managers and an empty input, inputs first.
MCPdoConfigs ==
  {<<>>,
   <<MCPdo(2, "output", 16), MCPdo(3, "input", 9)>>,
   <<MCPdo(0, "output", 1), MCPdo(2, "output", 8), MCPdo(3, "input", 0)>>,
   <<MCPdo(3, "input", 12), MCPdo(2, "output", 12)>>}

\* All clocks show zero, or each wraps around at another moment of the measurement.
MCDcClocks == {[s \in DcIds |-> 0], [s \in DcIds |-> DcModulus - 1 - s]}
=============================================================================
