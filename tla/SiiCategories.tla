--------------------------- MODULE SiiCategories ---------------------------
(***************************************************************************)
(* How a scan finds out how long the EEPROM image of a slave is, and how   *)
(* it then parses the image (ec_slave.c:1212-1248, 1281-1339).             *)
(*                                                                         *)
(* Behind the fixed words an EEPROM holds categories, each a type, a size  *)
(* and as many words of data, and then the end marker.  The word behind    *)
(* the end marker, which nobody wrote, is erased or left from earlier.     *)
(* The walk reads a type and a size at a time from the EEPROM and adds up  *)
(* in a variable of one word; the parser goes through the image in memory. *)
(***************************************************************************)
EXTENDS Integers, SequencesExt

CONSTANTS
  CatRange,    \* how many values a word has: 65536
  CatFirst,    \* EC_FIRST_SII_CATEGORY_OFFSET
  CatMax,      \* EC_MAX_SII_SIZE
  CatSizes,    \* the sizes of a category
  CatCount     \* how many categories there are at most

ASSUME CatAssumption ==
  /\ CatRange \in Nat \ {0}
  /\ CatMax \in 0 .. CatRange - 1
  /\ CatFirst \in 0 .. CatMax - 1
  /\ CatSizes \subseteq 0 .. CatRange - 1
  /\ CatCount \in Nat

VARIABLES
  cat_pc,
  cat_sizes,   \* the EEPROM: the size of each category,
  cat_starts,  \* where each begins and, behind the last, the end marker,
  cat_behind,  \* and the word behind the end marker
  cat_offset,  \* sii_offset, and then the parser's cat_data
  cat_nwords,  \* sii_nwords
  cat_parsed   \* the sizes that the parser has come through

catEeprom == <<cat_sizes, cat_starts, cat_behind>>
catVars == <<cat_pc, catEeprom, cat_offset, cat_nwords, cat_parsed>>

CatInit ==
  /\ cat_pc = "idle"
  /\ cat_sizes = <<>>
  /\ cat_starts = <<CatFirst>>
  /\ cat_behind \in CatSizes \cup {CatRange - 1}
  /\ cat_offset = 0
  /\ cat_nwords = 0
  /\ cat_parsed = <<>>

CatEnd == cat_starts[Len(cat_sizes) + 1]

\* Whoever wrote the EEPROM of the slave put another category behind the last.
CatWritten ==
  /\ cat_pc = "idle"
  /\ Len(cat_sizes) < CatCount
  /\ \E size \in CatSizes :
       /\ cat_sizes' = Append(cat_sizes, size)
       /\ cat_starts' = Append(cat_starts, CatEnd + 2 + size)
  /\ UNCHANGED <<cat_pc, cat_behind, cat_offset, cat_nwords, cat_parsed>>

\* The type and the size read at a place; elsewhere than at a beginning they are data.
CatHeaders(place) ==
  LET here == {k \in DOMAIN cat_sizes : place = cat_starts[k]}
  IN IF place = CatEnd THEN {[end |-> TRUE, size |-> cat_behind]}
     ELSE IF here # {} THEN {[end |-> FALSE, size |-> cat_sizes[k]] : k \in here}
     ELSE [end : BOOLEAN, size : CatSizes]

-----------------------------------------------------------------------------
\* The scan has come to a slave with some EEPROM.
CatBegin ==
  /\ cat_pc = "idle"
  /\ cat_pc' = "walk"
  /\ cat_offset' = CatFirst
  /\ UNCHANGED <<catEeprom, cat_nwords, cat_parsed>>

\* Mutant: the two words of the header are not counted.
CatBehindData(offset, size) == (offset + size) % CatRange

CatBehind(offset, size) == (offset + 2 + size) % CatRange

CatAlign(n) == ((n + 1) \div 2) * 2

\* The header of a category; after the last one the image is allocated and read.
CatWalk ==
  /\ cat_pc = "walk"
  /\ \E header \in CatHeaders(cat_offset) :
       LET next == CatBehind(cat_offset, header.size)
       IN IF ~header.end /\ next < CatMax
          THEN /\ cat_offset' = next
               /\ UNCHANGED <<cat_pc, cat_nwords>>
          ELSE /\ cat_offset' = CatFirst
               /\ cat_pc' = "parse"
               /\ cat_nwords' = CatAlign(next + 1)
  /\ UNCHANGED <<catEeprom, cat_parsed>>

\* The parser goes on to the end marker, wherever it lies.
CatParse ==
  /\ cat_pc = "parse"
  /\ \E header \in CatHeaders(cat_offset) :
       LET next == cat_offset + 2 + header.size
       IN IF header.end /\ cat_offset < cat_nwords
          THEN /\ cat_pc' = "parsed"
               /\ UNCHANGED <<cat_offset, cat_parsed>>
          ELSE /\ cat_offset' = next
               /\ cat_parsed' = Append(cat_parsed, header.size)
               /\ cat_pc' = IF next > cat_nwords THEN "outside" ELSE "parse"
  /\ UNCHANGED <<catEeprom, cat_nwords>>

CatNext == CatWritten \/ CatBegin \/ CatWalk \/ CatParse

CatSpec == CatInit /\ [][CatNext]_catVars

-----------------------------------------------------------------------------
\* An EEPROM that the master can hold: every category begins below the limit, the end
\* marker can be addressed, and the sum with the word behind it does not wrap around,
\* unless that word is erased.
CatSupported ==
  /\ \A k \in DOMAIN cat_sizes : cat_starts[k] < CatMax
  /\ CatEnd < CatRange - 2
  /\ CatEnd < CatMax => cat_behind = CatRange - 1 \/ CatEnd + 2 + cat_behind < CatRange

\* The image of such an EEPROM is long enough: the parser finds every category with the
\* size that it has and the end marker behind the last, and reads nothing outside
\* (ec_slave.c:1228-1233, 1283, 1335).
CatParsedInside ==
  CatSupported =>
    /\ cat_pc # "outside"
    /\ IsPrefix(cat_parsed, cat_sizes)
    /\ cat_pc = "parsed" => cat_parsed = cat_sizes
=============================================================================
