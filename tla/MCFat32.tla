------------------------------ MODULE MCFat32 ------------------------------
(* A volume of clusters 2 to 6 with two sectors of one byte each, and FAT  *)
(* copies of 8 entries.  Another system left a file of three bytes in      *)
(* clusters 3 and 5, the slot of a long name and a deleted slot.           *)
EXTENDS Fat32

EndMark == 99

slot(kind, name, first, size) ==
  [kind |-> kind, name |-> name, first |-> first, size |-> size]

Fat(c) == CASE c \in {0, 1, 2, 5} -> EndMark [] c = 3 -> 5 [] OTHER -> 0

Volume ==
  [fat  |-> [e \in 0 .. 15 |-> Fat(e % 8)],
   data |-> [c \in 2 .. 6 |-> CASE c = 3 -> <<11, 12>> [] c = 5 -> <<13, 9>>
                               [] OTHER -> <<9, 9>>],
   root |-> << slot("lfn", "", 0, 0), slot("deleted", "", 0, 0),
               slot("file", "big", 3, 3), slot("empty", "", 0, 0) >>,
   content |-> [n \in {"a", "b", "big"} |->
                  IF n = "big" THEN [known |-> TRUE, bytes |-> <<11, 12, 13>>]
                               ELSE [known |-> FALSE, bytes |-> << >>]]]

(* The same with one free cluster and one free slot left, and an entry of  *)
(* two bytes that has no cluster.                                          *)
FullVolume ==
  [Volume EXCEPT !.fat  = [e \in 0 .. 15 |-> IF e % 8 = 4 THEN 0
                                            ELSE IF e % 8 = 3 THEN 5 ELSE EndMark],
                 !.root = << slot("lfn", "", 0, 0), slot("file", "b", 0, 2),
                             slot("file", "big", 3, 3), slot("empty", "", 0, 0) >>]

OneVolume  == { Volume }
TwoVolumes == { Volume, FullVolume }
=============================================================================
