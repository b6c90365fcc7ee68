--------------------------- MODULE MCUploadBlocks ---------------------------
(* One peer pulls blocks of two files, or two blocks of one, through a     *)
(* buffer of one block.                                                    *)
EXTENDS UploadBlocks

CONSTANTS c1, f1, f2, b1, b2

(* A block of each file. *)
TwoFiles == [b \in {b1, b2} |-> IF b = b1 THEN f1 ELSE f2]

(* Two blocks of one file. *)
OneFile == [b \in {b1, b2} |-> f1]
=============================================================================
