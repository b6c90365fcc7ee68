---------------------------- MODULE MCPartFile ----------------------------
(* Layouts of the blocks of small files in parts: a file of one part with  *)
(* two or three blocks, one of two single-block parts, and one whose first *)
(* part has two blocks and whose last part has one.                        *)
EXTENDS PartFile, TLC

PartOfTwo == 1 :> 1 @@ 2 :> 1
PartOfTwoTwo == 1 :> 1 @@ 2 :> 2
PartOfThree == 1 :> 1 @@ 2 :> 1 @@ 3 :> 1
PartOfTwoOne == 1 :> 1 @@ 2 :> 1 @@ 3 :> 2

===========================================================================
