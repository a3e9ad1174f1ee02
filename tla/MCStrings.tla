-------------------------------- MODULE MCStrings --------------------------------
(***************************************************************************)
(* Objects of up to four characters.  An alignment of 2 cells, huge pages  *)
(* of 4 and a threshold of two pages stand for 32 bytes, 2 MiB and 4 MiB,  *)
(* so that the capacities that operations choose fall on either side of    *)
(* each; an inline buffer of 3 cells stands for one of 16.                 *)
(***************************************************************************)
EXTENDS Strings, TLC

CONSTANTS a, b

AllTexts == {<<>>, <<a>>, <<a, b>>, <<b, a, b>>}
AllSizes == 0..4
AllCapacities == {1, 6, 8}
==================================================================================
