---------------------------- MODULE MCUtilsList ----------------------------
(***************************************************************************)
(* UtilsList with indices from both ends, past either end too.             *)
(***************************************************************************)
EXTENDS UtilsList

MCIndices == -4 .. 3

=============================================================================
