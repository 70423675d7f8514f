---------------------------- MODULE MCAegisStats ----------------------------
(* Instances of AegisStats: the .cfg files give its constants their values.*)
EXTENDS AegisStats
=============================================================================
