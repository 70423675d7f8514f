----------------------------- MODULE MCAegisInit -----------------------------
(* An instance of AegisInit: one node the kernel provides, one it does not.  *)
EXTENDS AegisInit

MCNodeOrder == <<"null", "tty1">>
MCProvided == {"null"}
=============================================================================
