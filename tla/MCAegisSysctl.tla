---------------------------- MODULE MCAegisSysctl ----------------------------
(* Instance of AegisSysctl: 0, a value that is neither 0 nor 1, and -1.      *)
EXTENDS AegisSysctl

MCValue == {-1, 0, 2}
=============================================================================
