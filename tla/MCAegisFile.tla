----------------------------- MODULE MCAegisFile -----------------------------
(***************************************************************************)
(* Instances of AegisFile.  Two files with a canonical name each and one    *)
(* name that leads nowhere; a configuration lists the names and files its    *)
(* question needs.                                                          *)
(***************************************************************************)
EXTENDS AegisFile, TLC

CONSTANTS f1, f2, n1, n2, gone

MCResolve == [n \in Name |-> CASE n = n1 -> f1
                               [] n = n2 -> f2
                               [] n = gone -> NoFile]

MCDPath == [f \in File |-> IF f = f1 THEN n1 ELSE n2]

(* Addresses are only compared.                                             *)
AddrSymmetry == Permutations(Addr)
=============================================================================
