---------------------------- MODULE MCAegisAudit ----------------------------
(* Instances of AegisAudit: the .cfg files give its constants their values. *)
EXTENDS AegisAudit, TLC

(* Administrators are interchangeable.                                      *)
AdminSymmetry == Permutations(Admin)

(* Bound: the calls of administrators overlap only while the knobs, which     *)
(* they do not read, are as booted; what they make of the list stays.       *)
RacesComeFirst ==
    (\A t \in Admin : pc[t] # "idle") =>
        \A k \in Tunable : aegis_cfg[k] <=> k # "module_loading_denied"
=============================================================================
