----------------------------- MODULE AegisSysctl -----------------------------
(***************************************************************************)
(* The sysctls (aegis_sysctl.c): each has a mirror that proc_dointvec reads  *)
(* and writes, and a member of aegis_cfg, which the hooks read and to which  *)
(* the handler commits the mirror after a write that succeeded.  Nothing    *)
(* serialises two writers of a knob.                                        *)
(***************************************************************************)
EXTENDS Integers

CONSTANTS
    Writer,     \* threads that write to /proc/sys/kernel/aegis/
    Written,    \* the knobs they write
    Value,      \* the integers they write
    Wrap        \* the number of values of the u32 features (2^32 in the code)

Knob == {"enabled", "features", "ptrace_restrict_all", "file_integrity_enforce",
         "file_integrity_log", "module_loading_denied", "syscall_audit_enable"}

AEGIS_FEATURE_ALL == 31

ASSUME SysctlAssumption ==
    Written \subseteq Knob /\ Value \subseteq Int /\ Wrap \in Nat /\ AEGIS_FEATURE_ALL < Wrap

VARIABLES
    mirror,     \* aegis_enabled, aegis_features_val, ...
    aegis_cfg,
    at, knob,   \* where each writer is, and in whose handler
    loaded,     \* what it has read from the mirror, converted
    overlapped  \* history: the knobs whose last write that succeeded was not
                \* alone

sysctl_vars == <<mirror, aegis_cfg, at, knob, loaded, overlapped>>

(* A writer is in the handler of k.                                         *)
In(t, k) == at[t] # "idle" /\ knob[t] = k

Alone(t, k) == \A u \in Writer \ {t} : ~In(u, k)

(* Mutant: the features are kept as the signed int of the mirror.           *)
Convert_Signed(k, v) == IF k = "features" THEN v ELSE IF v # 0 THEN 1 ELSE 0

(* (u32) for features, `!= 0' for the others (TRUE and FALSE are 1 and 0).   *)
Convert(k, v) == IF k = "features" THEN v % Wrap ELSE IF v # 0 THEN 1 ELSE 0

Start(t) ==
    /\ at[t] = "idle"
    /\ at' = [at EXCEPT ![t] = "dointvec"]
    /\ \E k \in Written :
          /\ knob' = [knob EXCEPT ![t] = k]
          /\ overlapped' = IF Alone(t, k) THEN overlapped ELSE overlapped \cup {k}
    /\ UNCHANGED <<mirror, aegis_cfg, loaded>>

(* proc_dointvec returns 0: it has stored a value, or found none to store.   *)
DoIntVec(t) ==
    /\ at[t] = "dointvec"
    /\ at' = [at EXCEPT ![t] = "load"]
    /\ \E v \in Value \cup {mirror[knob[t]]} : mirror' = [mirror EXCEPT ![knob[t]] = v]
    /\ overlapped' = IF Alone(t, knob[t]) THEN overlapped \ {knob[t]} ELSE overlapped
    /\ UNCHANGED <<aegis_cfg, knob, loaded>>

(* It returns an error: the handler commits nothing.                        *)
DoIntVecFails(t) ==
    /\ at[t] = "dointvec"
    /\ at' = [at EXCEPT ![t] = "idle"]
    /\ UNCHANGED <<mirror, aegis_cfg, knob, loaded, overlapped>>

Load(t) ==
    /\ at[t] = "load"
    /\ at' = [at EXCEPT ![t] = "store"]
    /\ loaded' = [loaded EXCEPT ![t] = Convert(knob[t], mirror[knob[t]])]
    /\ UNCHANGED <<mirror, aegis_cfg, knob, overlapped>>

(* Mutant: the commit is left out.                                          *)
Store_NoSync(t) ==
    /\ at[t] = "store"
    /\ at' = [at EXCEPT ![t] = "idle"]
    /\ UNCHANGED <<mirror, aegis_cfg, knob, loaded, overlapped>>

Store(t) ==
    /\ at[t] = "store"
    /\ at' = [at EXCEPT ![t] = "idle"]
    /\ aegis_cfg' = [aegis_cfg EXCEPT ![knob[t]] = loaded[t]]
    /\ UNCHANGED <<mirror, knob, loaded, overlapped>>
-----------------------------------------------------------------------------
InitMirror ==
    [k \in Knob |-> IF k = "features" THEN AEGIS_FEATURE_ALL
                   ELSE IF k \in {"ptrace_restrict_all", "module_loading_denied"} THEN 0
                   ELSE 1]

InitCfg ==
    [k \in Knob |-> IF k = "features" THEN AEGIS_FEATURE_ALL
                   ELSE IF k \in {"enabled", "file_integrity_enforce",
                                  "file_integrity_log", "syscall_audit_enable"} THEN 1
                   ELSE 0]

SysctlInit ==
    /\ mirror = InitMirror
    /\ aegis_cfg = InitCfg
    /\ at = [t \in Writer |-> "idle"]
    /\ knob = [t \in Writer |-> "enabled"]
    /\ loaded = [t \in Writer |-> 0]
    /\ overlapped = {}

SysctlNext ==
    \E t \in Writer : Start(t) \/ DoIntVec(t) \/ DoIntVecFails(t) \/ Load(t) \/ Store(t)

SysctlSpec == SysctlInit /\ [][SysctlNext]_sysctl_vars
-----------------------------------------------------------------------------
(* What each member of aegis_cfg can hold.                                  *)
CfgRange(k) == IF k = "features" THEN 0 .. Wrap - 1 ELSE {0, 1}

(* The type invariant: a member of aegis_cfg fits its type.                 *)
SysctlTypeOK ==
    /\ mirror \in [Knob -> Int]
    /\ aegis_cfg \in [Knob -> Int]
    /\ \A k \in Knob : aegis_cfg[k] \in CfgRange(k)
    /\ at \in [Writer -> {"idle", "dointvec", "load", "store"}]
    /\ knob \in [Writer -> Knob]
    /\ loaded \in [Writer -> Int]
    /\ \A t \in Writer : at[t] = "store" => loaded[t] \in CfgRange(knob[t])
    /\ overlapped \subseteq Knob

Quiet(k) == \A t \in Writer : ~In(t, k)

Synced(k) == aegis_cfg[k] = Convert(k, mirror[k])

(* A write that succeeds with no other under way on its knob leaves          *)
(* aegis_cfg in step with the mirror, whatever earlier writers left, failed  *)
(* writes change nothing, and the boot values agree.                        *)
LoneWriteCommits ==
    \A k \in Knob : Quiet(k) /\ k \notin overlapped => Synced(k)

(* Every handler syncs the mirror into aegis_cfg after a write (the head    *)
(* comment of aegis_sysctl.c): with no write under way they agree.          *)
MirrorSynced == \A k \in Knob : Quiet(k) => Synced(k)
=============================================================================
