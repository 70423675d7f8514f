-------------------------- MODULE AegisSysctlProofs --------------------------
(* Proof that a write alone on its knob commits the mirror (AegisSysctl).    *)
EXTENDS AegisSysctl, TLAPS

(* What a knob satisfies while its last successful write is a lone one: one  *)
(* writer at most is in its handler, what that writer has loaded is the      *)
(* mirror, and the mirror is committed or this writer has yet to do it.      *)
LoneOK(k) ==
    /\ \A t, u \in Writer : In(t, k) /\ In(u, k) => t = u
    /\ \A t \in Writer : In(t, k) /\ at[t] = "store" => loaded[t] = Convert(k, mirror[k])
    /\ Synced(k) \/ \E t \in Writer : In(t, k) /\ at[t] \in {"load", "store"}

LoneInv == \A k \in Knob \ overlapped : LoneOK(k)

(* Convert yields a value of the member's type.                             *)
LEMMA ConvertInRange ==
    ASSUME NEW k \in Knob, NEW v \in Int PROVE Convert(k, v) \in CfgRange(k)
BY SysctlAssumption DEF Convert, CfgRange, AEGIS_FEATURE_ALL

(* The boot values of mirrors and members agree and fit.                    *)
LEMMA InitTypes == SysctlInit => SysctlTypeOK
<1> SUFFICES ASSUME SysctlInit PROVE SysctlTypeOK
    OBVIOUS
<1>1. mirror \in [Knob -> Int] /\ aegis_cfg \in [Knob -> Int]
    BY DEF SysctlInit, InitMirror, InitCfg, Knob, AEGIS_FEATURE_ALL
<1>2. \A k \in Knob : aegis_cfg[k] \in CfgRange(k)
    BY SysctlAssumption DEF SysctlInit, InitCfg, Knob, CfgRange, AEGIS_FEATURE_ALL
<1> QED
    BY <1>1, <1>2 DEF SysctlInit, SysctlTypeOK, Knob

(* Each step keeps the types.                                               *)
LEMMA NextTypes == SysctlTypeOK /\ [SysctlNext]_sysctl_vars => SysctlTypeOK'
<1> SUFFICES ASSUME SysctlTypeOK, [SysctlNext]_sysctl_vars PROVE SysctlTypeOK'
    OBVIOUS
<1> USE DEF SysctlTypeOK
<1>1. CASE UNCHANGED sysctl_vars
    BY <1>1 DEF sysctl_vars, CfgRange
<1>2. ASSUME NEW t \in Writer, Start(t) PROVE SysctlTypeOK'
    <2>1. PICK k \in Written : /\ knob' = [knob EXCEPT ![t] = k]
                               /\ overlapped' = IF Alone(t, k) THEN overlapped
                                                ELSE overlapped \cup {k}
        BY <1>2, Zenon DEF Start
    <2> QED
        BY <1>2, <2>1, SysctlAssumption DEF Start, CfgRange
<1>3. ASSUME NEW t \in Writer, DoIntVec(t) PROVE SysctlTypeOK'
    <2>1. PICK v \in Value \cup {mirror[knob[t]]} : mirror' = [mirror EXCEPT ![knob[t]] = v]
        BY <1>3, Zenon DEF DoIntVec
    <2> QED
        BY <1>3, <2>1, SysctlAssumption DEF DoIntVec, CfgRange
<1>4. ASSUME NEW t \in Writer, DoIntVecFails(t) PROVE SysctlTypeOK'
    BY <1>4 DEF DoIntVecFails, CfgRange
<1>5. ASSUME NEW t \in Writer, Load(t) PROVE SysctlTypeOK'
    <2> DEFINE c == Convert(knob[t], mirror[knob[t]])
    <2>1. c \in CfgRange(knob[t])
        BY ConvertInRange
    <2>2. c \in Int
        BY <2>1, SysctlAssumption DEF CfgRange
    <2>3. loaded' = [loaded EXCEPT ![t] = c]
        BY <1>5 DEF Load
    <2> HIDE DEF c
    <2>4. \A u \in Writer : at'[u] = "store" => loaded'[u] \in CfgRange(knob[u])
        BY <1>5, <2>1, <2>3 DEF Load
    <2>5. loaded' \in [Writer -> Int]
        BY <2>2, <2>3
    <2>6. /\ at' \in [Writer -> {"idle", "dointvec", "load", "store"}]
          /\ UNCHANGED <<mirror, aegis_cfg, knob, overlapped>>
        BY <1>5 DEF Load
    <2> QED
        BY <2>4, <2>5, <2>6 DEF CfgRange
<1>6. ASSUME NEW t \in Writer, Store(t) PROVE SysctlTypeOK'
    BY <1>6, Zenon DEF Store, CfgRange
<1> QED
    BY <1>1, <1>2, <1>3, <1>4, <1>5, <1>6 DEF SysctlNext

(* Each step keeps LoneOK of every knob that is not overlapped after it.    *)
LEMMA NextLone == SysctlTypeOK /\ LoneInv /\ [SysctlNext]_sysctl_vars => LoneInv'
<1> SUFFICES ASSUME SysctlTypeOK, LoneInv, [SysctlNext]_sysctl_vars,
                    NEW k \in Knob, k \notin overlapped'
             PROVE LoneOK(k)'
    BY DEF LoneInv
<1> USE DEF SysctlTypeOK
<1>1. CASE UNCHANGED sysctl_vars
    BY <1>1 DEF sysctl_vars, LoneInv, LoneOK, In, Synced, Convert
<1>2. ASSUME NEW t \in Writer, Start(t) PROVE LoneOK(k)'
    <2>1. PICK j \in Written : /\ knob' = [knob EXCEPT ![t] = j]
                               /\ overlapped' = IF Alone(t, j) THEN overlapped
                                                ELSE overlapped \cup {j}
        BY <1>2, Zenon DEF Start
    <2>2. LoneOK(k)
        BY <2>1 DEF LoneInv
    <2>3. CASE j = k
        BY <1>2, <2>1, <2>2, <2>3 DEF Start, LoneOK, Alone, In, Synced, Convert
    <2>4. CASE j # k
        BY <1>2, <2>1, <2>2, <2>4 DEF Start, LoneOK, In, Synced, Convert
    <2> QED
        BY <2>3, <2>4
<1>3. ASSUME NEW t \in Writer, DoIntVec(t) PROVE LoneOK(k)'
    <2>1. PICK v \in Value \cup {mirror[knob[t]]} : mirror' = [mirror EXCEPT ![knob[t]] = v]
        BY <1>3, Zenon DEF DoIntVec
    <2>2. CASE knob[t] = k
        <3>1. Alone(t, k)
            BY <1>3, <2>2 DEF DoIntVec, Alone, LoneInv, LoneOK, In
        <3> QED
            BY <1>3, <2>1, <2>2, <3>1 DEF DoIntVec, LoneOK, Alone, In
    <2>3. CASE knob[t] # k
        <3>1. LoneOK(k)
            BY <1>3, <2>3 DEF DoIntVec, LoneInv
        <3> QED
            BY <1>3, <2>1, <2>3, <3>1 DEF DoIntVec, LoneOK, In, Synced, Convert
    <2> QED
        BY <2>2, <2>3
<1>4. ASSUME NEW t \in Writer, DoIntVecFails(t) PROVE LoneOK(k)'
    BY <1>4 DEF DoIntVecFails, LoneInv, LoneOK, In, Synced, Convert
<1>5. ASSUME NEW t \in Writer, Load(t) PROVE LoneOK(k)'
    BY <1>5 DEF Load, LoneInv, LoneOK, In, Synced, Convert
<1>6. ASSUME NEW t \in Writer, Store(t) PROVE LoneOK(k)'
    BY <1>6 DEF Store, LoneInv, LoneOK, In, Synced, Convert
<1> QED
    BY <1>1, <1>2, <1>3, <1>4, <1>5, <1>6 DEF SysctlNext

(* The boot values of mirrors and members agree.                            *)
LEMMA InitLone == SysctlInit => LoneInv
BY SysctlAssumption
   DEF SysctlInit, LoneInv, LoneOK, In, Synced, Convert, InitMirror, InitCfg, Knob,
       AEGIS_FEATURE_ALL

(* For any number of writers and any values: the members of aegis_cfg keep   *)
(* their types.                                                             *)
THEOREM TypeCorrect == SysctlSpec => []SysctlTypeOK
<1> QED
    BY InitTypes, NextTypes, PTL DEF SysctlSpec

(* For any number of writers and any values: a write that succeeds alone on  *)
(* its knob is committed to aegis_cfg when its handler returns.             *)
THEOREM LoneWritesAreCommitted == SysctlSpec => []LoneWriteCommits
<1>1. LoneInv => LoneWriteCommits
    BY DEF LoneInv, LoneOK, LoneWriteCommits, Quiet
<1> QED
    BY InitTypes, NextTypes, InitLone, NextLone, <1>1, PTL DEF SysctlSpec
=============================================================================
