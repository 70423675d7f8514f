----------------------------- MODULE AegisAudit -----------------------------
(***************************************************************************)
(* Syscall blocking and module control: the list of blocked syscalls        *)
(* (aegis_audit.c) and the hooks that enforce it and module_loading_denied, *)
(* aegis_kernel_read_file and aegis_kernel_load_data, with the exec hook    *)
(* aegis_bprm_check_security (aegis_lsm.c).                                 *)
(*                                                                          *)
(* An entry is its syscall number.  The steps are those of AegisFile: the   *)
(* lock, the body of a critical section, each other shared access; a        *)
(* refusal's two counter increments and its log line are one step.          *)
(***************************************************************************)
EXTENDS FiniteSets, KernelList

CONSTANTS
    Admin,      \* threads that write control/blocked_syscalls_add and _del
    Loader,     \* threads that load modules, firmware or a kexec image, or exec
    Nr,         \* the syscall numbers administrators write
    NoThread, NoNr,
    AEGIS_MAX_BLOCKED_SYSCALLS,
    Tunable,    \* the sysctls that are written while the system runs
    MaxEvents   \* bound: no load or exec starts once total_events is there

Thread == Admin \cup Loader

(* The members of aegis_cfg these hooks read; the two feature bits are      *)
(* members of their own.                                                    *)
Knob == {"enabled", "SYSCALL_AUDIT", "MODULE_CONTROL", "syscall_audit_enable",
         "module_loading_denied"}

(* What can be loaded, by the id the kernel passes: through                 *)
(* kernel_read_file (READING_) or through kernel_load_data (LOADING_).      *)
ReadId == {"READING_MODULE", "READING_KEXEC_IMAGE", "READING_KEXEC_INITRAMFS",
           "READING_FIRMWARE"}
LoadId == {"LOADING_MODULE", "LOADING_KEXEC_IMAGE", "LOADING_FIRMWARE"}
Id == ReadId \cup LoadId

(* aegis_read_id_to_syscall, and the same mapping as aegis_kernel_load_data *)
(* has it in line; NoNr is -1.                                              *)
SyscallOf(id) ==
    CASE id = "READING_MODULE" -> "finit_module"
      [] id \in {"READING_KEXEC_IMAGE", "READING_KEXEC_INITRAMFS"} -> "kexec_file_load"
      [] id = "LOADING_MODULE" -> "init_module"
      [] id = "LOADING_KEXEC_IMAGE" -> "kexec_load"
      [] OTHER -> NoNr

(* The ids module_loading_denied refuses.                                   *)
ModuleControlled(id) == id \in {"READING_MODULE", "READING_FIRMWARE", "LOADING_MODULE"}

(* The list aegis_audit_init asks for; it ignores what the adds return.     *)
Default == <<"kexec_load", "kexec_file_load", "init_module", "finit_module", "delete_module">>

(* The numbers the list can hold: any that is not negative can be written.   *)
Syscall == Range(Default) \cup Nr

ASSUME AuditAssumption ==
    /\ Admin \cap Loader = {} /\ NoThread \notin Thread
    /\ IsFiniteSet(Admin) /\ Admin # {}
    /\ NoNr \notin Syscall
    /\ AEGIS_MAX_BLOCKED_SYSCALLS \in Nat \ {0}
    /\ Tunable \subseteq Knob /\ MaxEvents \in Nat

VARIABLES
    blocked_syscalls,       \* the list
    blocked_syscall_count,
    lock,                   \* the holder of blocked_syscalls_lock
    aegis_cfg,
    syscall_violations, module_violations, total_events,
    pc,
    nr,                     \* the argument of add and del
    loading,                \* the id a loader's hook is asked about
    no_block, no_deny       \* history: loaders that met a moment, since their
                            \* hook began, at which the blocked list (the
                            \* denial of modules) did not forbid their load

list_vars == <<blocked_syscalls, blocked_syscall_count>>
stat_vars == <<syscall_violations, module_violations, total_events>>
vars == <<list_vars, lock, aegis_cfg, stat_vars, pc, nr, loading, no_block, no_deny>>

On(bit) == aegis_cfg["enabled"] /\ aegis_cfg[bit]       \* AEGIS_FEATURE_CHECK

Blocked(n) == n \in Range(blocked_syscalls)

(* The blocked list forbids a load now.                                     *)
BlockInForce(id) ==
    On("SYSCALL_AUDIT") /\ aegis_cfg["syscall_audit_enable"] /\ Blocked(SyscallOf(id))

(* module_loading_denied is in force now.                                   *)
DenyInForce == On("MODULE_CONTROL") /\ aegis_cfg["module_loading_denied"]

Goto(t, from, to) ==
    /\ pc[t] = from
    /\ pc' = [pc EXCEPT ![t] = to]

Section == [add_lock   |-> "add_check",
            add_relock |-> "add_insert",
            del_lock   |-> "del_walk",
            hook_lock  |-> "hook_walk"]

SpinLock(t) ==
    /\ lock = NoThread
    /\ lock' = t
    /\ pc[t] \in DOMAIN Section
    /\ pc' = [pc EXCEPT ![t] = Section[pc[t]]]
    /\ UNCHANGED <<list_vars, aegis_cfg, stat_vars, nr, loading>>

(* Mutant: -ENOSPC returns with the lock held.                              *)
SpinUnlock_NoSpace(t) ==
    lock' = IF pc[t] = "add_check" /\ blocked_syscall_count >= AEGIS_MAX_BLOCKED_SYSCALLS
            THEN lock ELSE NoThread

SpinUnlock(t) == lock' = NoThread

(***************************************************************************)
(* aegis_syscall_block_add and aegis_syscall_block_del                      *)
(***************************************************************************)
Request(t, l) ==
    /\ Goto(t, "idle", l)
    /\ \E n \in Nr : nr' = [nr EXCEPT ![t] = n]
    /\ UNCHANGED <<list_vars, lock, aegis_cfg, stat_vars, loading>>

(* A call that returns takes its argument with it.                          *)
Leave(t) == nr' = [nr EXCEPT ![t] = IF pc'[t] = "idle" THEN NoNr ELSE @]

AddStart(t) == Request(t, "add_lock")
DelStart(t) == Request(t, "del_lock")

(* Mutant: the capacity is not tested.                                      *)
AddCheck_NoLimit(t) ==
    /\ Goto(t, "add_check", IF Blocked(nr[t]) THEN "idle" ELSE "add_alloc")
    /\ SpinUnlock(t)
    /\ Leave(t)
    /\ UNCHANGED <<list_vars, aegis_cfg, stat_vars, loading>>

(* Mutant: the walk for a duplicate is left out.                            *)
AddCheck_NoDup(t) ==
    /\ Goto(t, "add_check",
            IF blocked_syscall_count >= AEGIS_MAX_BLOCKED_SYSCALLS THEN "idle" ELSE "add_alloc")
    /\ SpinUnlock(t)
    /\ Leave(t)
    /\ UNCHANGED <<list_vars, aegis_cfg, stat_vars, loading>>

AddCheck(t) ==
    /\ Goto(t, "add_check",
            IF \/ blocked_syscall_count >= AEGIS_MAX_BLOCKED_SYSCALLS
               \/ Blocked(nr[t])
            THEN "idle" ELSE "add_alloc")
    /\ SpinUnlock(t)
    /\ Leave(t)
    /\ UNCHANGED <<list_vars, aegis_cfg, stat_vars, loading>>

(* kmalloc, which may fail: -ENOMEM.                                        *)
AddAlloc(t) ==
    /\ \E l \in {"idle", "add_relock"} : Goto(t, "add_alloc", l)
    /\ Leave(t)
    /\ UNCHANGED <<list_vars, lock, aegis_cfg, stat_vars, loading>>

AddInsert(t) ==
    /\ Goto(t, "add_insert", "idle")
    /\ blocked_syscalls' = Append(blocked_syscalls, nr[t])
    /\ blocked_syscall_count' = blocked_syscall_count + 1
    /\ SpinUnlock(t)
    /\ Leave(t)
    /\ UNCHANGED <<aegis_cfg, stat_vars, loading>>

(* Mutant: the walk does not stop at the first match, the count goes down by *)
(* one.                                                                     *)
DelWalk_All(t) ==
    /\ Goto(t, "del_walk", "idle")
    /\ blocked_syscalls' = SelectSeq(blocked_syscalls, LAMBDA n : n # nr[t])
    /\ blocked_syscall_count' = blocked_syscall_count - (IF Blocked(nr[t]) THEN 1 ELSE 0)
    /\ SpinUnlock(t)
    /\ Leave(t)
    /\ UNCHANGED <<aegis_cfg, stat_vars, loading>>

DelWalk(t) ==
    /\ Goto(t, "del_walk", "idle")
    /\ \/ ~Blocked(nr[t]) /\ UNCHANGED list_vars
       \/ \E i \in FirstAt(blocked_syscalls, nr[t]) :
             /\ blocked_syscalls' = list_del(blocked_syscalls, i)
             /\ blocked_syscall_count' = blocked_syscall_count - 1
    /\ SpinUnlock(t)
    /\ Leave(t)
    /\ UNCHANGED <<aegis_cfg, stat_vars, loading>>

(***************************************************************************)
(* The hooks.                                                               *)
(***************************************************************************)
(* No load is at hand.                                                      *)
Answered(t) == loading' = [loading EXCEPT ![t] = "READING_MODULE"]

LoadStart(t) ==
    /\ total_events < MaxEvents
    /\ Goto(t, "idle", "hook_enabled")
    /\ \E id \in Id : loading' = [loading EXCEPT ![t] = id]
    /\ UNCHANGED <<list_vars, lock, aegis_cfg, stat_vars, nr>>

(* Mutant: the module-control gate comes first.                             *)
HookEnabled_Gate(t) ==
    /\ Goto(t, "hook_enabled", IF ~On("MODULE_CONTROL") THEN "admitted"
                               ELSE IF SyscallOf(loading[t]) = NoNr THEN "hook_control"
                               ELSE "hook_feature")
    /\ UNCHANGED <<list_vars, lock, aegis_cfg, stat_vars, nr, loading>>

(* `if (!aegis_cfg.enabled) return 0', then whether the id has a syscall.    *)
HookEnabled(t) ==
    /\ Goto(t, "hook_enabled", IF ~aegis_cfg["enabled"] THEN "admitted"
                               ELSE IF SyscallOf(loading[t]) = NoNr THEN "hook_control"
                               ELSE "hook_feature")
    /\ UNCHANGED <<list_vars, lock, aegis_cfg, stat_vars, nr, loading>>

(* The feature test.  aegis_kernel_load_data makes it once more before       *)
(* aegis_is_syscall_blocked does, to no other effect.                       *)
HookFeature(t) ==
    /\ Goto(t, "hook_feature", IF On("SYSCALL_AUDIT") THEN "hook_audit" ELSE "hook_control")
    /\ UNCHANGED <<list_vars, lock, aegis_cfg, stat_vars, nr, loading>>

HookAudit(t) ==
    /\ Goto(t, "hook_audit",
            IF aegis_cfg["syscall_audit_enable"] THEN "hook_lock" ELSE "hook_control")
    /\ UNCHANGED <<list_vars, lock, aegis_cfg, stat_vars, nr, loading>>

(* Mutant: a load the list does not forbid is admitted there and then.      *)
HookWalk_Return(t) ==
    /\ Goto(t, "hook_walk", IF Blocked(SyscallOf(loading[t])) THEN "hook_refuse" ELSE "admitted")
    /\ SpinUnlock(t)
    /\ UNCHANGED <<list_vars, aegis_cfg, stat_vars, nr, loading>>

HookWalk(t) ==
    /\ Goto(t, "hook_walk", IF Blocked(SyscallOf(loading[t])) THEN "hook_refuse" ELSE "hook_control")
    /\ SpinUnlock(t)
    /\ UNCHANGED <<list_vars, aegis_cfg, stat_vars, nr, loading>>

HookRefuse(t) ==
    /\ Goto(t, "hook_refuse", "idle")
    /\ syscall_violations' = syscall_violations + 1
    /\ total_events' = total_events + 1
    /\ Answered(t)
    /\ UNCHANGED <<list_vars, lock, aegis_cfg, module_violations, nr>>

(* The module-control gate comes after the blocked list.                    *)
HookControl(t) ==
    /\ Goto(t, "hook_control", IF On("MODULE_CONTROL") THEN "hook_denied" ELSE "admitted")
    /\ UNCHANGED <<list_vars, lock, aegis_cfg, stat_vars, nr, loading>>

HookDenied(t) ==
    /\ Goto(t, "hook_denied",
            IF ModuleControlled(loading[t]) /\ aegis_cfg["module_loading_denied"]
            THEN "hook_deny" ELSE "admitted")
    /\ UNCHANGED <<list_vars, lock, aegis_cfg, stat_vars, nr, loading>>

(* A refusal by module_loading_denied is counted and logged ...             *)
HookDeny(t) ==
    /\ Goto(t, "hook_deny", "idle")
    /\ module_violations' = module_violations + 1
    /\ total_events' = total_events + 1
    /\ Answered(t)
    /\ UNCHANGED <<list_vars, lock, aegis_cfg, syscall_violations, nr>>

(* ... except that of READING_MODULE without a file, a page or a path string.*)
HookDenySilent(t) ==
    /\ Goto(t, "hook_deny", "idle")
    /\ loading[t] = "READING_MODULE"
    /\ Answered(t)
    /\ UNCHANGED <<list_vars, lock, aegis_cfg, syscall_violations, module_violations,
                   total_events, nr>>

(* The hook has answered 0: the load goes on.                               *)
Load(t) ==
    /\ Goto(t, "admitted", "idle")
    /\ Answered(t)
    /\ UNCHANGED <<list_vars, lock, aegis_cfg, stat_vars, nr>>

(* aegis_bprm_check_security never refuses; with auditing on it counts.     *)
Exec(t) ==
    /\ total_events < MaxEvents
    /\ pc[t] = "idle"
    /\ total_events' = total_events +
          (IF On("SYSCALL_AUDIT") /\ aegis_cfg["syscall_audit_enable"] THEN 1 ELSE 0)
    /\ UNCHANGED <<list_vars, lock, aegis_cfg, syscall_violations, module_violations,
                   pc, nr, loading>>

SetKnob(k) ==
    /\ aegis_cfg' = [aegis_cfg EXCEPT ![k] = ~@]
    /\ UNCHANGED <<list_vars, lock, stat_vars, pc, nr, loading>>
-----------------------------------------------------------------------------
(* Any of the default adds may have failed for want of memory.              *)
Init ==
    /\ \E added \in SUBSET Nr :
          LET add(s, i) == IF Default[i] \in added THEN Append(s, Default[i]) ELSE s
          IN  blocked_syscalls = add(add(add(add(add(<<>>, 1), 2), 3), 4), 5)
    /\ blocked_syscall_count = Len(blocked_syscalls)
    /\ blocked_syscall_count <= AEGIS_MAX_BLOCKED_SYSCALLS
    /\ lock = NoThread
    /\ aegis_cfg = [k \in Knob |-> k # "module_loading_denied"]
    /\ syscall_violations = 0 /\ module_violations = 0 /\ total_events = 0
    /\ pc = [t \in Thread |-> "idle"]
    /\ nr = [t \in Admin |-> NoNr]
    /\ loading = [t \in Loader |-> "READING_MODULE"]
    /\ no_block = {} /\ no_deny = {}

ThreadStep(t) ==
    \/ SpinLock(t)
    \/ t \in Admin /\ (AddCheck(t) \/ AddAlloc(t) \/ AddInsert(t) \/ DelWalk(t))
    \/ t \in Loader /\ (\/ HookEnabled(t) \/ HookFeature(t) \/ HookAudit(t) \/ HookWalk(t)
                        \/ HookRefuse(t) \/ HookControl(t) \/ HookDenied(t)
                        \/ HookDeny(t) \/ HookDenySilent(t) \/ Load(t))

(* History, as in AegisFile: the moments a running hook could have seen.    *)
InHook(t) == pc[t] \notin {"idle", "admitted"}

Watch ==
    LET kept(met) == {t \in met : pc[t] # "idle" /\ pc'[t] # "idle"}
    IN  /\ no_block' = kept(no_block) \cup
                {t \in Loader : InHook(t)' /\ ~BlockInForce(loading[t])'}
        /\ no_deny' = kept(no_deny) \cup {t \in Loader : InHook(t)' /\ ~DenyInForce'}

Step ==
    \/ \E t \in Admin : AddStart(t) \/ DelStart(t)
    \/ \E t \in Loader : LoadStart(t) \/ Exec(t)
    \/ \E t \in Thread : ThreadStep(t)
    \/ \E k \in Tunable : SetKnob(k)

Next == Step /\ Watch

Spec == Init /\ [][Next]_vars
-----------------------------------------------------------------------------
AdminPc == {"idle", "add_lock", "add_check", "add_alloc", "add_relock", "add_insert",
            "del_lock", "del_walk"}
HookPc == {"hook_enabled", "hook_feature", "hook_audit", "hook_lock", "hook_walk",
           "hook_refuse", "hook_control", "hook_denied", "hook_deny"}

(* The type invariant, with the lock's holder inside a critical section.    *)
TypeOK ==
    /\ blocked_syscalls \in Seq(Syscall)
    /\ blocked_syscall_count \in Int
    /\ lock \in Thread \cup {NoThread}
    /\ aegis_cfg \in [Knob -> BOOLEAN]
    /\ {syscall_violations, module_violations, total_events} \subseteq Nat
    /\ pc \in [Thread -> AdminPc \cup HookPc \cup {"admitted"}]
    /\ \A t \in Admin : pc[t] \in AdminPc
    /\ \A t \in Loader : pc[t] \in HookPc \cup {"idle", "admitted"}
    /\ \A t \in Thread : pc[t] \in {"add_check", "add_insert", "del_walk", "hook_walk"} <=> lock = t
    /\ nr \in [Admin -> Nr \cup {NoNr}]
    /\ loading \in [Loader -> Id]
    /\ no_block \subseteq Loader /\ no_deny \subseteq Loader

(* blocked_syscall_count is the length of the list, through racing adds of  *)
(* one number and their deletions.                                          *)
CountExact == blocked_syscall_count = Len(blocked_syscalls)

(* The blocked list is an independent feature that "must not be skipped     *)
(* when MODULE_CONTROL is off" (aegis_kernel_read_file): a load that has a   *)
(* syscall is admitted only if at some moment since the hook began the list *)
(* did not forbid it.                                                       *)
LoadNotBlocked ==
    \A t \in Loader : pc[t] = "admitted" /\ SyscallOf(loading[t]) # NoNr => t \in no_block

(* Likewise module_loading_denied for what it covers.                       *)
LoadNotDenied ==
    \A t \in Loader : pc[t] = "admitted" /\ ModuleControlled(loading[t]) => t \in no_deny

(* The blocked syscalls are one of the lists of GuardedList.                *)
SyscallList == INSTANCE GuardedList WITH
    list <- blocked_syscalls,
    pending <- [t \in Admin |->
                   IF pc[t] \in {"add_alloc", "add_relock", "add_insert"} THEN nr[t] ELSE NoNr],
    Key <- Syscall, NoKey <- NoNr, Capacity <- AEGIS_MAX_BLOCKED_SYSCALLS

(* Every change of the list of blocked syscalls is one GuardedList makes:   *)
(* see ImplementsList of AegisFile.                                         *)
ImplementsList == SyscallList!Spec

(* What concurrent adds can do to the list of blocked syscalls: it outgrows  *)
(* AEGIS_MAX_BLOCKED_SYSCALLS by fewer entries than there are threads that   *)
(* add, and no number has more entries than there are such threads.         *)
ListBounded == SyscallList!Bounded

(* module_loading_denied keeps a kexec image out too, as aegis_sysctl.c has *)
(* it.                                                                      *)
KexecDenied ==
    \A t \in Loader :
        pc[t] = "admitted" /\ loading[t] \in {"READING_KEXEC_IMAGE", "LOADING_KEXEC_IMAGE"}
            => t \in no_deny
=============================================================================
