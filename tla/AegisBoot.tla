------------------------------ MODULE AegisBoot ------------------------------
(***************************************************************************)
(* Boot: aegis_init (aegis_lsm.c), which registers the hooks and then        *)
(* initialises the subsystems, of which only the sysctl table can fail; and  *)
(* the late initcall that creates the securityfs tree, with the control      *)
(* endpoints, and takes down what it has created if a creation fails         *)
(* (aegis_securityfs.c, aegis_control.c).  The initcall runs whether or not  *)
(* aegis_init has succeeded.                                                *)
(***************************************************************************)
EXTENDS Integers, Sequences, Functions

Read == <<"status", "stats", "protected_procs", "protected_files", "blocked_syscalls">>
Control == <<"protected_files_add", "protected_files_del", "protected_procs_add",
             "protected_procs_del", "blocked_syscalls_add", "blocked_syscalls_del">>
Name == {"dir"} \cup Range(Read) \cup Range(Control)

(* The order of creation.                                                   *)
CreationOrder == <<"dir">> \o Read \o Control

(* The order of removal: the endpoints, the files, the directory.           *)
RemovalOrder == Control \o Read \o <<"dir">>

(* Mutant: the sysctl table is registered first.                            *)
Subsystem_SysctlFirst == <<"sysctl", "process", "file", "audit", "module">>

(* The order of initialisation.                                             *)
Subsystem == <<"process", "file", "audit", "module", "sysctl">>

VARIABLES
    hooks,      \* security_add_hooks has been called
    active,     \* the subsystems that are initialised
    dentry,     \* each static dentry pointer: NULL, an error, or the entry
    tree,       \* what exists in securityfs
    pc,
    next        \* the position in one of the orders above

vars == <<hooks, active, dentry, tree, pc, next>>

(* security_add_hooks.                                                      *)
AddHooks ==
    /\ pc = "start"
    /\ pc' = "subsystem" /\ next' = 1
    /\ hooks' = TRUE
    /\ UNCHANGED <<active, dentry, tree>>

InitSubsystem ==
    /\ pc = "subsystem"
    /\ active' = active \cup {Subsystem[next]}
    /\ IF next = Len(Subsystem) THEN pc' = "create" /\ next' = 1
                                ELSE pc' = pc /\ next' = next + 1
    /\ UNCHANGED <<hooks, dentry, tree>>

(* register_sysctl fails: aegis_init returns -ENOMEM, the hooks stay.        *)
SysctlFails ==
    /\ pc = "subsystem" /\ Subsystem[next] = "sysctl"
    /\ pc' = "create" /\ next' = 1
    /\ UNCHANGED <<hooks, active, dentry, tree>>

(* Mutant: aegis_control_init does not keep its dentries.                   *)
CreateEntry_NotKept ==
    /\ pc = "create"
    /\ tree' = tree \cup {CreationOrder[next]}
    /\ dentry' = IF CreationOrder[next] \in Range(Control) THEN dentry
                 ELSE [dentry EXCEPT ![CreationOrder[next]] = "entry"]
    /\ IF next = Len(CreationOrder) THEN pc' = "done" /\ next' = 0
                             ELSE pc' = pc /\ next' = next + 1
    /\ UNCHANGED <<hooks, active>>

(* securityfs_create_dir or securityfs_create_file succeeds.                *)
CreateEntry ==
    /\ pc = "create"
    /\ tree' = tree \cup {CreationOrder[next]}
    /\ dentry' = [dentry EXCEPT ![CreationOrder[next]] = "entry"]
    /\ IF next = Len(CreationOrder) THEN pc' = "done" /\ next' = 0
                             ELSE pc' = pc /\ next' = next + 1
    /\ UNCHANGED <<hooks, active>>

(* Mutant: aegis_dir keeps its error pointer.                               *)
CreateFails_DirKept ==
    /\ pc = "create"
    /\ dentry' = IF CreationOrder[next] \notin Range(Control)
                 THEN [dentry EXCEPT ![CreationOrder[next]] = "error"] ELSE dentry
    /\ IF CreationOrder[next] = "dir" THEN pc' = "done" /\ next' = 0
                                      ELSE pc' = "remove" /\ next' = 1
    /\ UNCHANGED <<hooks, active, tree>>

(* It fails.  The error pointer of a file to read stays in its variable, an  *)
(* endpoint's is never stored, the directory's is reset and there is nothing *)
(* to take down.                                                            *)
CreateFails ==
    /\ pc = "create"
    /\ dentry' = IF CreationOrder[next] \in Range(Read)
                 THEN [dentry EXCEPT ![CreationOrder[next]] = "error"] ELSE dentry
    /\ IF CreationOrder[next] = "dir" THEN pc' = "done" /\ next' = 0
                               ELSE pc' = "remove" /\ next' = 1
    /\ UNCHANGED <<hooks, active, tree>>

(* Mutant: the test lets an error pointer through.                          *)
Removable_NotNull(n) == dentry[n] # "NULL"

Removable(n) == dentry[n] = "entry"         \* !IS_ERR_OR_NULL

(* Mutant: the loop does not get past a pointer it must not remove.         *)
RemoveEntry_Stuck ==
    /\ pc = "remove" /\ next <= Len(RemovalOrder) /\ Removable(RemovalOrder[next])
    /\ LET n == RemovalOrder[next]
       IN  /\ tree' = tree \ {n}
           /\ dentry' = IF n \in Range(Control) THEN [dentry EXCEPT ![n] = "NULL"] ELSE dentry
    /\ next' = next + 1
    /\ UNCHANGED <<hooks, active, pc>>

(* One securityfs_remove of aegis_control_exit or aegis_securityfs_exit,     *)
(* with a pointer that is an entry or, were the test wrong, anything; the    *)
(* endpoints' pointers are reset one by one.                                *)
RemoveEntry ==
    /\ pc = "remove" /\ next <= Len(RemovalOrder)
    /\ LET n == RemovalOrder[next]
       IN  /\ tree' = IF Removable(n) THEN tree \ {n} ELSE tree
           /\ dentry' = IF n \in Range(Control) THEN [dentry EXCEPT ![n] = "NULL"] ELSE dentry
    /\ next' = next + 1
    /\ UNCHANGED <<hooks, active, pc>>

(* The last lines of aegis_securityfs_exit reset the other pointers.        *)
RemoveEnds ==
    /\ pc = "remove" /\ next = Len(RemovalOrder) + 1
    /\ dentry' = [n \in Name |-> IF n \in Range(Control) THEN dentry[n] ELSE "NULL"]
    /\ pc' = "done" /\ next' = 0
    /\ UNCHANGED <<hooks, active, tree>>

Init ==
    /\ hooks = FALSE /\ active = {}
    /\ dentry = [n \in Name |-> "NULL"]
    /\ tree = {}
    /\ pc = "start" /\ next = 0

Next == \/ AddHooks \/ InitSubsystem \/ SysctlFails
        \/ CreateEntry \/ CreateFails \/ RemoveEntry \/ RemoveEnds

Spec == Init /\ [][Next]_vars
-----------------------------------------------------------------------------
(* The type invariant; only a file to read leaves an error pointer behind.   *)
TypeOK ==
    /\ hooks \in BOOLEAN /\ active \subseteq Range(Subsystem)
    /\ dentry \in [Name -> {"NULL", "error", "entry"}]
    /\ \A n \in Name : dentry[n] = "error" => n \in Range(Read)
    /\ tree \subseteq Name
    /\ pc \in {"start", "subsystem", "create", "remove", "done"}
    /\ next \in 0 .. Len(CreationOrder) + 1

(* Boot leaves the whole tree, with a pointer to each entry, or nothing and  *)
(* every pointer NULL, whichever creation fails.                            *)
AllOrNothing ==
    pc = "done" => \/ tree = Name /\ \A n \in Name : dentry[n] = "entry"
                   \/ tree = {} /\ \A n \in Name : dentry[n] = "NULL"

(* securityfs_remove is only called with an entry that exists, and with the  *)
(* directory only when it is empty.                                         *)
RemoveSafe ==
    pc = "remove" /\ next <= Len(RemovalOrder) /\ Removable(RemovalOrder[next]) =>
        /\ dentry[RemovalOrder[next]] = "entry" /\ RemovalOrder[next] \in tree
        /\ RemovalOrder[next] = "dir" => tree = {"dir"}
=============================================================================
