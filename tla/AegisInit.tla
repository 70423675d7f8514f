------------------------------ MODULE AegisInit ------------------------------
(***************************************************************************)
(* The first process (aegis_init.c), run once the kernel has booted         *)
(* (AegisBoot): it mounts the filesystems, makes the device nodes, looks     *)
(* for the module's status file and becomes a shell.  The results of mount   *)
(* and mknod are ignored.                                                   *)
(***************************************************************************)
EXTENDS AegisBoot

CONSTANTS
    NodeOrder,      \* the nodes create_device_nodes makes, in order
    Provided        \* those of them the kernel puts in a devtmpfs

ASSUME InitAssumption == Provided \subseteq Range(NodeOrder)

(* Mutants: the table has securityfs before sysfs; /dev/pts is mounted before *)
(* /dev.                                                                    *)
MountOrder_SecurityFirst ==
    <<"proc", "security", "sys", "tmp", "dev", "debug", "proc", "sys", "pts", "run">>
MountOrder_PtsFirst ==
    <<"proc", "sys", "security", "tmp", "pts", "dev", "debug", "proc", "sys", "run">>

(* The mount points in the order of setup_filesystems, /proc and /sys twice: *)
(* the table, and the calls after it.                                       *)
MountOrder ==
    <<"proc", "sys", "security", "tmp", "dev", "debug", "proc", "sys", "pts", "run">>

(* The mount point a mount point lies in.                                   *)
Parent(t) == CASE t \in {"security", "debug"} -> "sys" [] t = "pts" -> "dev" [] OTHER -> "/"

VARIABLES
    phase,      \* where the process is: main's phases
    at,         \* the position in MountOrder or NodeOrder
    mounted,    \* the mount points with a filesystem on them, in mount order
    refused,    \* history: the mount points the kernel refused a mount on
    node,       \* what each name in /dev is: "none", "device" or "regular"
    shown       \* check_aegis has printed the status file

init_vars == <<phase, at, mounted, refused, node, shown>>
system_vars == <<vars, init_vars>>

Step(p, n, last, then) ==
    /\ phase = p
    /\ IF n = last THEN phase' = then /\ at' = 1 ELSE phase' = p /\ at' = n + 1

Start ==
    /\ phase = "kernel" /\ pc = "done"
    /\ phase' = "mount" /\ at' = 1
    /\ UNCHANGED <<vars, mounted, refused, node, shown>>

(* The initramfs has no /sys/kernel and mkdir makes one level only, so the    *)
(* mount points under it are there when sysfs is.                           *)
HasPoint(t) == Parent(t) = "sys" => "sys" \in Range(mounted)

(* A filesystem is not mounted again where it already is (EBUSY).  A mount of *)
(* procfs makes a new one each time, which goes on top of the first.        *)
Busy(t) == t # "proc" /\ t \in Range(mounted)

(* A devtmpfs covers what /dev held.                                        *)
MountOK ==
    LET t == MountOrder[at]
    IN  /\ Step("mount", at, Len(MountOrder), "nodes")
        /\ HasPoint(t) /\ ~Busy(t)
        /\ mounted' = Append(mounted, t)
        /\ node' = IF t = "dev" THEN [n \in DOMAIN node |-> IF n \in Provided THEN "device" ELSE "none"]
                   ELSE node
        /\ UNCHANGED <<vars, refused, shown>>

MountBusy ==
    /\ Step("mount", at, Len(MountOrder), "nodes")
    /\ Busy(MountOrder[at])
    /\ UNCHANGED <<vars, mounted, refused, node, shown>>

MountNoPoint ==
    /\ Step("mount", at, Len(MountOrder), "nodes")
    /\ ~HasPoint(MountOrder[at])
    /\ UNCHANGED <<vars, mounted, refused, node, shown>>

(* The kernel refuses, for reasons of its own.                              *)
MountRefused ==
    LET t == MountOrder[at]
    IN  /\ Step("mount", at, Len(MountOrder), "nodes")
        /\ HasPoint(t) /\ ~Busy(t)
        /\ refused' = refused \cup {t}
        /\ UNCHANGED <<vars, mounted, node, shown>>

(* Mutant: a name that is taken is unlinked first.                          *)
Made_Afresh(n) == "regular"

(* mknod with a mode without a file type makes a regular file, and nothing   *)
(* where the name is taken (EEXIST).                                        *)
Made(n) == IF node[n] = "none" THEN "regular" ELSE node[n]

MakeNode ==
    LET n == NodeOrder[at]
    IN  /\ Step("nodes", at, Len(NodeOrder), "check")
        /\ node' = [node EXCEPT ![n] = Made(n)]
        /\ UNCHANGED <<vars, mounted, refused, shown>>

MakeNodeFails ==
    /\ Step("nodes", at, Len(NodeOrder), "check")
    /\ UNCHANGED <<vars, mounted, refused, node, shown>>

(* What is mounted on t can be seen: its parent was not mounted after it.    *)
Visible(t) ==
    \E i \in DOMAIN mounted :
        mounted[i] = t /\ \A j \in DOMAIN mounted : j > i => mounted[j] # Parent(t)

(* check_aegis opens the status file by its path.                           *)
check_aegis ==
    /\ phase = "check"
    /\ shown' = (Visible("security") /\ "status" \in tree)
    /\ phase' = "exec" /\ at' = 1
    /\ UNCHANGED <<vars, mounted, refused, node>>

(* run_shell becomes the shell, or both its attempts fail and main returns.  *)
run_shell ==
    /\ phase = "exec"
    /\ phase' \in {"shell", "exit"}
    /\ UNCHANGED <<vars, at, mounted, refused, node, shown>>

BootStep == phase = "kernel" /\ Next /\ UNCHANGED init_vars

SystemInit ==
    /\ Init
    /\ phase = "kernel" /\ at = 1
    /\ mounted = <<>> /\ refused = {}
    /\ node = [n \in Range(NodeOrder) |-> "none"]
    /\ shown = FALSE

SystemNext ==
    \/ BootStep \/ Start \/ MountOK \/ MountBusy \/ MountNoPoint \/ MountRefused
    \/ MakeNode \/ MakeNodeFails \/ check_aegis \/ run_shell

(* Boot and the first process are one thread of control, and the calls they  *)
(* make return.                                                             *)
SystemSpec == SystemInit /\ [][SystemNext]_system_vars /\ WF_system_vars(SystemNext)
-----------------------------------------------------------------------------
(* Userspace runs under registered hooks whose four subsystems are           *)
(* initialised, even when registering the sysctl table fails and aegis_init  *)
(* returns early.                                                           *)
GuardUp ==
    phase # "kernel" => hooks /\ {"process", "file", "audit", "module"} \subseteq active

(* What has been mounted stays in reach: neither the second mounts of /proc   *)
(* and /sys nor those of the table cover a mount point that is in use.       *)
NothingHidden == \A t \in Range(mounted) : Visible(t)

(* The status is printed exactly when the securityfs tree was created and no  *)
(* mount of sysfs or securityfs was refused: the second mount of /sys makes   *)
(* up for a failure of the first, but the status stays out of reach.        *)
StatusShown ==
    phase \in {"exec", "shell", "exit"} =>
        (shown <=> tree = Name /\ refused \cap {"sys", "security"} = {})

(* A node the kernel provides is a device whenever devtmpfs is mounted: making *)
(* the nodes afterwards, as regular files, does not replace it.             *)
NodesReal ==
    "dev" \in Range(mounted) => \A n \in Provided : node[n] = "device"

(* Whatever fails, boot ends in the shell or with the end of the process.    *)
BootSettles == <>(phase \in {"shell", "exit"})
=============================================================================
