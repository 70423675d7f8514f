--------------------------- MODULE AegisInitProofs ---------------------------
(***************************************************************************)
(* Proofs about boot and the first process (AegisBoot, AegisInit), for every *)
(* list of device nodes and whichever of them the kernel provides.           *)
(***************************************************************************)
EXTENDS AegisInit, TLAPS

(* The names, the order of their creation and that of their removal.         *)
LEMMA Creation ==
    /\ Len(CreationOrder) = 12
    /\ CreationOrder[1] = "dir" /\ CreationOrder[2] = "status" /\ CreationOrder[3] = "stats"
    /\ CreationOrder[4] = "protected_procs" /\ CreationOrder[5] = "protected_files"
    /\ CreationOrder[6] = "blocked_syscalls" /\ CreationOrder[7] = "protected_files_add"
    /\ CreationOrder[8] = "protected_files_del" /\ CreationOrder[9] = "protected_procs_add"
    /\ CreationOrder[10] = "protected_procs_del" /\ CreationOrder[11] = "blocked_syscalls_add"
    /\ CreationOrder[12] = "blocked_syscalls_del"
BY DEF CreationOrder, Read, Control

LEMMA Removal ==
    /\ Len(RemovalOrder) = 12
    /\ RemovalOrder[1] = "protected_files_add" /\ RemovalOrder[2] = "protected_files_del"
    /\ RemovalOrder[3] = "protected_procs_add" /\ RemovalOrder[4] = "protected_procs_del"
    /\ RemovalOrder[5] = "blocked_syscalls_add" /\ RemovalOrder[6] = "blocked_syscalls_del"
    /\ RemovalOrder[7] = "status" /\ RemovalOrder[8] = "stats"
    /\ RemovalOrder[9] = "protected_procs" /\ RemovalOrder[10] = "protected_files"
    /\ RemovalOrder[11] = "blocked_syscalls" /\ RemovalOrder[12] = "dir"
BY DEF RemovalOrder, Read, Control

LEMMA Names ==
    /\ Range(Read) = {"status", "stats", "protected_procs", "protected_files",
                      "blocked_syscalls"}
    /\ Range(Control) = {"protected_files_add", "protected_files_del", "protected_procs_add",
                         "protected_procs_del", "blocked_syscalls_add", "blocked_syscalls_del"}
    /\ Name = {"dir"} \cup Range(Read) \cup Range(Control)
BY DEF Read, Control, Name, Range

(* Both orders have every name, once; the directory comes first and goes     *)
(* last.                                                                    *)
LEMMA CreatesEach ==
    /\ \A i \in 1..12 : CreationOrder[i] \in Name /\ (CreationOrder[i] = "dir" <=> i = 1)
    /\ \A i, j \in 1..12 : CreationOrder[i] = CreationOrder[j] => i = j
    /\ \A n \in Name : \E i \in 1..12 : n = CreationOrder[i]
BY Creation, Names

LEMMA RemovesEach ==
    /\ \A i \in 1..12 : RemovalOrder[i] \in Name /\ (RemovalOrder[i] = "dir" <=> i = 12)
    /\ \A i, j \in 1..12 : RemovalOrder[i] = RemovalOrder[j] => i = j
    /\ \A n \in Name : \E i \in 1..12 : n = RemovalOrder[i]
BY Removal, Names

LEMMA Subsystems ==
    /\ Len(Subsystem) = 5 /\ Subsystem[5] = "sysctl"
    /\ \A i \in 1..5 : Subsystem[i] \in Range(Subsystem) /\ (Subsystem[i] = "sysctl" <=> i = 5)
    /\ Subsystem[1] = "process" /\ Subsystem[2] = "file" /\ Subsystem[3] = "audit"
    /\ Subsystem[4] = "module"
BY DEF Subsystem, Range
-----------------------------------------------------------------------------
(* What boot has done when it is at a place.  While it creates, the entries   *)
(* before the place exist and no pointer is set beyond it; while it removes,  *)
(* what exists is what has a pointer and is not reached yet, and the          *)
(* endpoints passed have lost their pointers.                               *)
Guards == hooks /\ {"process", "file", "audit", "module"} \subseteq active

Untouched == tree = {} /\ \A n \in Name : dentry[n] = "NULL"

Starting ==
    pc = "subsystem" => /\ next \in 1..5 /\ hooks
                        /\ \A i \in 1 .. next - 1 : Subsystem[i] \in active

Creating ==
    pc = "create" =>
        /\ next \in 1..12
        /\ \A i \in 1..12 : /\ CreationOrder[i] \in tree <=> i < next
                            /\ dentry[CreationOrder[i]] = IF i < next THEN "entry" ELSE "NULL"

Removing ==
    pc = "remove" =>
        /\ next \in 1..13
        /\ \A i \in 1..12 :
              /\ RemovalOrder[i] \in tree <=> i >= next /\ dentry[RemovalOrder[i]] = "entry"
              /\ i < next /\ RemovalOrder[i] \in Range(Control) => dentry[RemovalOrder[i]] = "NULL"

BootInv ==
    /\ TypeOK /\ AllOrNothing /\ Starting /\ Creating /\ Removing
    /\ pc \in {"start", "subsystem"} => Untouched
    /\ pc \in {"create", "remove", "done"} => Guards

LEMMA BootInit == Init => BootInv
<1> SUFFICES ASSUME Init PROVE BootInv
  OBVIOUS
<1>1. pc = "start" /\ next = 0 /\ hooks = FALSE /\ active = {} /\ Untouched
  BY DEF Init, Untouched
<1>2. TypeOK
  <2>1. 0 \in 0 .. Len(CreationOrder) + 1
    BY Creation
  <2>2. /\ dentry \in [Name -> {"NULL", "error", "entry"}]
        /\ \A n \in Name : dentry[n] = "error" => n \in Range(Read)
    BY DEF Init
  <2> QED BY <1>1, <2>1, <2>2, Zenon DEF TypeOK, Untouched
<1> QED BY <1>1, <1>2 DEF BootInv, AllOrNothing, Starting, Creating, Removing

(* Before the tree.                                                         *)
LEMMA StartKeeps ==
    ASSUME BootInv, AddHooks \/ InitSubsystem \/ SysctlFails
    PROVE  BootInv'
<1>1. TypeOK /\ Starting /\ pc \in {"start", "subsystem"} /\ Untouched
  BY Zenon DEF BootInv, AddHooks, InitSubsystem, SysctlFails
<1>2. dentry' = dentry /\ tree' = tree /\ Untouched'
  BY <1>1, Zenon DEF AddHooks, InitSubsystem, SysctlFails, Untouched
<1>3. CASE AddHooks
  <2>1. pc' = "subsystem" /\ next' = 1 /\ hooks' = TRUE /\ active' = active
    BY <1>3 DEF AddHooks
  <2>2. TypeOK'
    BY <1>1, <1>2, <2>1, Creation DEF TypeOK
  <2> QED BY <1>2, <2>1, <2>2 DEF BootInv, AllOrNothing, Starting, Creating, Removing
<1>4. ASSUME pc = "subsystem", pc' = "create", next' = 1, hooks' = hooks, next = 5,
             active' \in SUBSET Range(Subsystem), active \subseteq active'
      PROVE  BootInv'
  <2>1. TypeOK'
    BY <1>1, <1>2, <1>4, Creation DEF TypeOK
  <2>2. Guards'
    BY <1>1, <1>4, Subsystems DEF Guards, Starting
  <2>3. Creating'
    BY <1>2, <1>4, CreatesEach DEF Creating, Untouched
  <2> QED BY <1>4, <2>1, <2>2, <2>3 DEF BootInv, AllOrNothing, Starting, Removing
<1>5. CASE InitSubsystem
  <2>1. /\ pc = "subsystem" /\ hooks' = hooks /\ active' = active \cup {Subsystem[next]}
        /\ \/ next = 5 /\ pc' = "create" /\ next' = 1
           \/ next # 5 /\ pc' = "subsystem" /\ next' = next + 1
    BY <1>5, Subsystems DEF InitSubsystem
  <2>2. next \in 1..5 /\ active' \in SUBSET Range(Subsystem) /\ active \subseteq active'
    BY <1>1, <2>1, Subsystems DEF TypeOK, Starting
  <2>3. CASE next = 5
    BY <1>4, <2>1, <2>2, <2>3, Zenon
  <2>4. CASE next # 5
    <3>1. TypeOK'
      BY <1>1, <1>2, <2>1, <2>2, <2>4, Creation DEF TypeOK
    <3>2. Starting'
      BY <1>1, <2>1, <2>2, <2>4 DEF Starting
    <3> QED BY <1>2, <2>1, <2>4, <3>1, <3>2 DEF BootInv, AllOrNothing, Creating, Removing
  <2> QED BY <2>3, <2>4
<1>6. CASE SysctlFails
  <2>1. /\ pc = "subsystem" /\ pc' = "create" /\ next' = 1 /\ hooks' = hooks /\ active' = active
        /\ next = 5
    BY <1>1, <1>6, Subsystems DEF SysctlFails, Starting
  <2> QED BY <1>1, <1>4, <2>1 DEF TypeOK
<1> QED BY <1>3, <1>5, <1>6

(* A creation that succeeds: the last one completes the tree.                *)
LEMMA CreateKeeps ==
    ASSUME BootInv, CreateEntry
    PROVE  BootInv'
<1>1. TypeOK /\ Creating /\ Guards /\ pc = "create" /\ next \in 1..12
  BY Zenon DEF BootInv, CreateEntry, Creating
<1> DEFINE e == CreationOrder[next]
<1>2. /\ tree' = tree \cup {e} /\ dentry' = [dentry EXCEPT ![e] = "entry"]
      /\ hooks' = hooks /\ active' = active
      /\ \/ next = 12 /\ pc' = "done" /\ next' = 0
         \/ next # 12 /\ pc' = "create" /\ next' = next + 1
  BY Creation DEF CreateEntry
<1>3. e \in Name /\ \A i \in 1..12 : i # next => CreationOrder[i] # e
  BY <1>1, CreatesEach
<1> HIDE DEF e
<1>4. TypeOK' /\ Guards'
  BY <1>1, <1>2, <1>3, Creation DEF TypeOK, Guards
<1>5. \A i \in 1..12 : /\ CreationOrder[i] \in tree' <=> i < next + 1
                       /\ dentry'[CreationOrder[i]] = IF i < next + 1 THEN "entry" ELSE "NULL"
  <2> TAKE i \in 1..12
  <2>1. CreationOrder[i] \in Name /\ dentry \in [Name -> {"NULL", "error", "entry"}]
    BY <1>1, CreatesEach, Zenon DEF TypeOK
  <2>2. CASE i = next
    <3>1. CreationOrder[i] = e /\ i < next + 1
      BY <1>1, <2>2 DEF e
    <3> QED BY <1>2, <2>1, <3>1
  <2>3. CASE i # next
    <3>1. CreationOrder[i] # e /\ (i < next + 1 <=> i < next)
      BY <1>1, <1>3, <2>3
    <3>2. /\ CreationOrder[i] \in tree <=> i < next
          /\ dentry[CreationOrder[i]] = IF i < next THEN "entry" ELSE "NULL"
      BY <1>1, Zenon DEF Creating
    <3> QED BY <1>2, <2>1, <3>1, <3>2
  <2> QED BY <2>2, <2>3
<1>6. CASE next # 12
  <2>1. Creating'
    BY <1>1, <1>2, <1>5, <1>6 DEF Creating
  <2> QED BY <1>2, <1>4, <1>6, <2>1 DEF BootInv, AllOrNothing, Starting, Removing
<1>7. CASE next = 12
  <2>1. \A i \in 1..12 : CreationOrder[i] \in tree' /\ dentry'[CreationOrder[i]] = "entry"
    BY <1>5, <1>7
  <2>2. \A n \in Name : n \in tree' /\ dentry'[n] = "entry"
    <3> TAKE n \in Name
    <3>1. PICK i \in 1..12 : n = CreationOrder[i]
      BY CreatesEach, Zenon
    <3> QED BY <2>1, <3>1, Zenon
  <2>3. tree' = Name
    BY <1>4, <2>2, Zenon DEF TypeOK
  <2>4. AllOrNothing'
    BY <2>2, <2>3 DEF AllOrNothing
  <2> QED BY <1>2, <1>4, <1>7, <2>4 DEF BootInv, Starting, Creating, Removing
<1> QED BY <1>6, <1>7

(* A creation that fails: without the directory there is nothing to undo,    *)
(* otherwise what exists is what has a pointer.                             *)
LEMMA FailKeeps ==
    ASSUME BootInv, CreateFails
    PROVE  BootInv'
<1>1. TypeOK /\ Creating /\ Guards /\ pc = "create" /\ next \in 1..12
  BY Zenon DEF BootInv, CreateFails, Creating
<1> DEFINE e == CreationOrder[next]
<1>2. /\ tree' = tree /\ hooks' = hooks /\ active' = active
      /\ dentry' = IF e \in Range(Read) THEN [dentry EXCEPT ![e] = "error"] ELSE dentry
      /\ \/ e = "dir" /\ pc' = "done" /\ next' = 0
         \/ e # "dir" /\ pc' = "remove" /\ next' = 1
  BY DEF CreateFails
<1>3. e \in Name /\ (e = "dir" <=> next = 1) /\ e \notin tree /\ dentry[e] = "NULL"
  BY <1>1, CreatesEach DEF Creating
<1> HIDE DEF e
<1>4. TypeOK' /\ Guards'
  BY <1>1, <1>2, <1>3, Creation DEF TypeOK, Guards
<1>5. CASE e = "dir"
  <2>1. "dir" \notin Range(Read)
    BY Names
  <2>2. \A i \in 1..12 : CreationOrder[i] \notin tree /\ dentry[CreationOrder[i]] = "NULL"
    BY <1>1, <1>3, <1>5 DEF Creating
  <2>3. \A n \in Name : n \notin tree /\ dentry[n] = "NULL"
    <3> TAKE n \in Name
    <3>1. PICK i \in 1..12 : n = CreationOrder[i]
      BY CreatesEach, Zenon
    <3> QED BY <2>2, <3>1, Zenon
  <2>4. tree' = {} /\ \A n \in Name : dentry'[n] = "NULL"
    BY <1>1, <1>2, <1>5, <2>1, <2>3 DEF TypeOK
  <2>5. AllOrNothing'
    BY <2>4 DEF AllOrNothing
  <2> QED BY <1>2, <1>4, <1>5, <2>5 DEF BootInv, Starting, Creating, Removing
<1>6. CASE e # "dir"
  <2>1. \A i \in 1..12 : CreationOrder[i] \in tree <=> dentry[CreationOrder[i]] = "entry"
    BY <1>1 DEF Creating
  <2>2. \A n \in Name : n \in tree <=> dentry[n] = "entry"
    <3> TAKE n \in Name
    <3>1. PICK i \in 1..12 : n = CreationOrder[i]
      BY CreatesEach, Zenon
    <3> QED BY <2>1, <3>1, Zenon
  <2>3. \A n \in Name : n \in tree' <=> dentry'[n] = "entry"
    BY <1>1, <1>2, <1>3, <2>2 DEF TypeOK
  <2>4. pc' = "remove" /\ next' = 1
    BY <1>2, <1>6
  <2>5. Removing'
    <3>1. \A i \in 1..12 : i >= 1 /\ ~(i < 1) /\ RemovalOrder[i] \in Name
      BY RemovesEach
    <3> QED BY <2>3, <2>4, <3>1 DEF Removing
  <2> QED BY <1>4, <2>4, <2>5 DEF BootInv, AllOrNothing, Starting, Creating
<1> QED BY <1>5, <1>6

(* One removal takes the entry at the place, if it has a pointer.            *)
LEMMA RemoveKeeps ==
    ASSUME BootInv, RemoveEntry
    PROVE  BootInv'
<1>1. TypeOK /\ Removing /\ Guards /\ pc = "remove"
  BY Zenon DEF BootInv, RemoveEntry
<1> DEFINE e == RemovalOrder[next]
<1>2. /\ tree' = IF dentry[e] = "entry" THEN tree \ {e} ELSE tree
      /\ dentry' = IF e \in Range(Control) THEN [dentry EXCEPT ![e] = "NULL"] ELSE dentry
      /\ next <= 12 /\ next' = next + 1 /\ pc' = pc /\ hooks' = hooks /\ active' = active
  BY Removal DEF RemoveEntry, Removable
<1>3. next \in 1..12
  BY <1>1, <1>2 DEF Removing
<1>4. e \in Name /\ \A i \in 1..12 : i # next => RemovalOrder[i] # e
  BY <1>3, RemovesEach
<1> HIDE DEF e
<1>5. TypeOK' /\ Guards'
  BY <1>1, <1>2, <1>3, <1>4, Creation DEF TypeOK, Guards
<1>6. ASSUME NEW i \in 1..12
      PROVE  /\ RemovalOrder[i] \in tree' <=> i >= next' /\ dentry'[RemovalOrder[i]] = "entry"
             /\ i < next' /\ RemovalOrder[i] \in Range(Control) => dentry'[RemovalOrder[i]] = "NULL"
  <2>1. RemovalOrder[i] \in Name /\ dentry \in [Name -> {"NULL", "error", "entry"}]
    BY <1>1, RemovesEach, Zenon DEF TypeOK
  <2>2. /\ RemovalOrder[i] \in tree <=> i >= next /\ dentry[RemovalOrder[i]] = "entry"
        /\ i < next /\ RemovalOrder[i] \in Range(Control) => dentry[RemovalOrder[i]] = "NULL"
    BY <1>1, Zenon DEF Removing
  <2>3. CASE i = next
    <3>1. RemovalOrder[i] = e /\ ~(i >= next') /\ i >= next
      BY <1>2, <1>3, <2>3 DEF e
    <3> QED BY <1>2, <2>1, <2>2, <3>1
  <2>4. CASE i # next
    <3>1. RemovalOrder[i] # e /\ (i >= next' <=> i >= next) /\ (i < next' <=> i < next)
      BY <1>2, <1>3, <1>4, <2>4
    <3>2. /\ RemovalOrder[i] \in tree' <=> RemovalOrder[i] \in tree
          /\ dentry'[RemovalOrder[i]] = dentry[RemovalOrder[i]]
      BY <1>2, <2>1, <3>1
    <3> QED BY <2>2, <3>1, <3>2, Zenon
  <2> QED BY <2>3, <2>4
<1>7. Removing'
  BY <1>2, <1>3, <1>6 DEF Removing
<1> QED BY <1>1, <1>2, <1>5, <1>7 DEF BootInv, AllOrNothing, Starting, Creating

(* After the last removal nothing is left, and the other pointers are reset.  *)
LEMMA EndKeeps ==
    ASSUME BootInv, RemoveEnds
    PROVE  BootInv'
<1>1. TypeOK /\ Removing /\ Guards /\ pc = "remove"
  BY Zenon DEF BootInv, RemoveEnds
<1>2. /\ dentry' = [n \in Name |-> IF n \in Range(Control) THEN dentry[n] ELSE "NULL"]
      /\ next = 13 /\ pc' = "done" /\ next' = 0
      /\ hooks' = hooks /\ active' = active /\ tree' = tree
  BY Removal DEF RemoveEnds
<1>3. \A i \in 1..12 : /\ RemovalOrder[i] \notin tree
                       /\ RemovalOrder[i] \in Range(Control) => dentry[RemovalOrder[i]] = "NULL"
  BY <1>1, <1>2 DEF Removing
<1>4. \A n \in Name : n \notin tree /\ (n \in Range(Control) => dentry[n] = "NULL")
  <2> TAKE n \in Name
  <2>1. PICK i \in 1..12 : n = RemovalOrder[i]
    BY RemovesEach, Zenon
  <2> QED BY <1>3, <2>1, Zenon
<1>5. tree' = {} /\ \A n \in Name : dentry'[n] = "NULL"
  BY <1>1, <1>2, <1>4 DEF TypeOK
<1>6. TypeOK' /\ Guards' /\ AllOrNothing'
  BY <1>1, <1>2, <1>5, Creation DEF TypeOK, Guards, AllOrNothing
<1> QED BY <1>2, <1>6 DEF BootInv, Starting, Creating, Removing

LEMMA BootNext == BootInv /\ [Next]_vars => BootInv'
<1> SUFFICES ASSUME BootInv, [Next]_vars PROVE BootInv'
  OBVIOUS
<1>1. CASE UNCHANGED vars
  BY <1>1, Zenon DEF vars, BootInv, TypeOK, AllOrNothing, Starting, Creating, Removing, Untouched,
     Guards
<1>2. CASE Next
  BY <1>2, StartKeeps, CreateKeeps, FailKeeps, RemoveKeeps, EndKeeps, Zenon DEF Next
<1> QED BY <1>1, <1>2

(* Through boot, what exists follows from the place reached in creating or   *)
(* removing the tree.                                                       *)
THEOREM BootInvariance == Spec => []BootInv
BY BootInit, BootNext, PTL DEF Spec

(* A removal finds its entry there, the directory empty.                    *)
LEMMA RemovesWhatIsThere == BootInv => RemoveSafe
<1> SUFFICES ASSUME BootInv, pc = "remove", next <= Len(RemovalOrder),
                    Removable(RemovalOrder[next])
             PROVE  /\ dentry[RemovalOrder[next]] = "entry" /\ RemovalOrder[next] \in tree
                    /\ RemovalOrder[next] = "dir" => tree = {"dir"}
  BY Zenon DEF RemoveSafe
<1>1. TypeOK /\ Removing
  BY Zenon DEF BootInv
<1>2. next \in 1..12 /\ dentry[RemovalOrder[next]] = "entry" /\ RemovalOrder[next] \in tree
  BY <1>1, Removal DEF Removing, Removable
<1>3. ASSUME RemovalOrder[next] = "dir", NEW n \in tree PROVE n = "dir"
  <2>1. PICK i \in 1..12 : n = RemovalOrder[i]
    BY <1>1, <1>3, RemovesEach, Zenon DEF TypeOK
  <2>2. next = 12 /\ i >= next
    BY <1>1, <1>2, <1>3, <2>1, RemovesEach, Zenon DEF Removing
  <2> QED BY <1>3, <2>1, <2>2
<1> QED BY <1>2, <1>3

(* Types: a pointer is NULL, an entry, or the error a file to read leaves.   *)
THEOREM TypeCorrect == Spec => []TypeOK
<1>1. BootInv => TypeOK
  BY DEF BootInv
<1> QED BY <1>1, BootInvariance, PTL

(* Whichever creation fails, the late initcall leaves the whole tree or      *)
(* nothing, with no pointer to what is gone.                                *)
THEOREM TreeIsAllOrNothing == Spec => []AllOrNothing
<1>1. BootInv => AllOrNothing
  BY DEF BootInv
<1> QED BY <1>1, BootInvariance, PTL

(* aegis_securityfs_exit removes only what exists, and the directory last.   *)
THEOREM RemovalIsSafe == Spec => []RemoveSafe
BY BootInvariance, RemovesWhatIsThere, PTL
-----------------------------------------------------------------------------
(* The mount points in their order, and what lies in what.                   *)
LEMMA Mounts ==
    /\ Len(MountOrder) = 10
    /\ \A i \in 1..10 : /\ MountOrder[i] \in Range(MountOrder) /\ MountOrder[i] # "/"
                        /\ MountOrder[i] = "sys" <=> i \in {2, 8}
                        /\ MountOrder[i] = "security" <=> i = 3
                        /\ MountOrder[i] = "dev" <=> i = 5
                        /\ MountOrder[i] = "pts" <=> i = 9
BY DEF MountOrder, Range

LEMMA Parents ==
    /\ \A t : Parent(t) \in {"sys", "dev", "/"} /\ (Parent(t) = "dev" => t = "pts")
    /\ Parent("sys") = "/" /\ Parent("security") = "sys"
BY DEF Parent

(* The table has been worked through beyond the place n.                    *)
Past(n) == \/ phase \in {"nodes", "check", "exec", "shell", "exit"}
           \/ phase = "mount" /\ at > n

(* No mount covers an earlier one: what lies in /sys is mounted after it,    *)
(* and /dev/pts comes when /dev is no longer tried.                         *)
Layered ==
    /\ mounted \in Seq(Range(MountOrder))
    /\ \A i, j \in DOMAIN mounted : i < j => mounted[j] # Parent(mounted[i])
    /\ \A t \in Range(mounted) : HasPoint(t)
    /\ "pts" \in Range(mounted) => Past(9)

(* securityfs is mounted exactly when neither it nor sysfs was refused: after *)
(* its turn a refusal of sysfs is the second one, and then it is not mounted. *)
Reached ==
    /\ ~Past(2) => "sys" \notin Range(mounted) /\ "sys" \notin refused
    /\ ~Past(3) => "security" \notin Range(mounted) /\ "security" \notin refused
    /\ Past(2) /\ ~Past(3) => ("sys" \in Range(mounted) <=> "sys" \notin refused)
    /\ Past(3) => ("security" \in Range(mounted) <=> "sys" \notin refused /\ "security" \notin refused)

Placed ==
    /\ phase \in {"kernel", "mount", "nodes", "check", "exec", "shell", "exit"}
    /\ phase = "mount" => at \in 1..10
    /\ phase # "kernel" => pc = "done"

NodeInv == node \in [Range(NodeOrder) -> {"none", "device", "regular"}] /\ NodesReal

IInv == BootInv /\ Placed /\ Layered /\ Reached /\ NodeInv /\ StatusShown

LEMMA SystemStarts == SystemInit => IInv
<1> SUFFICES ASSUME SystemInit PROVE IInv
  OBVIOUS
<1>1. BootInv
  BY BootInit, Zenon DEF SystemInit
<1>2. phase = "kernel" /\ mounted = <<>> /\ refused = {} /\ Range(mounted) = {}
  BY DEF SystemInit, Range
<1>3. node \in [Range(NodeOrder) -> {"none", "device", "regular"}]
  BY DEF SystemInit
<1>4. ~Past(2) /\ ~Past(3)
  BY <1>2 DEF Past
<1>5. Layered
  BY <1>2 DEF Layered
<1> QED BY <1>1, <1>2, <1>3, <1>4, <1>5 DEF IInv, Placed, Reached, NodeInv, NodesReal, StatusShown

(* What a mount adds to what is mounted.                                    *)
LEMMA AppendMount ==
    ASSUME NEW S, NEW s \in Seq(S), NEW e \in S
    PROVE  /\ Append(s, e) \in Seq(S) /\ DOMAIN Append(s, e) = 1..Len(s) + 1
           /\ DOMAIN s = 1..Len(s) /\ Len(s) \in Nat
           /\ Append(s, e)[Len(s) + 1] = e /\ \A i \in 1..Len(s) : Append(s, e)[i] = s[i]
           /\ Range(Append(s, e)) = Range(s) \cup {e}
<1>1. /\ Append(s, e) \in Seq(S) /\ DOMAIN Append(s, e) = 1..Len(s) + 1
      /\ DOMAIN s = 1..Len(s) /\ Len(s) \in Nat
      /\ Append(s, e)[Len(s) + 1] = e /\ \A i \in 1..Len(s) : Append(s, e)[i] = s[i]
  OBVIOUS
<1> DEFINE r == Append(s, e)
<1>2. r = Append(s, e)
  OBVIOUS
<1> HIDE DEF r
<1>3. Range(r) = Range(s) \cup {e}
  <2>1. Len(s) + 1 \in DOMAIN r /\ \A i \in DOMAIN r : i \in 1..Len(s) \/ i = Len(s) + 1
    BY <1>1, <1>2
  <2>2. \A x \in Range(r) : x \in Range(s) \cup {e}
    BY <1>1, <1>2, <2>1 DEF Range
  <2>3. \A x \in Range(s) : x \in Range(r)
    BY <1>1, <1>2 DEF Range
  <2>4. e \in Range(r)
    BY <1>1, <1>2, <2>1 DEF Range
  <2> QED BY <2>2, <2>3, <2>4
<1> QED BY <1>1, <1>2, <1>3, Zenon

(* An attempt at a mount, whatever comes of it.                              *)
Attempt == MountOK \/ MountBusy \/ MountNoPoint \/ MountRefused

LEMMA AttemptMoves ==
    ASSUME Placed, Attempt
    PROVE  /\ phase = "mount" /\ at \in 1..10 /\ phase' \in {"mount", "nodes"} /\ UNCHANGED vars
           /\ Placed' /\ \A n \in 1..9 : (Past(n) <=> at > n) /\ (Past(n)' <=> at >= n)
<1>1. /\ phase = "mount" /\ UNCHANGED vars /\ shown' = shown
      /\ \/ at = 10 /\ phase' = "nodes" /\ at' = 1
         \/ at # 10 /\ phase' = "mount" /\ at' = at + 1
  BY Mounts DEF Attempt, MountOK, MountBusy, MountNoPoint, MountRefused, Step
<1>2. at \in 1..10 /\ pc = "done" /\ pc' = pc
  BY <1>1 DEF Placed, vars
<1>3. Placed'
  BY <1>1, <1>2 DEF Placed
<1> QED BY <1>1, <1>2, <1>3 DEF Past

LEMMA MountKeepsLayers ==
    ASSUME Placed, Layered, Attempt
    PROVE  Layered'
<1>1. at \in 1..10 /\ (Past(9) => at > 9) /\ (Past(9) => Past(9)') /\ (at = 9 => Past(9)')
  BY AttemptMoves
<1>2. CASE UNCHANGED mounted
  BY <1>1, <1>2 DEF Layered, HasPoint
<1>3. CASE MountOK
  <2> DEFINE t == MountOrder[at]
             l == Len(mounted)
  <2>1. /\ HasPoint(t) /\ (t = "proc" \/ t \notin Range(mounted))
        /\ mounted' = Append(mounted, t)
    BY <1>3 DEF MountOK, Busy
  <2>2. t \in Range(MountOrder) /\ t # "/" /\ (t = "dev" => at = 5) /\ (t = "pts" => at = 9)
    BY <1>1, Mounts
  <2> HIDE DEF t
  <2>3. /\ mounted' \in Seq(Range(MountOrder)) /\ DOMAIN mounted' = 1..l + 1
        /\ DOMAIN mounted = 1..l /\ l \in Nat
        /\ mounted'[l + 1] = t /\ \A i \in 1..l : mounted'[i] = mounted[i]
        /\ Range(mounted') = Range(mounted) \cup {t}
    BY <2>1, <2>2, AppendMount DEF Layered
  <2> HIDE DEF l
  <2>4. ASSUME NEW i \in 1..l PROVE t # Parent(mounted[i])
    <3>1. mounted[i] \in Range(mounted)
      BY <2>3 DEF Range
    <3>2. CASE Parent(mounted[i]) = "sys"
      BY <2>1, <3>1, <3>2, Zenon DEF Layered, HasPoint
    <3>3. CASE Parent(mounted[i]) = "dev"
      BY <1>1, <2>2, <3>1, <3>3, Parents DEF Layered
    <3> QED BY <2>2, <3>2, <3>3, Parents
  <2>5. ASSUME NEW i \in 1..l + 1, NEW j \in 1..l + 1, i < j
        PROVE  mounted'[j] # Parent(mounted'[i])
    <3>1. i \in 1..l /\ (j \in 1..l \/ j = l + 1)
      BY <2>3, <2>5
    <3> QED BY <2>3, <2>4, <2>5, <3>1 DEF Layered
  <2>6. \A u \in Range(mounted') : HasPoint(u)'
    BY <2>1, <2>3 DEF Layered, HasPoint
  <2>7. "pts" \in Range(mounted') => Past(9)'
    BY <1>1, <2>2, <2>3 DEF Layered
  <2> QED BY <2>3, <2>5, <2>6, <2>7 DEF Layered
<1> QED BY <1>2, <1>3, Zenon DEF Attempt, MountBusy, MountNoPoint, MountRefused

LEMMA MountKeepsReached ==
    ASSUME Placed, Layered, Reached, Attempt
    PROVE  Reached'
<1> DEFINE R == Range(mounted)
           t == MountOrder[at]
<1>1. /\ at \in 1..10 /\ (Past(2) <=> at > 2) /\ (Past(2)' <=> at >= 2)
      /\ (Past(3) <=> at > 3) /\ (Past(3)' <=> at >= 3)
  BY AttemptMoves
<1>2. \/ HasPoint(t) /\ ~Busy(t) /\ Range(mounted') = R \cup {t} /\ refused' = refused
      \/ Busy(t) /\ Range(mounted') = R /\ refused' = refused
      \/ ~HasPoint(t) /\ Range(mounted') = R /\ refused' = refused
      \/ HasPoint(t) /\ ~Busy(t) /\ Range(mounted') = R /\ refused' = refused \cup {t}
  <2>1. t \in Range(MountOrder)
    BY <1>1, Mounts
  <2>2. Range(Append(mounted, t)) = R \cup {t}
    BY <2>1, AppendMount DEF Layered
  <2> QED BY <2>2, Zenon DEF Attempt, MountOK, MountBusy, MountNoPoint, MountRefused
<1>3. (t = "sys" <=> at \in {2, 8}) /\ (t = "security" <=> at = 3)
  BY <1>1, Mounts
<1>4. HasPoint("sys") /\ (HasPoint("security") <=> "sys" \in R)
  BY Parents DEF HasPoint
<1>5. "security" \in R => "sys" \in R
  BY <1>4, Zenon DEF Layered
<1>b. t # "proc" => (Busy(t) <=> t \in R)
  BY DEF Busy
<1> HIDE DEF t, R
<1>6. /\ at <= 2 => "sys" \notin R /\ "sys" \notin refused
      /\ at <= 3 => "security" \notin R /\ "security" \notin refused
      /\ at = 3 => ("sys" \in R <=> "sys" \notin refused)
      /\ at > 3 => ("security" \in R <=> "sys" \notin refused /\ "security" \notin refused)
  BY <1>1 DEF Reached, R
<1> DEFINE Q == Range(mounted')
<1>7. /\ at < 2 => "sys" \notin Q /\ "sys" \notin refused'
      /\ at < 3 => "security" \notin Q /\ "security" \notin refused'
      /\ at = 2 => ("sys" \in Q <=> "sys" \notin refused')
      /\ at >= 3 => ("security" \in Q <=> "sys" \notin refused' /\ "security" \notin refused')
  <2> HIDE DEF Q
  <2>0. Q = Range(mounted')
    BY DEF Q
  <2>1. CASE at = 2
    BY <1>2, <1>3, <1>b, <1>4, <1>6, <2>0, <2>1
  <2>2. CASE at = 3
    BY <1>2, <1>3, <1>b, <1>4, <1>6, <2>0, <2>2
  <2>3. CASE at = 8
    BY <1>2, <1>3, <1>b, <1>4, <1>5, <1>6, <2>0, <2>3
  <2>4. CASE at \notin {2, 3, 8}
    BY <1>1, <1>2, <1>3, <1>6, <2>0, <2>4
  <2> QED BY <2>1, <2>2, <2>3, <2>4
<1> QED BY <1>1, <1>7 DEF Reached

(* Mounting a devtmpfs brings the nodes the kernel provides.                *)
LEMMA MountKeepsNodes ==
    ASSUME Placed, Layered, NodeInv, Attempt
    PROVE  NodeInv'
<1>1. at \in 1..10
  BY AttemptMoves
<1>2. CASE UNCHANGED <<mounted, node>>
  BY <1>2, Zenon DEF NodeInv, NodesReal
<1>3. CASE MountOK
  <2> DEFINE t == MountOrder[at]
  <2>1. /\ mounted' = Append(mounted, t) /\ t \in Range(MountOrder)
        /\ node' = IF t = "dev" THEN [n \in DOMAIN node |-> IF n \in Provided THEN "device" ELSE "none"]
                   ELSE node
    BY <1>1, <1>3, Mounts DEF MountOK
  <2> HIDE DEF t
  <2>2. Range(mounted') = Range(mounted) \cup {t}
    BY <2>1, AppendMount DEF Layered
  <2>3. node' \in [Range(NodeOrder) -> {"none", "device", "regular"}]
    BY <2>1 DEF NodeInv
  <2>4. NodesReal'
    BY <2>1, <2>2, InitAssumption DEF NodeInv, NodesReal
  <2> QED BY <2>3, <2>4 DEF NodeInv
<1> QED BY <1>2, <1>3, Zenon DEF Attempt, MountBusy, MountNoPoint, MountRefused

(* Making the nodes leaves alone what is a device.                          *)
LEMMA NodesKeep ==
    ASSUME IInv, MakeNode \/ MakeNodeFails
    PROVE  IInv'
<1>1. /\ Placed /\ Layered /\ Reached /\ NodeInv /\ StatusShown /\ BootInv
  BY Zenon DEF IInv
<1>2. /\ phase = "nodes" /\ phase' \in {"nodes", "check"} /\ UNCHANGED <<vars, mounted, refused>>
      /\ node' = node \/ node' = [node EXCEPT ![NodeOrder[at]] = Made(NodeOrder[at])]
  BY DEF MakeNode, MakeNodeFails, Step
<1>3. NodeInv'
  <2>1. \A n \in Range(NodeOrder) : Made(n) \in {"none", "device", "regular"}
                                    /\ (node[n] = "device" => Made(n) = "device")
    BY <1>1 DEF NodeInv, Made
  <2>2. node' \in [Range(NodeOrder) -> {"none", "device", "regular"}]
        /\ \A n \in Range(NodeOrder) : node[n] = "device" => node'[n] = "device"
    BY <1>1, <1>2, <2>1 DEF NodeInv
  <2> QED BY <1>1, <1>2, <2>2, InitAssumption DEF NodeInv, NodesReal
<1>4. Past(2) /\ Past(3) /\ Past(9) /\ Past(2)' /\ Past(3)' /\ Past(9)'
  BY <1>2 DEF Past
<1>5. Placed' /\ StatusShown'
  BY <1>1, <1>2 DEF Placed, StatusShown, vars
<1>6. Layered' /\ Reached'
  BY <1>1, <1>2, <1>4, Zenon DEF Layered, Reached, HasPoint
<1>7. BootInv'
  BY <1>1, <1>2, BootNext
<1> QED BY <1>3, <1>5, <1>6, <1>7 DEF IInv

(* What is mounted can be seen.                                             *)
LEMMA LayersSeen == Layered => NothingHidden
<1> SUFFICES ASSUME Layered, NEW t \in Range(mounted) PROVE Visible(t)
  BY Zenon DEF NothingHidden
<1>1. PICK i \in DOMAIN mounted : mounted[i] = t
  BY Zenon DEF Range
<1>2. ASSUME NEW j \in DOMAIN mounted, j > i PROVE mounted[j] # Parent(t)
  BY <1>1, <1>2 DEF Layered
<1> QED BY <1>1, <1>2, Zenon DEF Visible

(* check_aegis finds the status file where boot has made the tree and        *)
(* securityfs is mounted.                                                   *)
LEMMA CheckKeeps ==
    ASSUME IInv, check_aegis
    PROVE  IInv'
<1>1. Placed /\ Layered /\ Reached /\ NodeInv /\ BootInv /\ NothingHidden
  BY LayersSeen, Zenon DEF IInv
<1>2. /\ phase = "check" /\ phase' = "exec" /\ UNCHANGED <<vars, mounted, refused, node>>
      /\ shown' = (Visible("security") /\ "status" \in tree)
  BY DEF check_aegis
<1>3. Visible("security") <=> "security" \in Range(mounted)
  BY <1>1, Zenon DEF NothingHidden, Visible, Range
<1>4. "status" \in tree <=> tree = Name
  <2>1. pc = "done" /\ AllOrNothing /\ "status" \in Name
    BY <1>1, <1>2, Names DEF Placed, BootInv
  <2> QED BY <2>1 DEF AllOrNothing
<1>5. Past(2) /\ Past(3) /\ Past(9) /\ Past(2)' /\ Past(3)' /\ Past(9)'
  BY <1>2 DEF Past
<1>6. "security" \in Range(mounted) <=> refused \cap {"sys", "security"} = {}
  BY <1>1, <1>5 DEF Reached
<1>7. StatusShown'
  BY <1>2, <1>3, <1>4, <1>6, Zenon DEF StatusShown, vars
<1>8. Layered' /\ Reached' /\ NodeInv'
  BY <1>1, <1>2, <1>5, Zenon DEF Layered, Reached, HasPoint, NodeInv, NodesReal
<1>9. Placed'
  BY <1>1, <1>2 DEF Placed, vars
<1>10. BootInv'
  BY <1>1, <1>2, BootNext
<1> QED BY <1>7, <1>8, <1>9, <1>10 DEF IInv

LEMMA AttemptKeeps ==
    ASSUME IInv, Attempt
    PROVE  IInv'
<1>1. Placed /\ Layered /\ Reached /\ NodeInv /\ BootInv
  BY Zenon DEF IInv
<1>2. phase' \in {"mount", "nodes"} /\ UNCHANGED vars /\ Placed'
  BY <1>1, AttemptMoves
<1>3. BootInv' /\ StatusShown'
  BY <1>1, <1>2, BootNext DEF StatusShown
<1> QED BY <1>1, <1>2, <1>3, MountKeepsLayers, MountKeepsReached, MountKeepsNodes, Zenon DEF IInv

(* The steps before and after the table.                                    *)
LEMMA OthersKeep ==
    ASSUME IInv, BootStep \/ Start \/ run_shell \/ UNCHANGED system_vars
    PROVE  IInv'
<1>1. Placed /\ Layered /\ Reached /\ NodeInv /\ BootInv /\ StatusShown
  BY Zenon DEF IInv
<1>2. /\ UNCHANGED <<mounted, refused, node, shown>> /\ [Next]_vars
      /\ \/ phase = "kernel" /\ phase' = "kernel"
         \/ phase = "kernel" /\ phase' = "mount" /\ at' = 1 /\ pc = "done" /\ UNCHANGED vars
         \/ phase = "exec" /\ phase' \in {"shell", "exit"} /\ UNCHANGED vars
         \/ phase' = phase /\ at' = at /\ UNCHANGED vars
  BY DEF BootStep, Start, run_shell, system_vars, init_vars
<1>3. BootInv'
  BY <1>1, <1>2, BootNext
<1>4. Placed'
  BY <1>1, <1>2 DEF Placed, vars
<1>5. (Past(2)' <=> Past(2)) /\ (Past(3)' <=> Past(3)) /\ (Past(9)' <=> Past(9))
  BY <1>2 DEF Past
<1>6. Layered' /\ Reached' /\ NodeInv'
  BY <1>1, <1>2, <1>5, Zenon DEF Layered, Reached, HasPoint, NodeInv, NodesReal
<1>7. StatusShown'
  BY <1>1, <1>2 DEF StatusShown, vars
<1> QED BY <1>3, <1>4, <1>6, <1>7 DEF IInv

LEMMA SystemKeeps == IInv /\ [SystemNext]_system_vars => IInv'
BY AttemptKeeps, NodesKeep, CheckKeeps, OthersKeep, Zenon DEF SystemNext, Attempt

(* With the first process, boot's invariant and those on mounts and nodes.   *)
THEOREM Invariance == SystemSpec => []IInv
BY SystemStarts, SystemKeeps, PTL DEF SystemSpec
-----------------------------------------------------------------------------
(* The first process leaves what boot has set up alone: with it, boot does    *)
(* what it does alone, and the theorems on boot hold.                        *)
THEOREM SystemBoots == SystemSpec => Spec
<1>1. SystemInit => Init
  BY DEF SystemInit
<1>2. [SystemNext]_system_vars => [Next]_vars
  BY Zenon DEF SystemNext, system_vars, BootStep, Start, MountOK, MountBusy, MountNoPoint,
     MountRefused, MakeNode, MakeNodeFails, check_aegis, run_shell
<1> QED BY <1>1, <1>2, PTL DEF SystemSpec, Spec

(* Userspace runs under registered hooks and initialised subsystems, also    *)
(* when registering the sysctl table fails.                                 *)
THEOREM UserspaceIsGuarded == SystemSpec => []GuardUp
<1>1. IInv => GuardUp
  BY DEF IInv, Placed, BootInv, Guards, GuardUp
<1> QED BY <1>1, Invariance, PTL

(* setup_filesystems covers nothing it has mounted, whichever mounts fail.   *)
THEOREM NoMountIsHidden == SystemSpec => []NothingHidden
<1>1. IInv => NothingHidden
  BY LayersSeen DEF IInv
<1> QED BY <1>1, Invariance, PTL

(* check_aegis prints the status exactly when the tree was created and       *)
(* neither sysfs nor securityfs was refused.                                *)
THEOREM StatusIsTrue == SystemSpec => []StatusShown
<1>1. IInv => StatusShown
  BY DEF IInv
<1> QED BY <1>1, Invariance, PTL

(* create_device_nodes replaces no device of a devtmpfs, for every list of   *)
(* nodes.                                                                   *)
THEOREM DevicesStayReal == SystemSpec => []NodesReal
<1>1. IInv => NodesReal
  BY DEF IInv, NodeInv
<1> QED BY <1>1, Invariance, PTL
=============================================================================
