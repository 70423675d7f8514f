------------------------------ MODULE AegisFile ------------------------------
(***************************************************************************)
(* The file integrity component (aegis_file.c) with the two LSM hooks that  *)
(* consult it (aegis_file_permission and aegis_file_open, aegis_lsm.c).     *)
(*                                                                          *)
(* Administrators write control/protected_files_add and _del, viewers read  *)
(* protected_files, tasks open and access files, and somebody writes the    *)
(* sysctls, all at the same time.  Taking protected_files_lock is a step    *)
(* and what is done under it is one more; every other access to shared      *)
(* state is a step of its own.  AEGIS_FEATURE_CHECK reads two words and is  *)
(* one step; so is a pair of counter increments, which nobody here reads.   *)
(***************************************************************************)
EXTENDS FiniteSets, KernelList

CONSTANTS
    Admin,      \* threads that add and delete entries
    Viewer,     \* threads that read /sys/kernel/security/aegis/protected_files
    Task,       \* threads that open, read and write files
    File,       \* the files of the system
    Name,       \* the path strings an administrator may write
    Resolve,    \* kern_path: the file a name leads to (NoFile: none)
    DPath,      \* d_path: the one name the hooks see for a file
    Addr,       \* the memory kmalloc hands entries out from
    NULL, NoFile, NoName, NoThread, Free, Pending,
    AEGIS_MAX_PROTECTED_FILES,
    Tunable,    \* the sysctls that are written while the system runs
    MaxEvents,  \* bound: no add or access starts once total_events is there
    MaxWrites,  \* bound: how often the content of a file changes
    MaxReads    \* bound: how many pages of a file are read to digest it

Thread == Admin \cup Viewer \cup Task

(* The callers of the file hooks: tasks, and an administrator's thread      *)
(* while aegis_protected_file_add opens the file it is about to digest.     *)
Caller == Admin \cup Task

(* The members of aegis_cfg this component reads; "features" stands for the *)
(* bit AEGIS_FEATURE_FILE_INTEGRITY of the feature mask.                    *)
Knob == {"enabled", "features", "file_integrity_enforce", "file_integrity_log"}

Mask == {"MAY_READ", "MAY_WRITE", "MAY_APPEND"}

(* struct aegis_protected_file: hash is the version of the content that was *)
(* digested, Pending while hash_valid is false.                             *)
Entry == [path : Name, hash : Nat \cup {Pending}]

ASSUME FileAssumption ==
    /\ Admin \cap Viewer = {} /\ Admin \cap Task = {} /\ Viewer \cap Task = {}
    /\ IsFiniteSet(Admin) /\ Admin # {}
    /\ NoThread \notin Thread /\ NULL \notin Addr
    /\ NoFile \notin File /\ NoName \notin Name
    /\ Free \notin Entry /\ Pending \notin Nat
    /\ Resolve \in [Name -> File \cup {NoFile}]
    /\ DPath \in [File -> Name]
    /\ AEGIS_MAX_PROTECTED_FILES \in Nat \ {0}
    /\ Tunable \subseteq Knob
    /\ MaxEvents \in Nat /\ MaxWrites \in Nat /\ MaxReads \in Nat

VARIABLES
    protected_files,        \* the list: the addresses of its entries, in order
    heap,                   \* what is at each address: an entry or Free
    protected_file_count,
    lock,                   \* the holder of protected_files_lock
    aegis_cfg,              \* the knobs
    file_violations, total_events,
    disk,                   \* the version of each file's content
    pc,                     \* where each thread is
    path,                   \* the argument of add and del
    file,                   \* the pointer `file' of aegis_protected_file_add
    target,                 \* the file a hook is asked about
    mask,                   \* the access a hook is asked about
    writing,                \* whether the access is one that changes content
    header,                 \* the count a viewer has printed
    blind,                  \* history: callers whose hook got no path string
    gap                     \* history: tasks that met a moment, since their
                            \* hook began, at which the policy on their
                            \* target was not in force

list_vars == <<protected_files, heap, protected_file_count>>
stat_vars == <<file_violations, total_events>>
add_vars == <<path, file>>
call_vars == <<target, mask, writing, blind>>
locals == <<add_vars, call_vars, header>>
vars == <<list_vars, lock, aegis_cfg, stat_vars, disk, pc, locals, gap>>

(***************************************************************************)
(* State functions and small steps.                                         *)
(***************************************************************************)
AEGIS_FEATURE_CHECK == aegis_cfg["enabled"] /\ aegis_cfg["features"]

(* The positions of the list whose entry has path n (the strncmp walks).    *)
Matches(n) == {i \in DOMAIN protected_files : heap[protected_files[i]].path = n}

Listed(n) == Matches(n) # {}

(* A write to f is to be refused now.                                       *)
InForce(f) ==
    /\ AEGIS_FEATURE_CHECK
    /\ aegis_cfg["file_integrity_enforce"]
    /\ Listed(DPath[f])

(* Mutant: every open is checked as a read.                                 *)
OpenMask_Read(fmode) == {"MAY_READ"}

(* The mask aegis_file_open derives from f_mode.                            *)
OpenMask(fmode) ==
    (IF "FMODE_WRITE" \in fmode THEN {"MAY_WRITE"} ELSE {}) \cup
    (IF "FMODE_READ" \in fmode THEN {"MAY_READ"} ELSE {})

Goto(t, from, to) ==
    /\ pc[t] = from
    /\ pc' = [pc EXCEPT ![t] = to]

(* spin_lock: from each waiting point to its critical section.              *)
Section == [add_lock   |-> "add_check",
            add_relock |-> "add_insert",
            del_lock   |-> "del_walk",
            show_lock  |-> "show_walk",
            perm_lock  |-> "perm_walk"]

SpinLock(t) ==
    /\ lock = NoThread
    /\ lock' = t
    /\ pc[t] \in DOMAIN Section
    /\ pc' = [pc EXCEPT ![t] = Section[pc[t]]]
    /\ UNCHANGED <<list_vars, aegis_cfg, stat_vars, disk, locals>>

(* Mutant: the early returns of add forget the unlock.                      *)
SpinUnlock_EarlyReturn(t) ==
    lock' = IF pc[t] = "add_check" /\ pc'[t] = "idle" THEN lock ELSE NoThread

(* Mutant: add keeps the lock while it opens and digests the file.          *)
SpinUnlock_NotInAdd(t) ==
    lock' = IF pc'[t] = "add_alloc" THEN lock ELSE NoThread

SpinUnlock(t) == lock' = NoThread

(* Mutant: the entry is unlinked and not freed.                             *)
kfree_Not(a) == heap' = heap

kfree(a) == heap' = [heap EXCEPT ![a] = Free]

(* Mutant: a deletion leaves the count alone.                               *)
Counted_Up(d) == protected_file_count' = protected_file_count + (IF d < 0 THEN 0 ELSE d)

(* protected_file_count++ and --.                                           *)
Counted(d) == protected_file_count' = protected_file_count + d

(* The frame of a hook call goes away when its answer is used up.           *)
EndCall(t) ==
    /\ target' = [target EXCEPT ![t] = NoFile]
    /\ mask' = [mask EXCEPT ![t] = {}]
    /\ writing' = [writing EXCEPT ![t] = FALSE]
    /\ blind' = blind \ {t}

(***************************************************************************)
(* aegis_protected_file_add and aegis_protected_file_del                    *)
(***************************************************************************)
AddStart(t) ==
    /\ total_events < MaxEvents
    /\ Goto(t, "idle", "add_lock")
    /\ \E n \in Name : path' = [path EXCEPT ![t] = n]
    /\ UNCHANGED <<list_vars, lock, aegis_cfg, stat_vars, disk, file, call_vars, header>>

(* Mutant: the capacity test lets one too many pass.                        *)
AddRefused_OffByOne(n) ==
    protected_file_count > AEGIS_MAX_PROTECTED_FILES \/ Listed(n)

(* Mutant: no duplicate test.                                               *)
AddRefused_NoDup(n) == protected_file_count >= AEGIS_MAX_PROTECTED_FILES

(* -ENOSPC or -EEXIST.                                                      *)
AddRefused(n) ==
    protected_file_count >= AEGIS_MAX_PROTECTED_FILES \/ Listed(n)

(* Both tests are made in one critical section; then the lock is dropped.   *)
AddCheck(t) ==
    LET refused == AddRefused(path[t])
    IN  /\ Goto(t, "add_check", IF refused THEN "idle" ELSE "add_alloc")
        /\ path' = [path EXCEPT ![t] = IF refused THEN NoName ELSE @]
        /\ SpinUnlock(t)
        /\ UNCHANGED <<list_vars, aegis_cfg, stat_vars, disk, file, call_vars, header>>

(* kmalloc fails: -ENOMEM.                                                  *)
AddNoMem(t) ==
    /\ Goto(t, "add_alloc", "idle")
    /\ path' = [path EXCEPT ![t] = NoName]
    /\ UNCHANGED <<list_vars, lock, aegis_cfg, stat_vars, disk, file, call_vars, header>>

(* kmalloc succeeds and the entry is filled in without a digest; kern_path  *)
(* follows the name.  Opening the file it leads to runs this module's own   *)
(* file_open hook, for reading; with no file, or if dentry_open fails before *)
(* it gets to the hook, the digest stays pending.                           *)
AddAlloc(t) ==
    /\ pc[t] = "add_alloc"
    /\ \E f \in {Resolve[path[t]], NoFile} :
           /\ Goto(t, "add_alloc", IF f = NoFile THEN "add_relock" ELSE "perm_feature")
           /\ \E a \in Addr :
                 /\ heap[a] = Free
                 /\ heap' = [heap EXCEPT ![a] = [path |-> path[t], hash |-> Pending]]
                 /\ file' = [file EXCEPT ![t] = a]
           /\ target' = [target EXCEPT ![t] = f]
           /\ mask' = [mask EXCEPT ![t] = IF f = NoFile THEN {} ELSE OpenMask({"FMODE_READ"})]
           /\ UNCHANGED <<protected_files, protected_file_count, lock, aegis_cfg,
                          stat_vars, disk, path, writing, blind, header>>

(* A read of f would be logged and counted.                                 *)
ReadLogged(f) ==
    AEGIS_FEATURE_CHECK /\ aegis_cfg["file_integrity_log"] /\ Listed(DPath[f])

(* aegis_compute_file_hash digests the content as it is now, or fails.  Each *)
(* kernel_read runs aegis_file_permission, which refuses no read but may log *)
(* and count it; that is part of this step.                                 *)
AddHash(t) ==
    /\ Goto(t, "add_hash", "add_relock")
    /\ \E digest \in {disk[target[t]], Pending} :
          heap' = [heap EXCEPT ![file[t]].hash = digest]
    /\ \E reads \in 0..MaxReads :
          total_events' = total_events + (IF ReadLogged(target[t]) THEN reads ELSE 0)
    /\ EndCall(t)
    /\ UNCHANGED <<protected_files, protected_file_count, lock, aegis_cfg,
                   file_violations, disk, add_vars, header>>

(* Neither test is made again.                                              *)
AddInsert(t) ==
    /\ Goto(t, "add_insert", "add_info")
    /\ protected_files' = Append(protected_files, file[t])
    /\ Counted(1)
    /\ SpinUnlock(t)
    /\ UNCHANGED <<heap, aegis_cfg, stat_vars, disk, locals>>

(* The closing AEGIS_INFO reads file->hash_valid without the lock; the      *)
(* value only reaches the kernel log.                                       *)
AddInfo(t) ==
    /\ Goto(t, "add_info", "idle")
    /\ path' = [path EXCEPT ![t] = NoName]
    /\ file' = [file EXCEPT ![t] = NULL]
    /\ UNCHANGED <<list_vars, lock, aegis_cfg, stat_vars, disk, call_vars, header>>

DelStart(t) ==
    /\ Goto(t, "idle", "del_lock")
    /\ \E n \in Name : path' = [path EXCEPT ![t] = n]
    /\ UNCHANGED <<list_vars, lock, aegis_cfg, stat_vars, disk, file, call_vars, header>>

(* Mutant: the walk goes backwards and takes the last match.                *)
DelWalk_Last(t) ==
    /\ Goto(t, "del_walk", "idle")
    /\ \/ ~Listed(path[t]) /\ UNCHANGED list_vars
       \/ \E i \in Matches(path[t]) :
             /\ \A j \in Matches(path[t]) : i >= j
             /\ protected_files' = list_del(protected_files, i)
             /\ kfree(protected_files[i])
             /\ Counted(-1)
    /\ path' = [path EXCEPT ![t] = NoName]
    /\ SpinUnlock(t)
    /\ UNCHANGED <<aegis_cfg, stat_vars, disk, file, call_vars, header>>

(* The first match is unlinked, freed and counted off; no match: -ENOENT.   *)
DelWalk(t) ==
    /\ Goto(t, "del_walk", "idle")
    /\ \/ ~Listed(path[t]) /\ UNCHANGED list_vars
       \/ \E i \in Matches(path[t]) :
             /\ \A j \in Matches(path[t]) : i <= j
             /\ protected_files' = list_del(protected_files, i)
             /\ kfree(protected_files[i])
             /\ Counted(-1)
    /\ path' = [path EXCEPT ![t] = NoName]
    /\ SpinUnlock(t)
    /\ UNCHANGED <<aegis_cfg, stat_vars, disk, file, call_vars, header>>

(***************************************************************************)
(* aegis_protected_file_show: the heading prints the count before the lock  *)
(* is taken, the rows are printed under it.                                 *)
(***************************************************************************)
ShowStart(t) ==
    /\ Goto(t, "idle", "show_lock")
    /\ header' = [header EXCEPT ![t] = protected_file_count]
    /\ UNCHANGED <<list_vars, lock, aegis_cfg, stat_vars, disk, add_vars, call_vars>>

ShowWalk(t) ==
    /\ Goto(t, "show_walk", "idle")
    /\ header' = [header EXCEPT ![t] = 0]
    /\ SpinUnlock(t)
    /\ UNCHANGED <<list_vars, aegis_cfg, stat_vars, disk, add_vars, call_vars>>

(***************************************************************************)
(* The file hooks.                                                          *)
(***************************************************************************)
(* The access a task is about to make: the hook is asked about mask m, and  *)
(* not asked at all when the mask is empty.                                 *)
Call(t, f, m, wr) ==
    /\ total_events < MaxEvents
    /\ Goto(t, "idle", IF m = {} THEN "access" ELSE "perm_feature")
    /\ target' = [target EXCEPT ![t] = f]
    /\ mask' = [mask EXCEPT ![t] = m]
    /\ writing' = [writing EXCEPT ![t] = wr]
    /\ UNCHANGED <<list_vars, lock, aegis_cfg, stat_vars, disk, add_vars, blind, header>>

(* open(2): aegis_file_open.                                                *)
FileOpen(t) ==
    \E f \in File, fmode \in SUBSET {"FMODE_READ", "FMODE_WRITE"} :
        Call(t, f, OpenMask(fmode), "FMODE_WRITE" \in fmode)

(* read(2), write(2) and appending to an open file: aegis_file_permission.  *)
FileAccess(t) ==
    \E f \in File, m \in {{"MAY_READ"}, {"MAY_WRITE"}, {"MAY_WRITE", "MAY_APPEND"}} :
        Call(t, f, m, m # {"MAY_READ"})

(* Where the caller goes on: an admitted task makes its access, a refused   *)
(* one gives up; inside add the digest is computed or stays pending.        *)
Admitted(t) == IF t \in Task THEN "access" ELSE "add_hash"
Refused(t) == IF t \in Task THEN "idle" ELSE "add_relock"

PermFeature(t) ==
    /\ Goto(t, "perm_feature", IF AEGIS_FEATURE_CHECK THEN "perm_count" ELSE Admitted(t))
    /\ UNCHANGED <<list_vars, lock, aegis_cfg, stat_vars, disk, locals>>

(* The unlocked look at the count.                                          *)
PermCount(t) ==
    /\ Goto(t, "perm_count", IF protected_file_count = 0 THEN Admitted(t) ELSE "perm_path")
    /\ UNCHANGED <<list_vars, lock, aegis_cfg, stat_vars, disk, locals>>

(* No page, or d_path fails: the access is admitted.                        *)
PermNoPath(t) ==
    /\ Goto(t, "perm_path", Admitted(t))
    /\ blind' = blind \cup {t}
    /\ UNCHANGED <<list_vars, lock, aegis_cfg, stat_vars, disk, add_vars,
                   target, mask, writing, header>>

(* With the path, aegis_is_file_protected tests the feature once more ...   *)
PermPath(t) ==
    /\ Goto(t, "perm_path", IF AEGIS_FEATURE_CHECK THEN "perm_lock" ELSE Admitted(t))
    /\ UNCHANGED <<list_vars, lock, aegis_cfg, stat_vars, disk, locals>>

(* ... and walks the list.                                                  *)
PermWalk(t) ==
    /\ Goto(t, "perm_walk", IF Listed(DPath[target[t]]) THEN "perm_enforce" ELSE Admitted(t))
    /\ SpinUnlock(t)
    /\ UNCHANGED <<list_vars, aegis_cfg, stat_vars, disk, locals>>

(* A write or append is refused and counted if file_integrity_enforce.      *)
PermEnforce(t) ==
    LET denied == /\ mask[t] \cap {"MAY_WRITE", "MAY_APPEND"} # {}
                  /\ aegis_cfg["file_integrity_enforce"]
    IN  /\ Goto(t, "perm_enforce", IF denied THEN Refused(t) ELSE "perm_log")
        /\ IF denied
           THEN /\ file_violations' = file_violations + 1
                /\ total_events' = total_events + 1
                /\ EndCall(t)
           ELSE UNCHANGED <<stat_vars, call_vars>>
        /\ UNCHANGED <<list_vars, lock, aegis_cfg, disk, add_vars, header>>

(* Any other access is logged and counted if file_integrity_log.            *)
PermLog(t) ==
    /\ Goto(t, "perm_log", Admitted(t))
    /\ total_events' = total_events + (IF aegis_cfg["file_integrity_log"] THEN 1 ELSE 0)
    /\ UNCHANGED <<list_vars, lock, aegis_cfg, file_violations, disk, locals>>

(* The admitted task goes on; a writer may change the content.              *)
Access(t) ==
    /\ Goto(t, "access", "idle")
    /\ \/ UNCHANGED disk
       \/ /\ writing[t] /\ disk[target[t]] < MaxWrites
          /\ disk' = [disk EXCEPT ![target[t]] = @ + 1]
    /\ EndCall(t)
    /\ UNCHANGED <<list_vars, lock, aegis_cfg, stat_vars, add_vars, header>>

(* A sysctl write flips one of the knobs this component reads.              *)
SetKnob(k) ==
    /\ aegis_cfg' = [aegis_cfg EXCEPT ![k] = ~@]
    /\ UNCHANGED <<list_vars, lock, stat_vars, disk, pc, locals>>

-----------------------------------------------------------------------------
Init ==
    /\ protected_files = <<>>
    /\ heap = [a \in Addr |-> Free]
    /\ protected_file_count = 0
    /\ lock = NoThread
    /\ aegis_cfg = [k \in Knob |-> TRUE]
    /\ file_violations = 0 /\ total_events = 0
    /\ disk = [f \in File |-> 0]
    /\ pc = [t \in Thread |-> "idle"]
    /\ path = [t \in Admin |-> NoName]
    /\ file = [t \in Admin |-> NULL]
    /\ target = [t \in Caller |-> NoFile]
    /\ mask = [t \in Caller |-> {}]
    /\ writing = [t \in Caller |-> FALSE]
    /\ header = [t \in Viewer |-> 0]
    /\ blind = {}
    /\ gap = {}

HookStep(t) ==
    \/ PermFeature(t) \/ PermCount(t) \/ PermNoPath(t) \/ PermPath(t)
    \/ PermWalk(t) \/ PermEnforce(t) \/ PermLog(t)

AdminStep(t) ==
    \/ AddCheck(t) \/ AddNoMem(t) \/ AddAlloc(t) \/ AddHash(t) \/ AddInsert(t)
    \/ AddInfo(t) \/ DelWalk(t) \/ HookStep(t)

ThreadStep(t) ==
    \/ SpinLock(t)
    \/ t \in Admin /\ AdminStep(t)
    \/ t \in Viewer /\ ShowWalk(t)
    \/ t \in Task /\ (HookStep(t) \/ Access(t))

(* History: while the hook runs, a task collects the moments at which the    *)
(* policy on its target is not in force; what happens after the hook has     *)
(* answered no longer matters to it.                                         *)
InHook(t) == pc[t] \notin {"idle", "access"}

Watch ==
    gap' = {t \in Task : \/ InHook(t)' /\ ~InForce(target[t])'
                         \/ (InHook(t) \/ pc[t] = "access") /\ pc'[t] # "idle" /\ t \in gap}

Step ==
    \/ \E t \in Admin : AddStart(t) \/ DelStart(t)
    \/ \E t \in Viewer : ShowStart(t)
    \/ \E t \in Task : FileOpen(t) \/ FileAccess(t)
    \/ \E t \in Thread : ThreadStep(t)
    \/ \E k \in Tunable : SetKnob(k)

Next == Step /\ Watch

(* A thread that is running is scheduled again, and the kernel's spinlocks  *)
(* are queued: who waits for one gets it, whoever else wants it.            *)
Fairness == \A t \in Thread : /\ WF_vars(ThreadStep(t) /\ Watch)
                              /\ SF_vars(SpinLock(t) /\ Watch)

Spec == Init /\ [][Next]_vars

FairSpec == Spec /\ Fairness

-----------------------------------------------------------------------------
(***************************************************************************)
(* Properties.                                                              *)
(***************************************************************************)
HookPc == {"perm_feature", "perm_count", "perm_path", "perm_lock", "perm_walk",
           "perm_enforce", "perm_log"}
HoldPc == {"add_hash", "add_relock", "add_insert"} \cup HookPc
AdminPc == {"idle", "add_lock", "add_check", "add_alloc", "add_info",
            "del_lock", "del_walk"} \cup HoldPc
ViewerPc == {"idle", "show_lock", "show_walk"}
TaskPc == {"idle", "access"} \cup HookPc
CallPc == {"add_hash", "access"} \cup HookPc
LockPc == {"add_check", "add_insert", "del_walk", "show_walk", "perm_walk"}

(* The type invariant: every variable holds a value of its C type, each      *)
(* thread is at a point of one of its own functions with the locals that      *)
(* point needs, and the holder of protected_files_lock is the one thread      *)
(* inside a critical section.                                                 *)
TypeOK ==
    /\ protected_files \in Seq(Addr)
    /\ heap \in [Addr -> Entry \cup {Free}]
    /\ protected_file_count \in Int
    /\ lock \in Thread \cup {NoThread}
    /\ aegis_cfg \in [Knob -> BOOLEAN]
    /\ file_violations \in Nat /\ total_events \in Nat
    /\ disk \in [File -> Nat]
    /\ pc \in [Thread -> AdminPc \cup ViewerPc \cup TaskPc]
    /\ \A t \in Admin : pc[t] \in AdminPc
    /\ \A t \in Viewer : pc[t] \in ViewerPc
    /\ \A t \in Task : pc[t] \in TaskPc
    /\ \A t \in Thread : pc[t] \in LockPc <=> lock = t
    /\ path \in [Admin -> Name \cup {NoName}]
    /\ file \in [Admin -> Addr \cup {NULL}]
    /\ target \in [Caller -> File \cup {NoFile}]
    /\ mask \in [Caller -> SUBSET Mask]
    /\ writing \in [Caller -> BOOLEAN]
    /\ \A t \in Admin : pc[t] # "idle" => path[t] \in Name
    /\ \A t \in Admin : pc[t] \in HoldPc => file[t] \in Addr
    /\ \A t \in Caller : pc[t] \in CallPc => target[t] \in File
    /\ header \in [Viewer -> Int]
    /\ blind \subseteq Caller
    /\ gap \subseteq Task

(* The entry an administrator's thread has allocated and not yet linked.     *)
Holds(t, a) == pc[t] \in HoldPc /\ file[t] = a

(* No leak, no dangling pointer, no double link: an address is allocated     *)
(* exactly when it is linked into the list or held by one add in progress,   *)
(* never both, never twice, although aegis_protected_file_add allocates       *)
(* between two critical sections in which others may link and free.          *)
EntriesAccounted ==
    /\ IsInjective(protected_files)
    /\ \A a \in Addr :
          heap[a] # Free <=> a \in Range(protected_files) \/ \E t \in Admin : Holds(t, a)
    /\ \A t \in Admin, a \in Addr : Holds(t, a) =>
          /\ a \notin Range(protected_files)
          /\ \A u \in Admin \ {t} : ~Holds(u, a)

(* The count the hooks read without the lock is the length of the list, so   *)
(* that the fast path of aegis_file_permission is taken only on an empty     *)
(* list.                                                                     *)
CountExact == protected_file_count = Len(protected_files)

(* How far concurrent adds can carry the list past its capacity, since the   *)
(* capacity test is made before the lock is dropped and not made again: one  *)
(* entry for each thread but one that adds at the same time.                 *)
OvershootBounded ==
    Len(protected_files) <= AEGIS_MAX_PROTECTED_FILES - 1 + Cardinality(Admin)

(* How many entries one path can have for the same reason (the duplicate     *)
(* test is not repeated either): at most one per adding thread.              *)
CopiesBounded == \A n \in Name : Cardinality(Matches(n)) <= Cardinality(Admin)

(* The hook misses nothing: a task is let through to write only if at some   *)
(* moment since its hook began the policy on the file was not in force       *)
(* (module or feature off, not enforcing, or path not listed), or the hook   *)
(* could not get the path.  In particular the unlocked count read, the       *)
(* doubled feature test and the unlocked read of file_integrity_enforce      *)
(* never combine into an admission that no single moment justifies.          *)
WriteNeedsGap ==
    \A t \in Task : pc[t] = "access" /\ writing[t] => t \in gap \cup blind

(* Every call comes back: no write to the control files, no listing and no   *)
(* hook waits for ever, the hook that add runs into itself when it opens the  *)
(* file to digest included.                                                  *)
EveryCallReturns == \A t \in Thread : pc[t] # "idle" ~> pc[t] = "idle"

(* The list of protected files is one of the lists of GuardedList, keyed by   *)
(* path: aegis_protected_file_add is pending from its tests to its insertion, *)
(* the allocation, the digest and the hook on the way included.              *)
FileList == INSTANCE GuardedList WITH
    list <- [i \in DOMAIN protected_files |-> heap[protected_files[i]].path],
    pending <- [t \in Admin |->
                   IF pc[t] \in HoldPc \cup {"add_alloc"} THEN path[t] ELSE NoName],
    Key <- Name, NoKey <- NoName, Capacity <- AEGIS_MAX_PROTECTED_FILES

(* Whatever the threads do in whatever order, what happens to the list is     *)
(* what GuardedList lets happen: every insertion at the tail belongs to one  *)
(* pair of tests that was passed, every removal takes the oldest match, and  *)
(* nothing else changes a listed path.                                       *)
ImplementsList == FileList!Spec

(* Deleting a path leaves it unlisted: "protection lifted" (README.md).      *)
DelLifts ==
    [][\A t \in Admin, n \in Name :
          pc[t] = "del_walk" /\ path[t] = n /\ pc'[t] = "idle" => ~Listed(n)']_vars

(* The pointer the closing log line of aegis_protected_file_add reads is     *)
(* still allocated.                                                          *)
NoUseAfterFree == \A t \in Admin : pc[t] = "add_info" => heap[file[t]] # Free
=============================================================================
