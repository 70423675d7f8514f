---------------------------- MODULE AegisProcess ----------------------------
(***************************************************************************)
(* Process protection: the list of protected processes (aegis_process.c)    *)
(* and the hooks on tasks and ptrace, aegis_ptrace_access_check,            *)
(* aegis_ptrace_traceme and aegis_task_free (aegis_lsm.c).                  *)
(*                                                                          *)
(* The lock guards the list, not the names of the tasks the list is          *)
(* compared with: a task may be renamed while a hook walks.  The walk is    *)
(* therefore taken one comparison at a time, everything else as in          *)
(* AegisFile.                                                               *)
(***************************************************************************)
EXTENDS FiniteSets, KernelList

CONSTANTS
    Admin,      \* threads that write control/protected_procs_add and _del
    Tracer,     \* threads that ptrace-attach or ask for PTRACE_TRACEME
    Task,       \* slots for the tasks that can be traced
    Leader,     \* Leader[c]: the slot of c's group leader
    Pid, Comm,
    Request,    \* the entries administrators add and delete
    NoThread, NoTask, NoEntry,
    AEGIS_MAX_PROTECTED_PROCS,
    Tunable,    \* the sysctls that are written while the system runs
    MaxEvents   \* bound: no hook starts once total_events is there

Thread == Admin \cup Tracer

Knob == {"enabled", "PTRACE_RESTRICT", "PROCESS_PROTECT", "ptrace_restrict_all"}

(* An entry of the list; with pid 0 it is for a name.                        *)
Entry == [comm : Comm, pid : Pid \cup {0}]

(* What aegis_process_init adds, ignoring what the adds return.             *)
Default == <<[comm |-> "sshd", pid |-> 0], [comm |-> "init", pid |-> 1],
             [comm |-> "systemd", pid |-> 1]>>

ASSUME ProcessAssumption ==
    /\ IsFiniteSet(Admin) /\ Admin # {} /\ Admin \cap Tracer = {}
    /\ NoThread \notin Thread /\ NoEntry \notin Entry /\ NoTask \notin Task
    /\ Leader \in [Task -> Task] /\ \A c \in Task : Leader[Leader[c]] = Leader[c]
    /\ Default[1].comm \in Comm /\ Pid \subseteq Nat \ {0} /\ Request \subseteq Entry
    /\ AEGIS_MAX_PROTECTED_PROCS \in Nat \ {0}
    /\ Tunable \subseteq Knob /\ MaxEvents \in Nat

VARIABLES
    protected_procs, protected_proc_count,
    lock,                           \* the holder of protected_procs_lock
    aegis_cfg,
    ptrace_blocked, total_events,
    pid, comm,                      \* of each task slot; pid 0: no task there
    pc,
    req,                            \* the argument of add and del
    child,                          \* the task a tracer's hook is about
    at,                             \* the entry a tracer's walk has come to
    gap, free_for_all,              \* history: tracers that met a moment, since
                                    \* their hook began, at which the list
                                    \* (ptrace_restrict_all) was not in force
    renamed,                        \* history: tracers whose child or its
                                    \* leader changed name since then
    steady                          \* history: the grounds for a refusal that
                                    \* have held at every moment since then

list_vars == <<protected_procs, protected_proc_count>>
stat_vars == <<ptrace_blocked, total_events>>
task_vars == <<pid, comm>>
walk_vars == <<child, at>>
vars == <<list_vars, lock, aegis_cfg, stat_vars, task_vars, pc, req, walk_vars,
          gap, free_for_all, renamed, steady>>

On(bit) == aegis_cfg["enabled"] /\ aegis_cfg[bit]       \* AEGIS_FEATURE_CHECK

(* The grounds on which an entry can cover a task, and whether one of them    *)
(* holds for the task as it is now.                                         *)
Ground == {"pid", "comm", "leader"}

Holds(e, g, c) ==
    \/ g = "pid" /\ e.pid # 0 /\ e.pid = pid[c]
    \/ g = "comm" /\ e.pid = 0 /\ e.comm = comm[c]
    \/ g = "leader" /\ e.pid = 0 /\ e.comm = comm[Leader[c]]

Covers(e, c) == \E g \in Ground : Holds(e, g, c)

(* An attach to c is refused by the list now.                               *)
ListInForce(c) ==
    /\ On("PTRACE_RESTRICT") /\ On("PROCESS_PROTECT")
    /\ \E e \in Range(protected_procs) : Covers(e, c)

AllInForce == On("PTRACE_RESTRICT") /\ aegis_cfg["ptrace_restrict_all"]

Goto(t, from, to) ==
    /\ pc[t] = from
    /\ pc' = [pc EXCEPT ![t] = to]

Section == [add_lock |-> "add_check", add_relock |-> "add_insert",
            del_lock |-> "del_walk", hook_lock |-> "walk"]

SpinLock(t) ==
    /\ lock = NoThread
    /\ lock' = t
    /\ pc[t] \in DOMAIN Section
    /\ pc' = [pc EXCEPT ![t] = Section[pc[t]]]
    /\ UNCHANGED <<list_vars, aegis_cfg, stat_vars, task_vars, req, walk_vars>>

(* Mutant: a hook that finds a match returns with the lock held.            *)
SpinUnlock_NotOnMatch(t) ==
    lock' = IF pc[t] \in {"walk", "walk_leader"} /\ pc'[t] = "refuse" THEN lock ELSE NoThread

SpinUnlock(t) == lock' = NoThread

(***************************************************************************)
(* aegis_protect_process_add and aegis_protect_process_del: an entry is the  *)
(* same when both its name and its pid are.                                 *)
(***************************************************************************)
Ask(t, l) ==
    /\ Goto(t, "idle", l)
    /\ \E e \in Request : req' = [req EXCEPT ![t] = e]
    /\ UNCHANGED <<list_vars, lock, aegis_cfg, stat_vars, task_vars, walk_vars>>

(* A call that returns takes its argument with it.                          *)
Leave(t) == req' = [req EXCEPT ![t] = IF pc'[t] = "idle" THEN NoEntry ELSE @]

AddStart(t) == Ask(t, "add_lock")
DelStart(t) == Ask(t, "del_lock")

(* Mutant: the capacity is not tested.                                      *)
AddCheck_NoLimit(t) ==
    /\ Goto(t, "add_check", IF req[t] \in Range(protected_procs) THEN "idle" ELSE "add_alloc")
    /\ SpinUnlock(t)
    /\ Leave(t)
    /\ UNCHANGED <<list_vars, aegis_cfg, stat_vars, task_vars, walk_vars>>

AddCheck(t) ==
    /\ Goto(t, "add_check", IF \/ protected_proc_count >= AEGIS_MAX_PROTECTED_PROCS
                               \/ req[t] \in Range(protected_procs)
                            THEN "idle" ELSE "add_alloc")
    /\ SpinUnlock(t)
    /\ Leave(t)
    /\ UNCHANGED <<list_vars, aegis_cfg, stat_vars, task_vars, walk_vars>>

AddAlloc(t) ==
    /\ \E l \in {"idle", "add_relock"} : Goto(t, "add_alloc", l)
    /\ Leave(t)
    /\ UNCHANGED <<list_vars, lock, aegis_cfg, stat_vars, task_vars, walk_vars>>

(* Mutant: list_add for list_add_tail.                                      *)
AddInsert_Head(t) ==
    /\ Goto(t, "add_insert", "idle")
    /\ protected_procs' = <<req[t]>> \o protected_procs
    /\ protected_proc_count' = protected_proc_count + 1
    /\ SpinUnlock(t)
    /\ Leave(t)
    /\ UNCHANGED <<aegis_cfg, stat_vars, task_vars, walk_vars>>

AddInsert(t) ==
    /\ Goto(t, "add_insert", "idle")
    /\ protected_procs' = Append(protected_procs, req[t])
    /\ protected_proc_count' = protected_proc_count + 1
    /\ SpinUnlock(t)
    /\ Leave(t)
    /\ UNCHANGED <<aegis_cfg, stat_vars, task_vars, walk_vars>>

(* Mutant: the count goes down although nothing was found.                  *)
DelWalk_NotFound(t) ==
    /\ Goto(t, "del_walk", "idle")
    /\ \/ req[t] \notin Range(protected_procs) /\ UNCHANGED protected_procs
       \/ \E i \in FirstAt(protected_procs, req[t]) :
             protected_procs' = list_del(protected_procs, i)
    /\ protected_proc_count' = protected_proc_count - 1
    /\ SpinUnlock(t)
    /\ Leave(t)
    /\ UNCHANGED <<aegis_cfg, stat_vars, task_vars, walk_vars>>

DelWalk(t) ==
    /\ Goto(t, "del_walk", "idle")
    /\ \/ req[t] \notin Range(protected_procs) /\ UNCHANGED list_vars
       \/ \E i \in FirstAt(protected_procs, req[t]) :
             /\ protected_procs' = list_del(protected_procs, i)
             /\ protected_proc_count' = protected_proc_count - 1
    /\ SpinUnlock(t)
    /\ Leave(t)
    /\ UNCHANGED <<aegis_cfg, stat_vars, task_vars, walk_vars>>

(***************************************************************************)
(* aegis_ptrace_access_check and aegis_ptrace_traceme.                      *)
(***************************************************************************)
AttachStart(t) ==
    /\ total_events < MaxEvents
    /\ \E l \in {"attach", "traceme"} : Goto(t, "idle", l)
    /\ \E c \in Task : pid[c] # 0 /\ child' = [child EXCEPT ![t] = c]
    /\ UNCHANGED <<list_vars, lock, aegis_cfg, stat_vars, task_vars, req, at>>

Feature(t) ==
    /\ \/ Goto(t, "attach", IF On("PTRACE_RESTRICT") THEN "attach_all" ELSE "admitted")
       \/ Goto(t, "traceme", IF On("PTRACE_RESTRICT") THEN "traceme_all" ELSE "admitted_me")
    /\ UNCHANGED <<list_vars, lock, aegis_cfg, stat_vars, task_vars, req, walk_vars>>

(* Mutant: traceme does not look at ptrace_restrict_all.                    *)
RestrictAll_NotTraceme(t) ==
    /\ \/ Goto(t, "attach_all",
               IF aegis_cfg["ptrace_restrict_all"] THEN "refuse" ELSE "protect")
       \/ Goto(t, "traceme_all", "admitted_me")
    /\ UNCHANGED <<list_vars, lock, aegis_cfg, stat_vars, task_vars, req, walk_vars>>

RestrictAll(t) ==
    /\ \/ Goto(t, "attach_all",
               IF aegis_cfg["ptrace_restrict_all"] THEN "refuse" ELSE "protect")
       \/ Goto(t, "traceme_all",
               IF aegis_cfg["ptrace_restrict_all"] THEN "refuse" ELSE "admitted_me")
    /\ UNCHANGED <<list_vars, lock, aegis_cfg, stat_vars, task_vars, req, walk_vars>>

(* PROCESS_PROTECT, which the hook and aegis_is_process_protected both test. *)
Protect(t) ==
    /\ Goto(t, "protect", IF On("PROCESS_PROTECT") THEN "hook_lock" ELSE "admitted")
    /\ at' = [at EXCEPT ![t] = 1]
    /\ UNCHANGED <<list_vars, lock, aegis_cfg, stat_vars, task_vars, req, child>>

(* The end of the list: not protected.                                      *)
WalkEnd(t) ==
    /\ at[t] > Len(protected_procs)
    /\ Goto(t, "walk", "admitted")
    /\ SpinUnlock(t)
    /\ UNCHANGED <<list_vars, aegis_cfg, stat_vars, task_vars, req, walk_vars>>

(* An entry against the child's pid, or its name.                           *)
Walk(t) ==
    /\ pc[t] = "walk" /\ at[t] <= Len(protected_procs)
    /\ LET e == protected_procs[at[t]]
           c == child[t]
           match == IF e.pid # 0 THEN e.pid = pid[c] ELSE e.comm = comm[c]
       IN  /\ Goto(t, "walk", IF match THEN "refuse"
                              ELSE IF e.pid = 0 THEN "walk_leader" ELSE "walk")
           /\ IF match THEN SpinUnlock(t) ELSE lock' = lock
           /\ at' = [at EXCEPT ![t] = IF match \/ e.pid = 0 THEN @ ELSE @ + 1]
    /\ UNCHANGED <<list_vars, aegis_cfg, stat_vars, task_vars, req, child>>

(* Mutant: the leader's name is not compared.                               *)
WalkLeader_Skip(t) ==
    /\ Goto(t, "walk_leader", "walk")
    /\ lock' = lock
    /\ at' = [at EXCEPT ![t] = @ + 1]
    /\ UNCHANGED <<list_vars, aegis_cfg, stat_vars, task_vars, req, child>>

(* An entry for a name against the name of the child's group leader.         *)
WalkLeader(t) ==
    /\ pc[t] = "walk_leader"
    /\ LET match == protected_procs[at[t]].comm = comm[Leader[child[t]]]
       IN  /\ Goto(t, "walk_leader", IF match THEN "refuse" ELSE "walk")
           /\ IF match THEN SpinUnlock(t) ELSE lock' = lock
           /\ at' = [at EXCEPT ![t] = IF match THEN @ ELSE @ + 1]
    /\ UNCHANGED <<list_vars, aegis_cfg, stat_vars, task_vars, req, child>>

(* No task is at hand, and no walk.                                         *)
Answered(t) ==
    /\ child' = [child EXCEPT ![t] = NoTask]
    /\ at' = [at EXCEPT ![t] = 1]

(* A refusal: the counters and, unless PTRACE_MODE_NOAUDIT, the log line.    *)
Refuse(t) ==
    /\ Goto(t, "refuse", "idle")
    /\ ptrace_blocked' = ptrace_blocked + 1
    /\ total_events' = total_events + 1
    /\ Answered(t)
    /\ UNCHANGED <<list_vars, lock, aegis_cfg, task_vars, req>>

(* The hook has answered 0.                                                 *)
Traced(t) ==
    /\ \/ Goto(t, "admitted", "idle")
       \/ Goto(t, "admitted_me", "idle")
    /\ Answered(t)
    /\ UNCHANGED <<list_vars, lock, aegis_cfg, stat_vars, task_vars, req>>

(***************************************************************************)
(* The tasks (the kernel's own code): prctl and execve rename, a new task    *)
(* takes a pid that is free, a task whose hook runs is held by a reference.  *)
(***************************************************************************)
Rename(c) ==
    /\ pid[c] # 0
    /\ \E n \in Comm \ {comm[c]} : comm' = [comm EXCEPT ![c] = n]
    /\ UNCHANGED <<list_vars, lock, aegis_cfg, stat_vars, pid, pc, req, walk_vars>>

Fork(c) ==
    /\ pid[c] = 0 /\ (Leader[c] = c \/ pid[Leader[c]] # 0)
    /\ \E p \in Pid \ {pid[d] : d \in Task} : pid' = [pid EXCEPT ![c] = p]
    /\ \E n \in Comm : comm' = [comm EXCEPT ![c] = n]
    /\ UNCHANGED <<list_vars, lock, aegis_cfg, stat_vars, pc, req, walk_vars>>

(* aegis_task_free, when a task has gone with all references to it.         *)
TaskFree(c) ==
    /\ pid[c] # 0 /\ total_events < MaxEvents
    /\ \A t \in Tracer : c # child[t]
    /\ \A d \in Task \ {c} : Leader[d] = c => pid[d] = 0
    /\ pid' = [pid EXCEPT ![c] = 0]
    /\ comm' = [comm EXCEPT ![c] = Default[1].comm]
    /\ total_events' = total_events + (IF aegis_cfg["enabled"] THEN 1 ELSE 0)
    /\ UNCHANGED <<list_vars, lock, aegis_cfg, ptrace_blocked, pc, req, walk_vars>>

SetKnob(k) ==
    /\ aegis_cfg' = [aegis_cfg EXCEPT ![k] = ~@]
    /\ UNCHANGED <<list_vars, lock, stat_vars, task_vars, pc, req, walk_vars>>
-----------------------------------------------------------------------------
(* Any of the default adds may have failed for want of memory.              *)
Init ==
    /\ \E added \in SUBSET Request :
          LET add(s, i) == IF Default[i] \in added THEN Append(s, Default[i]) ELSE s
          IN  protected_procs = add(add(add(<<>>, 1), 2), 3)
    /\ protected_proc_count = Len(protected_procs)
    /\ protected_proc_count <= AEGIS_MAX_PROTECTED_PROCS
    /\ lock = NoThread
    /\ aegis_cfg = [k \in Knob |-> k # "ptrace_restrict_all"]
    /\ ptrace_blocked = 0 /\ total_events = 0
    /\ pid = [c \in Task |-> 0]
    /\ comm = [c \in Task |-> Default[1].comm]
    /\ pc = [t \in Thread |-> "idle"]
    /\ req = [t \in Admin |-> NoEntry]
    /\ child = [t \in Tracer |-> NoTask]
    /\ at = [t \in Tracer |-> 1]
    /\ gap = {} /\ free_for_all = {} /\ renamed = {}
    /\ steady = [t \in Tracer |-> {}]

ThreadStep(t) ==
    \/ SpinLock(t)
    \/ t \in Admin /\ (AddCheck(t) \/ AddAlloc(t) \/ AddInsert(t) \/ DelWalk(t))
    \/ t \in Tracer /\ (\/ Feature(t) \/ RestrictAll(t) \/ Protect(t) \/ WalkEnd(t)
                        \/ Walk(t) \/ WalkLeader(t) \/ Refuse(t) \/ Traced(t))

InHook(t) == pc[t] \notin {"idle", "admitted", "admitted_me"}

(* The entries that cover a task now, each with its ground.                  *)
Grounds(c) == {r \in Range(protected_procs) \X Ground : Holds(r[1], r[2], c)}

(* History: what each running hook has met since it began.                  *)
Watch ==
    LET kept(met) == {t \in met : pc[t] # "idle" /\ pc'[t] # "idle"}
        family(t) == {child[t], Leader[child[t]]}
    IN  /\ gap' = kept(gap) \cup {t \in Tracer : InHook(t)' /\ ~ListInForce(child[t])'}
        /\ free_for_all' = kept(free_for_all) \cup {t \in Tracer : InHook(t)' /\ ~AllInForce'}
        /\ renamed' = kept(renamed) \cup
               {t \in Tracer : InHook(t) /\ \E c \in family(t) : comm'[c] # comm[c]}
        /\ steady' = [t \in Tracer |-> IF pc'[t] = "idle" THEN {}
                                       ELSE IF pc[t] = "idle" THEN Grounds(child[t])'
                                       ELSE IF InHook(t)' THEN steady[t] \cap Grounds(child[t])'
                                       ELSE steady[t]]

Step ==
    \/ \E t \in Admin : AddStart(t) \/ DelStart(t)
    \/ \E t \in Tracer : AttachStart(t)
    \/ \E t \in Thread : ThreadStep(t)
    \/ \E c \in Task : Rename(c) \/ Fork(c) \/ TaskFree(c)
    \/ \E k \in Tunable : SetKnob(k)

Next == Step /\ Watch

Spec == Init /\ [][Next]_vars
-----------------------------------------------------------------------------
HoldPc == {"add_check", "add_insert", "del_walk", "walk", "walk_leader"}
AdminPc == {"idle", "add_lock", "add_check", "add_alloc", "add_relock", "add_insert",
            "del_lock", "del_walk"}
TracerPc == {"idle", "attach", "traceme", "attach_all", "traceme_all", "protect",
             "hook_lock", "walk", "walk_leader", "refuse", "admitted", "admitted_me"}

(* The type invariant, with the lock's holder inside a critical section and  *)
(* a walk never past the entry after the last.                              *)
TypeOK ==
    /\ protected_procs \in Seq(Entry)
    /\ protected_proc_count \in Int
    /\ lock \in Thread \cup {NoThread}
    /\ aegis_cfg \in [Knob -> BOOLEAN]
    /\ ptrace_blocked \in Nat /\ total_events \in Nat
    /\ pid \in [Task -> Pid \cup {0}] /\ comm \in [Task -> Comm]
    /\ pc \in [Thread -> AdminPc \cup TracerPc]
    /\ \A t \in Thread : pc[t] \in HoldPc <=> lock = t
    /\ req \in [Admin -> Entry \cup {NoEntry}]
    /\ \A t \in Tracer : /\ child[t] \in Task \cup {NoTask}
                         /\ child[t] = NoTask <=> pc[t] = "idle"
                         /\ pc[t] = "walk" => at[t] \in 1 .. Len(protected_procs) + 1
                         /\ pc[t] = "walk_leader" => at[t] \in 1 .. Len(protected_procs)
    /\ {gap, free_for_all, renamed} \subseteq SUBSET Tracer
    /\ steady \in [Tracer -> SUBSET (Entry \X Ground)]

(* protected_proc_count is the length of the list.                          *)
CountExact == protected_proc_count = Len(protected_procs)

(* An attach is admitted only if, at some moment since the hook began, no    *)
(* entry covered the child or a feature was off; or the child or its leader  *)
(* changed name under the walk, and then no entry has covered the child on   *)
(* one ground all along: aegis_is_process_protected finds whatever stays.   *)
AttachNeedsGap ==
    \A t \in Tracer : pc[t] = "admitted" => t \in gap \/ (t \in renamed /\ steady[t] = {})

(* With ptrace_restrict_all in force all along, neither an attach nor a      *)
(* PTRACE_TRACEME is admitted.                                              *)
RestrictAllHolds ==
    \A t \in Tracer : pc[t] \in {"admitted", "admitted_me"} => t \in free_for_all

(* The protected processes are one of the lists of GuardedList, keyed by     *)
(* name and pid together.                                                   *)
ProcessList == INSTANCE GuardedList WITH
    list <- protected_procs,
    pending <- [t \in Admin |->
                   IF pc[t] \in {"add_alloc", "add_relock", "add_insert"} THEN req[t] ELSE NoEntry],
    Key <- Entry, NoKey <- NoEntry, Capacity <- AEGIS_MAX_PROTECTED_PROCS

(* Every change of the list of protected processes is one GuardedList makes: *)
(* see ImplementsList of AegisFile.                                         *)
ImplementsList == ProcessList!Spec

(* What concurrent adds can do to the list of protected processes: see       *)
(* ListBounded of AegisAudit.                                               *)
ListBounded == ProcessList!Bounded
=============================================================================
