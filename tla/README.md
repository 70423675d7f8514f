# AEGIS: a TLA+ verification project

AEGIS is a Linux Security Module. Its hooks consult three lists (protected
files, protected processes, blocked syscalls) and a set of runtime knobs, all of
which administrators change while the hooks run. Requests come in as text
through securityfs, mostly from `aegisctl`, and the module reports on itself
through counters, listings and the kernel log. The project models that
concurrency: which steps are inside a lock, which are not, and what an answer
given by a hook or a listing is worth when the state it rests on changes under
it.

## The system and what models it

| Part | Source | Module | Proofs |
| --- | --- | --- | --- |
| File integrity: list, digest, listing, `file_open`, `file_permission` | `aegis_file.c`, `aegis_lsm.c` | `AegisFile` | `AegisFileProofs` |
| Syscall blocking and module control: list, `kernel_read_file`, `kernel_load_data`, `bprm_check_security` | `aegis_audit.c`, `aegis_lsm.c` | `AegisAudit` | `AegisAuditProofs` |
| Process protection: list, `ptrace_access_check`, `ptrace_traceme`, `task_free` | `aegis_process.c`, `aegis_lsm.c` | `AegisProcess` | `AegisProcessProofs` |
| What the three lists have in common | the add and del functions, `list.h` | `GuardedList` (abstract), `KernelList` (operators) | `GuardedListProofs` |
| Sysctl handlers: mirror and commit | `aegis_sysctl.c` | `AegisSysctl` | `AegisSysctlProofs` |
| Counters, log lines, `stats` and `status`, `aegisctl audit` | `aegis_lsm.c`, `aegis_securityfs.c`, `aegisctl.c` | `AegisStats` | `AegisStatsProofs` |
| Control endpoints: length limits, parsing | `aegis_control.c` | `AegisRequest` | `AegisControlProofs` |
| Control endpoints: authorisation, answers; `aegisctl`'s write commands | `aegis_control.c`, `aegisctl.c` | `AegisControl` | `AegisControlProofs` |
| Boot and the securityfs tree | `aegis_lsm.c`, `aegis_securityfs.c`, `aegis_control.c` | `AegisBoot` | `AegisInitProofs` |
| The first process: mounts, device nodes, status check, shell | `devkit/src/init/aegis_init.c` | `AegisInit` (extends `AegisBoot`) | `AegisInitProofs` |

Each of the modules a run is about has an `MC*` module with its instances.

## How the modules correspond to the code

A thread has a program counter `pc[t]`. A step is the taking of a spinlock
(`SpinLock`), the body of a critical section with the unlock that ends it, or
one access to shared state outside a lock. Log lines are left out unless they
read shared state (`AddInfo` in `AegisFile`) or are the subject (`AegisStats`).
The sysctls a hook reads are members of `aegis_cfg`, each feature bit of the
mask a member of its own, and `SetKnob` toggles one between any two steps; how a
value gets from a writer to `aegis_cfg` is `AegisSysctl`'s subject.

* `AegisFile`. `protected_files` is a sequence of addresses into `heap`, so that
  a freed entry that is still used can be seen. `AddStart .. AddInfo` are the
  stages of `aegis_protected_file_add`: check, unlock, allocate, open the file
  (which runs this module's own hook, unless the open fails before it comes to
  that), digest, lock again, insert, log. Every read of the digest runs the hook
  again; a read cannot be refused, so all it can leave is a logged event
  (`ReadLogged` in `AddHash`).
  `PermFeature .. PermLog` are `aegis_file_permission`, and `FileOpen` and
  `FileAccess` its two callers. A digest is the version of the content.
* `AegisAudit`. The list is a sequence of numbers. `HookEnabled .. HookDenySilent`
  are both load hooks, told apart by the id. `Init` is what
  `aegis_audit_init` leaves: the defaults whose add did not fail.
* `AegisProcess`. The walk of `aegis_is_process_protected` is one step per
  comparison, because `task->comm` is not protected by the list's lock
  (`Rename`). An entry covers a task on one of three grounds: its pid, its name,
  or the name of its leader (`Holds`). `PTRACE_TRACEME` looks at
  `ptrace_restrict_all` and never at the list. A slot for a task is reused with a
  new pid (`TaskFree`, `Fork`).
* `GuardedList`. What the three add and three del functions promise together. An
  add passes its two tests (`Admit`), then inserts without testing again
  (`Insert`) or gives up (`Drop`); a del takes the first match. Each of the three
  components has an instance of it (`FileList`, `SyscallList`, `ProcessList`)
  whose `list` is its own and whose `pending` is what its adds have tested and
  not yet inserted; `ImplementsList` says that it takes no other steps.
* `KernelList`. A list is the sequence of its entries; `list_del` and the walk that
  unlinks the first match. It stands in for the community module `SequencesExt`,
  whose many definitions every proof obligation would have to carry.
* `AegisSysctl`. `DoIntVec` writes the mirror, `Load` and `Store` commit it.
* `AegisStats`. A hook that refuses or logs increments the counter of its kind,
  then `total_events`, then prints, one step each; a listing reads one row per
  step. The kernel log is a ring of `LogSize` lines of which `aegisctl audit`
  reads the newest `AuditSize`, counts tags, and skips the surplus. A line has
  up to `MaxTags` tags, since names and paths may contain one.
* `AegisRequest`, `AegisControl`. A text is a sequence of characters of the few
  kinds the parsers tell apart. `Copied` is `aectl_get_string`; `sscanf` and
  `kstrtoint` do what their formats say, overflow included. A writer goes through
  authorisation, length test, copy, parse, the steps of its list operation, and
  the answer that `write_secfs` turns into success or failure. The list starts
  as boot leaves it (`Boot`, the defaults written as the texts that would add
  them).
* `AegisBoot`. The subsystems in order, twelve creations, each of which may fail,
  and the unwinding. `AegisInit` goes on from there: ten mounts, the device
  nodes, the look for the status file, the shell; every call may fail and no
  result is looked at. A filesystem of its own kind on a place already taken by
  it is refused (`Busy`), but a second `/proc` lies on top of the first.

History variables (`gap`, `blind`, `no_block`, `no_deny`, `free_for_all`,
`renamed`, `steady`, `overlapped`, `torn`, `changes`, `refused`) record what a
running call has met or done; no step of the code reads one.

## Runs

| Run | Shows |
| --- | --- |
| `file` | no leaked or dangling entry, exact count; the overshoot and the number of copies that racing adds can cause are bounded; the list takes only steps of `GuardedList`; a write is admitted only if protection was not in force at some moment of its hook, or no path string could be had |
| `file_live` | with the feature bit, the enforce and the log switch changing, the same holds for writes, and every call returns, the hook that an add runs into included |
| `audit` | blocked list and module denial are each enforced, whatever the other does; the list takes only steps of `GuardedList` and keeps its bounds |
| `process` | a task that the list covers all along the hook is not attached to; a rename under the walk excuses that only if no entry stays with the task on one ground; `ptrace_restrict_all` holds for attach and traceme; the list takes only steps of `GuardedList` and keeps its bounds |
| `stats` | a listing's kinds exceed its total by one per hook at most; nothing is logged that is not counted; a status listing no write fell into is true; `aegisctl audit N` prints an end of the tagged lines, N of them less at most one for every further tag in a line |
| `control` | the path that is used is the path that was written, but for one length; a well-formed request is parsed as written; the answer says whether the list was changed, but for a text of line ends. On the other way in, a sysctl write that is alone on its knob is committed, whatever racing writers left before |
| `boot` | the tree is whole or absent, and only existing entries are removed; userspace starts under registered hooks; no mount hides another; the status is shown exactly when tree and mounts are there; provided nodes are devices; boot ends |

The other runs show where the code does not do what a document or comment says;
each finding in `PROJECT.json` quotes the line.

| Run | Shows |
| --- | --- |
| `file_del` | a deletion leaves the second copy of a path in force |
| `file_uaf` | the log line of an add reads an entry that has been freed |
| `audit_kexec` | `module_loading_denied` does not cover kexec |
| `sysctl_race` | two writers leave mirror and configuration apart |
| `audit_tags` | a line with two tags makes `aegisctl audit N` print fewer than N lines though they are there |

Seen while modelling, visible in the modules and left without a run:

* the lists can exceed their capacities (`OvershootBounded`, `ListBounded` say by
  how much);
* an entry for a symbolic link guards nothing, since the hooks compare the path
  of the file that was opened (`Resolve`, `DPath` in `AegisFile`);
* a rename from one listed name to another, made while the walk is between the
  two entries, escapes the walk (`renamed` and `steady` in `AegisProcess`);
* the count in the heading of a listing is read outside the lock and can disagree
  with the rows under it (`ShowStart`, `ShowWalk` in `AegisFile`);
* a digest is taken once and never compared again;
* a module load refused without a path string is not counted or logged
  (`HookDenySilent`);
* a path of exactly `AEGIS_PATH_LEN` characters loses its last one (`PathWhole`),
  and a name cut at its width leaves its rest to be read as the pid;
* `aegisctl` passes on its second argument only, though its usage text
  (`aegisctl.c:65`) offers a pid after the name;
* `create_device_nodes` gives `mknod` no file type, which makes regular files;
  only devtmpfs makes `/dev` work (`NodesReal`);
* the second mount of `/sys` comes after the one on `/sys/kernel/security`, and
  cannot make up for what that one missed (`StatusShown`).

## Bounds

Two administrators suffice for the check-then-insert races (each race is between
two adds, or an add and a del); capacities are 2, and 1 in `file_live`, so that
the limit is reached. In `file` the addresses outnumber what can be allocated at once
(otherwise the heap, not the code, would bound the overshoot), and are
symmetric; no knob changes there. In `file_live` the feature bit, the enforce and
the log switch change; `enabled` does not, being tested only together with the
feature bit (`AEGIS_FEATURE_CHECK`). `MaxEvents` stops new calls once
`total_events` is there, so the counters stay finite; it bounds how many logged
calls a behaviour has, never what one of them does. `MaxReads` bounds the events
that the reads of one digest log. `MaxWrites` bounds the versions of a file, and
in `AegisStats` the writes of knobs. One task, loader or tracer is enough, since
two hooks share nothing but the lock and the counters.

`audit` has two numbers, one that a load hook asks for and one that none does, and
a capacity of two, which two racing adds of the same number exceed. The ids whose
syscall is not among the numbers are the loads that are not blocked. All five knobs
change. The constraint `RacesComeFirst` lets the calls of administrators overlap
only while the knobs, which those calls do not read, are as booted; a hook may run
meanwhile, and what a race leaves on the list stays.

`process` has two administrators, two entries and a capacity of two. Three bounds
keep it small. Administrators race, and leave copies or a list beyond its capacity,
only while no task lives and the knobs are as booted; afterwards one of them goes
on adding and deleting under the hooks (`RacesComeFirst`; a second copy changes
nothing for a hook, which has met the first). A hook is not followed once it has
met moments at which neither the list nor `ptrace_restrict_all` was in force, since
no property says anything of its answer then, and a behaviour ends with its first
refusal, which leaves nothing but counters (`Undecided`). Tasks come and go between
hooks, pids being reused, since a hook looks only at its child and the child's
leader, which it holds (`TasksChangeBetweenHooks`). Administrators are symmetric in
both runs.

`stats` has one hook and one viewer; the proofs are about any number. Its ring
holds three lines and the buffer of `aegisctl` two, so that both overflow, and a
line has at most two tags.

`control` has a path buffer of 5, a name buffer of 3, a number buffer of 4 and
an `INT_MAX` of 7, so that every length test and every overflow is met by texts
of up to six characters. `MCText` has all short texts over the characters that
matter and, by hand, those around each limit. The lists share no state, so a
behaviour is about one of them, which starts empty or with defaults up to its
limit of two. One client runs at a time; racing clients are the subject of the
list modules. The run also has the sysctl handlers, three symmetric writers on
two knobs of different width; as the handlers touch no list, each of the two sides
moves while the other is as booted (`UserNext`). `Wrap` stands for 2^32 in
`AegisSysctl`.

`boot` has all the mounts and creations of the code and two nodes, one that the
kernel provides and one that it does not.

## Fairness

`file_live` assumes that a thread inside a call keeps running (weak fairness of
`ThreadStep`: kernel code is not abandoned half-way) and that a thread waiting
for a spinlock gets it in the end (strong fairness of `SpinLock`: Linux's queued
spinlocks are first come, first served). Nothing is assumed of administrators
starting calls or of knobs changing. `AegisAudit` and `AegisProcess` have the
same lock discipline; their type invariants say that the lock's holder is inside
a critical section, and liveness is not checked for them.

`boot` assumes weak fairness of `SystemNext`: boot is one thread of control, and
the calls it makes return, with success or failure.

## Proofs

All are for any sets of threads, files, names, tasks, addresses, texts, device
nodes and any capacities and sizes of buffers, from the assumptions the component modules name
(`FileAssumption`, `AuditAssumption`, `ProcessAssumption`, `SysctlAssumption`,
`StatsAssumption`, `RequestAssumption`, `ControlAssumption`, `InitAssumption`: the
kinds of thread are disjoint, administrators finite in number and not none,
distinguished values distinct, sizes large enough to hold anything, the nodes a
devtmpfs provides among those the first process makes). TLC evaluates each of them on the
instance of its run. The texts of `AegisControlProofs` are of any length over the
model's characters.

* `AegisFileProofs`. The inductive invariant is
  `IInv == TypeOK /\ EntriesAccounted /\ CountExact`. The type invariant says
  that the lock's holder is the one thread in a critical section;
  `EntriesAccounted` says that what an add holds is not on the list, which is
  what makes its insertion keep the list free of repetitions. Each action has a
  lemma; those that leave list and heap alone share `QuietStep`.
  `HooksMissNothing` follows from `GuardInv`, which says for a hook at each of
  its steps what the steps before it have established: the policy has been in
  force all along, or the thread is in `gap` or `blind`.
  `ListImplemented` is the refinement of `GuardedList`. It needs `HeldInv`: the
  entry an add has allocated carries the path it was tested for, through all the
  steps in which the add holds no lock. Along the refinement the bounds of the
  abstract list become `OvershootIsBounded` and `CopiesAreBounded`.
* `GuardedListProofs`. The bounds, once for all three lists. `Bounded` is not
  inductive; what is, counts the entries of a key together with the adds pending
  for it (`Share`), and the length together with all pending adds (`Room`): a
  new add is admitted only if there is room, respectively no entry, at that
  moment, and an add that turns into an entry leaves the sum as it was. The
  lemmas on the places of a key in a list (`PlacesAppend`, `PlacesRemove`) count
  the entries. `OvershootIsBounded` and `CopiesAreBounded` in `AegisFileProofs`
  and `ListIsBounded` in `AegisAuditProofs` and `AegisProcessProofs` carry the
  result over along the refinement.
* `AegisAuditProofs`. `IInv` is types, exact count and lock discipline.
  `BlockedStaysOut` and `DeniedStaysOut` follow from `GuardInv`: a hook past the
  test of a policy has met a moment at which that policy did not forbid the load.
* `AegisProcessProofs`. The same plan, with a walk: as long as no name has
  changed under it, no entry it has passed covers the child (`Behind`), so a walk
  that comes to the end has seen a list that does not cover it. And whether or not
  names change, no entry it has passed covers the child on a ground that has held
  since the hook began (`Ruled`): the comparison of that ground failed when the
  walk made it. The list cannot change meanwhile since the walk holds the lock.
* `AegisSysctlProofs`. `LoneInv`: on a knob that is not overlapped there is one
  writer at most, what it has loaded is the mirror, and the mirror is committed
  or that writer has yet to do so.
* `AegisStatsProofs`. `CountOK`: the kinds are never ahead of the total by more
  than the hooks that are between their two increments. The rows a listing has
  are at most what the counters are now, and the total is read last.
  `LogIsCounted` needs `LogInv`: the event lines in the log, together with the
  hooks that have counted a total and not yet printed, are at most
  `total_events`; printing moves one from the second group to the first, and
  what the ring drops only lowers the sum. `AuditIsWithinTags` is about the recursive
  functions `SumTags` and `Tagged`: `TaggedIs` and `LinesAndTags` say of every
  prefix of the buffer that its tagged lines are at most its tags, from which
  `Skipped` gets what the skipping costs.
* `AegisControlProofs`. First what the parsers do to a text of any length: a span
  is the longest beginning in a set of characters (`SpanIs`), stripping takes off
  line ends and nothing else (`StripIs`, `StripPlace`), copying and then stripping
  is stripping unless the copy cut something off (`PathText`, `LineWhole`), and a
  line in one of the documented forms comes out of `sscanf` or `kstrtoint` as what
  it says (`NameHonoured`, `PidHonoured`, `NumberHonoured`). Then the endpoints:
  `IInv` says for a client at each step how its key comes from its text and how
  often it has changed the list (`ClientOK`), and that the list with the adds
  past their test stays within the bound (`Room`). None of the properties is
  inductive without it: `PathWhole` and `RequestHonoured` need the key to stay
  tied to the text through all later steps, `AnswerTrue` needs the count of
  changes before the answer is given, and the bound in `TypeOK` needs the adds
  that will insert without testing again.
* `AegisInitProofs`. `AllOrNothing` speaks of the end of boot only; `BootInv` says
  how it comes about. While the tree is created, the entries before the place
  reached exist and have a pointer, the others neither (`Creating`). While it is
  removed, what exists is what has a pointer and is still to come in the order of
  removal, and the pointers to control files already passed are NULL
  (`Removing`); the directory comes last, so it is empty by then, which is
  `RemovalIsSafe`. `SystemBoots` shows that the first process stutters on what
  boot has set up: boot with the first process is a behaviour of `AegisBoot`, and
  the three theorems on boot hold of it. For the first process, `Layered` says
  that nothing is mounted before what it lies in, which needs that `/dev/pts` is
  mounted only when `/dev` is no longer tried, and gives `NoMountIsHidden`.
  `Reached` says for each place in the table of mounts what has become of sysfs
  and securityfs: securityfs has one turn, between the two of sysfs, so that a
  later refusal of sysfs can only be the second, after a first that left
  securityfs without its directory. `StatusIsTrue` needs that at the check.
  `UserspaceIsGuarded` follows from the part of `BootInv` on hooks and subsystems,
  `DevicesStayReal` from the nodes alone.

Appending to a list and removing from it (`AppendOnce`, `DelShorter`,
`AppendElements`, `DelElements`) are lemmas of the proof modules that need them.
Induction over positions, in `AegisStatsProofs` and `AegisControlProofs`, does
without the library's induction theorems, whose operator parameter the provers
cannot instantiate: a set of numbers that has 0 and, with every number, the next
one, has all of them (`SetOfAll`, from the well-foundedness of `<`), and a function
given by a first value and a step exists on every `0..n` (`Recursion`), so that a
recursive function satisfies its equations.

Only model-checked: the liveness properties `EveryCallReturns` and `BootSettles`,
since fairness is out of the prover's reach. Every other property of a passing run
is proved.

## Not modelled

* `aegis_file_exit`, `aegis_process_exit`, `aegis_audit_exit` and
  `aegis_sysctl_exit`: nothing calls them.
* `socket_create`, `inode_permission` and `task_alloc` return 0 and change
  nothing; `aegis_module.c` logs.
* The listings of `aegisctl`: they copy one read of a file to the terminal. The
  listings of processes and syscalls in the module: they change nothing and are
  made like the one of files.
* `aegisctl enable` and `disable` are sysctl writes (`AegisSysctl`); its help and
  the dispatch on its arguments are text, as are the banner, the system
  information, the environment and the host name in `aegis_init.c`.
* The hash behind the digest: an uninterpreted version number stands for it.
* `apply.sh` and `launch.sh`: glue around `patch` and `qemu`.
