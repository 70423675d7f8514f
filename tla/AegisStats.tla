----------------------------- MODULE AegisStats -----------------------------
(***************************************************************************)
(* What the module tells about itself: the event counters of aegis_cfg and  *)
(* the log lines the hooks leave (aegis_lsm.c), the listings `stats' and     *)
(* `status' (aegis_securityfs.c), and the excerpt of the kernel log that    *)
(* `aegisctl audit' prints (aegisctl.c).                                    *)
(*                                                                          *)
(* Which operation is an event is decided in AegisFile, AegisProcess and    *)
(* AegisAudit; here a hook has decided and reports, one atomic increment or  *)
(* printk at a time.  A listing reads one row at a time, without a lock.    *)
(***************************************************************************)
EXTENDS FiniteSets, KernelList

CONSTANTS
    Hook,       \* threads that run a hook
    Viewer,     \* threads that read stats or status
    LogSize,    \* how many lines the kernel's ring buffer keeps
    AuditSize,  \* how many lines fit in AUDIT_BUF_SIZE
    MaxTags,    \* bound: how often "aegis:" occurs in a line
    Tunable,    \* the knobs that are written while the system runs
    MaxEvents,  \* bound: on total_events
    MaxWrites   \* bound: on the writes of knobs

Violation == {"ptrace_blocked", "file_violations", "syscall_violations", "module_violations"}
Counter == Violation \cup {"total_events"}

(* What the hooks report: the counter that goes up before total_events, if   *)
(* there is one, and whether a line follows.  Only a refusal for            *)
(* ptrace_restrict_all can come with PTRACE_MODE_NOAUDIT and stay silent.   *)
PtraceEvent == [kind : {"ptrace_blocked"}, logged : BOOLEAN]

(* A refused write, a logged access.                                        *)
FileEvent == [kind : {"file_violations", "total_events"}, logged : {TRUE}]

LoadEvent == [kind : {"syscall_violations", "module_violations"}, logged : {TRUE}]

(* An exec, or the end of a task.                                           *)
Silent == [kind |-> "total_events", logged |-> FALSE]

Event == PtraceEvent \cup FileEvent \cup LoadEvent \cup {Silent}

(* A line of the kernel log: how often "aegis:" occurs in it, and whether it *)
(* is a hook's.  AEGIS_INFO and AEGIS_ERR lines have the prefix too, and a   *)
(* name that is quoted in a line may hold it as well.                       *)
Line == [tags : 1..MaxTags, event : BOOLEAN] \cup {[tags |-> 0, event |-> FALSE]}

Feature == {"PROCESS_PROTECT", "FILE_INTEGRITY", "SYSCALL_AUDIT", "MODULE_CONTROL",
            "PTRACE_RESTRICT"}
Flag == {"enabled", "ptrace_restrict_all", "file_integrity_enforce", "module_loading_denied"}
Knob == Flag \cup Feature       \* the bits of features as members of their own

ASSUME StatsAssumption ==
    /\ IsFiniteSet(Hook) /\ Hook \cap Viewer = {}
    /\ LogSize \in Nat \ {0} /\ AuditSize \in Nat \ {0} /\ MaxTags \in Nat \ {0}
    /\ Tunable \subseteq Knob /\ MaxEvents \in Nat /\ MaxWrites \in Nat

VARIABLES
    stat,           \* the counters
    klog,           \* the kernel's ring buffer, oldest line first
    aegis_cfg,      \* the knobs `status' shows
    writes,         \* how often a knob was written
    pc,
    event,          \* what each hook reports
    shown,          \* the rows each viewer has printed
    torn            \* history: the viewers that met a write of a knob

hook_vars == <<stat, klog, event>>
vars == <<hook_vars, aegis_cfg, writes, pc, shown, torn>>

Goto(t, from, to) ==
    /\ pc[t] = from
    /\ pc' = [pc EXCEPT ![t] = to]

(* AEGIS_STAT_INC.                                                          *)
AEGIS_STAT_INC(c) == stat' = [stat EXCEPT ![c] = @ + 1]

(* printk: the oldest line goes when the ring is full.                      *)
printk(l) ==
    klog' = Append(IF Len(klog) = LogSize THEN Tail(klog) ELSE klog, l)

(***************************************************************************)
(* The reporting half of the hooks.                                         *)
(***************************************************************************)
InFlight == {h \in Hook : pc[h] # "idle"}

(* Mutant: the line before the counters.                                    *)
Then_LineFirst(e, at) ==
    IF at = "idle" /\ e.logged THEN "line"
    ELSE IF at \in {"idle", "line"} /\ e.kind # "total_events" THEN "kind"
    ELSE IF at # "total" THEN "total" ELSE "idle"

(* Mutant: PTRACE_MODE_NOAUDIT is not looked at.                            *)
Then_Noisy(e, at) ==
    IF at = "idle" /\ e.kind # "total_events" THEN "kind"
    ELSE IF at \in {"idle", "kind"} THEN "total"
    ELSE IF at = "total" THEN "line" ELSE "idle"

(* The order in which a hook reports.                                       *)
Then(e, at) ==
    IF at = "idle" /\ e.kind # "total_events" THEN "kind"
    ELSE IF at \in {"idle", "kind"} THEN "total"
    ELSE IF at = "total" /\ e.logged THEN "line" ELSE "idle"

Report(h) ==
    /\ stat["total_events"] + Cardinality(InFlight) < MaxEvents
    /\ \E e \in Event :
          Goto(h, "idle", Then(e, "idle")) /\ event' = [event EXCEPT ![h] = e]
    /\ UNCHANGED <<stat, klog, aegis_cfg, writes, shown, torn>>

(* A step of a report; the last one ends the hook.                          *)
Advance(h, at) ==
    LET to == Then(event[h], at)
    IN  /\ Goto(h, at, to)
        /\ event' = [event EXCEPT ![h] = IF to = "idle" THEN Silent ELSE @]
        /\ UNCHANGED <<aegis_cfg, writes, shown, torn>>

CountKind(h) == Advance(h, "kind") /\ AEGIS_STAT_INC(event[h].kind) /\ UNCHANGED klog

CountTotal(h) == Advance(h, "total") /\ AEGIS_STAT_INC("total_events") /\ UNCHANGED klog

AEGIS_AUDIT(h) ==
    /\ Advance(h, "line")
    /\ \E l \in Line : l.event /\ printk(l)
    /\ UNCHANGED stat

(* AEGIS_INFO, AEGIS_ERR, and the rest of the kernel.                       *)
AEGIS_INFO ==
    /\ \E l \in Line : ~l.event /\ printk(l)
    /\ UNCHANGED <<stat, event, aegis_cfg, writes, pc, shown, torn>>

(***************************************************************************)
(* The listings.                                                            *)
(***************************************************************************)
(* Mutant: the total is read first.                                         *)
StatsRow_TotalFirst == <<"total_events", "ptrace_blocked", "file_violations",
                         "syscall_violations", "module_violations">>

StatsRow == <<"ptrace_blocked", "file_violations", "syscall_violations",
              "module_violations", "total_events">>

StatusRow == <<"enabled", "features", "PROCESS_PROTECT", "FILE_INTEGRITY", "SYSCALL_AUDIT",
               "MODULE_CONTROL", "PTRACE_RESTRICT", "ptrace_restrict_all",
               "file_integrity_enforce", "module_loading_denied">>

(* Mutant: a feature is shown by its bit alone.                             *)
StatusValue_Bit(row) ==
    IF row = "features" THEN {f \in Feature : aegis_cfg[f]} ELSE aegis_cfg[row]

(* What a row of `status' shows: a feature is ON if AEGIS_FEATURE_CHECK.     *)
StatusValue(row) ==
    IF row = "features" THEN {f \in Feature : aegis_cfg[f]}
    ELSE IF row \in Feature THEN aegis_cfg["enabled"] /\ aegis_cfg[row]
    ELSE aegis_cfg[row]

(* open(2) and the first read(2): single_open calls the show function.      *)
Open(v, listing) ==
    /\ Goto(v, "idle", listing)
    /\ shown' = [shown EXCEPT ![v] = <<>>]
    /\ torn' = torn \ {v}
    /\ UNCHANGED <<hook_vars, aegis_cfg, writes>>

aegis_stats_show(v) ==
    /\ pc[v] = "stats" /\ Len(shown[v]) < Len(StatsRow)
    /\ shown' = [shown EXCEPT ![v] = Append(@, stat[StatsRow[Len(@) + 1]])]
    /\ UNCHANGED <<hook_vars, aegis_cfg, writes, pc, torn>>

aegis_status_show(v) ==
    /\ pc[v] = "status" /\ Len(shown[v]) < Len(StatusRow)
    /\ shown' = [shown EXCEPT ![v] = Append(@, StatusValue(StatusRow[Len(@) + 1]))]
    /\ UNCHANGED <<hook_vars, aegis_cfg, writes, pc, torn>>

(* The listing is complete and has been read.                               *)
Complete(v) ==
    \/ pc[v] = "stats" /\ Len(shown[v]) = Len(StatsRow)
    \/ pc[v] = "status" /\ Len(shown[v]) = Len(StatusRow)

Close(v) ==
    /\ Complete(v)
    /\ pc' = [pc EXCEPT ![v] = "idle"]
    /\ shown' = [shown EXCEPT ![v] = <<>>]
    /\ torn' = torn \ {v}
    /\ UNCHANGED <<hook_vars, aegis_cfg, writes>>

(* A sysctl write; a write of features changes one bit at a time here.      *)
SetKnob(k) ==
    /\ writes < MaxWrites
    /\ writes' = writes + 1
    /\ aegis_cfg' = [aegis_cfg EXCEPT ![k] = ~@]
    /\ torn' = torn \cup {v \in Viewer : pc[v] # "idle"}
    /\ UNCHANGED <<hook_vars, pc, shown>>
-----------------------------------------------------------------------------
(* `aegisctl audit': READ_ALL gives the newest lines that fit; all tags are  *)
(* counted, that many less the wanted number are skipped, and what is        *)
(* skipped are lines.                                                       *)
(* Mutant: the count stops at the first tag of the buffer.                  *)
SumTags_One(log) == IF \E i \in DOMAIN log : log[i].tags > 0 THEN 1 ELSE 0

SumTags(log) ==
    LET sum[n \in 0..Len(log)] == IF n = 0 THEN 0 ELSE sum[n - 1] + log[n].tags
    IN  sum[Len(log)]

(* Its lines that have a tag.                                               *)
Tagged(log) ==
    LET kept[n \in 0..Len(log)] ==
            IF n = 0 THEN <<>>
            ELSE IF log[n].tags > 0 THEN Append(kept[n - 1], log[n]) ELSE kept[n - 1]
    IN  kept[Len(log)]

LastOf(s, n) == SubSeq(s, Len(s) - n + 1, Len(s))

AuditBuf == LastOf(klog, IF Len(klog) > AuditSize THEN AuditSize ELSE Len(klog))

cmd_audit(want) ==
    LET total == SumTags(AuditBuf)
        skip == IF total > want THEN total - want ELSE 0
        lines == Tagged(AuditBuf)
    IN  SubSeq(lines, skip + 1, Len(lines))
-----------------------------------------------------------------------------
Init ==
    /\ stat = [c \in Counter |-> 0]
    /\ klog = <<>>
    /\ aegis_cfg = [k \in Knob |-> k \notin {"ptrace_restrict_all", "module_loading_denied"}]
    /\ writes = 0
    /\ pc = [t \in Hook \cup Viewer |-> "idle"]
    /\ event = [h \in Hook |-> Silent]
    /\ shown = [v \in Viewer |-> <<>>]
    /\ torn = {}

HookStep(h) == CountKind(h) \/ CountTotal(h) \/ AEGIS_AUDIT(h)

Next ==
    \/ \E h \in Hook : Report(h) \/ HookStep(h)
    \/ AEGIS_INFO
    \/ \E v \in Viewer : \/ \E listing \in {"stats", "status"} : Open(v, listing)
                         \/ aegis_stats_show(v) \/ aegis_status_show(v) \/ Close(v)
    \/ \E k \in Tunable : SetKnob(k)

Spec == Init /\ [][Next]_vars
-----------------------------------------------------------------------------
(* The type invariant, with each hook at a step its event has: none comes to  *)
(* a line after a refusal under PTRACE_MODE_NOAUDIT, an exec or an exit.     *)
TypeOK ==
    /\ stat \in [Counter -> Nat]
    /\ klog \in Seq(Line)
    /\ aegis_cfg \in [Knob -> BOOLEAN] /\ writes \in Nat
    /\ \A h \in Hook : pc[h] \in {"idle", "kind", "total", "line"}
    /\ \A v \in Viewer : pc[v] \in {"idle", "stats", "status"}
    /\ event \in [Hook -> Event]
    /\ \A h \in Hook : /\ pc[h] = "kind" => event[h].kind \in Violation
                       /\ pc[h] = "line" => event[h].logged
    /\ \A v \in Viewer : Len(shown[v]) <= Len(StatusRow)
    /\ torn \subseteq Viewer

(* A statistics listing adds up although its rows are read at different      *)
(* moments: the refusals it shows by kind exceed its total by at most one    *)
(* per hook that was between its two increments, since each hook counts the  *)
(* kind before the total and aegis_stats_show reads the total last.         *)
StatsAddUp ==
    \A v \in Viewer : pc[v] = "stats" /\ Complete(v) =>
        LET of(c) == shown[v][CHOOSE i \in DOMAIN StatsRow : StatsRow[i] = c]
        IN  of("ptrace_blocked") + of("file_violations") + of("syscall_violations")
              + of("module_violations") <= of("total_events") + Cardinality(Hook)

(* Nothing is logged that is not counted: whoever sees a hook's line in the  *)
(* kernel log and then reads total_events finds it counted.                 *)
LogCounted ==
    Cardinality({i \in DOMAIN klog : klog[i].event}) <= stat["total_events"]

(* A status listing whose feature rows disagree with the Status and Features *)
(* rows above them met a sysctl write; without one it is what the knobs are. *)
StatusTrue ==
    \A v \in Viewer : pc[v] = "status" /\ Complete(v) /\ v \notin torn =>
        /\ \A i \in DOMAIN StatusRow : shown[v][i] = StatusValue(StatusRow[i])
        /\ \A i \in 3 .. 7 : shown[v][i] <=> shown[v][1] /\ StatusRow[i] \in shown[v][2]

(* `aegisctl audit N' prints the newest of AEGIS's lines in its buffer, at   *)
(* most N, and short of N only by as many as the lines have tags beyond      *)
(* their first; so it is exact while no line has two.                       *)
AuditWithinTags ==
    \A want \in 1 .. LogSize :
        LET lines == Tagged(AuditBuf)
            due == IF Len(lines) < want THEN Len(lines) ELSE want
            got == cmd_audit(want)
        IN  /\ Len(got) <= due /\ got = LastOf(lines, Len(got))
            /\ due - Len(got) <= SumTags(AuditBuf) - Len(lines)

(* `aegisctl audit N' shows the last N of AEGIS's lines, or all there are,   *)
(* as the comments of cmd_audit have it.                                    *)
AuditLast ==
    \A want \in 1 .. LogSize :
        LET lines == Tagged(AuditBuf)
        IN  cmd_audit(want) = LastOf(lines, IF Len(lines) < want THEN Len(lines) ELSE want)
=============================================================================
