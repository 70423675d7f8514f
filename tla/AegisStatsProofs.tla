-------------------------- MODULE AegisStatsProofs --------------------------
(***************************************************************************)
(* The listings of AegisStats, for every number of hooks and viewers.        *)
(***************************************************************************)
EXTENDS AegisStats, FiniteSetsExt, FiniteSetTheorems, TLAPS

(* The refusals counted by kind.                                            *)
ByKind == stat["ptrace_blocked"] + stat["file_violations"] + stat["syscall_violations"]
            + stat["module_violations"]

(* The hooks between their two increments.                                  *)
Between == {h \in Hook : pc[h] = "total" /\ event[h].kind # "total_events"}

(* The rows a viewer has so far were read from counters that only grow; the  *)
(* last one, the total, was read when the others were not ahead of it by     *)
(* more than the hooks between their increments.                            *)
RowsOK(v) ==
    /\ \A i \in 1..Len(shown[v]) : shown[v][i] \in Nat
    /\ Len(shown[v]) < 5 => \A i \in 1..Len(shown[v]) : shown[v][i] <= stat[StatsRow[i]]
    /\ Len(shown[v]) = 5 =>
          shown[v][1] + shown[v][2] + shown[v][3] + shown[v][4] <= shown[v][5] + Cardinality(Hook)

(* What a viewer of status has is true as long as it met no write.           *)
StatusOK(v) ==
    v \notin torn => \A i \in 1..Len(shown[v]) : shown[v][i] = StatusValue(StatusRow[i])

HookOK(h) ==
    /\ pc[h] \in {"idle", "kind", "total", "line"}
    /\ pc[h] = "kind" => event[h].kind # "total_events"
    /\ pc[h] = "line" => event[h].logged

Value == Nat \cup BOOLEAN \cup SUBSET Feature

ViewOK(v) ==
    /\ pc[v] \in {"idle", "stats", "status"}
    /\ shown[v] \in Seq(Value)
    /\ pc[v] = "idle" => shown[v] = <<>>
    /\ pc[v] = "stats" => Len(shown[v]) <= 5 /\ RowsOK(v)
    /\ pc[v] = "status" => Len(shown[v]) <= 10 /\ StatusOK(v)

CountOK == ByKind <= stat["total_events"] + Cardinality(Between)

IInv ==
    /\ stat \in [Counter -> Nat] /\ event \in [Hook -> Event]
    /\ aegis_cfg \in [Knob -> BOOLEAN] /\ writes \in Nat
    /\ klog \in Seq(Line) /\ Len(klog) <= LogSize
    /\ pc \in [Hook \cup Viewer -> {"idle", "kind", "total", "line", "stats", "status"}]
    /\ DOMAIN shown = Viewer /\ torn \subseteq Viewer
    /\ \A h \in Hook : HookOK(h)
    /\ \A v \in Viewer : ViewOK(v)
    /\ CountOK

LEMMA Rows ==
    /\ Len(StatsRow) = 5 /\ DOMAIN StatsRow = 1..5
    /\ StatsRow[1] = "ptrace_blocked" /\ StatsRow[2] = "file_violations"
    /\ StatsRow[3] = "syscall_violations" /\ StatsRow[4] = "module_violations"
    /\ StatsRow[5] = "total_events"
    /\ Len(StatusRow) = 10 /\ DOMAIN StatusRow = 1..10
    /\ \A i \in 1..10 : StatusRow[i] \in Knob \cup {"features"}
BY DEF StatsRow, StatusRow, Knob, Flag, Feature

LEMMA BetweenFinite ==
    /\ IsFiniteSet(Between) /\ Cardinality(Between) \in Nat
    /\ Cardinality(Hook) \in Nat /\ Cardinality(Between) <= Cardinality(Hook)
<1>1. IsFiniteSet(Hook) /\ Between \in SUBSET Hook
  BY StatsAssumption DEF Between
<1> QED BY <1>1, FS_Subset, FS_CardinalityType

LEMMA InitIInv == Init => IInv
<1> SUFFICES ASSUME Init PROVE IInv
  OBVIOUS
<1>1. stat \in [Counter -> Nat] /\ ByKind = 0 /\ stat["total_events"] = 0
  BY DEF Init, Counter, Violation, ByKind
<1>2. CountOK
  BY <1>1, BetweenFinite DEF CountOK
<1>3. event \in [Hook -> Event]
  BY DEF Init, Event
<1>4. \A v \in Viewer : ViewOK(v)
  BY DEF Init, ViewOK
<1>5. klog \in Seq(Line) /\ Len(klog) <= LogSize
  BY StatsAssumption DEF Init
<1> QED BY <1>1, <1>2, <1>3, <1>4, <1>5 DEF Init, IInv, HookOK

(* What is printed has a value.                                             *)
LEMMA RowValues ==
    ASSUME IInv
    PROVE  /\ \A i \in 1..5 : stat[StatsRow[i]] \in Nat /\ stat[StatsRow[i]] \in Value
           /\ \A i \in 1..10 : StatusValue(StatusRow[i]) \in Value
<1>1. \A i \in 1..5 : StatsRow[i] \in Counter
  BY DEF StatsRow, Counter, Violation
<1>2. \A i \in 1..5 : stat[StatsRow[i]] \in Nat /\ stat[StatsRow[i]] \in Value
  BY <1>1 DEF IInv, Value
<1>3. ASSUME NEW r \in Knob \cup {"features"} PROVE StatusValue(r) \in Value
  <2>1. CASE r = "features"
    BY <2>1 DEF StatusValue, Value
  <2>2. CASE r \in Knob /\ r # "features"
    <3>1. aegis_cfg[r] \in BOOLEAN
      BY <2>2 DEF IInv
    <3>2. StatusValue(r) \in BOOLEAN
      BY <2>2, <3>1, Zenon DEF StatusValue
    <3> QED BY <3>2, Zenon DEF Value
  <2> QED BY <2>1, <2>2
<1>4. \A i \in 1..10 : StatusValue(StatusRow[i]) \in Value
  BY <1>3, Rows
<1> QED BY <1>2, <1>4

(* A step of a hook leaves the listings valid: the counters only grow.       *)
LEMMA ViewsStay ==
    ASSUME IInv, UNCHANGED <<shown, torn, aegis_cfg>>,
           \A v \in Viewer : pc'[v] = pc[v],
           stat' \in [Counter -> Nat],
           \A c \in Counter : stat[c] <= stat'[c]
    PROVE  \A v \in Viewer : ViewOK(v)'
<1> TAKE v \in Viewer
<1>1. ViewOK(v) /\ pc'[v] = pc[v] /\ shown' = shown
  BY DEF IInv
<1>2. ASSUME Len(shown[v]) <= 5, RowsOK(v) PROVE RowsOK(v)'
  <2>1. ASSUME NEW i \in 1..Len(shown[v]), Len(shown[v]) < 5
        PROVE  shown[v][i] <= stat'[StatsRow[i]]
    <3>1. StatsRow[i] \in Counter
      BY <1>1, <2>1, Rows DEF ViewOK, Counter, Violation
    <3>2. shown[v][i] \in Nat /\ shown[v][i] <= stat[StatsRow[i]]
      BY <1>2, <2>1 DEF RowsOK
    <3> QED BY <3>1, <3>2 DEF IInv
  <2> QED BY <1>1, <1>2, <2>1 DEF RowsOK
<1>3. ASSUME StatusOK(v) PROVE StatusOK(v)'
  BY <1>3, Zenon DEF StatusOK, StatusValue
<1> QED BY <1>1, <1>2, <1>3 DEF ViewOK

(* The first half of a hook's report: at least what it refused is counted.   *)
LEMMA Kinds ==
    ASSUME NEW e \in Event
    PROVE  /\ e.kind \in Counter
           /\ e.kind # "total_events" => e.kind \in Violation
           /\ Then(e, "idle") = IF e.kind # "total_events" THEN "kind" ELSE "total"
           /\ Then(e, "kind") = "total"
           /\ Then(e, "total") \in {"line", "idle"}
           /\ Then(e, "total") = "line" => e.logged
           /\ Then(e, "line") = "idle"
<1>1. e.kind \in Counter
  <2>1. CASE e \in PtraceEvent
    BY <2>1, Zenon DEF PtraceEvent, Counter, Violation
  <2>2. CASE e \in FileEvent
    BY <2>2 DEF FileEvent, Counter, Violation
  <2>3. CASE e \in LoadEvent
    BY <2>3 DEF LoadEvent, Counter, Violation
  <2>4. CASE e = Silent
    BY <2>4 DEF Silent, Counter
  <2> QED BY <2>1, <2>2, <2>3, <2>4 DEF Event
<1>2. e.kind # "total_events" => e.kind \in Violation
  BY <1>1 DEF Counter
<1>3. Then(e, "idle") = IF e.kind # "total_events" THEN "kind" ELSE "total"
  BY DEF Then
<1>4. Then(e, "kind") = "total"
  BY DEF Then
<1>5. /\ Then(e, "total") \in {"line", "idle"}
      /\ Then(e, "total") = "line" => e.logged
  BY Zenon DEF Then
<1>6. Then(e, "line") = "idle"
  BY DEF Then
<1> QED BY <1>1, <1>2, <1>3, <1>4, <1>5, <1>6

LEMMA PrintkOK ==
    ASSUME IInv, NEW l \in Line, printk(l)
    PROVE  klog' \in Seq(Line) /\ Len(klog') <= LogSize
<1>1. klog \in Seq(Line) /\ Len(klog) <= LogSize /\ Len(klog) \in Nat /\ LogSize \in Nat \ {0}
  BY StatsAssumption DEF IInv
<1>2. CASE Len(klog) = LogSize
  <2>1. Tail(klog) \in Seq(Line) /\ Len(Tail(klog)) = Len(klog) - 1
    BY <1>1, <1>2
  <2> QED BY <1>1, <1>2, <2>1 DEF printk
<1>3. CASE Len(klog) # LogSize
  BY <1>1, <1>3 DEF printk
<1> QED BY <1>2, <1>3

LEMMA ReportIInv ==
    ASSUME IInv, NEW h \in Hook, Report(h)
    PROVE  IInv'
<1>1. PICK e \in Event : Goto(h, "idle", Then(e, "idle")) /\ event' = [event EXCEPT ![h] = e]
  BY Zenon DEF Report
<1>2. UNCHANGED <<stat, klog, aegis_cfg, writes, shown, torn>>
  BY DEF Report
<1>3. /\ pc' = [pc EXCEPT ![h] = pc'[h]] /\ pc[h] = "idle"
      /\ pc'[h] = IF e.kind # "total_events" THEN "kind" ELSE "total"
      /\ event'[h] = e /\ event' \in [Hook -> Event]
      /\ \A g \in Hook \ {h} : pc'[g] = pc[g] /\ event'[g] = event[g]
      /\ \A v \in Viewer : pc'[v] = pc[v]
  BY <1>1, Kinds, StatsAssumption DEF Goto, IInv
<1>4. Between' = Between
  BY <1>3 DEF Between
<1>5. CountOK'
  BY <1>2, <1>4 DEF CountOK, ByKind, IInv
<1>6. \A v \in Viewer : ViewOK(v)'
  BY <1>2, <1>3, ViewsStay DEF IInv
<1>7. \A g \in Hook : HookOK(g)'
  BY <1>3 DEF HookOK, IInv
<1>8. pc' \in [Hook \cup Viewer -> {"idle", "kind", "total", "line", "stats", "status"}]
  BY <1>3 DEF IInv
<1> QED BY <1>2, <1>3, <1>5, <1>6, <1>7, <1>8 DEF IInv

(* A further step of a report, as far as it does not count.                 *)
LEMMA AdvanceFacts ==
    ASSUME IInv, NEW h \in Hook, NEW at \in {"kind", "total", "line"}, Advance(h, at)
    PROVE  /\ UNCHANGED <<aegis_cfg, writes, shown, torn>>
           /\ pc[h] = at /\ pc'[h] = Then(event[h], at)
           /\ event' \in [Hook -> Event]
           /\ pc'[h] # "idle" => event'[h] = event[h]
           /\ \A g \in Hook \ {h} : pc'[g] = pc[g] /\ event'[g] = event[g]
           /\ \A v \in Viewer : pc'[v] = pc[v]
           /\ pc' \in [Hook \cup Viewer -> {"idle", "kind", "total", "line", "stats", "status"}]
           /\ \A g \in Hook : HookOK(g)'
<1> DEFINE to == Then(event[h], at)
<1>1. event[h] \in Event /\ event \in [Hook -> Event] /\ Silent \in Event
  BY DEF IInv, Event
<1>2. to \in {"total", "line", "idle"} /\ (to = "line" => event[h].logged)
  BY <1>1, Kinds
<1>3. /\ UNCHANGED <<aegis_cfg, writes, shown, torn>>
      /\ pc[h] = at /\ pc' = [pc EXCEPT ![h] = to]
      /\ event' = [event EXCEPT ![h] = IF to = "idle" THEN Silent ELSE @]
  BY DEF Advance, Goto
<1> HIDE DEF to
<1>4. /\ event' \in [Hook -> Event] /\ pc'[h] = to
      /\ pc'[h] # "idle" => event'[h] = event[h]
      /\ \A g \in Hook \ {h} : pc'[g] = pc[g] /\ event'[g] = event[g]
      /\ \A v \in Viewer : pc'[v] = pc[v]
      /\ pc' \in [Hook \cup Viewer -> {"idle", "kind", "total", "line", "stats", "status"}]
  BY <1>1, <1>2, <1>3, StatsAssumption DEF IInv
<1>5. \A g \in Hook : HookOK(g)'
  BY <1>2, <1>4 DEF HookOK, IInv
<1> QED BY <1>3, <1>4, <1>5 DEF to

LEMMA CountKindIInv ==
    ASSUME IInv, NEW h \in Hook, CountKind(h)
    PROVE  IInv'
<1>1. Advance(h, "kind") /\ stat' = [stat EXCEPT ![event[h].kind] = @ + 1] /\ UNCHANGED klog
  BY DEF CountKind, AEGIS_STAT_INC
<1>2. /\ pc[h] = "kind" /\ pc'[h] = "total" /\ event'[h] = event[h]
      /\ event[h].kind \in Violation /\ event[h].kind # "total_events"
  BY <1>1, AdvanceFacts, Kinds DEF IInv, HookOK
<1>3. \A g \in Hook \ {h} : pc'[g] = pc[g] /\ event'[g] = event[g]
  BY <1>1, AdvanceFacts
<1>4. stat \in [Counter -> Nat] /\ stat' \in [Counter -> Nat]
      /\ \A c \in Counter : stat[c] <= stat'[c]
  BY <1>1, <1>2 DEF IInv, Counter
<1>5. Between' = Between \cup {h} /\ h \notin Between
  BY <1>2, <1>3 DEF Between
<1>6. Cardinality(Between') = Cardinality(Between) + 1
  BY <1>5, BetweenFinite, FS_AddElement
<1>7. ByKind' = ByKind + 1 /\ stat'["total_events"] = stat["total_events"] /\ ByKind \in Nat
  BY <1>1, <1>2, <1>4 DEF ByKind, Violation, Counter
<1>8. CountOK'
  BY <1>4, <1>6, <1>7, BetweenFinite DEF CountOK, IInv, Counter
<1>9. \A v \in Viewer : ViewOK(v)'
  BY <1>1, <1>4, AdvanceFacts, ViewsStay
<1> QED BY <1>1, <1>4, <1>8, <1>9, AdvanceFacts DEF IInv

LEMMA CountTotalIInv ==
    ASSUME IInv, NEW h \in Hook, CountTotal(h)
    PROVE  IInv'
<1>1. Advance(h, "total") /\ stat' = [stat EXCEPT !["total_events"] = @ + 1] /\ UNCHANGED klog
  BY DEF CountTotal, AEGIS_STAT_INC
<1>2. pc[h] = "total" /\ pc'[h] \in {"line", "idle"}
  BY <1>1, AdvanceFacts, Kinds DEF IInv
<1>3. \A g \in Hook \ {h} : pc'[g] = pc[g] /\ event'[g] = event[g]
  BY <1>1, AdvanceFacts
<1>4. stat \in [Counter -> Nat] /\ stat' \in [Counter -> Nat]
      /\ \A c \in Counter : stat[c] <= stat'[c]
  BY <1>1 DEF IInv, Counter
<1>5. Between' = Between \ {h}
  BY <1>2, <1>3 DEF Between
<1>6. Cardinality(Between) <= Cardinality(Between') + 1 /\ Cardinality(Between') \in Nat
  <2>1. Cardinality(Between \ {h}) =
            IF h \in Between THEN Cardinality(Between) - 1 ELSE Cardinality(Between)
    BY BetweenFinite, FS_RemoveElement, Zenon
  <2>2. h \in Between => Cardinality(Between) # 0
    BY BetweenFinite, FS_EmptySet
  <2> QED BY <1>5, <2>1, <2>2, BetweenFinite
<1>7. ByKind' = ByKind /\ stat'["total_events"] = stat["total_events"] + 1 /\ ByKind \in Nat
  BY <1>1, <1>4 DEF ByKind, Violation, Counter
<1>8. CountOK'
  BY <1>4, <1>6, <1>7, BetweenFinite DEF CountOK, IInv, Counter
<1>9. \A v \in Viewer : ViewOK(v)'
  BY <1>1, <1>4, AdvanceFacts, ViewsStay
<1> QED BY <1>1, <1>4, <1>8, <1>9, AdvanceFacts DEF IInv

LEMMA AuditIInv ==
    ASSUME IInv, NEW h \in Hook, AEGIS_AUDIT(h)
    PROVE  IInv'
<1>1. Advance(h, "line") /\ UNCHANGED stat /\ \E l \in Line : printk(l)
  BY DEF AEGIS_AUDIT
<1>2. pc[h] = "line" /\ pc'[h] = "idle"
  BY <1>1, AdvanceFacts, Kinds DEF IInv
<1>3. \A g \in Hook \ {h} : pc'[g] = pc[g] /\ event'[g] = event[g]
  BY <1>1, AdvanceFacts
<1>4. Between' = Between
  BY <1>2, <1>3 DEF Between
<1>5. CountOK'
  BY <1>1, <1>4 DEF CountOK, ByKind, IInv
<1>6. klog' \in Seq(Line) /\ Len(klog') <= LogSize
  BY <1>1, PrintkOK
<1>7. \A v \in Viewer : ViewOK(v)'
  BY <1>1, AdvanceFacts, ViewsStay DEF IInv
<1> QED BY <1>1, <1>5, <1>6, <1>7, AdvanceFacts DEF IInv

LEMMA InfoIInv ==
    ASSUME IInv, AEGIS_INFO
    PROVE  IInv'
<1>1. /\ \E l \in Line : printk(l)
      /\ UNCHANGED <<stat, event, aegis_cfg, writes, pc, shown, torn>>
  BY DEF AEGIS_INFO
<1>2. klog' \in Seq(Line) /\ Len(klog') <= LogSize
  BY <1>1, PrintkOK
<1>3. \A v \in Viewer : ViewOK(v)'
  BY <1>1, ViewsStay DEF IInv
<1>4. CountOK' /\ \A h \in Hook : HookOK(h)'
  BY <1>1 DEF IInv, CountOK, ByKind, Between, HookOK
<1> QED BY <1>1, <1>2, <1>3, <1>4 DEF IInv

(* A step of a viewer touches nothing of the hooks' and of no other viewer.  *)
LEMMA ViewerStep ==
    ASSUME IInv, NEW v \in Viewer, UNCHANGED <<hook_vars, aegis_cfg, writes>>,
           pc' \in [Hook \cup Viewer -> {"idle", "kind", "total", "line", "stats", "status"}],
           DOMAIN shown' = Viewer, torn' \subseteq Viewer,
           \A u \in (Hook \cup Viewer) \ {v} : pc'[u] = pc[u],
           \A u \in Viewer \ {v} : shown'[u] = shown[u] /\ (u \in torn' <=> u \in torn),
           ViewOK(v)'
    PROVE  IInv'
<1>1. /\ \A h \in Hook : pc'[h] = pc[h]
      /\ stat' = stat /\ klog' = klog /\ event' = event /\ aegis_cfg' = aegis_cfg
  BY StatsAssumption DEF hook_vars
<1>2. \A h \in Hook : HookOK(h)'
  BY <1>1 DEF IInv, HookOK
<1>3. CountOK'
  <2>1. Between' = Between
    BY <1>1 DEF Between
  <2> QED BY <1>1, <2>1 DEF IInv, CountOK, ByKind
<1>4. ASSUME NEW u \in Viewer \ {v} PROVE ViewOK(u)'
  <2>1. ViewOK(u) /\ pc'[u] = pc[u] /\ shown'[u] = shown[u] /\ (u \in torn' <=> u \in torn)
    BY DEF IInv
  <2>2. RowsOK(u) => RowsOK(u)'
    BY <1>1, <2>1 DEF RowsOK
  <2>3. StatusOK(u) => StatusOK(u)'
    <3>1. \A i : StatusValue(StatusRow[i])' = StatusValue(StatusRow[i])
      BY <1>1 DEF StatusValue
    <3> QED BY <2>1, <3>1 DEF StatusOK
  <2> QED BY <2>1, <2>2, <2>3 DEF ViewOK
<1> QED BY <1>1, <1>2, <1>3, <1>4 DEF IInv

LEMMA OpenCloseIInv ==
    ASSUME IInv, NEW v \in Viewer,
           (\E listing \in {"stats", "status"} : Open(v, listing)) \/ Close(v)
    PROVE  IInv'
<1>1. PICK l \in {"idle", "stats", "status"} : pc' = [pc EXCEPT ![v] = l]
  BY DEF Open, Close, Goto
<1>2. /\ shown' = [shown EXCEPT ![v] = <<>>] /\ torn' = torn \ {v}
      /\ UNCHANGED <<hook_vars, aegis_cfg, writes>>
  BY DEF Open, Close
<1>3. /\ pc' \in [Hook \cup Viewer -> {"idle", "kind", "total", "line", "stats", "status"}]
      /\ pc'[v] = l /\ \A u \in (Hook \cup Viewer) \ {v} : pc'[u] = pc[u]
  BY <1>1 DEF IInv
<1>4. /\ DOMAIN shown' = Viewer /\ shown'[v] = <<>> /\ torn' \subseteq Viewer
      /\ \A u \in Viewer \ {v} : shown'[u] = shown[u] /\ (u \in torn' <=> u \in torn)
  BY <1>2 DEF IInv
<1>5. ViewOK(v)'
  BY <1>3, <1>4 DEF ViewOK, RowsOK, StatusOK
<1> QED BY <1>2, <1>3, <1>4, <1>5, ViewerStep

(* The next row of a listing.                                               *)
LEMMA Printed ==
    ASSUME IInv, NEW v \in Viewer, NEW x \in Value,
           shown' = [shown EXCEPT ![v] = Append(@, x)]
    PROVE  /\ DOMAIN shown' = Viewer /\ shown'[v] \in Seq(Value)
           /\ Len(shown[v]) \in Nat /\ Len(shown'[v]) = Len(shown[v]) + 1
           /\ shown'[v][Len(shown[v]) + 1] = x
           /\ \A i \in 1..Len(shown[v]) : shown'[v][i] = shown[v][i]
           /\ \A u \in Viewer \ {v} : shown'[u] = shown[u]
<1>1. shown[v] \in Seq(Value) /\ DOMAIN shown = Viewer
  BY DEF IInv, ViewOK
<1>2. shown'[v] = Append(shown[v], x) /\ DOMAIN shown' = Viewer
      /\ \A u \in Viewer \ {v} : shown'[u] = shown[u]
  BY <1>1
<1> QED BY <1>1, <1>2

LEMMA StatsShowIInv ==
    ASSUME IInv, NEW v \in Viewer, aegis_stats_show(v)
    PROVE  IInv'
<1> DEFINE n == Len(shown[v])
<1>1. /\ pc[v] = "stats" /\ n < 5
      /\ shown' = [shown EXCEPT ![v] = Append(@, stat[StatsRow[n + 1]])]
      /\ UNCHANGED <<hook_vars, aegis_cfg, writes, pc, torn>>
  BY Rows DEF aegis_stats_show
<1>2. n \in Nat /\ RowsOK(v) /\ ViewOK(v)
  BY <1>1 DEF IInv, ViewOK
<1>a. n + 1 \in 1..5
  BY <1>1, <1>2
<1>3. stat[StatsRow[n + 1]] \in Value /\ stat[StatsRow[n + 1]] \in Nat
  BY <1>a, RowValues, Zenon
<1>4. /\ DOMAIN shown' = Viewer /\ shown'[v] \in Seq(Value)
      /\ Len(shown'[v]) = n + 1
      /\ shown'[v][n + 1] = stat[StatsRow[n + 1]]
      /\ \A i \in 1..n : shown'[v][i] = shown[v][i]
      /\ \A u \in Viewer \ {v} : shown'[u] = shown[u]
  BY <1>1, <1>3, Printed, Zenon
<1> HIDE DEF n
<1>5. \A i \in 1..n + 1 : shown'[v][i] \in Nat /\ shown'[v][i] <= stat[StatsRow[i]]
  <2> TAKE i \in 1..n + 1
  <2>1. CASE i = n + 1
    BY <1>3, <1>4, <2>1
  <2>2. CASE i \in 1..n
    BY <1>1, <1>2, <1>4, <2>2 DEF RowsOK, n
  <2> QED BY <1>2, <2>1, <2>2
<1>6. n = 4 => shown'[v][1] + shown'[v][2] + shown'[v][3] + shown'[v][4]
                 <= shown'[v][5] + Cardinality(Hook)
  <2> SUFFICES ASSUME n = 4
               PROVE  shown'[v][1] + shown'[v][2] + shown'[v][3] + shown'[v][4]
                        <= shown'[v][5] + Cardinality(Hook)
    OBVIOUS
  <2>1. /\ shown'[v][1] \in Nat /\ shown'[v][1] <= stat["ptrace_blocked"]
        /\ shown'[v][2] \in Nat /\ shown'[v][2] <= stat["file_violations"]
        /\ shown'[v][3] \in Nat /\ shown'[v][3] <= stat["syscall_violations"]
        /\ shown'[v][4] \in Nat /\ shown'[v][4] <= stat["module_violations"]
        /\ shown'[v][5] = stat["total_events"]
    BY <1>4, <1>5, Rows
  <2>2. stat \in [Counter -> Nat] /\ ByKind <= stat["total_events"] + Cardinality(Between)
    BY DEF IInv, CountOK
  <2> QED BY <2>1, <2>2, BetweenFinite DEF ByKind, Counter, Violation
<1>7. RowsOK(v)'
  BY <1>1, <1>2, <1>4, <1>5, <1>6 DEF RowsOK, hook_vars
<1>8. ViewOK(v)'
  BY <1>1, <1>2, <1>4, <1>7 DEF ViewOK
<1> QED BY <1>1, <1>4, <1>8, ViewerStep, Zenon DEF IInv

LEMMA StatusShowIInv ==
    ASSUME IInv, NEW v \in Viewer, aegis_status_show(v)
    PROVE  IInv'
<1> DEFINE n == Len(shown[v])
<1>1. /\ pc[v] = "status" /\ n < 10
      /\ shown' = [shown EXCEPT ![v] = Append(@, StatusValue(StatusRow[n + 1]))]
      /\ UNCHANGED <<hook_vars, aegis_cfg, writes, pc, torn>>
  BY Rows DEF aegis_status_show
<1>2. n \in Nat /\ StatusOK(v) /\ ViewOK(v)
  BY <1>1 DEF IInv, ViewOK
<1>a. n + 1 \in 1..10
  BY <1>1, <1>2
<1>3. StatusValue(StatusRow[n + 1]) \in Value
  BY <1>a, RowValues, Zenon
<1>4. /\ DOMAIN shown' = Viewer /\ shown'[v] \in Seq(Value)
      /\ Len(shown'[v]) = n + 1
      /\ shown'[v][n + 1] = StatusValue(StatusRow[n + 1])
      /\ \A i \in 1..n : shown'[v][i] = shown[v][i]
      /\ \A u \in Viewer \ {v} : shown'[u] = shown[u]
  BY <1>1, <1>3, Printed, Zenon
<1> HIDE DEF n
<1>5. ASSUME v \notin torn, NEW i \in 1..n + 1
      PROVE  shown'[v][i] = StatusValue(StatusRow[i])
  <2>1. CASE i = n + 1
    BY <1>4, <2>1
  <2>2. CASE i \in 1..n
    BY <1>2, <1>4, <1>5, <2>2 DEF StatusOK, n
  <2> QED BY <1>2, <2>1, <2>2
<1>6. \A i \in 1..n + 1 : StatusValue(StatusRow[i])' = StatusValue(StatusRow[i])
  BY <1>1 DEF StatusValue
<1>7. StatusOK(v)'
  BY <1>1, <1>4, <1>5, <1>6 DEF StatusOK
<1>8. ViewOK(v)'
  BY <1>1, <1>2, <1>4, <1>7 DEF ViewOK
<1> QED BY <1>1, <1>4, <1>8, ViewerStep, Zenon DEF IInv

(* A write of a knob marks every listing that is under way.                 *)
LEMMA SetKnobIInv ==
    ASSUME IInv, NEW k \in Tunable, SetKnob(k)
    PROVE  IInv'
<1>1. /\ writes' = writes + 1 /\ aegis_cfg' = [aegis_cfg EXCEPT ![k] = ~@]
      /\ torn' = torn \cup {v \in Viewer : pc[v] # "idle"}
      /\ stat' = stat /\ klog' = klog /\ event' = event /\ pc' = pc /\ shown' = shown
  BY DEF SetKnob, hook_vars
<1>2. aegis_cfg' \in [Knob -> BOOLEAN] /\ writes' \in Nat /\ torn' \subseteq Viewer
  BY <1>1, StatsAssumption DEF IInv
<1>3. CountOK' /\ \A h \in Hook : HookOK(h)'
  BY <1>1 DEF IInv, CountOK, ByKind, Between, HookOK
<1>4. ASSUME NEW v \in Viewer PROVE ViewOK(v)'
  <2>1. ViewOK(v)
    BY DEF IInv
  <2>2. RowsOK(v) => RowsOK(v)'
    BY <1>1 DEF RowsOK
  <2>3. pc[v] # "idle" => StatusOK(v)'
    BY <1>1 DEF StatusOK
  <2> QED BY <1>1, <2>1, <2>2, <2>3 DEF ViewOK
<1> QED BY <1>1, <1>2, <1>3, <1>4 DEF IInv

LEMMA NextIInv == IInv /\ [Next]_vars => IInv'
<1> SUFFICES ASSUME IInv, [Next]_vars PROVE IInv'
  OBVIOUS
<1>1. CASE UNCHANGED vars
  <2>1. UNCHANGED <<stat, klog, event, aegis_cfg, writes, pc, shown, torn>>
    BY <1>1 DEF vars, hook_vars
  <2>2. \A v \in Viewer : ViewOK(v)'
    BY <2>1, ViewsStay DEF IInv
  <2>3. CountOK' /\ \A h \in Hook : HookOK(h)'
    BY <2>1 DEF IInv, CountOK, ByKind, Between, HookOK
  <2> QED BY <2>1, <2>2, <2>3 DEF IInv
<1>2. CASE Next
  BY <1>2, ReportIInv, CountKindIInv, CountTotalIInv, AuditIInv, InfoIInv, OpenCloseIInv,
     StatsShowIInv, StatusShowIInv, SetKnobIInv DEF Next, HookStep
<1> QED BY <1>1, <1>2

(* The inductive invariant holds throughout.                                *)
THEOREM Invariance == Spec => []IInv
BY InitIInv, NextIInv, PTL DEF Spec

(* The counters, the ring of log lines and the listings have their types, and *)
(* no hook comes to a line its event does not have.                          *)
THEOREM TypeCorrect == Spec => []TypeOK
<1>1. IInv => TypeOK
  <2> SUFFICES ASSUME IInv PROVE TypeOK
    OBVIOUS
  <2>1. \A v \in Viewer : pc[v] \in {"idle", "stats", "status"}
    BY DEF IInv, ViewOK
  <2>2. \A h \in Hook : /\ pc[h] \in {"idle", "kind", "total", "line"}
                        /\ pc[h] = "kind" => event[h].kind \in Violation
                        /\ pc[h] = "line" => event[h].logged
    BY Kinds DEF IInv, HookOK
  <2>3. ASSUME NEW v \in Viewer PROVE Len(shown[v]) <= 10
    <3>1. ViewOK(v) /\ Len(<<>>) = 0
      BY DEF IInv
    <3>2. Len(shown[v]) \in Nat
      BY <3>1 DEF ViewOK
    <3> QED BY <3>1, <3>2 DEF ViewOK
  <2> QED BY <2>1, <2>2, <2>3, Rows DEF IInv, TypeOK
<1> QED BY <1>1, Invariance, PTL

(* A statistics listing adds up, for any number of hooks: aegis_stats_show    *)
(* reads the total last, and every hook counts the kind first.               *)
THEOREM ListingAddsUp == Spec => []StatsAddUp
<1>1. IInv => StatsAddUp
  <2> DEFINE at(c) == CHOOSE i \in DOMAIN StatsRow : StatsRow[i] = c
  <2>1. /\ at("ptrace_blocked") = 1 /\ at("file_violations") = 2
        /\ at("syscall_violations") = 3 /\ at("module_violations") = 4
        /\ at("total_events") = 5
    <3>1. \A i, j \in 1..5 : StatsRow[i] = StatsRow[j] => i = j
      BY DEF StatsRow
    <3>2. \A i \in 1..5 : at(StatsRow[i]) = i
      BY <3>1, Rows
    <3> HIDE DEF at
    <3> QED BY <3>2, Rows
  <2> HIDE DEF at
  <2> SUFFICES ASSUME IInv, NEW v \in Viewer, pc[v] = "stats", Complete(v)
               PROVE  shown[v][at("ptrace_blocked")] + shown[v][at("file_violations")]
                        + shown[v][at("syscall_violations")] + shown[v][at("module_violations")]
                        <= shown[v][at("total_events")] + Cardinality(Hook)
    BY DEF StatsAddUp, at
  <2>2. Len(shown[v]) = 5 /\ RowsOK(v)
    BY Rows DEF Complete, IInv, ViewOK
  <2> QED BY <2>1, <2>2 DEF RowsOK
<1> QED BY <1>1, Invariance, PTL

(* A status listing that met no sysctl write shows what the knobs are, and    *)
(* its feature rows follow from its Status and Features rows, whoever else    *)
(* reads or reports meanwhile.                                              *)
THEOREM StatusIsTrue == Spec => []StatusTrue
<1>1. IInv => StatusTrue
  <2> SUFFICES ASSUME IInv, NEW v \in Viewer, pc[v] = "status", Complete(v), v \notin torn
               PROVE  /\ \A i \in DOMAIN StatusRow : shown[v][i] = StatusValue(StatusRow[i])
                      /\ \A i \in 3 .. 7 :
                            shown[v][i] <=> shown[v][1] /\ StatusRow[i] \in shown[v][2]
    BY DEF StatusTrue
  <2>1. \A i \in 1..10 : shown[v][i] = StatusValue(StatusRow[i])
    <3>1. ViewOK(v) /\ Len(shown[v]) = 10
      BY Rows DEF Complete, IInv
    <3>2. StatusOK(v)
      BY <3>1 DEF ViewOK
    <3> QED BY <3>1, <3>2, Zenon DEF StatusOK
  <2>2. shown[v][1] = aegis_cfg["enabled"] /\ shown[v][2] = {f \in Feature : aegis_cfg[f]}
    <3>1. StatusRow[1] = "enabled" /\ StatusRow[2] = "features"
      BY DEF StatusRow
    <3>2. "enabled" \notin Feature /\ "enabled" # "features"
      BY DEF Feature
    <3>3. StatusValue("enabled") = aegis_cfg["enabled"]
      BY <3>2, Zenon DEF StatusValue
    <3>4. StatusValue("features") = {f \in Feature : aegis_cfg[f]}
      BY Zenon DEF StatusValue
    <3>5. 1 \in 1..10 /\ 2 \in 1..10
      OBVIOUS
    <3> QED BY <2>1, <3>1, <3>3, <3>4, <3>5, Zenon
  <2>3. ASSUME NEW i \in 3 .. 7
        PROVE  shown[v][i] <=> shown[v][1] /\ StatusRow[i] \in shown[v][2]
    <3>1. i \in 1..10 /\ StatusRow[i] \in Feature /\ StatusRow[i] # "features"
      BY DEF StatusRow, Feature
    <3>2. StatusValue(StatusRow[i]) = (aegis_cfg["enabled"] /\ aegis_cfg[StatusRow[i]])
      BY <3>1, Zenon DEF StatusValue
    <3>3. shown[v][i] = (aegis_cfg["enabled"] /\ aegis_cfg[StatusRow[i]])
      BY <2>1, <3>1, <3>2, Zenon
    <3> QED BY <2>2, <3>1, <3>3, Zenon
  <2> QED BY <2>1, <2>3, Rows
<1> QED BY <1>1, Invariance, PTL

-----------------------------------------------------------------------------
(***************************************************************************)
(* The log.  A hook that has counted its event and not yet printed its line  *)
(* is counted with the lines that are there.                                *)
(***************************************************************************)
EventLines(log) == {i \in DOMAIN log : log[i].event}

AtLine == {h \in Hook : pc[h] = "line"}

LogInv == Cardinality(EventLines(klog)) + Cardinality(AtLine) <= stat["total_events"]

LEMMA EventLinesFinite ==
    ASSUME NEW s \in Seq(Line)
    PROVE  IsFiniteSet(EventLines(s)) /\ Cardinality(EventLines(s)) \in Nat
<1>1. EventLines(s) \in SUBSET (1..Len(s)) /\ IsFiniteSet(1..Len(s))
  BY FS_Interval DEF EventLines
<1> QED BY <1>1, FS_Subset, FS_CardinalityType

(* The line that is dropped takes no more than itself away.                 *)
LEMMA EventLinesTail ==
    ASSUME NEW s \in Seq(Line), s # <<>>
    PROVE  Cardinality(EventLines(Tail(s))) <= Cardinality(EventLines(s))
<1> DEFINE t == Tail(s)
           f == [i \in EventLines(t) |-> i + 1]
<1>1. t \in Seq(Line) /\ Len(t) = Len(s) - 1 /\ \A i \in 1..Len(t) : t[i] = s[i + 1]
  OBVIOUS
<1> HIDE DEF t
<1>2. \A i \in EventLines(t) : f[i] \in EventLines(s) /\ i \in Nat
  BY <1>1 DEF EventLines
<1>3. f \in Injection(EventLines(t), EventLines(s))
  BY <1>2 DEF Injection, IsInjective
<1> QED BY <1>1, <1>3, EventLinesFinite, FS_Injection DEF t

LEMMA EventLinesAppend ==
    ASSUME NEW s \in Seq(Line), NEW l \in Line
    PROVE  /\ ~l.event => Cardinality(EventLines(Append(s, l))) = Cardinality(EventLines(s))
           /\ Cardinality(EventLines(Append(s, l))) <= Cardinality(EventLines(s)) + 1
<1> DEFINE r == Append(s, l)
           n == Len(s) + 1
<1>1. /\ DOMAIN r = (1..Len(s)) \cup {n} /\ r[n] = l /\ n \notin 1..Len(s)
      /\ DOMAIN s = 1..Len(s) /\ \A i \in 1..Len(s) : r[i] = s[i]
  OBVIOUS
<1> HIDE DEF r, n
<1>2. CASE l.event
  <2>1. EventLines(r) = EventLines(s) \cup {n} /\ n \notin EventLines(s)
    BY <1>1, <1>2 DEF EventLines
  <2>2. Cardinality(EventLines(r)) = Cardinality(EventLines(s)) + 1
    BY <2>1, EventLinesFinite, FS_AddElement, Zenon
  <2> QED BY <1>2, <2>2, EventLinesFinite DEF r
<1>3. CASE ~l.event
  <2>1. EventLines(r) = EventLines(s)
    BY <1>1, <1>3 DEF EventLines
  <2> QED BY <2>1, EventLinesFinite DEF r
<1> QED BY <1>2, <1>3

LEMMA PrintkLines ==
    ASSUME IInv, NEW l \in Line, printk(l)
    PROVE  /\ ~l.event => Cardinality(EventLines(klog)') <= Cardinality(EventLines(klog))
           /\ Cardinality(EventLines(klog)') <= Cardinality(EventLines(klog)) + 1
<1> DEFINE base == IF Len(klog) = LogSize THEN Tail(klog) ELSE klog
<1>1. klog \in Seq(Line) /\ Len(klog) \in Nat /\ LogSize \in Nat \ {0}
  BY StatsAssumption DEF IInv
<1>2. base \in Seq(Line) /\ Cardinality(EventLines(base)) <= Cardinality(EventLines(klog))
  <2>1. CASE Len(klog) = LogSize
    <3>1. klog # <<>> /\ Tail(klog) \in Seq(Line)
      BY <1>1, <2>1
    <3> QED BY <1>1, <2>1, <3>1, EventLinesTail
  <2>2. CASE Len(klog) # LogSize
    BY <1>1, <2>2, EventLinesFinite
  <2> QED BY <2>1, <2>2
<1>3. klog' = Append(base, l)
  BY DEF printk
<1> HIDE DEF base
<1>4. /\ Cardinality(EventLines(klog)) \in Nat /\ Cardinality(EventLines(base)) \in Nat
      /\ Cardinality(EventLines(klog')) \in Nat
  <2>1. klog' \in Seq(Line)
    BY PrintkOK
  <2> QED BY <1>1, <1>2, <2>1, EventLinesFinite
<1>5. /\ ~l.event => Cardinality(EventLines(klog')) = Cardinality(EventLines(base))
      /\ Cardinality(EventLines(klog')) <= Cardinality(EventLines(base)) + 1
  BY <1>2, <1>3, EventLinesAppend
<1>6. EventLines(klog)' = EventLines(klog')
  BY DEF EventLines
<1> QED BY <1>2, <1>4, <1>5, <1>6

LEMMA AtLineFinite == IsFiniteSet(AtLine) /\ Cardinality(AtLine) \in Nat
<1>1. IsFiniteSet(Hook) /\ AtLine \in SUBSET Hook
  BY StatsAssumption DEF AtLine
<1> QED BY <1>1, FS_Subset, FS_CardinalityType

LEMMA InitLog == Init => LogInv
<1> SUFFICES ASSUME Init PROVE LogInv
  OBVIOUS
<1>1. EventLines(klog) = {} /\ AtLine = {} /\ stat["total_events"] = 0
  BY DEF Init, EventLines, AtLine, Counter
<1> QED BY <1>1, FS_EmptySet DEF LogInv

(* The steps that neither print nor bring a hook to its line.               *)
LEMMA LogStays ==
    ASSUME IInv, LogInv, stat' \in [Counter -> Nat], stat["total_events"] <= stat'["total_events"],
           UNCHANGED klog, \A h \in Hook : pc'[h] = "line" <=> pc[h] = "line"
    PROVE  LogInv'
<1>1. AtLine' = AtLine /\ EventLines(klog)' = EventLines(klog)
  BY DEF AtLine, EventLines
<1>2. Cardinality(EventLines(klog)) \in Nat /\ Cardinality(AtLine) \in Nat
  BY EventLinesFinite, AtLineFinite DEF IInv
<1>3. stat["total_events"] \in Nat /\ stat'["total_events"] \in Nat
  BY DEF IInv, Counter
<1> QED BY <1>1, <1>2, <1>3 DEF LogInv

LEMMA CountTotalLog ==
    ASSUME IInv, LogInv, NEW h \in Hook, CountTotal(h)
    PROVE  LogInv'
<1>1. Advance(h, "total") /\ stat' = [stat EXCEPT !["total_events"] = @ + 1] /\ UNCHANGED klog
  BY DEF CountTotal, AEGIS_STAT_INC
<1>2. pc[h] = "total" /\ \A g \in Hook \ {h} : pc'[g] = pc[g]
  BY <1>1, AdvanceFacts
<1>3. stat["total_events"] \in Nat /\ stat'["total_events"] = stat["total_events"] + 1
  BY <1>1 DEF IInv, Counter
<1>4. EventLines(klog)' = EventLines(klog)
  BY <1>1 DEF EventLines
<1>5. Cardinality(AtLine') <= Cardinality(AtLine) + 1 /\ Cardinality(AtLine') \in Nat
  <2>1. CASE pc'[h] = "line"
    <3>1. AtLine' = AtLine \cup {h} /\ h \notin AtLine
      BY <1>2, <2>1 DEF AtLine
    <3>2. Cardinality(AtLine') = Cardinality(AtLine) + 1
      BY <3>1, AtLineFinite, FS_AddElement
    <3> QED BY <3>2, AtLineFinite
  <2>2. CASE pc'[h] # "line"
    <3>1. AtLine' = AtLine
      BY <1>2, <2>2 DEF AtLine
    <3> QED BY <3>1, AtLineFinite
  <2> QED BY <2>1, <2>2
<1>6. Cardinality(EventLines(klog)) \in Nat /\ Cardinality(AtLine) \in Nat
  BY EventLinesFinite, AtLineFinite DEF IInv
<1> QED BY <1>3, <1>4, <1>5, <1>6 DEF LogInv

LEMMA AuditLog ==
    ASSUME IInv, LogInv, NEW h \in Hook, AEGIS_AUDIT(h)
    PROVE  LogInv'
<1>1. PICK l \in Line : printk(l)
  BY DEF AEGIS_AUDIT
<1>2. Advance(h, "line") /\ UNCHANGED stat
  BY DEF AEGIS_AUDIT
<1>3. pc[h] = "line" /\ pc'[h] = "idle" /\ \A g \in Hook \ {h} : pc'[g] = pc[g]
  BY <1>2, AdvanceFacts, Kinds DEF IInv
<1>4. AtLine' = AtLine \ {h} /\ h \in AtLine
  BY <1>3 DEF AtLine
<1>5. Cardinality(AtLine') = Cardinality(AtLine) - 1
  BY <1>4, AtLineFinite, FS_RemoveElement, Zenon
<1>6. Cardinality(EventLines(klog)') <= Cardinality(EventLines(klog)) + 1
  BY <1>1, PrintkLines
<1>7. /\ Cardinality(EventLines(klog)) \in Nat /\ Cardinality(AtLine) \in Nat
      /\ Cardinality(EventLines(klog)') \in Nat /\ stat["total_events"] \in Nat
  <2>1. klog \in Seq(Line) /\ klog' \in Seq(Line)
    BY <1>1, PrintkOK DEF IInv
  <2>2. Cardinality(EventLines(klog')) \in Nat /\ EventLines(klog)' = EventLines(klog')
    BY <2>1, EventLinesFinite, Zenon DEF EventLines
  <2> QED BY <2>1, <2>2, EventLinesFinite, AtLineFinite DEF IInv, Counter
<1> QED BY <1>2, <1>5, <1>6, <1>7 DEF LogInv

LEMMA InfoLog ==
    ASSUME IInv, LogInv, AEGIS_INFO
    PROVE  LogInv'
<1>1. PICK l \in Line : ~l.event /\ printk(l)
  BY DEF AEGIS_INFO
<1>2. AtLine' = AtLine /\ stat' = stat
  BY DEF AEGIS_INFO, AtLine
<1>3. Cardinality(EventLines(klog)') <= Cardinality(EventLines(klog))
  BY <1>1, PrintkLines
<1>4. /\ Cardinality(EventLines(klog)) \in Nat /\ Cardinality(AtLine) \in Nat
      /\ Cardinality(EventLines(klog)') \in Nat /\ stat["total_events"] \in Nat
  <2>1. klog \in Seq(Line) /\ klog' \in Seq(Line)
    BY <1>1, PrintkOK DEF IInv
  <2>2. Cardinality(EventLines(klog')) \in Nat /\ EventLines(klog)' = EventLines(klog')
    BY <2>1, EventLinesFinite DEF EventLines
  <2> QED BY <2>1, <2>2, EventLinesFinite, AtLineFinite DEF IInv, Counter
<1> QED BY <1>2, <1>3, <1>4 DEF LogInv

LEMMA NextLog == IInv /\ LogInv /\ [Next]_vars => LogInv'
<1> SUFFICES ASSUME IInv, LogInv, [Next]_vars PROVE LogInv'
  OBVIOUS
<1>0. stat \in [Counter -> Nat] /\ "total_events" \in Counter
      /\ stat["total_events"] <= stat["total_events"]
  BY DEF IInv, Counter
<1>1. CASE UNCHANGED vars
  <2>1. stat' = stat /\ klog' = klog /\ pc' = pc
    BY <1>1 DEF vars, hook_vars
  <2> QED BY <1>0, <2>1, LogStays
<1>2. ASSUME NEW h \in Hook, Report(h) PROVE LogInv'
  <2>1. PICK e \in Event : Goto(h, "idle", Then(e, "idle"))
    BY <1>2 DEF Report
  <2>2. pc[h] = "idle" /\ pc'[h] # "line" /\ \A g \in Hook \ {h} : pc'[g] = pc[g]
    BY <2>1, Kinds DEF Goto, IInv
  <2>3. UNCHANGED <<stat, klog>>
    BY <1>2 DEF Report
  <2> QED BY <1>0, <2>2, <2>3, LogStays
<1>3. ASSUME NEW h \in Hook, CountKind(h) PROVE LogInv'
  <2>1. Advance(h, "kind") /\ stat' = [stat EXCEPT ![event[h].kind] = @ + 1] /\ UNCHANGED klog
    BY <1>3 DEF CountKind, AEGIS_STAT_INC
  <2>2. pc[h] = "kind" /\ pc'[h] = "total" /\ \A g \in Hook \ {h} : pc'[g] = pc[g]
    BY <2>1, AdvanceFacts, Kinds DEF IInv
  <2>3. stat' \in [Counter -> Nat] /\ stat["total_events"] <= stat'["total_events"]
    <3>1. event[h].kind \in Counter
      BY Kinds DEF IInv
    <3> QED BY <1>0, <2>1, <3>1
  <2> QED BY <2>1, <2>2, <2>3, LogStays
<1>4. ASSUME NEW v \in Viewer,
             \/ \E listing \in {"stats", "status"} : Open(v, listing)
             \/ aegis_stats_show(v) \/ aegis_status_show(v) \/ Close(v)
      PROVE  LogInv'
  <2>1. UNCHANGED <<stat, klog>> /\ (UNCHANGED pc \/ \E x : pc' = [pc EXCEPT ![v] = x])
    BY <1>4 DEF Open, aegis_stats_show, aegis_status_show, Close, Goto, hook_vars
  <2>2. \A h \in Hook : pc'[h] = pc[h]
    BY <2>1, StatsAssumption DEF IInv
  <2> QED BY <1>0, <2>1, <2>2, LogStays
<1>5. ASSUME NEW k \in Tunable, SetKnob(k) PROVE LogInv'
  <2>1. UNCHANGED <<stat, klog, pc>>
    BY <1>5 DEF SetKnob, hook_vars
  <2> QED BY <1>0, <2>1, LogStays
<1> QED BY <1>1, <1>2, <1>3, <1>4, <1>5, CountTotalLog, AuditLog, InfoLog DEF Next, HookStep

(* Whoever sees a hook's line finds it counted, for any number of hooks and  *)
(* any size of the kernel's ring: the count precedes the line.              *)
THEOREM LogIsCounted == Spec => []LogCounted
<1>1. IInv /\ LogInv => LogCounted
  <2> SUFFICES ASSUME IInv, LogInv PROVE LogCounted
    OBVIOUS
  <2>1. /\ Cardinality(EventLines(klog)) \in Nat /\ Cardinality(AtLine) \in Nat
        /\ stat["total_events"] \in Nat
    BY EventLinesFinite, AtLineFinite DEF IInv, Counter
  <2> QED BY <2>1 DEF LogInv, LogCounted, EventLines
<1>2. Spec => []LogInv
  BY InitLog, NextLog, Invariance, PTL DEF Spec
<1> QED BY <1>1, <1>2, Invariance, PTL

-----------------------------------------------------------------------------
(***************************************************************************)
(* `aegisctl audit'.  Both its loops go through the buffer from the front;   *)
(* no line that is kept has less than one tag.                              *)
(***************************************************************************)
(* A set of positions has a least one.                                      *)
LEMMA LeastPosition ==
    ASSUME NEW I \in SUBSET Nat, I # {}
    PROVE  Min(I) \in I /\ \A j \in I : Min(I) <= j
<1>1. PICK m \in I : \A j \in I : <<j, m>> \notin OpToRel(<, Nat)
  BY WFMin, NatLessThanWellFounded, Zenon
<1>2. \A j \in I : ~(j < m)
  BY <1>1, Zenon DEF OpToRel
<1>3. \A j \in I : m <= j
  BY <1>2, SMT
<1> QED BY <1>3, Zenon DEF Min

(* So a set of numbers that has 0, and with every number the next, has all.  *)
LEMMA SetOfAll ==
    ASSUME NEW N \in SUBSET Nat, 0 \in N, \A n \in N : n + 1 \in N
    PROVE  N = Nat
<1> SUFFICES ASSUME Nat \ N # {} PROVE FALSE
  BY Zenon
<1> DEFINE m == Min(Nat \ N)
<1>1. m \in Nat \ N /\ \A j \in Nat \ N : m <= j
  BY LeastPosition
<1> HIDE DEF m
<1>2. m # 0 /\ m - 1 \in Nat
  BY <1>1
<1>3. m - 1 \in N
  BY <1>1, <1>2
<1> QED BY <1>1, <1>2, <1>3

(* A function given by a first value and a step exists as far as one likes.  *)
Follows(f, first, step, n) == f[0] = first /\ \A i \in 1..n : f[i] = step[i][f[i - 1]]

LEMMA Recursion ==
    ASSUME NEW V, NEW first \in V, NEW step \in [Nat -> [V -> V]], NEW n \in Nat
    PROVE  \E f \in [0..n -> V] : Follows(f, first, step, n)
<1> DEFINE ok(m, f) == f[0] = first /\ \A i \in 1..m : f[i] = step[i][f[i - 1]]
           N == {m \in Nat : \E f \in [0..m -> V] : ok(m, f)}
<1>1. 0 \in N
  <2> DEFINE f == [i \in 0..0 |-> first]
  <2>1. f \in [0..0 -> V] /\ ok(0, f)
    OBVIOUS
  <2> QED BY <2>1, Zenon
<1>2. ASSUME NEW m \in N PROVE m + 1 \in N
  <2>1. PICK f \in [0..m -> V] : ok(m, f)
    OBVIOUS
  <2> DEFINE g == [i \in 0..m + 1 |-> IF i = m + 1 THEN step[m + 1][f[m]] ELSE f[i]]
  <2>2. step[m + 1][f[m]] \in V
    OBVIOUS
  <2>3. g \in [0..m + 1 -> V]
    BY <2>2
  <2>4. g[0] = first
    BY <2>1
  <2>5. ASSUME NEW i \in 1..m + 1 PROVE g[i] = step[i][g[i - 1]]
    <3>1. CASE i = m + 1
      BY <3>1
    <3>2. CASE i \in 1..m
      BY <2>1, <3>2
    <3> QED BY <3>1, <3>2
  <2>6. \E h \in [0..m + 1 -> V] : ok(m + 1, h)
    <3> HIDE DEF g
    <3> QED BY <2>3, <2>4, <2>5, Zenon
  <2>7. m + 1 \in Nat
    OBVIOUS
  <2> HIDE DEF ok
  <2> QED BY <2>6, <2>7
<1>3. N = Nat
  <2>1. N \in SUBSET Nat
    OBVIOUS
  <2> HIDE DEF N
  <2> QED BY <1>1, <1>2, <2>1, SetOfAll
<1> QED BY <1>3, Zenon DEF Follows

(* The lines of the buffer.                                                 *)
LEMMA LineTags == ASSUME NEW l \in Line PROVE l.tags \in Nat
BY StatsAssumption DEF Line

LEMMA SumTagsIs ==
    ASSUME NEW s \in Seq(Line)
    PROVE  \E sum \in [0..Len(s) -> Nat] :
              /\ sum[0] = 0 /\ \A i \in 1..Len(s) : sum[i] = sum[i - 1] + s[i].tags
              /\ SumTags(s) = sum[Len(s)]
<1> DEFINE Is(f) == f = [n \in 0..Len(s) |-> IF n = 0 THEN 0 ELSE f[n - 1] + s[n].tags]
           sum == CHOOSE f : Is(f)
           step == [n \in Nat |-> [x \in Nat |-> IF n \in 1..Len(s) THEN x + s[n].tags ELSE x]]
<1>0. Len(s) \in Nat /\ \A i \in 1..Len(s) : s[i].tags \in Nat
  BY LineTags
<1>1. step \in [Nat -> [Nat -> Nat]]
  BY <1>0
<1>2. PICK f \in [0..Len(s) -> Nat] : Follows(f, 0, step, Len(s))
  <2> HIDE DEF step
  <2>1. 0 \in Nat
    OBVIOUS
  <2> QED BY <1>0, <1>1, <2>1, Recursion, Zenon
<1>3. f[0] = 0 /\ \A i \in 1..Len(s) : f[i] = f[i - 1] + s[i].tags
  <2>1. ASSUME NEW i \in 1..Len(s) PROVE f[i] = f[i - 1] + s[i].tags
    <3>1. i \in Nat /\ f[i - 1] \in Nat
      BY <1>0
    <3>2. f[i] = step[i][f[i - 1]]
      BY <1>2, Zenon DEF Follows
    <3> QED BY <3>1, <3>2
  <2> QED BY <1>2, <2>1 DEF Follows
<1>4. Is(f)
  BY <1>3
<1>5. Is(sum)
  BY <1>4, Zenon
<1>6. SumTags(s) = sum[Len(s)]
  BY DEF SumTags
<1> HIDE DEF sum, step
<1>7. sum[0] = 0 /\ \A i \in 1..Len(s) : sum[i] = sum[i - 1] + s[i].tags
  BY <1>5
<1>8. sum \in [0..Len(s) -> Nat]
  <2>1. DOMAIN sum = 0..Len(s) /\ sum = [i \in 0..Len(s) |-> sum[i]]
    BY <1>5
  <2> DEFINE N == {n \in Nat : n \in 0..Len(s) => sum[n] \in Nat}
  <2>2. 0 \in N
    BY <1>7
  <2>3. ASSUME NEW n \in N PROVE n + 1 \in N
    <3>1. n + 1 \in 0..Len(s) => sum[n + 1] = sum[n] + s[n + 1].tags
      BY <1>0, <1>7
    <3> QED BY <1>0, <3>1
  <2>4. N = Nat
    <3>1. N \in SUBSET Nat
      OBVIOUS
    <3> HIDE DEF N
    <3> QED BY <2>2, <2>3, <3>1, SetOfAll
  <2>5. \A i \in 0..Len(s) : sum[i] \in Nat
    BY <2>4
  <2> QED BY <2>1, <2>5
<1> QED BY <1>6, <1>7, <1>8

LEMMA TaggedIs ==
    ASSUME NEW s \in Seq(Line)
    PROVE  \E kept \in [0..Len(s) -> Seq(Line)] :
              /\ kept[0] = <<>>
              /\ \A i \in 1..Len(s) :
                    kept[i] = IF s[i].tags > 0 THEN Append(kept[i - 1], s[i]) ELSE kept[i - 1]
              /\ Tagged(s) = kept[Len(s)]
<1> DEFINE next(i, x) == IF s[i].tags > 0 THEN Append(x, s[i]) ELSE x
           Is(f) == f = [n \in 0..Len(s) |-> IF n = 0 THEN <<>> ELSE next(n, f[n - 1])]
           kept == CHOOSE f : Is(f)
           step == [n \in Nat |-> [x \in Seq(Line) |-> IF n \in 1..Len(s) THEN next(n, x) ELSE x]]
<1>0. Len(s) \in Nat /\ \A i \in 1..Len(s) : s[i] \in Line
  OBVIOUS
<1>9. \A i \in 1..Len(s), x \in Seq(Line) : next(i, x) \in Seq(Line)
  BY <1>0
<1>1. step \in [Nat -> [Seq(Line) -> Seq(Line)]]
  <2> HIDE DEF next
  <2> QED BY <1>9
<1>2. PICK f \in [0..Len(s) -> Seq(Line)] : Follows(f, <<>>, step, Len(s))
  <2> HIDE DEF step
  <2>1. <<>> \in Seq(Line)
    OBVIOUS
  <2> QED BY <1>0, <1>1, <2>1, Recursion, Zenon
<1> HIDE DEF next
<1>3. f[0] = <<>> /\ \A i \in 1..Len(s) : f[i] = next(i, f[i - 1])
  <2>1. ASSUME NEW i \in 1..Len(s) PROVE f[i] = next(i, f[i - 1])
    <3>1. i \in Nat /\ f[i - 1] \in Seq(Line)
      BY <1>0
    <3>2. f[i] = step[i][f[i - 1]]
      BY <1>2, Zenon DEF Follows
    <3> QED BY <3>1, <3>2
  <2> QED BY <1>2, <2>1 DEF Follows
<1>4. Is(f)
  BY <1>3
<1>5. Is(kept)
  BY <1>4, Zenon
<1>6. Tagged(s) = kept[Len(s)]
  BY DEF Tagged, next
<1> HIDE DEF kept, step
<1>7. kept[0] = <<>> /\ \A i \in 1..Len(s) : kept[i] = next(i, kept[i - 1])
  BY <1>5
<1>8. kept \in [0..Len(s) -> Seq(Line)]
  <2>1. DOMAIN kept = 0..Len(s) /\ kept = [i \in 0..Len(s) |-> kept[i]]
    BY <1>5
  <2> DEFINE N == {n \in Nat : n \in 0..Len(s) => kept[n] \in Seq(Line)}
  <2>2. 0 \in N
    <3>1. kept[0] \in Seq(Line)
      <4>1. <<>> \in Seq(Line)
        OBVIOUS
      <4> QED BY <1>7, <4>1, Zenon
    <3> QED BY <3>1
  <2>3. ASSUME NEW n \in N PROVE n + 1 \in N
    <3>1. n + 1 \in 0..Len(s) => n + 1 \in 1..Len(s) /\ kept[n + 1] = next(n + 1, kept[n])
      BY <1>0, <1>7
    <3> QED BY <1>0, <1>9, <3>1
  <2>4. N = Nat
    <3>1. N \in SUBSET Nat
      OBVIOUS
    <3> HIDE DEF N
    <3> QED BY <2>2, <2>3, <3>1, SetOfAll
  <2>5. \A i \in 0..Len(s) : kept[i] \in Seq(Line)
    BY <2>4
  <2> QED BY <2>1, <2>5
<1> QED BY <1>6, <1>7, <1>8 DEF next

(* There are at least as many tags as lines with one.                       *)
LEMMA LinesAndTags ==
    ASSUME NEW s \in Seq(Line)
    PROVE  /\ Tagged(s) \in Seq(Line) /\ SumTags(s) \in Nat
           /\ Len(Tagged(s)) <= SumTags(s)
<1>1. PICK sum \in [0..Len(s) -> Nat] :
         /\ sum[0] = 0 /\ \A i \in 1..Len(s) : sum[i] = sum[i - 1] + s[i].tags
         /\ SumTags(s) = sum[Len(s)]
  BY SumTagsIs
<1>2. PICK kept \in [0..Len(s) -> Seq(Line)] :
         /\ kept[0] = <<>>
         /\ \A i \in 1..Len(s) :
               kept[i] = IF s[i].tags > 0 THEN Append(kept[i - 1], s[i]) ELSE kept[i - 1]
         /\ Tagged(s) = kept[Len(s)]
  BY TaggedIs
<1> DEFINE N == {n \in Nat : n \in 0..Len(s) => Len(kept[n]) <= sum[n]}
<1>3. 0 \in N
  <2>1. Len(<<>>) = 0
    OBVIOUS
  <2> QED BY <1>1, <1>2, <2>1
<1>4. ASSUME NEW n \in N, n + 1 \in 0..Len(s) PROVE Len(kept[n + 1]) <= sum[n + 1]
  <2>1. /\ n \in Nat /\ n \in 0..Len(s) /\ n + 1 \in 1..Len(s) /\ (n + 1) - 1 = n
        /\ Len(kept[n]) <= sum[n] /\ sum[n] \in Nat /\ kept[n] \in Seq(Line)
        /\ s[n + 1] \in Line
    BY <1>4
  <2>2. Len(kept[n]) \in Nat /\ s[n + 1].tags \in Nat
    BY <2>1, LineTags
  <2>3. /\ sum[n + 1] = sum[n] + s[n + 1].tags
        /\ kept[n + 1] = IF s[n + 1].tags > 0 THEN Append(kept[n], s[n + 1]) ELSE kept[n]
    BY <1>1, <1>2, <2>1
  <2>4. Len(Append(kept[n], s[n + 1])) = Len(kept[n]) + 1
    BY <2>1
  <2> QED BY <2>1, <2>2, <2>3, <2>4
<1>5. N = Nat
  <2>1. N \in SUBSET Nat /\ \A n \in N : n + 1 \in N
    BY <1>4
  <2> HIDE DEF N
  <2> QED BY <1>3, <2>1, SetOfAll
<1>6. Len(s) \in 0..Len(s) /\ Len(s) \in Nat
  OBVIOUS
<1> QED BY <1>1, <1>2, <1>5, <1>6

(* What is left of l lines, when all tags are counted and tags are skipped   *)
(* as if they were lines.                                                   *)
LEMMA Skipped ==
    ASSUME NEW lines \in Seq(Line), NEW total \in Nat, Len(lines) <= total, NEW want \in Nat
    PROVE  LET skip == IF total > want THEN total - want ELSE 0
               due == IF Len(lines) < want THEN Len(lines) ELSE want
               got == SubSeq(lines, skip + 1, Len(lines))
           IN  /\ Len(got) <= due /\ got = LastOf(lines, Len(got))
               /\ due - Len(got) <= total - Len(lines)
<1> DEFINE l == Len(lines)
           skip == IF total > want THEN total - want ELSE 0
           due == IF l < want THEN l ELSE want
           got == SubSeq(lines, skip + 1, l)
<1>1. l \in Nat /\ skip \in Nat /\ l <= total
  OBVIOUS
<1>2. Len(got) = IF skip <= l THEN l - skip ELSE 0
  <2> HIDE DEF skip
  <2> QED BY <1>1
<1>3. Len(got) \in Nat /\ Len(got) <= due /\ due - Len(got) <= total - l
  <2> HIDE DEF l, got
  <2> QED BY <1>1, <1>2
<1>4. got = LastOf(lines, Len(got))
  <2>1. CASE skip <= l
    <3>1. l - Len(got) + 1 = skip + 1
      <4> HIDE DEF got, skip, l
      <4> QED BY <1>1, <1>2, <2>1
    <3> QED BY <3>1, Zenon DEF LastOf
  <2>2. CASE ~(skip <= l)
    <3>1. got = <<>> /\ Len(got) = 0
      <4> HIDE DEF skip
      <4> QED BY <1>1, <2>2
    <3>2. SubSeq(lines, l + 1, l) = <<>>
      OBVIOUS
    <3>3. l - 0 + 1 = l + 1
      BY <1>1
    <3> HIDE DEF got, l
    <3> QED BY <3>1, <3>2, <3>3 DEF LastOf, l
  <2> QED BY <2>1, <2>2
<1> QED BY <1>3, <1>4

(* `aegisctl audit N' prints the newest lines, short of N by no more than the *)
(* further tags of the lines in its buffer, for every N, every size of log   *)
(* and buffer and every number of tags in a line.                           *)
THEOREM AuditIsWithinTags == Spec => []AuditWithinTags
<1>1. IInv => AuditWithinTags
  <2> SUFFICES ASSUME IInv, NEW want \in 1 .. LogSize
               PROVE  LET lines == Tagged(AuditBuf)
                          due == IF Len(lines) < want THEN Len(lines) ELSE want
                          got == cmd_audit(want)
                      IN  /\ Len(got) <= due /\ got = LastOf(lines, Len(got))
                          /\ due - Len(got) <= SumTags(AuditBuf) - Len(lines)
    BY DEF AuditWithinTags
  <2>1. AuditBuf \in Seq(Line)
    <3>1. klog \in Seq(Line) /\ Len(klog) \in Nat /\ AuditSize \in Nat
      BY StatsAssumption DEF IInv
    <3>2. \A n \in 0..Len(klog) : LastOf(klog, n) \in Seq(Line)
      BY <3>1 DEF LastOf
    <3> QED BY <3>1, <3>2 DEF AuditBuf
  <2>2. /\ Tagged(AuditBuf) \in Seq(Line) /\ SumTags(AuditBuf) \in Nat
        /\ Len(Tagged(AuditBuf)) <= SumTags(AuditBuf) /\ want \in Nat
    BY <2>1, LinesAndTags
  <2> QED BY <2>2, Skipped, Zenon DEF cmd_audit
<1> QED BY <1>1, Invariance, PTL
=============================================================================
