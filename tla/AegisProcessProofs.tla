------------------------- MODULE AegisProcessProofs -------------------------
(***************************************************************************)
(* Proofs about AegisProcess, for every set of threads, tasks, pids and      *)
(* names and every capacity.                                                *)
(***************************************************************************)
EXTENDS AegisProcess, TLAPS

(* list_del takes one entry off a list.                                     *)
LEMMA DelShorter ==
    ASSUME NEW S, NEW s \in Seq(S), NEW i \in 1..Len(s)
    PROVE  list_del(s, i) \in Seq(S) /\ Len(list_del(s, i)) = Len(s) - 1
<1> DEFINE pre == SubSeq(s, 1, i - 1)
           post == SubSeq(s, i + 1, Len(s))
<1>1. /\ pre \in Seq(S) /\ Len(pre) = i - 1
      /\ post \in Seq(S) /\ Len(post) = Len(s) - i /\ Len(s) \in Nat
  OBVIOUS
<1>2. ASSUME NEW p \in Seq(S), NEW q \in Seq(S)
      PROVE  p \o q \in Seq(S) /\ Len(p \o q) = Len(p) + Len(q)
  OBVIOUS
<1>3. list_del(s, i) = pre \o post
  BY DEF list_del
<1> HIDE DEF pre, post
<1>4. pre \o post \in Seq(S) /\ Len(pre \o post) = Len(pre) + Len(post)
  BY <1>1, <1>2, Zenon
<1>5. Len(pre) + Len(post) = Len(s) - 1
  BY <1>1
<1> QED BY <1>3, <1>4, <1>5, Zenon

(* Append of what is not there yet keeps a list without repetitions so.     *)
LEMMA AppendOnce ==
    ASSUME NEW S, NEW s \in Seq(S), NEW e \in S, IsInjective(s), e \notin Range(s)
    PROVE  /\ Append(s, e) \in Seq(S)
           /\ IsInjective(Append(s, e))
           /\ Range(Append(s, e)) = Range(s) \cup {e}
<1>1. /\ Append(s, e) \in Seq(S) /\ Len(Append(s, e)) = Len(s) + 1
      /\ \A i \in 1..Len(s) : Append(s, e)[i] = s[i]
      /\ Append(s, e)[Len(s) + 1] = e
  OBVIOUS
<1>2. \A i \in 1..Len(s) : s[i] # e
  BY DEF Range
<1> DEFINE r == Append(s, e)
<1>3. Len(s) \in Nat /\ DOMAIN s = 1..Len(s) /\ DOMAIN r = 1..Len(s) + 1
  OBVIOUS
<1> HIDE DEF r
<1>4. IsInjective(r)
  <2> SUFFICES ASSUME NEW i \in 1..Len(s) + 1, NEW j \in 1..Len(s) + 1, r[i] = r[j]
               PROVE  i = j
    BY <1>3 DEF IsInjective
  <2>1. CASE i \in 1..Len(s) /\ j \in 1..Len(s)
    BY <1>1, <1>3, <2>1 DEF IsInjective, r
  <2>2. CASE i = Len(s) + 1 \/ j = Len(s) + 1
    BY <1>1, <1>2, <1>3, <2>2, SMT DEF r
  <2> QED BY <1>3, <2>1, <2>2
<1>5. Range(r) = Range(s) \cup {e}
  <2>1. \A x \in Range(r) : x \in Range(s) \cup {e}
    BY <1>1, <1>3 DEF Range, r
  <2>2. \A x \in Range(s) : x \in Range(r)
    BY <1>1, <1>3 DEF Range, r
  <2>3. e \in Range(r)
    <3>1. Len(s) + 1 \in DOMAIN r
      BY <1>3
    <3> QED BY <1>1, <3>1 DEF Range, r
  <2> QED BY <2>1, <2>2, <2>3
<1>6. r = Append(s, e)
  BY DEF r
<1> QED
  BY <1>1, <1>4, <1>5, <1>6, Zenon

Pc == AdminPc \cup TracerPc

(* What a step without its history preserves: the list and its count; the    *)
(* types; the lock held by exactly the thread in a critical section, a walk   *)
(* within the list, and the entry an administrator's call is about.          *)
ListOK == protected_procs \in Seq(Entry) /\ CountExact

DataOK ==
    /\ aegis_cfg \in [Knob -> BOOLEAN]
    /\ ptrace_blocked \in Nat /\ total_events \in Nat
    /\ pid \in [Task -> Pid \cup {0}] /\ comm \in [Task -> Comm]
    /\ req \in [Admin -> Entry \cup {NoEntry}]
    /\ child \in [Tracer -> Task \cup {NoTask}]
    /\ at \in [Tracer -> Nat]

ControlOK ==
    /\ lock \in Thread \cup {NoThread}
    /\ pc \in [Thread -> Pc]
    /\ \A t \in Admin : pc[t] \in AdminPc
    /\ \A t \in Tracer : pc[t] \in TracerPc
    /\ \A t \in Thread : pc[t] \in HoldPc <=> lock = t

WalkOK ==
    \A t \in Tracer : /\ child[t] = NoTask <=> pc[t] = "idle"
                      /\ child[t] # NoTask => pid[child[t]] # 0
                      /\ pc[t] = "hook_lock" => at[t] = 1
                      /\ pc[t] = "walk" => at[t] \in 1 .. Len(protected_procs) + 1
                      /\ pc[t] = "walk_leader" => at[t] \in 1 .. Len(protected_procs)

AskOK == \A t \in Admin : pc[t] # "idle" => req[t] \in Entry

HistoryOK ==
    /\ gap \subseteq Tracer /\ free_for_all \subseteq Tracer /\ renamed \subseteq Tracer
    /\ steady \in [Tracer -> SUBSET (Entry \X Ground)]

IInv == ListOK /\ DataOK /\ ControlOK /\ WalkOK /\ AskOK /\ HistoryOK

(* The list boot leaves has each default at most once.                      *)
LEMMA InitList ==
    Init => protected_procs \in Seq(Entry) /\ IsInjective(protected_procs)
<1> SUFFICES ASSUME Init PROVE protected_procs \in Seq(Entry) /\ IsInjective(protected_procs)
  OBVIOUS
<1>1. PICK added \in SUBSET Request :
          LET add(s, i) == IF Default[i] \in added THEN Append(s, Default[i]) ELSE s
          IN  protected_procs = add(add(add(<<>>, 1), 2), 3)
  BY DEF Init
<1> DEFINE add(s, i) == IF Default[i] \in added THEN Append(s, Default[i]) ELSE s
           new(i) == {Default[j] : j \in 1..i}
           ok(s, i) == s \in Seq(Entry) /\ IsInjective(s) /\ Range(s) \subseteq new(i)
<1>2. \A i \in 1..3 : Default[i] \notin new(i - 1)
  <2>1. Default[1] # Default[2] /\ Default[1] # Default[3] /\ Default[2] # Default[3]
    BY DEF Default
  <2>2. new(0) = {} /\ new(1) = {Default[1]} /\ new(2) = {Default[1], Default[2]}
    OBVIOUS
  <2> HIDE DEF new
  <2>3. Default[1] \notin new(1 - 1) /\ Default[2] \notin new(2 - 1) /\ Default[3] \notin new(3 - 1)
    BY <2>1, <2>2
  <2> QED BY <2>3
<1>3. ASSUME NEW i \in 1..3, NEW s, ok(s, i - 1) PROVE ok(add(s, i), i)
  <2>1. new(i - 1) \subseteq new(i) /\ Default[i] \in new(i)
    OBVIOUS
  <2>2. CASE Default[i] \in added
    <3> DEFINE d == Default[i]
    <3>1. s \in Seq(Entry) /\ d \in Entry /\ IsInjective(s) /\ d \notin Range(s)
      BY <1>2, <1>3, <2>2, ProcessAssumption
    <3>2. add(s, i) = Append(s, d)
      BY <2>2
    <3>3. Range(s) \cup {d} \subseteq new(i)
      BY <1>3, <2>1
    <3> HIDE DEF d, add, new
    <3>4. /\ Append(s, d) \in Seq(Entry)
          /\ IsInjective(Append(s, d))
          /\ Range(Append(s, d)) = Range(s) \cup {d}
      BY <3>1, AppendOnce
    <3> QED BY <3>2, <3>3, <3>4
  <2>3. CASE Default[i] \notin added
    BY <1>3, <2>1, <2>3
  <2> QED BY <2>2, <2>3
<1>4. ok(<<>>, 0)
  BY DEF IsInjective, Range
<1> HIDE DEF ok, add
<1>5. ok(add(add(add(<<>>, 1), 2), 3), 3)
  <2>1. ok(add(<<>>, 1), 1)
    BY <1>3, <1>4
  <2>2. ok(add(add(<<>>, 1), 2), 2)
    BY <1>3, <2>1
  <2> QED BY <1>3, <2>2
<1> QED BY <1>1, <1>5 DEF ok, add

LEMMA InitIInv == Init => IInv
<1> SUFFICES ASSUME Init PROVE IInv
  OBVIOUS
<1>1. ListOK
  BY InitList DEF Init, ListOK, CountExact
<1>2. DataOK
  BY ProcessAssumption DEF Init, DataOK, Knob, Entry, Default
<1>3. ControlOK
  BY ProcessAssumption DEF Init, ControlOK, Pc, AdminPc, TracerPc, HoldPc, Thread
<1>4. WalkOK
  BY DEF Init, WalkOK, Thread
<1>5. AskOK
  BY DEF Init, AskOK, Thread
<1>6. HistoryOK
  BY DEF Init, HistoryOK
<1> QED BY <1>1, <1>2, <1>3, <1>4, <1>5, <1>6 DEF IInv

(* A thread's move: within its own code, and out of or into a critical       *)
(* section exactly when it releases or takes the lock.                      *)
LEMMA ControlStep ==
    ASSUME ControlOK, NEW t \in Thread, NEW from, NEW to, Goto(t, from, to),
           t \in Admin => to \in AdminPc,
           t \in Tracer => to \in TracerPc,
           \/ from \notin HoldPc /\ to \notin HoldPc /\ lock' = lock
           \/ from \in HoldPc /\ to \in HoldPc /\ lock' = lock
           \/ from \in HoldPc /\ to \notin HoldPc /\ lock' = NoThread
           \/ lock = NoThread /\ to \in HoldPc /\ lock' = t
    PROVE  /\ ControlOK'
           /\ pc[t] = from /\ pc'[t] = to
           /\ \A u \in Thread \ {t} : pc'[u] = pc[u]
<1>0. to \in Pc
  BY DEF Pc, Thread
<1>1. /\ pc' \in [Thread -> Pc] /\ pc[t] = from /\ pc'[t] = to
      /\ \A u \in Thread \ {t} : pc'[u] = pc[u]
  BY <1>0 DEF ControlOK, Goto
<1>2. Admin \subseteq Thread /\ Tracer \subseteq Thread /\ NoThread \notin Thread
  BY ProcessAssumption DEF Thread
<1>3. lock' \in Thread \cup {NoThread}
  BY DEF ControlOK
<1>4. \A u \in Thread : pc'[u] \in HoldPc <=> lock' = u
  BY <1>1, <1>2 DEF ControlOK
<1>5. /\ \A u \in Admin : pc'[u] \in AdminPc
      /\ \A u \in Tracer : pc'[u] \in TracerPc
  BY <1>1, <1>2 DEF ControlOK
<1> QED BY <1>1, <1>3, <1>4, <1>5 DEF ControlOK

(* The steps of an administrator.  Two of them change the list, and then no  *)
(* tracer is walking it.                                                    *)
LEMMA AdminIInv ==
    ASSUME IInv, NEW t \in Admin,
           \/ AddStart(t) \/ DelStart(t) \/ AddCheck(t) \/ AddAlloc(t)
           \/ AddInsert(t) \/ DelWalk(t)
    PROVE  /\ ListOK' /\ DataOK' /\ ControlOK' /\ WalkOK' /\ AskOK'
           /\ \A u \in Tracer : pc'[u] = pc[u]
<1> USE DEF IInv, AdminPc, HoldPc
<1>0. t \in Thread /\ t \notin Tracer /\ Tracer \subseteq Thread
  BY ProcessAssumption DEF Thread
<1>1. /\ ControlOK' /\ \A u \in Thread \ {t} : pc'[u] = pc[u]
      /\ pid' = pid /\ walk_vars' = walk_vars
  <2>1. CASE AddStart(t) \/ DelStart(t)
    BY <1>0, <2>1, ControlStep DEF AddStart, DelStart, Ask, task_vars
  <2>2. CASE AddCheck(t)
    BY <1>0, <2>2, ControlStep DEF AddCheck, SpinUnlock, task_vars
  <2>3. CASE AddAlloc(t)
    BY <1>0, <2>3, ControlStep DEF AddAlloc, task_vars
  <2>4. CASE AddInsert(t) \/ DelWalk(t)
    BY <1>0, <2>4, ControlStep DEF AddInsert, DelWalk, SpinUnlock, task_vars
  <2> QED BY <2>1, <2>2, <2>3, <2>4
<1>2. DataOK'
  <2>1. CASE AddStart(t) \/ DelStart(t)
    BY <2>1, ProcessAssumption
       DEF AddStart, DelStart, Ask, DataOK, stat_vars, task_vars, walk_vars
  <2>2. CASE AddCheck(t) \/ AddAlloc(t) \/ AddInsert(t) \/ DelWalk(t)
    BY <2>2 DEF AddCheck, AddAlloc, AddInsert, DelWalk, Leave, DataOK, stat_vars, task_vars,
                walk_vars
  <2> QED BY <2>1, <2>2
<1>a. AskOK'
  <2>1. CASE AddStart(t) \/ DelStart(t)
    BY <1>1, <2>1, ProcessAssumption, Zenon DEF AddStart, DelStart, Ask, AskOK, DataOK, Thread
  <2>2. CASE AddCheck(t) \/ AddAlloc(t) \/ AddInsert(t) \/ DelWalk(t)
    <3>1. Leave(t) /\ pc[t] # "idle"
      BY <2>2 DEF AddCheck, AddAlloc, AddInsert, DelWalk, Goto
    <3> QED BY <1>1, <3>1 DEF Leave, AskOK, DataOK, Thread
  <2> QED BY <2>1, <2>2
<1>b. \A u \in Tracer : pc'[u] = pc[u]
  BY <1>0, <1>1
<1>3. CASE AddStart(t) \/ DelStart(t) \/ AddCheck(t) \/ AddAlloc(t)
  <2>1. list_vars' = list_vars
    BY <1>3 DEF AddStart, DelStart, Ask, AddCheck, AddAlloc
  <2>2. ListOK'
    BY <2>1 DEF ListOK, CountExact, list_vars
  <2>3. WalkOK'
    BY <1>1, <1>b, <2>1, Zenon DEF WalkOK, list_vars, walk_vars
  <2> QED BY <1>1, <1>2, <1>a, <1>b, <2>2, <2>3, Zenon
<1>4. CASE AddInsert(t) \/ DelWalk(t)
  <2>1. \A u \in Tracer : pc[u] \notin {"walk", "walk_leader"}
    <3>1. lock = t
      BY <1>0, <1>4 DEF AddInsert, DelWalk, Goto, ControlOK
    <3> QED BY <1>0, <3>1 DEF ControlOK
  <2>2. WalkOK'
    BY <1>1, <1>b, <2>1, Zenon DEF WalkOK, walk_vars
  <2>3. ListOK'
    <3>1. CASE AddInsert(t)
      <4>1. req[t] \in Entry
        BY <3>1 DEF AddInsert, Goto, AskOK
      <4> QED BY <3>1, <4>1 DEF AddInsert, ListOK, CountExact
    <3>2. CASE UNCHANGED list_vars
      BY <3>2 DEF ListOK, CountExact, list_vars
    <3>3. ASSUME NEW i \in FirstAt(protected_procs, req[t]),
                 protected_procs' = list_del(protected_procs, i),
                 protected_proc_count' = protected_proc_count - 1
          PROVE  ListOK'
      <4>1. i \in 1..Len(protected_procs)
        BY DEF FirstAt, ListOK
      <4> QED BY <3>3, <4>1, DelShorter DEF ListOK, CountExact
    <3> QED BY <1>4, <3>1, <3>2, <3>3, Zenon DEF DelWalk
  <2> QED BY <1>1, <1>2, <1>a, <1>b, <2>2, <2>3, Zenon
<1> QED BY <1>3, <1>4

(* The tasks come, go and change their names; a task in a hook stays.       *)
LEMMA TaskIInv ==
    ASSUME IInv, NEW c \in Task, Rename(c) \/ Fork(c) \/ TaskFree(c)
    PROVE  /\ ListOK' /\ DataOK' /\ ControlOK' /\ WalkOK' /\ AskOK'
           /\ UNCHANGED <<pc, child, at, protected_procs>>
           /\ \A t \in Tracer : child[t] # NoTask => pid'[child[t]] = pid[child[t]]
<1> USE DEF IInv
<1>1. /\ list_vars' = list_vars /\ lock' = lock /\ aegis_cfg' = aegis_cfg /\ pc' = pc
      /\ req' = req /\ walk_vars' = walk_vars /\ ptrace_blocked' = ptrace_blocked
  BY DEF Rename, Fork, TaskFree, stat_vars
<1>2. ListOK' /\ ControlOK'
  BY <1>1 DEF ListOK, CountExact, ControlOK, list_vars
<1>3. \A t \in Tracer : child[t] # NoTask => pid'[child[t]] = pid[child[t]]
  <2> SUFFICES ASSUME NEW t \in Tracer, child[t] # NoTask PROVE pid'[child[t]] = pid[child[t]]
    OBVIOUS
  <2>1. child[t] \in Task /\ pid[child[t]] # 0 /\ pid \in [Task -> Pid \cup {0}]
    BY DEF WalkOK, DataOK
  <2> QED BY <2>1 DEF Rename, Fork, TaskFree
<1>4. WalkOK'
  BY <1>1, <1>3, Zenon DEF WalkOK, list_vars, walk_vars
<1>5. pid' \in [Task -> Pid \cup {0}] /\ comm' \in [Task -> Comm] /\ total_events' \in Nat
  <2>1. CASE Rename(c)
    BY <2>1 DEF Rename, DataOK, stat_vars
  <2>2. CASE Fork(c)
    BY <2>2 DEF Fork, DataOK, stat_vars
  <2>3. CASE TaskFree(c)
    BY <2>3, ProcessAssumption DEF TaskFree, DataOK
  <2> QED BY <2>1, <2>2, <2>3
<1>6. DataOK'
  BY <1>1, <1>5 DEF DataOK, walk_vars
<1>7. AskOK'
  BY <1>1 DEF AskOK
<1> QED BY <1>1, <1>2, <1>3, <1>4, <1>6, <1>7 DEF list_vars, walk_vars

TracerStep(t) ==
    \/ AttachStart(t) \/ Feature(t) \/ RestrictAll(t) \/ Protect(t) \/ WalkEnd(t)
    \/ Walk(t) \/ WalkLeader(t) \/ Refuse(t) \/ Traced(t)

(* What a tracer's step leaves alone, and where it leaves the others.       *)
LEMMA TracerFrame ==
    ASSUME IInv, NEW t \in Tracer, TracerStep(t)
    PROVE  /\ ControlOK'
           /\ UNCHANGED <<list_vars, aegis_cfg, task_vars, req>>
           /\ \A u \in Thread \ {t} : pc'[u] = pc[u]
           /\ \A u \in Tracer \ {t} : child'[u] = child[u] /\ at'[u] = at[u]
<1>0. t \in Thread /\ t \notin Admin /\ ControlOK
  BY ProcessAssumption, Zenon DEF Thread, IInv
<1>a. child \in [Tracer -> Task \cup {NoTask}] /\ at \in [Tracer -> Nat]
  BY Zenon DEF IInv, DataOK
<1>1. UNCHANGED <<list_vars, aegis_cfg, task_vars, req>>
  BY Zenon DEF TracerStep, AttachStart, Feature, RestrictAll, Protect, WalkEnd, Walk, WalkLeader,
         Refuse, Traced
<1>2. \A u \in Tracer \ {t} : child'[u] = child[u] /\ at'[u] = at[u]
  BY <1>a, Zenon DEF TracerStep, AttachStart, Feature, RestrictAll, Protect, WalkEnd, Walk,
         WalkLeader, Refuse, Traced, Answered, walk_vars
<1> USE DEF TracerPc, HoldPc
<1>3. ControlOK' /\ \A u \in Thread \ {t} : pc'[u] = pc[u]
  <2>1. CASE AttachStart(t)
    BY <1>0, <2>1, ControlStep DEF AttachStart
  <2>2. CASE Feature(t)
    BY <1>0, <2>2, ControlStep DEF Feature
  <2>3. CASE RestrictAll(t)
    BY <1>0, <2>3, ControlStep DEF RestrictAll
  <2>4. CASE Protect(t)
    BY <1>0, <2>4, ControlStep DEF Protect
  <2>5. CASE WalkEnd(t)
    BY <1>0, <2>5, ControlStep DEF WalkEnd, SpinUnlock
  <2>6. CASE Walk(t)
    BY <1>0, <2>6, ControlStep DEF Walk, SpinUnlock
  <2>7. CASE WalkLeader(t)
    BY <1>0, <2>7, ControlStep DEF WalkLeader, SpinUnlock
  <2>8. CASE Refuse(t) \/ Traced(t)
    BY <1>0, <2>8, ControlStep DEF Refuse, Traced
  <2> QED BY <2>1, <2>2, <2>3, <2>4, <2>5, <2>6, <2>7, <2>8, Zenon DEF TracerStep
<1> QED BY <1>1, <1>2, <1>3

(* A tracer keeps the task it asks about and stays within the list.         *)
LEMMA TracerIInv ==
    ASSUME IInv, NEW t \in Tracer, TracerStep(t)
    PROVE  ListOK' /\ DataOK' /\ ControlOK' /\ WalkOK' /\ AskOK'
<1>a. ListOK /\ DataOK /\ ControlOK /\ WalkOK /\ AskOK
  BY Zenon DEF IInv
<1>0. t \in Thread /\ pc \in [Thread -> Pc] /\ child \in [Tracer -> Task \cup {NoTask}]
      /\ at \in [Tracer -> Nat]
  BY <1>a, Zenon DEF Thread, ControlOK, DataOK
<1>1. ListOK'
  BY <1>a, TracerFrame DEF ListOK, CountExact, list_vars
<1>2. DataOK'
  <2>0. \/ ptrace_blocked' = ptrace_blocked /\ total_events' = total_events
        \/ ptrace_blocked' = ptrace_blocked + 1 /\ total_events' = total_events + 1
    BY Zenon DEF TracerStep, AttachStart, Feature, RestrictAll, Protect, WalkEnd, Walk, WalkLeader,
           Refuse, Traced, stat_vars
  <2>1. ptrace_blocked' \in Nat /\ total_events' \in Nat
    BY <1>a, <2>0 DEF DataOK
  <2>2. child' \in [Tracer -> Task \cup {NoTask}]
    BY <1>0, Zenon DEF TracerStep, AttachStart, Feature, RestrictAll, Protect, WalkEnd, Walk,
           WalkLeader, Refuse, Traced, Answered, walk_vars
  <2>3. at' \in [Tracer -> Nat]
    <3>1. CASE Protect(t)
      BY <1>0, <3>1 DEF Protect
    <3>2. CASE Walk(t)
      BY <1>0, <3>2 DEF Walk
    <3>3. CASE WalkLeader(t)
      BY <1>0, <3>3 DEF WalkLeader
    <3>4. CASE Refuse(t) \/ Traced(t)
      BY <1>0, <3>4 DEF Refuse, Traced, Answered
    <3>5. CASE ~(Protect(t) \/ Walk(t) \/ WalkLeader(t) \/ Refuse(t) \/ Traced(t))
      BY <1>0, <3>5, Zenon DEF TracerStep, AttachStart, Feature, RestrictAll, WalkEnd, walk_vars
    <3> QED BY <3>1, <3>2, <3>3, <3>4, <3>5, Zenon
  <2> QED BY <1>a, <2>1, <2>2, <2>3, TracerFrame, Zenon DEF DataOK, task_vars
<1>3. WalkOK'
  <2> SUFFICES ASSUME NEW u \in Tracer
               PROVE  /\ child'[u] = NoTask <=> pc'[u] = "idle"
                      /\ child'[u] # NoTask => pid[child'[u]] # 0
                      /\ pc'[u] = "hook_lock" => at'[u] = 1
                      /\ pc'[u] = "walk" => at'[u] \in 1 .. Len(protected_procs) + 1
                      /\ pc'[u] = "walk_leader" => at'[u] \in 1 .. Len(protected_procs)
    BY TracerFrame, Zenon DEF WalkOK, list_vars, task_vars
  <2>0. /\ child[t] = NoTask <=> pc[t] = "idle"
        /\ child[t] # NoTask => pid[child[t]] # 0
        /\ pc[t] = "walk" => at[t] \in 1 .. Len(protected_procs) + 1
        /\ pc[t] = "walk_leader" => at[t] \in 1 .. Len(protected_procs)
        /\ Len(protected_procs) \in Nat
    BY <1>a DEF WalkOK, ListOK
  <2>1. CASE u # t
    BY <1>a, <2>1, TracerFrame DEF WalkOK, Thread
  <2>2. CASE u = t
    <3>1. CASE AttachStart(t)
      BY <1>0, <2>0, <2>2, <3>1, ProcessAssumption, SMTT(30) DEF AttachStart, Goto
    <3>2. CASE Feature(t) \/ RestrictAll(t)
      BY <1>0, <2>0, <2>2, <3>2, Zenon DEF Feature, RestrictAll, Goto, walk_vars
    <3>3. CASE Protect(t) \/ WalkEnd(t)
      BY <1>0, <2>0, <2>2, <3>3 DEF Protect, WalkEnd, Goto, walk_vars
    <3>4. CASE Walk(t)
      BY <1>0, <2>0, <2>2, <3>4 DEF Walk, Goto
    <3>5. CASE WalkLeader(t)
      BY <1>0, <2>0, <2>2, <3>5 DEF WalkLeader, Goto
    <3>6. CASE Refuse(t) \/ Traced(t)
      BY <1>0, <2>2, <3>6 DEF Refuse, Traced, Answered, Goto
    <3> QED BY <3>1, <3>2, <3>3, <3>4, <3>5, <3>6, Zenon DEF TracerStep
  <2> QED BY <2>1, <2>2, Zenon
<1>4. AskOK'
  <2>1. \A u \in Admin : u \in Thread \ {t}
    BY ProcessAssumption DEF Thread
  <2> QED BY <1>a, <2>1, TracerFrame, Zenon DEF AskOK
<1> QED BY <1>1, <1>2, <1>3, <1>4, TracerFrame

LEMMA SpinLockIInv ==
    ASSUME IInv, NEW t \in Thread, SpinLock(t)
    PROVE  /\ ListOK' /\ DataOK' /\ ControlOK' /\ WalkOK' /\ AskOK'
           /\ \A u \in Thread \ {t} : pc'[u] = pc[u]
           /\ t \in Tracer => pc[t] = "hook_lock" /\ pc'[t] = "walk"
<1> USE DEF IInv
<1>1. ListOK' /\ DataOK'
  BY Zenon DEF SpinLock, ListOK, CountExact, DataOK, list_vars, stat_vars, task_vars, walk_vars
<1>2. /\ Goto(t, pc[t], Section[pc[t]])
      /\ pc[t] \in {"add_lock", "add_relock", "del_lock", "hook_lock"}
  BY DEF SpinLock, Goto, Section
<1>3. Section[pc[t]] = CASE pc[t] = "add_lock" -> "add_check"
                         [] pc[t] = "add_relock" -> "add_insert"
                         [] pc[t] = "del_lock" -> "del_walk"
                         [] pc[t] = "hook_lock" -> "walk"
  BY <1>2 DEF Section
<1>4. /\ Section[pc[t]] \in HoldPc
      /\ t \in Admin => Section[pc[t]] \in AdminPc
      /\ t \in Tracer => pc[t] = "hook_lock" /\ Section[pc[t]] = "walk"
  BY <1>2, <1>3 DEF ControlOK, HoldPc, AdminPc, TracerPc
<1>5. /\ ControlOK' /\ pc'[t] = Section[pc[t]]
      /\ \A u \in Thread \ {t} : pc'[u] = pc[u]
  BY <1>2, <1>4, ControlStep DEF SpinLock, TracerPc
<1>6. WalkOK'
  <2>1. UNCHANGED <<protected_procs, pid, child, at>> /\ Len(protected_procs) \in Nat
    BY DEF SpinLock, list_vars, task_vars, walk_vars, ListOK
  <2>2. Tracer \subseteq Thread
    BY DEF Thread
  <2> QED BY <1>4, <1>5, <2>1, <2>2 DEF WalkOK
<1>7. AskOK'
  <2>1. req' = req /\ pc[t] # "idle"
    BY <1>2 DEF SpinLock
  <2> QED BY <1>5, <2>1 DEF AskOK, Thread
<1> QED BY <1>1, <1>4, <1>5, <1>6, <1>7

LEMMA NextIInv == IInv /\ [Next]_vars => IInv'
<1> SUFFICES ASSUME IInv, [Next]_vars PROVE IInv'
  OBVIOUS
<1>1. CASE UNCHANGED vars
  BY <1>1 DEF IInv, ListOK, CountExact, DataOK, ControlOK, WalkOK, AskOK, HistoryOK,
              vars, list_vars, stat_vars, task_vars, walk_vars
<1>2. CASE Next
  <2>2. ListOK' /\ DataOK' /\ ControlOK' /\ WalkOK' /\ AskOK'
    <3>1. CASE \E k \in Tunable : SetKnob(k)
      BY <3>1, ProcessAssumption
         DEF SetKnob, IInv, ListOK, CountExact, DataOK, ControlOK, WalkOK, AskOK,
             list_vars, stat_vars, task_vars, walk_vars
    <3>2. CASE \E t \in Thread : SpinLock(t)
      BY <3>2, SpinLockIInv, SMTT(30)
    <3>3. CASE \E t \in Admin : \/ AddStart(t) \/ DelStart(t) \/ AddCheck(t) \/ AddAlloc(t)
                                \/ AddInsert(t) \/ DelWalk(t)
      BY <3>3, AdminIInv, Zenon
    <3>4. CASE \E t \in Tracer : TracerStep(t)
      BY <3>4, TracerIInv, SMTT(30)
    <3>5. CASE \E c \in Task : Rename(c) \/ Fork(c) \/ TaskFree(c)
      BY <3>5, TaskIInv, Zenon
    <3> QED BY <1>2, <3>1, <3>2, <3>3, <3>4, <3>5 DEF Next, Step, ThreadStep, TracerStep
  <2>3. HistoryOK'
    <3>1. Watch /\ HistoryOK
      BY <1>2 DEF Next, IInv
    <3>2. gap' \subseteq Tracer /\ free_for_all' \subseteq Tracer /\ renamed' \subseteq Tracer
      BY <3>1 DEF Watch, HistoryOK
    <3>3. \A t \in Tracer : Grounds(child[t])' \subseteq Entry \X Ground
      <4>1. Range(protected_procs') \subseteq Entry
        BY <2>2 DEF ListOK, Range
      <4> QED BY <4>1, Zenon DEF Grounds
    <3>4. steady' \in [Tracer -> SUBSET (Entry \X Ground)]
      BY <3>1, <3>3, Zenon DEF Watch, HistoryOK
    <3> QED BY <3>2, <3>4 DEF HistoryOK
  <2> QED BY <2>2, <2>3 DEF IInv
<1> QED BY <1>1, <1>2 DEF vars

(* The inductive invariant holds throughout.                                *)
THEOREM Invariance == Spec => []IInv
BY InitIInv, NextIInv, PTL DEF Spec

(* The types, the lock held by exactly the thread inside a critical section  *)
(* of protected_procs_lock, and a walk that never leaves the list.          *)
THEOREM TypeCorrect == Spec => []TypeOK
<1>1. IInv => TypeOK
  BY DEF IInv, ListOK, CountExact, DataOK, ControlOK, WalkOK, HistoryOK, TypeOK, Pc
<1> QED BY <1>1, Invariance, PTL

(* protected_proc_count is the length of the list however the adds, the      *)
(* deletions and the walks interleave.                                      *)
THEOREM CountIsExact == Spec => []CountExact
<1>1. IInv => CountExact
  BY DEF IInv, ListOK
<1> QED BY <1>1, Invariance, PTL
-----------------------------------------------------------------------------
(***************************************************************************)
(* The hooks miss nothing.  The history has every running hook that could   *)
(* be passing a moment without the prohibition, and no ground for a refusal  *)
(* that does not hold; what a walk has behind it does not cover the child,    *)
(* unless a new name is on record, and is no ground that has held all along.  *)
(***************************************************************************)
Seen(t) ==
    InHook(t) => /\ ~ListInForce(child[t]) => t \in gap
                 /\ ~AllInForce => t \in free_for_all
                 /\ steady[t] \subseteq Grounds(child[t])

Past(t) ==
    /\ pc[t] = "admitted" => t \in gap \/ (t \in renamed /\ steady[t] = {})
    /\ pc[t] \in {"protect", "hook_lock", "walk", "walk_leader", "admitted", "admitted_me"}
          => t \in free_for_all

Behind(t) ==
    pc[t] \in {"walk", "walk_leader"} /\ t \notin renamed =>
        /\ \A i \in 1 .. at[t] - 1 : ~Covers(protected_procs[i], child[t])
        /\ pc[t] = "walk_leader" => /\ protected_procs[at[t]].pid = 0
                                    /\ protected_procs[at[t]].comm # comm[child[t]]

Ruled(t) ==
    pc[t] \in {"walk", "walk_leader"} =>
        /\ \A i \in 1 .. at[t] - 1 : \A g \in Ground : <<protected_procs[i], g>> \notin steady[t]
        /\ pc[t] = "walk_leader" => /\ protected_procs[at[t]].pid = 0
                                    /\ <<protected_procs[at[t]], "comm">> \notin steady[t]

GuardInv == \A t \in Tracer : Seen(t) /\ Past(t) /\ Behind(t) /\ Ruled(t)

(* What Watch keeps.                                                        *)
LEMMA WatchKeeps ==
    ASSUME Watch, NEW t \in Tracer
    PROVE  /\ Seen(t)'
           /\ pc[t] # "idle" /\ pc'[t] # "idle" =>
                 /\ t \in gap => t \in gap'
                 /\ t \in free_for_all => t \in free_for_all'
                 /\ t \in renamed => t \in renamed'
                 /\ steady'[t] \subseteq steady[t]
           /\ InHook(t) /\ t \notin renamed' =>
                 comm'[child[t]] = comm[child[t]] /\ comm'[Leader[child[t]]] = comm[Leader[child[t]]]
<1>1. InHook(t)' /\ ~ListInForce(child[t])' => t \in gap'
  BY DEF Watch
<1>2. InHook(t)' /\ ~AllInForce' => t \in free_for_all'
  BY DEF Watch
<1>3. pc[t] # "idle" /\ pc'[t] # "idle" =>
                 /\ t \in gap => t \in gap'
                 /\ t \in free_for_all => t \in free_for_all'
                 /\ t \in renamed => t \in renamed'
  BY DEF Watch
<1>4. InHook(t) /\ t \notin renamed' =>
        comm'[child[t]] = comm[child[t]] /\ comm'[Leader[child[t]]] = comm[Leader[child[t]]]
  BY DEF Watch
<1>5. steady'[t] = IF pc'[t] = "idle" THEN {}
                   ELSE IF pc[t] = "idle" THEN Grounds(child[t])'
                   ELSE IF InHook(t)' THEN steady[t] \cap Grounds(child[t])'
                   ELSE steady[t]
  BY Zenon DEF Watch
<1>6. InHook(t)' => steady'[t] \subseteq Grounds(child[t])'
  BY <1>5
<1>7. pc[t] # "idle" /\ pc'[t] # "idle" => steady'[t] \subseteq steady[t]
  BY <1>5
<1> QED BY <1>1, <1>2, <1>3, <1>4, <1>6, <1>7, Zenon DEF Seen

(* A tracer that does not move stays where its walk has brought it.         *)
LEMMA RestKeeps ==
    ASSUME IInv, Watch, NEW t \in Tracer, Past(t), Behind(t), Ruled(t),
           pc'[t] = pc[t], child'[t] = child[t], at'[t] = at[t],
           pc[t] \in {"walk", "walk_leader"} => protected_procs' = protected_procs,
           child[t] # NoTask => pid'[child[t]] = pid[child[t]]
    PROVE  Past(t)' /\ Behind(t)' /\ Ruled(t)'
<1>1. Past(t)'
  BY WatchKeeps DEF Past
<1>2. Behind(t)'
  <2> SUFFICES ASSUME pc[t] \in {"walk", "walk_leader"}, t \notin renamed'
               PROVE  /\ \A i \in 1 .. at[t] - 1 : ~Covers(protected_procs[i], child[t])'
                      /\ pc[t] = "walk_leader" => /\ protected_procs'[at[t]].pid = 0
                                                  /\ protected_procs'[at[t]].comm # comm'[child[t]]
    BY Zenon DEF Behind, Covers
  <2>1. InHook(t) /\ child[t] # NoTask /\ protected_procs' = protected_procs
    BY Zenon DEF InHook, IInv, WalkOK
  <2>2. /\ comm'[child[t]] = comm[child[t]] /\ comm'[Leader[child[t]]] = comm[Leader[child[t]]]
        /\ pid'[child[t]] = pid[child[t]] /\ t \notin renamed
    BY <2>1, WatchKeeps, Zenon
  <2> QED BY <2>1, <2>2, Zenon DEF Behind, Covers, Holds
<1>3. Ruled(t)'
  <2>1. pc[t] \in {"walk", "walk_leader"} => steady'[t] \subseteq steady[t]
    BY WatchKeeps, Zenon
  <2> QED BY <2>1, Zenon DEF Ruled
<1> QED BY <1>1, <1>2, <1>3

(* The beginning of a hook, and its questions before the walk.              *)
LEMMA BeforeWalkKeeps ==
    ASSUME IInv, Watch, NEW t \in Tracer, Seen(t), Past(t),
           AttachStart(t) \/ Feature(t) \/ RestrictAll(t) \/ Protect(t) \/ Refuse(t) \/ Traced(t)
    PROVE  Past(t)' /\ Behind(t)' /\ Ruled(t)'
<1>0. t \in Thread /\ pc \in [Thread -> Pc]
  BY DEF Thread, IInv, ControlOK
<1>1. CASE AttachStart(t) \/ Refuse(t) \/ Traced(t)
  BY <1>0, <1>1, Zenon DEF AttachStart, Refuse, Traced, Goto, Past, Behind, Ruled
<1>2. CASE Feature(t)
  <2>1. /\ pc[t] \in {"attach", "traceme"}
        /\ pc'[t] \in {"attach_all", "traceme_all", "admitted", "admitted_me"}
        /\ pc'[t] \in {"admitted", "admitted_me"} => ~On("PTRACE_RESTRICT")
    BY <1>0, <1>2 DEF Feature, Goto
  <2>2. pc'[t] \in {"admitted", "admitted_me"} => t \in gap /\ t \in free_for_all
    BY <2>1, Zenon DEF Seen, InHook, ListInForce, AllInForce
  <2>3. pc'[t] \in {"admitted", "admitted_me"} => t \in gap' /\ t \in free_for_all'
    BY <2>1, <2>2, WatchKeeps, Zenon
  <2> QED BY <2>1, <2>3, Zenon DEF Past, Behind, Ruled
<1>3. CASE RestrictAll(t)
  <2>1. /\ pc[t] \in {"attach_all", "traceme_all"}
        /\ pc'[t] \in {"refuse", "protect", "admitted_me"}
        /\ pc'[t] # "refuse" => ~aegis_cfg["ptrace_restrict_all"]
    BY <1>0, <1>3 DEF RestrictAll, Goto
  <2>2. pc'[t] # "refuse" => t \in free_for_all'
    BY <2>1, WatchKeeps, SMTT(30) DEF Seen, InHook, AllInForce
  <2> QED BY <2>1, <2>2, Zenon DEF Past, Behind, Ruled
<1>4. CASE Protect(t)
  <2>1. /\ pc[t] = "protect" /\ pc'[t] \in {"hook_lock", "admitted"}
        /\ pc'[t] = "admitted" => ~On("PROCESS_PROTECT")
    BY <1>0, <1>4 DEF Protect, Goto
  <2>2. t \in free_for_all' /\ (pc'[t] = "admitted" => t \in gap')
    BY <2>1, WatchKeeps, Zenon DEF Past, Seen, InHook, ListInForce
  <2> QED BY <2>1, <2>2, Zenon DEF Past, Behind, Ruled
<1> QED BY <1>1, <1>2, <1>3, <1>4

(* The positions before the next one are those up to this one.               *)
LEMMA NextEntry ==
    ASSUME NEW n \in Nat, NEW m, m = n + 1
    PROVE  1 .. m - 1 = 1 .. n
OBVIOUS

(* A ground that does not hold now has not held all along.                  *)
LEMMA NotSteady ==
    ASSUME NEW t \in Tracer, Seen(t), InHook(t), NEW e, NEW g, ~Holds(e, g, child[t])
    PROVE  <<e, g>> \notin steady[t]
<1>1. <<e, g>> \notin Grounds(child[t])
  BY DEF Grounds
<1> QED BY <1>1, Zenon DEF Seen

(* Each comparison rules out the entry it has come to.                      *)
LEMMA RuledKeeps ==
    ASSUME IInv, Watch, NEW t \in Tracer, Seen(t), Ruled(t), WalkEnd(t) \/ Walk(t) \/ WalkLeader(t)
    PROVE  Ruled(t)'
<1>0. /\ t \in Thread /\ pc \in [Thread -> Pc] /\ at \in [Tracer -> Nat] /\ at[t] \in Nat
      /\ protected_procs' = protected_procs /\ child' = child
  BY Zenon DEF Thread, IInv, ControlOK, DataOK, WalkEnd, Walk, WalkLeader, list_vars, walk_vars
<1>1. pc[t] \in {"walk", "walk_leader"} /\ InHook(t)
  BY DEF WalkEnd, Walk, WalkLeader, Goto, InHook
<1> DEFINE e == protected_procs[at[t]]
           c == child[t]
<1>2. CASE pc'[t] \notin {"walk", "walk_leader"}
  BY <1>2, Zenon DEF Ruled
<1>3. CASE pc'[t] \in {"walk", "walk_leader"}
  <2>0. steady'[t] \subseteq steady[t]
    BY <1>1, <1>3, WatchKeeps, Zenon
  <2>1. \A i \in 1 .. at[t] - 1 : \A g \in Ground : <<protected_procs[i], g>> \notin steady[t]
    BY <1>1, Zenon DEF Ruled
  <2>2. CASE pc'[t] = "walk_leader"
    <3>1. e.pid = 0 /\ e.comm # comm[c] /\ at'[t] = at[t]
      BY <1>0, <2>2, Zenon DEF WalkEnd, Walk, WalkLeader, Goto
    <3>2. <<e, "comm">> \notin steady[t]
      <4>1. ~Holds(e, "comm", c)
        BY <3>1, Zenon DEF Holds
      <4> QED BY <1>1, <4>1, NotSteady, Zenon
    <3> QED BY <1>0, <2>0, <2>1, <3>1, <3>2, Zenon DEF Ruled
  <2>3. CASE pc'[t] = "walk"
    <3>1. at'[t] = at[t] + 1 /\ ~WalkEnd(t)
      BY <1>0, <2>3, Zenon DEF WalkEnd, Walk, WalkLeader, Goto
    <3>2. \A g \in Ground : <<e, g>> \notin steady[t]
      <4>1. CASE Walk(t)
        <5>1. e.pid # 0 /\ e.pid # pid[c]
          BY <1>0, <2>3, <4>1, Zenon DEF Walk, Goto
        <5>2. \A g : ~Holds(e, g, c)
          BY <5>1, Zenon DEF Holds
        <5> QED BY <1>1, <5>2, NotSteady, Zenon
      <4>2. CASE WalkLeader(t)
        <5>1. e.comm # comm[Leader[c]] /\ pc[t] = "walk_leader"
          BY <1>0, <2>3, <4>2, Zenon DEF WalkLeader, Goto
        <5>2. e.pid = 0 /\ <<e, "comm">> \notin steady[t]
          BY <5>1, Zenon DEF Ruled
        <5>3. ~Holds(e, "pid", c) /\ ~Holds(e, "leader", c)
          BY <5>1, <5>2 DEF Holds
        <5>4. <<e, "pid">> \notin steady[t] /\ <<e, "leader">> \notin steady[t]
          BY <1>1, <5>3, NotSteady, Zenon
        <5> QED BY <5>2, <5>4, Zenon DEF Ground
      <4> QED BY <3>1, <4>1, <4>2, Zenon
    <3>3. 1 .. at'[t] - 1 = 1 .. at[t] /\ \A i \in 1 .. at[t] : i \in 1 .. at[t] - 1 \/ i = at[t]
      BY <1>0, <3>1
    <3> QED BY <1>0, <2>0, <2>1, <2>3, <3>2, <3>3, Zenon DEF Ruled
  <2> QED BY <1>3, <2>2, <2>3, Zenon
<1> QED BY <1>2, <1>3, Zenon

(* At the end of the list no ground is left.                                *)
LEMMA NoneSteady ==
    ASSUME IInv, NEW t \in Tracer, Seen(t), Ruled(t), pc[t] = "walk", at[t] > Len(protected_procs)
    PROVE  steady[t] = {}
<1> SUFFICES ASSUME NEW x \in steady[t] PROVE FALSE
  OBVIOUS
<1>1. x \in Range(protected_procs) \X Ground
  BY Zenon DEF Seen, InHook, Grounds
<1>2. PICK e \in Range(protected_procs), g \in Ground : x = <<e, g>>
  BY <1>1
<1>3. PICK i \in 1..Len(protected_procs) : e = protected_procs[i]
  BY <1>2 DEF Range, IInv, ListOK
<1>4. i \in 1 .. at[t] - 1
  BY <1>3 DEF IInv, DataOK, ListOK
<1> QED BY <1>2, <1>3, <1>4, Zenon DEF Ruled

(* The walk: each comparison adds an entry that does not cover the child;    *)
(* at the end of the list nothing covers it.                                *)
LEMMA WalkKeeps ==
    ASSUME IInv, Watch, NEW t \in Tracer, Seen(t), Past(t), Behind(t), Ruled(t),
           WalkEnd(t) \/ Walk(t) \/ WalkLeader(t)
    PROVE  Past(t)' /\ Behind(t)'
<1>0. /\ t \in Thread /\ pc \in [Thread -> Pc] /\ at \in [Tracer -> Nat]
      /\ protected_procs \in Seq(Entry) /\ Len(protected_procs) \in Nat
  BY DEF Thread, IInv, ControlOK, DataOK, ListOK
<1>1. /\ pc[t] \in {"walk", "walk_leader"} /\ InHook(t)
      /\ UNCHANGED <<protected_procs, pid, comm, child>>
      /\ pc'[t] \in {"walk", "walk_leader", "refuse", "admitted"}
  BY <1>0, Zenon DEF WalkEnd, Walk, WalkLeader, Goto, InHook, list_vars, task_vars, walk_vars
<1>2. t \in free_for_all' /\ (t \notin renamed' => t \notin renamed)
  BY <1>1, WatchKeeps, Zenon DEF Past
<1>3. \A i \in 1 .. at[t] : i \in 1 .. at[t] - 1 \/ i = at[t]
  BY <1>0
<1>4. CASE WalkEnd(t)
  <2>1. pc[t] = "walk" /\ pc'[t] = "admitted" /\ at[t] > Len(protected_procs)
    BY <1>0, <1>4 DEF WalkEnd, Goto
  <2>2. t \notin renamed => ~ListInForce(child[t])
    <3> SUFFICES ASSUME t \notin renamed, NEW e \in Range(protected_procs)
                 PROVE  ~Covers(e, child[t])
      BY DEF ListInForce
    <3>1. PICK i \in 1..Len(protected_procs) : e = protected_procs[i]
      BY <1>0 DEF Range
    <3>2. i \in 1 .. at[t] - 1
      BY <1>0, <2>1, <3>1
    <3> QED BY <2>1, <3>1, <3>2, Zenon DEF Behind
  <2>3. t \in gap' \cup renamed'
    BY <1>1, <2>1, <2>2, WatchKeeps, Zenon DEF Seen
  <2>4. steady'[t] = {}
    <3>1. steady[t] = {}
      BY <2>1, NoneSteady, Zenon
    <3>2. steady'[t] \subseteq steady[t]
      BY <2>1, WatchKeeps, Zenon
    <3> QED BY <3>1, <3>2
  <2> QED BY <1>2, <2>1, <2>3, <2>4, Zenon DEF Past, Behind
<1>5. CASE Walk(t)
  <2> DEFINE e == protected_procs[at[t]]
             c == child[t]
  <2>1. pc[t] = "walk" /\ pc'[t] # "admitted"
    BY <1>0, <1>5, Zenon DEF Walk, Goto
  <2>2. Past(t)'
    BY <1>2, <2>1 DEF Past
  <2>3. CASE pc'[t] = "walk"
    <3>1. e.pid # 0 /\ e.pid # pid[c] /\ at'[t] = at[t] + 1
      BY <1>0, <1>5, <2>3, Zenon DEF Walk, Goto
    <3>2. ~Covers(e, c)
      BY <3>1, Zenon DEF Covers, Holds
    <3>3. t \notin renamed => \A i \in 1 .. at[t] : ~Covers(protected_procs[i], c)
      BY <1>3, <2>1, <3>2, Zenon DEF Behind
    <3>4. 1 .. at'[t] - 1 = 1 .. at[t]
      <4>1. at[t] \in Nat
        BY <1>0, Zenon
      <4> QED BY <3>1, <4>1, NextEntry, Zenon
    <3> QED BY <1>1, <1>2, <2>2, <2>3, <3>3, <3>4, Zenon DEF Behind, Covers, Holds
  <2>4. CASE pc'[t] = "walk_leader"
    <3>1. e.pid = 0 /\ e.comm # comm[c] /\ at'[t] = at[t]
      BY <1>0, <1>5, <2>4, Zenon DEF Walk, Goto
    <3> QED BY <1>1, <1>2, <2>1, <2>2, <2>4, <3>1, Zenon DEF Behind, Covers, Holds
  <2>5. CASE pc'[t] \notin {"walk", "walk_leader"}
    BY <2>2, <2>5, Zenon DEF Behind
  <2> QED BY <2>3, <2>4, <2>5, SMTT(30)
<1>6. CASE WalkLeader(t)
  <2> DEFINE e == protected_procs[at[t]]
             c == child[t]
  <2>1. pc[t] = "walk_leader" /\ pc'[t] \in {"walk", "refuse"}
    BY <1>0, <1>6, Zenon DEF WalkLeader, Goto
  <2>2. Past(t)'
    BY <1>2, <2>1, Zenon DEF Past
  <2>3. CASE pc'[t] = "walk"
    <3>1. e.comm # comm[Leader[c]] /\ at'[t] = at[t] + 1
      BY <1>0, <1>6, <2>3, Zenon DEF WalkLeader, Goto
    <3>2. t \notin renamed => ~Covers(e, c)
      BY <2>1, <3>1, Zenon DEF Behind, Covers, Holds
    <3>3. t \notin renamed => \A i \in 1 .. at[t] : ~Covers(protected_procs[i], c)
      BY <1>3, <2>1, <3>2, Zenon DEF Behind
    <3>4. 1 .. at'[t] - 1 = 1 .. at[t]
      <4>1. at[t] \in Nat
        BY <1>0, Zenon
      <4> QED BY <3>1, <4>1, NextEntry, Zenon
    <3> QED BY <1>1, <1>2, <2>2, <2>3, <3>3, <3>4, Zenon DEF Behind, Covers, Holds
  <2>4. CASE pc'[t] = "refuse"
    BY <2>2, <2>4, Zenon DEF Behind
  <2> QED BY <2>1, <2>3, <2>4, Zenon
<1> QED BY <1>4, <1>5, <1>6

LEMMA SpinLockKeeps ==
    ASSUME IInv, Watch, NEW t \in Tracer, Past(t), Behind(t), Ruled(t),
           NEW u \in Thread, SpinLock(u)
    PROVE  Past(t)' /\ Behind(t)' /\ Ruled(t)'
<1>0. /\ t \in Thread
      /\ UNCHANGED <<protected_procs, pid, child, at>> /\ at \in [Tracer -> Nat]
  BY Zenon DEF Thread, SpinLock, list_vars, task_vars, walk_vars, IInv, DataOK
<1>1. CASE u = t
  <2>1. pc[t] = "hook_lock" /\ pc'[t] = "walk" /\ at[t] = 1
    BY <1>1, SpinLockIInv, Zenon DEF IInv, WalkOK
  <2>2. Past(t)'
    BY <2>1, WatchKeeps, Zenon DEF Past
  <2>3. 1 .. at'[t] - 1 = {}
    BY <1>0, <2>1
  <2> QED BY <2>1, <2>2, <2>3, Zenon DEF Behind, Ruled
<1>2. CASE u # t
  BY <1>0, <1>2, SpinLockIInv, RestKeeps, Zenon
<1> QED BY <1>1, <1>2

LEMMA GuardNext == IInv /\ GuardInv /\ [Next]_vars => GuardInv'
<1> SUFFICES ASSUME IInv, GuardInv, [Next]_vars, NEW t \in Tracer
             PROVE  Seen(t)' /\ Past(t)' /\ Behind(t)' /\ Ruled(t)'
  BY DEF GuardInv
<1>0. Seen(t) /\ Past(t) /\ Behind(t) /\ Ruled(t)
  BY DEF GuardInv
<1>1. CASE UNCHANGED vars
  BY <1>0, <1>1, Zenon DEF Seen, Past, Behind, Ruled, Covers, Holds, Grounds, InHook, ListInForce,
                    AllInForce, On, vars, list_vars, task_vars, walk_vars
<1>2. CASE Next
  <2>0. Watch /\ Seen(t)'
    BY <1>2, WatchKeeps, Zenon DEF Next
  <2>1. CASE \E u \in Thread : SpinLock(u)
    BY <1>0, <2>0, <2>1, SpinLockKeeps
  <2>2. CASE TracerStep(t)
    BY <1>0, <2>0, <2>2, BeforeWalkKeeps, WalkKeeps, RuledKeeps DEF TracerStep
  <2>3. CASE \E u \in Tracer \ {t} : TracerStep(u)
    <3>1. PICK u \in Tracer \ {t} : TracerStep(u)
      BY <2>3
    <3>2. /\ pc'[t] = pc[t] /\ child'[t] = child[t] /\ at'[t] = at[t]
          /\ protected_procs' = protected_procs /\ pid' = pid
      BY <3>1, TracerFrame DEF Thread, list_vars, task_vars
    <3> QED BY <1>0, <2>0, <3>2, RestKeeps
  <2>4. CASE \E u \in Admin : \/ AddStart(u) \/ DelStart(u) \/ AddCheck(u) \/ AddAlloc(u)
                            \/ AddInsert(u) \/ DelWalk(u)
    <3>1. PICK u \in Admin : \/ AddStart(u) \/ DelStart(u) \/ AddCheck(u) \/ AddAlloc(u)
                            \/ AddInsert(u) \/ DelWalk(u)
      BY <2>4
    <3>2. pc'[t] = pc[t]
      BY <3>1, AdminIInv, Zenon
    <3>3. child' = child /\ at' = at /\ pid' = pid
      BY <3>1 DEF AddStart, DelStart, Ask, AddCheck, AddAlloc, AddInsert, DelWalk,
                  walk_vars, task_vars
    <3>4. pc[t] \in {"walk", "walk_leader"} => protected_procs' = protected_procs
      <4>1. CASE AddInsert(u) \/ DelWalk(u)
        <5>1. pc[u] \in HoldPc
          BY <4>1, Zenon DEF AddInsert, DelWalk, Goto, HoldPc
        <5>2. lock = u /\ u # t
          BY <5>1, ProcessAssumption DEF IInv, ControlOK, Thread
        <5> QED BY <5>2, SMTT(30) DEF IInv, ControlOK, Thread, HoldPc
      <4>2. CASE ~(AddInsert(u) \/ DelWalk(u))
        BY <3>1, <4>2 DEF AddStart, DelStart, Ask, AddCheck, AddAlloc, list_vars
      <4> QED BY <4>1, <4>2
    <3> QED BY <1>0, <2>0, <3>2, <3>3, <3>4, RestKeeps, Zenon
  <2>5. CASE \E c \in Task : Rename(c) \/ Fork(c) \/ TaskFree(c)
    <3>1. UNCHANGED <<pc, child, at, protected_procs>>
      BY <2>5, TaskIInv, Zenon
    <3>2. child[t] # NoTask => pid'[child[t]] = pid[child[t]]
      BY <2>5, TaskIInv, Zenon
    <3> QED BY <1>0, <2>0, <3>1, <3>2, RestKeeps, Zenon
  <2>6. CASE \E k \in Tunable : SetKnob(k)
    BY <1>0, <2>0, <2>6, RestKeeps, Zenon DEF SetKnob, list_vars, task_vars, walk_vars
  <2> QED BY <1>2, <2>0, <2>1, <2>2, <2>3, <2>4, <2>5, <2>6
          DEF Next, Step, ThreadStep, TracerStep
<1> QED BY <1>1, <1>2 DEF vars

LEMMA GuardInit == Init => GuardInv
BY Zenon DEF Init, GuardInv, Seen, Past, Behind, Ruled, InHook, Thread

(* An attach is admitted only past a moment at which nothing forbade it, or  *)
(* over a change of name under the walk that has left no ground for a        *)
(* refusal standing all along: whatever the list, the tasks and the number   *)
(* of threads.                                                              *)
THEOREM WalkMissesNothing == Spec => []AttachNeedsGap
<1>1. GuardInv => AttachNeedsGap
  BY DEF GuardInv, Past, AttachNeedsGap
<1> QED BY <1>1, GuardInit, GuardNext, Invariance, PTL DEF Spec

(* ptrace_restrict_all, in force all along, admits neither an attach nor a   *)
(* PTRACE_TRACEME.                                                          *)
THEOREM RestrictAllStays == Spec => []RestrictAllHolds
<1>1. GuardInv => RestrictAllHolds
  BY DEF GuardInv, Past, RestrictAllHolds
<1> QED BY <1>1, GuardInit, GuardNext, Invariance, PTL DEF Spec
-----------------------------------------------------------------------------
(***************************************************************************)
(* The list is a GuardedList: its pending additions are those between the   *)
(* tests of aegis_protect_process_add and its insertion.                      *)
(***************************************************************************)
PendPc == {"add_alloc", "add_relock", "add_insert"}
Pending == [t \in Admin |-> IF pc[t] \in PendPc THEN req[t] ELSE NoEntry]

(* An administrator's move changes at most what that administrator has       *)
(* pending.                                                                 *)
LEMMA PendingStep ==
    ASSUME IInv, NEW t \in Admin, NEW from, NEW to, Goto(t, from, to),
           \/ req' = req
           \/ to \notin PendPc /\ \E n : req' = [req EXCEPT ![t] = n]
           \/ Leave(t)
    PROVE  /\ Pending[t] = IF from \in PendPc THEN req[t] ELSE NoEntry
           /\ Pending' = [Pending EXCEPT ![t] = IF to \in PendPc THEN req[t] ELSE NoEntry]
<1>1. /\ pc[t] = from /\ pc'[t] = to
      /\ \A u \in Admin \ {t} : pc'[u] = pc[u] /\ req'[u] = req[u]
      /\ to \in PendPc => req'[t] = req[t]
  BY DEF Goto, Leave, IInv, ControlOK, DataOK, Thread, PendPc
<1> QED BY <1>1, Zenon DEF Pending

LEMMA InitImplements == Init => ProcessList!Init
<1> SUFFICES ASSUME Init PROVE ProcessList!Init
  OBVIOUS
<1>1. Pending = [a \in Admin |-> NoEntry]
  BY DEF Init, Pending, PendPc, Thread
<1>2. Len(protected_procs) <= AEGIS_MAX_PROTECTED_PROCS
  BY DEF Init
<1> QED BY <1>1, <1>2, InitList
       DEF ProcessList!Init, IsInjective, Pending, PendPc

(* An administrator's step is a step of the abstract list or invisible in    *)
(* it.                                                                      *)
LEMMA AdminImplements ==
    ASSUME IInv, NEW t \in Admin,
           \/ AddStart(t) \/ DelStart(t) \/ AddCheck(t) \/ AddAlloc(t)
           \/ AddInsert(t) \/ DelWalk(t)
    PROVE  \/ \E a \in Admin : \/ \E k \in Entry : ProcessList!Admit(a, k)
                             \/ ProcessList!Drop(a) \/ ProcessList!Insert(a)
           \/ \E k \in Entry : ProcessList!Delete(k)
           \/ protected_procs' = protected_procs /\ Pending' = Pending
<1>0. /\ pc[t] # "idle" => req[t] \in Entry /\ req[t] # NoEntry
      /\ Pending \in [Admin -> Entry \cup {NoEntry}]
  BY ProcessAssumption, Zenon DEF IInv, AskOK, Pending, PendPc
<1>1. CASE AddStart(t) \/ DelStart(t)
  <2>1. Pending[t] = NoEntry /\ Pending' = [Pending EXCEPT ![t] = NoEntry]
    BY <1>1, PendingStep DEF AddStart, DelStart, Ask, PendPc
  <2> QED BY <1>0, <1>1, <2>1 DEF AddStart, DelStart, Ask, list_vars
<1>2. CASE AddCheck(t)
  <2> DEFINE full == protected_proc_count >= AEGIS_MAX_PROTECTED_PROCS
  <2>1. CASE full \/ req[t] \in Range(protected_procs)
    <3>1. Pending[t] = NoEntry /\ Pending' = [Pending EXCEPT ![t] = NoEntry]
      BY <1>2, <2>1, PendingStep DEF AddCheck, PendPc
    <3> QED BY <1>0, <1>2, <3>1, Zenon DEF AddCheck, list_vars
  <2>2. CASE ~full /\ req[t] \notin Range(protected_procs)
    <3>1. Pending[t] = NoEntry /\ Pending' = [Pending EXCEPT ![t] = req[t]]
      BY <1>2, <2>2, PendingStep DEF AddCheck, PendPc
    <3>2. Len(protected_procs) < AEGIS_MAX_PROTECTED_PROCS
      <4>1. protected_proc_count = Len(protected_procs) /\ protected_procs \in Seq(Entry)
        BY Zenon DEF IInv, ListOK, CountExact
      <4>2. Len(protected_procs) \in Nat
        BY <4>1
      <4> QED BY <2>2, <4>1, <4>2, ProcessAssumption
    <3>3. \A i \in 1..Len(protected_procs) : protected_procs[i] # req[t]
      BY <2>2 DEF Range
    <3>4. protected_procs' = protected_procs /\ pc[t] = "add_check"
      BY <1>2 DEF AddCheck, list_vars, Goto
    <3>5. PICK n \in Entry : n = req[t]
      BY <1>0, <3>4, Zenon
    <3>6. ProcessList!Admit(t, n)
      BY <3>1, <3>2, <3>3, <3>4, <3>5, Zenon DEF ProcessList!Admit, ProcessList!Copies, Pending, PendPc
    <3> QED BY <3>6
  <2> QED BY <2>1, <2>2
<1>3. CASE AddAlloc(t)
  <2>1. PICK l \in {"idle", "add_relock"} : Goto(t, "add_alloc", l)
    BY <1>3 DEF AddAlloc
  <2>2. protected_procs' = protected_procs /\ Leave(t) /\ pc[t] = "add_alloc"
    BY <1>3 DEF AddAlloc, list_vars, Goto
  <2>3. /\ Pending[t] = req[t]
        /\ Pending' = [Pending EXCEPT ![t] = IF l \in PendPc THEN req[t] ELSE NoEntry]
    BY <2>1, <2>2, PendingStep, SMTT(30) DEF PendPc
  <2>4. CASE l = "add_relock"
    BY <1>0, <2>2, <2>3, <2>4, Zenon DEF PendPc
  <2>5. CASE l = "idle"
    <3>1. ProcessList!Drop(t)
      BY <1>0, <2>2, <2>3, <2>5, Zenon DEF ProcessList!Drop, Pending, PendPc
    <3> QED BY <3>1
  <2> QED BY <2>1, <2>4, <2>5
<1>4. CASE AddInsert(t)
  <2>1. Pending[t] = req[t] /\ Pending' = [Pending EXCEPT ![t] = NoEntry]
    BY <1>4, PendingStep DEF AddInsert, PendPc
  <2>2. protected_procs' = Append(protected_procs, req[t]) /\ req[t] # NoEntry
    BY <1>0, <1>4 DEF AddInsert, Goto
  <2>3. ProcessList!Insert(t)
    BY <2>1, <2>2, Zenon DEF ProcessList!Insert, Pending, PendPc
  <2> QED BY <2>3
<1>5. CASE DelWalk(t)
  <2>1. Pending' = Pending
    <3>1. Pending[t] = NoEntry /\ Pending' = [Pending EXCEPT ![t] = NoEntry]
      BY <1>5, PendingStep DEF DelWalk, PendPc
    <3> QED BY <1>0, <3>1, Zenon
  <2>2. PICK n \in Entry : n = req[t]
    BY <1>0, <1>5 DEF DelWalk, Goto
  <2>3. ASSUME NEW i \in FirstAt(protected_procs, req[t]),
               protected_procs' = list_del(protected_procs, i)
        PROVE  ProcessList!Delete(n)
    <3>1. DOMAIN protected_procs = 1..Len(protected_procs)
      BY DEF IInv, ListOK
    <3> QED BY <2>1, <2>2, <2>3, <3>1, Zenon
            DEF ProcessList!Delete, ProcessList!Copies, FirstAt, list_del, Pending, PendPc
  <2>4. CASE UNCHANGED list_vars
    BY <2>1, <2>4 DEF list_vars
  <2> QED BY <1>5, <2>3, <2>4, Zenon DEF DelWalk
<1> QED BY <1>1, <1>2, <1>3, <1>4, <1>5

LEMMA NextImplements == IInv /\ [Next]_vars => [ProcessList!Next]_(ProcessList!vars)
<1> SUFFICES ASSUME IInv, [Next]_vars
             PROVE  \/ ProcessList!Next
                    \/ protected_procs' = protected_procs /\ Pending' = Pending
  BY DEF ProcessList!vars, Pending, PendPc
<1>0. Admin \subseteq Thread /\ Admin \cap Tracer = {} /\ pc \in [Thread -> Pc]
  BY ProcessAssumption DEF Thread, IInv, ControlOK
<1>1. CASE UNCHANGED vars
  BY <1>1 DEF vars, list_vars, Pending
<1>2. CASE \E t \in Admin : \/ AddStart(t) \/ DelStart(t) \/ AddCheck(t) \/ AddAlloc(t)
                          \/ AddInsert(t) \/ DelWalk(t)
  BY <1>2, AdminImplements DEF ProcessList!Next
<1>3. CASE \E t \in Thread : SpinLock(t)
  <2>1. PICK t \in Thread : SpinLock(t)
    BY <1>3
  <2>a. /\ pc[t] \in DOMAIN Section /\ pc'[t] = Section[pc[t]]
        /\ \A u \in Thread \ {t} : pc'[u] = pc[u]
        /\ protected_procs' = protected_procs /\ req' = req
    BY <1>0, <2>1, Zenon DEF SpinLock, list_vars
  <2>b. pc'[t] \in PendPc <=> pc[t] \in PendPc
    BY <2>a DEF Section, PendPc
  <2>2. /\ pc'[t] \in PendPc <=> pc[t] \in PendPc
        /\ \A u \in Thread \ {t} : pc'[u] = pc[u]
        /\ protected_procs' = protected_procs /\ req' = req
    BY <2>a, <2>b, Zenon
  <2>3. \A u \in Admin : pc'[u] \in PendPc <=> pc[u] \in PendPc
    BY <1>0, <2>2
  <2> QED BY <2>2, <2>3 DEF Pending
<1>4. CASE \E t \in Tracer : TracerStep(t)
  <2>1. (\A u \in Admin : pc'[u] = pc[u]) /\ req' = req /\ protected_procs' = protected_procs
    BY <1>0, <1>4, TracerFrame DEF list_vars
  <2> QED BY <2>1 DEF Pending
<1>5. CASE (\E c \in Task : Rename(c) \/ Fork(c) \/ TaskFree(c)) \/ (\E k \in Tunable : SetKnob(k))
  BY <1>5 DEF Rename, Fork, TaskFree, SetKnob, list_vars, Pending
<1> QED BY <1>1, <1>2, <1>3, <1>4, <1>5 DEF Next, Step, ThreadStep, TracerStep

(* Every change of the list of protected processes is one GuardedList makes,    *)
(* whatever the threads and the capacity.                                   *)
THEOREM ListImplemented == Spec => ImplementsList
BY InitImplements, NextImplements, Invariance, PTL
   DEF Spec, ImplementsList, ProcessList!Spec

Bounds == INSTANCE GuardedListProofs WITH
    list <- protected_procs,
    pending <- [t \in Admin |->
                   IF pc[t] \in {"add_alloc", "add_relock", "add_insert"} THEN req[t] ELSE NoEntry],
    Key <- Entry, NoKey <- NoEntry, Capacity <- AEGIS_MAX_PROTECTED_PROCS

(* It is the same abstract list that GuardedListProofs is about.            *)
LEMMA SameList ==
    /\ ProcessList!Init => Bounds!Init
    /\ [ProcessList!Next]_(ProcessList!vars) => [Bounds!Next]_(Bounds!vars)
    /\ Bounds!Bounded => ListBounded
<1>1. \A S : Bounds!Cardinality(S) = ProcessList!Cardinality(S)
  BY DEF Bounds!Cardinality, ProcessList!Cardinality
<1>2. Bounds!Bounded => ListBounded
  BY <1>1 DEF ListBounded, Bounds!Bounded, ProcessList!Bounded, Bounds!Copies, ProcessList!Copies
<1>3. ProcessList!Init => Bounds!Init
  BY DEF Bounds!Init, ProcessList!Init
<1>4. [ProcessList!Next]_(ProcessList!vars) => [Bounds!Next]_(Bounds!vars)
  BY Zenon DEF Bounds!Next, ProcessList!Next, Bounds!vars, ProcessList!vars, Bounds!Admit,
              ProcessList!Admit, Bounds!Drop, ProcessList!Drop, Bounds!Insert,
              ProcessList!Insert, Bounds!Delete, ProcessList!Delete, Bounds!Copies,
              ProcessList!Copies
<1> QED BY <1>2, <1>3, <1>4

(* The list of protected processes outgrows AEGIS_MAX_PROTECTED_PROCS by     *)
(* fewer entries than there are administrators, and has at most one entry    *)
(* per administrator for a name and pid, however their adds race.           *)
THEOREM ListIsBounded == Spec => []ListBounded
<1>1. Bounds!Setting
  BY ProcessAssumption DEF Bounds!Setting, Bounds!IsFiniteSet, IsFiniteSet
<1>2. Bounds!Spec => []Bounds!Bounded
  BY <1>1, Bounds!ListBounded
<1>3. ProcessList!Init => Bounds!Init
  BY SameList
<1>4. [ProcessList!Next]_(ProcessList!vars) => [Bounds!Next]_(Bounds!vars)
  BY SameList
<1>5. Bounds!Bounded => ListBounded
  BY SameList
<1> QED BY <1>2, <1>3, <1>4, <1>5, ListImplemented, PTL
        DEF ImplementsList, ProcessList!Spec, Bounds!Spec
=============================================================================
