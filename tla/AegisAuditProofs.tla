-------------------------- MODULE AegisAuditProofs --------------------------
(***************************************************************************)
(* Proofs about AegisAudit, for every set of threads and every capacity.    *)
(***************************************************************************)
EXTENDS AegisAudit, TLAPS

(* list_del takes one entry off a list.                                     *)
LEMMA DelShorter ==
    ASSUME NEW S, NEW s \in Seq(S), NEW i \in 1..Len(s)
    PROVE  list_del(s, i) \in Seq(S) /\ Len(list_del(s, i)) = Len(s) - 1
<1> DEFINE pre == SubSeq(s, 1, i - 1)
           post == SubSeq(s, i + 1, Len(s))
<1>1. /\ pre \in Seq(S) /\ Len(pre) = i - 1
      /\ post \in Seq(S) /\ Len(post) = Len(s) - i /\ Len(s) \in Nat
  OBVIOUS
<1>2. ASSUME NEW p \in Seq(S), NEW q \in Seq(S)
      PROVE  p \o q \in Seq(S) /\ Len(p \o q) = Len(p) + Len(q)
  OBVIOUS
<1>3. list_del(s, i) = pre \o post
  BY DEF list_del
<1> HIDE DEF pre, post
<1>4. pre \o post \in Seq(S) /\ Len(pre \o post) = Len(pre) + Len(post)
  BY <1>1, <1>2, Zenon
<1>5. Len(pre) + Len(post) = Len(s) - 1
  BY <1>1
<1> QED BY <1>3, <1>4, <1>5, Zenon

(* Append of what is not there yet keeps a list without repetitions so.     *)
LEMMA AppendOnce ==
    ASSUME NEW S, NEW s \in Seq(S), NEW e \in S, IsInjective(s), e \notin Range(s)
    PROVE  /\ Append(s, e) \in Seq(S)
           /\ IsInjective(Append(s, e))
           /\ Range(Append(s, e)) = Range(s) \cup {e}
<1>1. /\ Append(s, e) \in Seq(S) /\ Len(Append(s, e)) = Len(s) + 1
      /\ \A i \in 1..Len(s) : Append(s, e)[i] = s[i]
      /\ Append(s, e)[Len(s) + 1] = e
  OBVIOUS
<1>2. \A i \in 1..Len(s) : s[i] # e
  BY DEF Range
<1> DEFINE r == Append(s, e)
<1>3. Len(s) \in Nat /\ DOMAIN s = 1..Len(s) /\ DOMAIN r = 1..Len(s) + 1
  OBVIOUS
<1> HIDE DEF r
<1>4. IsInjective(r)
  <2> SUFFICES ASSUME NEW i \in 1..Len(s) + 1, NEW j \in 1..Len(s) + 1, r[i] = r[j]
               PROVE  i = j
    BY <1>3 DEF IsInjective
  <2>1. CASE i \in 1..Len(s) /\ j \in 1..Len(s)
    BY <1>1, <1>3, <2>1 DEF IsInjective, r
  <2>2. CASE i = Len(s) + 1 \/ j = Len(s) + 1
    BY <1>1, <1>2, <1>3, <2>2, SMT DEF r
  <2> QED BY <1>3, <2>1, <2>2
<1>5. Range(r) = Range(s) \cup {e}
  <2>1. \A x \in Range(r) : x \in Range(s) \cup {e}
    BY <1>1, <1>3 DEF Range, r
  <2>2. \A x \in Range(s) : x \in Range(r)
    BY <1>1, <1>3 DEF Range, r
  <2>3. e \in Range(r)
    <3>1. Len(s) + 1 \in DOMAIN r
      BY <1>3
    <3> QED BY <1>1, <3>1 DEF Range, r
  <2> QED BY <2>1, <2>2, <2>3
<1>6. r = Append(s, e)
  BY DEF r
<1> QED
  BY <1>1, <1>4, <1>5, <1>6, Zenon

Pc == AdminPc \cup HookPc \cup {"admitted"}
HoldPc == {"add_check", "add_insert", "del_walk", "hook_walk"}

(* What a step without its history preserves: the types, the lock held by    *)
(* exactly the thread in a critical section, the number an administrator     *)
(* writes, the count.                                                       *)
ListOK == blocked_syscalls \in Seq(Syscall) /\ CountExact

DataOK ==
    /\ aegis_cfg \in [Knob -> BOOLEAN]
    /\ {syscall_violations, module_violations, total_events} \subseteq Nat
    /\ nr \in [Admin -> Nr \cup {NoNr}]
    /\ loading \in [Loader -> Id]

ControlOK ==
    /\ lock \in Thread \cup {NoThread}
    /\ pc \in [Thread -> Pc]
    /\ \A t \in Admin : pc[t] \in AdminPc
    /\ \A t \in Loader : pc[t] \in HookPc \cup {"idle", "admitted"}
    /\ \A t \in Thread : pc[t] \in HoldPc <=> lock = t
    /\ \A t \in Admin : pc[t] # "idle" => nr[t] \in Nr

IInv == ListOK /\ DataOK /\ ControlOK /\ no_block \subseteq Loader /\ no_deny \subseteq Loader

(* The list boot leaves has each default at most once.                      *)
LEMMA InitList ==
    Init => blocked_syscalls \in Seq(Syscall) /\ IsInjective(blocked_syscalls)
<1> SUFFICES ASSUME Init PROVE blocked_syscalls \in Seq(Syscall) /\ IsInjective(blocked_syscalls)
  OBVIOUS
<1>1. PICK added \in SUBSET Nr :
          LET add(s, i) == IF Default[i] \in added THEN Append(s, Default[i]) ELSE s
          IN  blocked_syscalls = add(add(add(add(add(<<>>, 1), 2), 3), 4), 5)
  BY DEF Init
<1> DEFINE add(s, i) == IF Default[i] \in added THEN Append(s, Default[i]) ELSE s
           new(i) == {Default[j] : j \in 1..i}
           ok(s, i) == s \in Seq(Syscall) /\ IsInjective(s) /\ Range(s) \subseteq new(i)
<1>2. \A i \in 1..5 : Default[i] \in Syscall /\ Default[i] \notin new(i - 1)
  BY DEF Default, Range, Syscall
<1>3. ASSUME NEW i \in 1..5, NEW s, ok(s, i - 1) PROVE ok(add(s, i), i)
  <2>1. new(i - 1) \subseteq new(i) /\ Default[i] \in new(i)
    OBVIOUS
  <2>2. CASE Default[i] \in added
    <3> DEFINE D == Syscall
               d == Default[i]
    <3>1. s \in Seq(D) /\ d \in D /\ IsInjective(s) /\ d \notin Range(s)
      BY <1>2, <1>3
    <3>2. add(s, i) = Append(s, d)
      BY <2>2
    <3>3. Range(s) \cup {d} \subseteq new(i)
      BY <1>3, <2>1
    <3> HIDE DEF D, d, add, new
    <3>4. /\ Append(s, d) \in Seq(D)
          /\ IsInjective(Append(s, d))
          /\ Range(Append(s, d)) = Range(s) \cup {d}
      BY <3>1, AppendOnce
    <3> QED BY <3>2, <3>3, <3>4 DEF D
  <2>3. CASE Default[i] \notin added
    BY <1>3, <2>1, <2>3
  <2> QED BY <2>2, <2>3
<1>4. ok(<<>>, 0)
  BY DEF IsInjective, Range
<1> HIDE DEF ok, add
<1>5. ok(add(add(add(add(add(<<>>, 1), 2), 3), 4), 5), 5)
  <2>1. ok(add(<<>>, 1), 1)
    BY <1>3, <1>4
  <2>2. ok(add(add(<<>>, 1), 2), 2)
    BY <1>3, <2>1
  <2>3. ok(add(add(add(<<>>, 1), 2), 3), 3)
    BY <1>3, <2>2
  <2>4. ok(add(add(add(add(<<>>, 1), 2), 3), 4), 4)
    BY <1>3, <2>3
  <2> QED BY <1>3, <2>4
<1> QED BY <1>1, <1>5, Zenon DEF ok, add

LEMMA InitIInv == Init => IInv
<1> SUFFICES ASSUME Init PROVE IInv
  OBVIOUS
<1>1. ListOK
  BY InitList DEF Init, ListOK, CountExact
<1>2. DataOK
  BY DEF Init, DataOK, Knob, Id, ReadId
<1>3. ControlOK
  BY AuditAssumption DEF Init, ControlOK, Pc, AdminPc, HookPc, HoldPc, Thread
<1> QED BY <1>1, <1>2, <1>3 DEF IInv, Init

(* A thread's move: within its own code, and out of or into a critical       *)
(* section exactly when it releases or takes the lock.                      *)
LEMMA ControlStep ==
    ASSUME ControlOK, DataOK, NEW t \in Thread, NEW from, NEW to, Goto(t, from, to),
           to \in Pc,
           t \in Admin => to \in AdminPc,
           t \in Loader => to \in HookPc \cup {"idle", "admitted"},
           \/ from \notin HoldPc /\ to \notin HoldPc /\ lock' = lock
           \/ from \in HoldPc /\ to \notin HoldPc /\ lock' = NoThread
           \/ lock = NoThread /\ to \in HoldPc /\ lock' = t,
           \/ nr' = nr /\ (t \in Admin /\ from = "idle" => to = "idle")
           \/ t \in Admin /\ \E n \in Nr : nr' = [nr EXCEPT ![t] = n]
           \/ t \in Admin /\ from # "idle" /\ Leave(t)
    PROVE  ControlOK'
<1>1. /\ pc' \in [Thread -> Pc] /\ pc[t] = from /\ pc'[t] = to
      /\ \A u \in Thread \ {t} : pc'[u] = pc[u]
  BY DEF ControlOK, Goto
<1>2. Admin \subseteq Thread /\ Loader \subseteq Thread /\ NoThread \notin Thread
  BY AuditAssumption DEF Thread
<1>3. lock' \in Thread \cup {NoThread}
  BY DEF ControlOK
<1>4. \A u \in Thread : pc'[u] \in HoldPc <=> lock' = u
  BY <1>1, <1>2 DEF ControlOK
<1>5. /\ \A u \in Admin : pc'[u] \in AdminPc
      /\ \A u \in Loader : pc'[u] \in HookPc \cup {"idle", "admitted"}
  BY <1>1, <1>2 DEF ControlOK
<1>6. \A u \in Admin : pc'[u] # "idle" => nr'[u] \in Nr
  <2>1. CASE nr' = nr \/ (t \in Admin /\ \E n \in Nr : nr' = [nr EXCEPT ![t] = n])
    BY <1>1, <1>2, <2>1 DEF ControlOK, DataOK
  <2>2. CASE t \in Admin /\ from # "idle" /\ Leave(t)
    BY <1>1, <1>2, <2>2 DEF ControlOK, DataOK, Leave
  <2> QED BY <2>1, <2>2
<1> QED BY <1>1, <1>3, <1>4, <1>5, <1>6 DEF ControlOK

(* The steps of an administrator.                                           *)
LEMMA AdminIInv ==
    ASSUME ListOK, DataOK, ControlOK, NEW t \in Admin,
           \/ AddStart(t) \/ DelStart(t) \/ AddCheck(t) \/ AddAlloc(t)
           \/ AddInsert(t) \/ DelWalk(t)
    PROVE  ListOK' /\ DataOK' /\ ControlOK'
<1> USE DEF Pc, AdminPc, HookPc, HoldPc
<1>0. t \in Thread /\ t \notin Loader
  BY AuditAssumption DEF Thread
<1>1. CASE AddStart(t) \/ DelStart(t)
  <2>1. ListOK' /\ DataOK'
    BY <1>1 DEF AddStart, DelStart, Request, ListOK, CountExact, DataOK, list_vars, stat_vars
  <2>2. ControlOK'
    BY <1>0, <1>1, ControlStep DEF AddStart, DelStart, Request
  <2> QED BY <2>1, <2>2
<1>2. CASE AddCheck(t)
  <2>1. ListOK' /\ DataOK'
    BY <1>2 DEF AddCheck, Leave, ListOK, CountExact, DataOK, list_vars, stat_vars
  <2>2. ControlOK'
    BY <1>0, <1>2, ControlStep DEF AddCheck, SpinUnlock
  <2> QED BY <2>1, <2>2
<1>3. CASE AddAlloc(t)
  <2>1. ListOK' /\ DataOK'
    BY <1>3 DEF AddAlloc, Leave, ListOK, CountExact, DataOK, list_vars, stat_vars
  <2>2. ControlOK'
    BY <1>0, <1>3, ControlStep DEF AddAlloc
  <2> QED BY <2>1, <2>2
<1>4. CASE AddInsert(t)
  <2>1. DataOK'
    BY <1>4 DEF AddInsert, Leave, DataOK, stat_vars
  <2>2. ControlOK'
    BY <1>0, <1>4, ControlStep DEF AddInsert, SpinUnlock
  <2>3. nr[t] \in Syscall
    BY <1>4 DEF AddInsert, Goto, ControlOK, Syscall
  <2>4. ListOK'
    BY <1>4, <2>3 DEF AddInsert, ListOK, CountExact
  <2> QED BY <2>1, <2>2, <2>4
<1>5. CASE DelWalk(t)
  <2>1. DataOK'
    BY <1>5 DEF DelWalk, Leave, DataOK, stat_vars
  <2>2. ControlOK'
    BY <1>0, <1>5, ControlStep DEF DelWalk, SpinUnlock
  <2>3. ListOK'
    <3>1. CASE UNCHANGED list_vars
      BY <3>1 DEF ListOK, CountExact, list_vars
    <3>2. ASSUME NEW i \in FirstAt(blocked_syscalls, nr[t]),
                 blocked_syscalls' = list_del(blocked_syscalls, i),
                 blocked_syscall_count' = blocked_syscall_count - 1
          PROVE  ListOK'
      <4>1. i \in 1..Len(blocked_syscalls)
        BY DEF FirstAt, ListOK
      <4> QED BY <3>2, <4>1, DelShorter DEF ListOK, CountExact
    <3> QED BY <1>5, <3>1, <3>2, Zenon DEF DelWalk
  <2> QED BY <2>1, <2>2, <2>3
<1> QED BY <1>1, <1>2, <1>3, <1>4, <1>5

(* The steps of a loader: none of them touches the list.                    *)
LEMMA LoaderIInv ==
    ASSUME ListOK, DataOK, ControlOK, NEW t \in Loader,
           \/ LoadStart(t) \/ Exec(t) \/ HookEnabled(t) \/ HookFeature(t) \/ HookAudit(t)
           \/ HookWalk(t) \/ HookRefuse(t) \/ HookControl(t) \/ HookDenied(t)
           \/ HookDeny(t) \/ HookDenySilent(t) \/ Load(t)
    PROVE  ListOK' /\ DataOK' /\ ControlOK'
<1> USE DEF Pc, AdminPc, HookPc, HoldPc
<1>0. t \in Thread /\ t \notin Admin
  BY AuditAssumption DEF Thread
<1>1. ListOK'
  BY DEF LoadStart, Exec, HookEnabled, HookFeature, HookAudit, HookWalk, HookRefuse, HookControl,
         HookDenied, HookDeny, HookDenySilent, Load, ListOK, CountExact, list_vars
<1>2. DataOK'
  <2>1. CASE LoadStart(t)
    BY <2>1 DEF LoadStart, DataOK, stat_vars
  <2>2. CASE Exec(t) \/ HookRefuse(t) \/ HookDeny(t) \/ HookDenySilent(t)
    BY <2>2 DEF Exec, HookRefuse, HookDeny, HookDenySilent, Answered, DataOK, Id, ReadId
  <2>3. CASE \/ HookEnabled(t) \/ HookFeature(t) \/ HookAudit(t) \/ HookWalk(t)
             \/ HookControl(t) \/ HookDenied(t)
    BY <2>3 DEF HookEnabled, HookFeature, HookAudit, HookWalk, HookControl, HookDenied,
                DataOK, stat_vars
  <2>4. CASE Load(t)
    BY <2>4 DEF Load, Answered, DataOK, stat_vars, Id, ReadId
  <2> QED BY <2>1, <2>2, <2>3, <2>4
<1>3. ControlOK'
  <2>1. CASE Exec(t)
    BY <2>1 DEF Exec, ControlOK
  <2>2. CASE LoadStart(t) \/ HookEnabled(t)
    BY <1>0, <2>2, ControlStep DEF LoadStart, HookEnabled
  <2>3. CASE HookFeature(t) \/ HookAudit(t)
    BY <1>0, <2>3, ControlStep DEF HookFeature, HookAudit
  <2>4. CASE HookWalk(t)
    BY <1>0, <2>4, ControlStep, Zenon DEF HookWalk, SpinUnlock
  <2>5. CASE HookControl(t) \/ HookDenied(t)
    BY <1>0, <2>5, ControlStep DEF HookControl, HookDenied
  <2>6. CASE HookRefuse(t) \/ HookDeny(t) \/ HookDenySilent(t) \/ Load(t)
    BY <1>0, <2>6, ControlStep DEF HookRefuse, HookDeny, HookDenySilent, Load
  <2> QED BY <2>1, <2>2, <2>3, <2>4, <2>5, <2>6
<1> QED BY <1>1, <1>2, <1>3

LEMMA SpinLockIInv ==
    ASSUME ListOK, DataOK, ControlOK, NEW t \in Thread, SpinLock(t)
    PROVE  ListOK' /\ DataOK' /\ ControlOK'
<1>1. ListOK' /\ DataOK'
  BY DEF SpinLock, ListOK, CountExact, DataOK, list_vars, stat_vars
<1>2. /\ Goto(t, pc[t], Section[pc[t]])
      /\ pc[t] \in {"add_lock", "add_relock", "del_lock", "hook_lock"}
  BY DEF SpinLock, Goto, Section
<1>3. Section[pc[t]] = CASE pc[t] = "add_lock" -> "add_check"
                         [] pc[t] = "add_relock" -> "add_insert"
                         [] pc[t] = "del_lock" -> "del_walk"
                         [] pc[t] = "hook_lock" -> "hook_walk"
  BY <1>2 DEF Section
<1>4. /\ Section[pc[t]] \in HoldPc
      /\ t \in Admin => Section[pc[t]] \in AdminPc
      /\ t \in Loader => Section[pc[t]] \in HookPc
  BY <1>2, <1>3 DEF ControlOK, HoldPc, AdminPc, HookPc
<1> QED BY <1>1, <1>2, <1>4, ControlStep DEF SpinLock, Pc, HoldPc, AdminPc, HookPc

LEMMA NextIInv == IInv /\ [Next]_vars => IInv'
<1> SUFFICES ASSUME IInv, [Next]_vars PROVE IInv'
  OBVIOUS
<1>1. CASE UNCHANGED vars
  BY <1>1 DEF IInv, ListOK, CountExact, DataOK, ControlOK, vars, list_vars, stat_vars
<1>2. CASE Next
  <2>1. no_block' \subseteq Loader /\ no_deny' \subseteq Loader
    BY <1>2 DEF Next, Watch, IInv
  <2>2. ListOK' /\ DataOK' /\ ControlOK'
    <3>1. CASE \E k \in Tunable : SetKnob(k)
      BY <3>1, AuditAssumption DEF SetKnob, IInv, ListOK, CountExact, DataOK, ControlOK,
                                   list_vars, stat_vars
    <3>2. CASE \E t \in Thread : SpinLock(t)
      BY <3>2, SpinLockIInv DEF IInv
    <3>3. CASE \E t \in Admin : \/ AddStart(t) \/ DelStart(t) \/ AddCheck(t) \/ AddAlloc(t)
                                \/ AddInsert(t) \/ DelWalk(t)
      BY <3>3, AdminIInv DEF IInv
    <3>4. CASE \E t \in Loader :
                 \/ LoadStart(t) \/ Exec(t) \/ HookEnabled(t) \/ HookFeature(t) \/ HookAudit(t)
                 \/ HookWalk(t) \/ HookRefuse(t) \/ HookControl(t) \/ HookDenied(t)
                 \/ HookDeny(t) \/ HookDenySilent(t) \/ Load(t)
      BY <3>4, LoaderIInv DEF IInv
    <3> QED BY <1>2, <3>1, <3>2, <3>3, <3>4 DEF Next, Step, ThreadStep
  <2> QED BY <2>1, <2>2 DEF IInv
<1> QED BY <1>1, <1>2 DEF vars

(* The inductive invariant holds throughout.                                *)
THEOREM Invariance == Spec => []IInv
BY InitIInv, NextIInv, PTL DEF Spec

(* The types, and the lock held by exactly the thread inside one of the      *)
(* critical sections of blocked_syscalls_lock.                              *)
THEOREM TypeCorrect == Spec => []TypeOK
<1>1. IInv => TypeOK
  BY DEF IInv, ListOK, CountExact, DataOK, ControlOK, TypeOK, Pc, HoldPc
<1> QED BY <1>1, Invariance, PTL

(* blocked_syscall_count is the length of the list, whatever the number of   *)
(* administrators and loaders and however their critical sections           *)
(* interleave.                                                              *)
THEOREM CountIsExact == Spec => []CountExact
<1>1. IInv => CountExact
  BY DEF IInv, ListOK
<1> QED BY <1>1, Invariance, PTL
-----------------------------------------------------------------------------
(***************************************************************************)
(* The hooks miss nothing.  The history has every running hook that could   *)
(* be passing a moment without the prohibition; past the blocked list (past  *)
(* module control), a hook has met such a moment.                           *)
(***************************************************************************)
Seen(t) ==
    InHook(t) => /\ ~BlockInForce(loading[t]) => t \in no_block
                 /\ ~DenyInForce => t \in no_deny

Past(t) ==
    /\ pc[t] \in {"hook_control", "hook_denied", "admitted"} /\ SyscallOf(loading[t]) # NoNr
          => t \in no_block
    /\ pc[t] = "admitted" /\ ModuleControlled(loading[t]) => t \in no_deny

GuardInv == \A t \in Loader : Seen(t) /\ Past(t)

(* What Watch keeps.                                                        *)
LEMMA WatchKeeps ==
    ASSUME Watch, NEW t \in Loader
    PROVE  /\ Seen(t)'
           /\ pc[t] # "idle" /\ pc'[t] # "idle" =>
                 (t \in no_block => t \in no_block') /\ (t \in no_deny => t \in no_deny')
<1>1. InHook(t)' /\ ~BlockInForce(loading[t])' => t \in no_block'
  BY DEF Watch
<1>2. InHook(t)' /\ ~DenyInForce' => t \in no_deny'
  BY DEF Watch
<1>3. pc[t] # "idle" /\ pc'[t] # "idle" =>
          (t \in no_block => t \in no_block') /\ (t \in no_deny => t \in no_deny')
  BY DEF Watch
<1> QED BY <1>1, <1>2, <1>3 DEF Seen

(* A loader that does not move stays past what it is past.                  *)
LEMMA RestKeepsPast ==
    ASSUME NEW t \in Loader, Past(t), Watch, pc'[t] = pc[t], loading'[t] = loading[t]
    PROVE  Past(t)'
BY WatchKeeps DEF Past

(* One that moves got past because the prohibition was not in force.        *)
LEMMA MoveKeepsPast ==
    ASSUME IInv, Watch, NEW t \in Loader, Seen(t), Past(t),
           \/ LoadStart(t) \/ HookEnabled(t) \/ HookFeature(t) \/ HookAudit(t)
           \/ HookWalk(t) \/ HookRefuse(t) \/ HookControl(t) \/ HookDenied(t)
           \/ HookDeny(t) \/ HookDenySilent(t) \/ Load(t)
    PROVE  Past(t)'
<1>0. t \in Thread /\ DOMAIN pc = Thread
  BY DEF Thread, IInv, ControlOK
<1>1. CASE LoadStart(t)
  BY <1>0, <1>1 DEF LoadStart, Goto, Past
<1>2. CASE HookEnabled(t)
  <2>1. loading' = loading /\ pc[t] = "hook_enabled" /\ InHook(t)
    BY <1>2 DEF HookEnabled, Goto, InHook
  <2>2. CASE ~aegis_cfg["enabled"]
    <3>1. t \in no_block /\ t \in no_deny
      BY <2>1, <2>2, Zenon DEF Seen, BlockInForce, DenyInForce, On
    <3>2. pc'[t] = "admitted"
      BY <1>0, <1>2, <2>2 DEF HookEnabled, Goto
    <3> QED BY <2>1, <3>1, <3>2, WatchKeeps DEF Past
  <2>3. CASE aegis_cfg["enabled"]
    BY <1>0, <1>2, <2>1, <2>3 DEF HookEnabled, Goto, Past
  <2> QED BY <2>2, <2>3
<1>3. CASE HookFeature(t) \/ HookAudit(t) \/ HookWalk(t)
  <2>1. loading' = loading /\ pc[t] # "idle" /\ InHook(t) /\ pc'[t] # "idle" /\ pc'[t] # "admitted"
    BY <1>0, <1>3 DEF HookFeature, HookAudit, HookWalk, Goto, InHook
  <2>2. pc'[t] = "hook_control" => ~BlockInForce(loading[t])
    BY <1>0, <1>3 DEF HookFeature, HookAudit, HookWalk, Goto, BlockInForce
  <2>3. pc'[t] # "hook_denied"
    BY <1>0, <1>3 DEF HookFeature, HookAudit, HookWalk, Goto
  <2>4. pc'[t] = "hook_control" => t \in no_block'
    BY <2>1, <2>2, WatchKeeps, Zenon DEF Seen
  <2> QED BY <2>1, <2>3, <2>4, Zenon DEF Past
<1>4. CASE HookControl(t) \/ HookDenied(t)
  <2>1. /\ loading' = loading /\ InHook(t) /\ pc'[t] # "idle"
        /\ pc[t] \in {"hook_control", "hook_denied"}
    BY <1>0, <1>4 DEF HookControl, HookDenied, Goto, InHook
  <2>2. SyscallOf(loading[t]) # NoNr => t \in no_block'
    BY <2>1, WatchKeeps, Zenon DEF Past
  <2>3. pc'[t] = "admitted" /\ ModuleControlled(loading[t]) => ~DenyInForce
    <3>1. CASE HookControl(t)
      BY <1>0, <3>1 DEF HookControl, Goto, DenyInForce
    <3>2. CASE HookDenied(t)
      BY <1>0, <3>2 DEF HookDenied, Goto, DenyInForce
    <3> QED BY <1>4, <3>1, <3>2, Zenon
  <2>4. pc'[t] = "admitted" /\ ModuleControlled(loading[t]) => t \in no_deny'
    BY <2>1, <2>3, WatchKeeps, Zenon DEF Seen
  <2> QED BY <2>1, <2>2, <2>4, Zenon DEF Past
<1>5. CASE HookRefuse(t) \/ HookDeny(t) \/ HookDenySilent(t) \/ Load(t)
  BY <1>0, <1>5, SMTT(30) DEF HookRefuse, HookDeny, HookDenySilent, Load, Goto, Past
<1> QED BY <1>1, <1>2, <1>3, <1>4, <1>5

(* Everything but a loader's own hook leaves the loader where it is.        *)
LEMMA OthersRest ==
    ASSUME IInv, NEW t \in Loader,
           \/ \E u \in Admin : \/ AddStart(u) \/ DelStart(u) \/ AddCheck(u) \/ AddAlloc(u)
                              \/ AddInsert(u) \/ DelWalk(u)
           \/ \E u \in Loader : Exec(u)
           \/ \E u \in Loader \ {t} :
                 \/ LoadStart(u) \/ HookEnabled(u) \/ HookFeature(u) \/ HookAudit(u)
                 \/ HookWalk(u) \/ HookRefuse(u) \/ HookControl(u) \/ HookDenied(u)
                 \/ HookDeny(u) \/ HookDenySilent(u) \/ Load(u)
           \/ \E k \in Tunable : SetKnob(k)
    PROVE  pc'[t] = pc[t] /\ loading'[t] = loading[t]
<1>0. /\ t \in Thread /\ t \notin Admin /\ Admin \subseteq Thread /\ Loader \subseteq Thread
      /\ pc \in [Thread -> Pc] /\ loading \in [Loader -> Id]
  BY AuditAssumption DEF Thread, IInv, ControlOK, DataOK
<1>1. CASE \E u \in Admin : \/ AddStart(u) \/ DelStart(u) \/ AddCheck(u) \/ AddAlloc(u)
                          \/ AddInsert(u) \/ DelWalk(u)
  BY <1>0, <1>1 DEF AddStart, DelStart, Request, AddCheck, AddAlloc, AddInsert, DelWalk, Goto
<1>2. CASE (\E u \in Loader : Exec(u)) \/ (\E k \in Tunable : SetKnob(k))
  BY <1>2, Zenon DEF Exec, SetKnob
<1>3. CASE \E u \in Loader \ {t} :
                 \/ LoadStart(u) \/ HookEnabled(u) \/ HookFeature(u) \/ HookAudit(u)
                 \/ HookWalk(u) \/ HookRefuse(u) \/ HookControl(u) \/ HookDenied(u)
                 \/ HookDeny(u) \/ HookDenySilent(u) \/ Load(u)
  BY <1>0, <1>3, Zenon DEF LoadStart, HookEnabled, HookFeature, HookAudit, HookWalk, HookRefuse,
                    HookControl, HookDenied, HookDeny, HookDenySilent, Load, Goto, Answered
<1> QED BY <1>1, <1>2, <1>3, Zenon

(* Taking the lock is not getting past anything.                            *)
LEMMA SpinLockKeepsPast ==
    ASSUME IInv, Watch, NEW t \in Loader, Past(t), NEW u \in Thread, SpinLock(u)
    PROVE  Past(t)'
<1>0. t \in Thread /\ pc \in [Thread -> Pc] /\ loading' = loading
  BY Zenon DEF Thread, IInv, ControlOK, SpinLock
<1>1. CASE u = t
  <2>1. pc'[t] = Section[pc[t]] /\ pc[t] \in DOMAIN Section
    BY <1>0, <1>1, Zenon DEF SpinLock
  <2>2. pc'[t] \in {"add_check", "add_insert", "del_walk", "hook_walk"}
    BY <2>1 DEF Section
  <2> QED BY <2>2 DEF Past
<1>2. CASE u # t
  BY <1>0, <1>2, RestKeepsPast DEF SpinLock
<1> QED BY <1>1, <1>2

LEMMA GuardNext == IInv /\ GuardInv /\ [Next]_vars => GuardInv'
<1> SUFFICES ASSUME IInv, GuardInv, [Next]_vars, NEW t \in Loader PROVE Seen(t)' /\ Past(t)'
  BY DEF GuardInv
<1>0. Seen(t) /\ Past(t)
  BY DEF GuardInv
<1>1. CASE UNCHANGED vars
  BY <1>0, <1>1 DEF Seen, Past, InHook, BlockInForce, DenyInForce, On, Blocked, vars, list_vars
<1>2. CASE Next
  <2>0. Watch /\ Seen(t)'
    BY <1>2, WatchKeeps DEF Next
  <2>1. CASE \E u \in Thread : SpinLock(u)
    BY <1>0, <2>0, <2>1, SpinLockKeepsPast
  <2>2. CASE \/ LoadStart(t) \/ HookEnabled(t) \/ HookFeature(t) \/ HookAudit(t)
             \/ HookWalk(t) \/ HookRefuse(t) \/ HookControl(t) \/ HookDenied(t)
             \/ HookDeny(t) \/ HookDenySilent(t) \/ Load(t)
    BY <1>0, <2>0, <2>2, MoveKeepsPast
  <2>3. CASE \/ \E u \in Admin : \/ AddStart(u) \/ DelStart(u) \/ AddCheck(u) \/ AddAlloc(u)
                                \/ AddInsert(u) \/ DelWalk(u)
             \/ \E u \in Loader : Exec(u)
             \/ \E u \in Loader \ {t} :
                   \/ LoadStart(u) \/ HookEnabled(u) \/ HookFeature(u) \/ HookAudit(u)
                   \/ HookWalk(u) \/ HookRefuse(u) \/ HookControl(u) \/ HookDenied(u)
                   \/ HookDeny(u) \/ HookDenySilent(u) \/ Load(u)
             \/ \E k \in Tunable : SetKnob(k)
    BY <1>0, <2>0, <2>3, OthersRest, RestKeepsPast, Zenon
  <2> QED BY <1>2, <2>0, <2>1, <2>2, <2>3, Zenon DEF Next, Step, ThreadStep
<1> QED BY <1>1, <1>2 DEF vars

LEMMA GuardInit == Init => GuardInv
BY DEF Init, GuardInv, Seen, Past, InHook, Thread

(* The blocked list keeps out every load it forbids all along, whether or    *)
(* not module control is on; for any number of loaders, administrators and   *)
(* sysctl writes.                                                           *)
THEOREM BlockedStaysOut == Spec => []LoadNotBlocked
<1>1. GuardInv => LoadNotBlocked
  BY DEF GuardInv, Past, LoadNotBlocked
<1> QED BY <1>1, GuardInit, GuardNext, Invariance, PTL DEF Spec

(* module_loading_denied keeps out what it covers.                          *)
THEOREM DeniedStaysOut == Spec => []LoadNotDenied
<1>1. GuardInv => LoadNotDenied
  BY DEF GuardInv, Past, LoadNotDenied
<1> QED BY <1>1, GuardInit, GuardNext, Invariance, PTL DEF Spec
-----------------------------------------------------------------------------
(***************************************************************************)
(* The list is a GuardedList: its pending additions are those between the   *)
(* tests of aegis_syscall_block_add and its insertion.                      *)
(***************************************************************************)
PendPc == {"add_alloc", "add_relock", "add_insert"}
Pending == [t \in Admin |-> IF pc[t] \in PendPc THEN nr[t] ELSE NoNr]

(* An administrator's move changes at most what that administrator has       *)
(* pending.                                                                 *)
LEMMA PendingStep ==
    ASSUME IInv, NEW t \in Admin, NEW from, NEW to, Goto(t, from, to),
           \/ nr' = nr
           \/ to \notin PendPc /\ \E n : nr' = [nr EXCEPT ![t] = n]
           \/ Leave(t)
    PROVE  /\ Pending[t] = IF from \in PendPc THEN nr[t] ELSE NoNr
           /\ Pending' = [Pending EXCEPT ![t] = IF to \in PendPc THEN nr[t] ELSE NoNr]
<1>1. /\ pc[t] = from /\ pc'[t] = to
      /\ \A u \in Admin \ {t} : pc'[u] = pc[u] /\ nr'[u] = nr[u]
      /\ to \in PendPc => nr'[t] = nr[t]
  BY DEF Goto, Leave, IInv, ControlOK, DataOK, Thread, PendPc
<1> QED BY <1>1, Zenon DEF Pending

LEMMA InitImplements == Init => SyscallList!Init
<1> SUFFICES ASSUME Init PROVE SyscallList!Init
  OBVIOUS
<1>1. Pending = [a \in Admin |-> NoNr]
  BY DEF Init, Pending, PendPc, Thread
<1>2. Len(blocked_syscalls) <= AEGIS_MAX_BLOCKED_SYSCALLS
  BY DEF Init
<1> QED BY <1>1, <1>2, InitList
       DEF SyscallList!Init, IsInjective, Pending, PendPc

(* An administrator's step is a step of the abstract list or invisible in    *)
(* it.                                                                      *)
LEMMA AdminImplements ==
    ASSUME IInv, NEW t \in Admin,
           \/ AddStart(t) \/ DelStart(t) \/ AddCheck(t) \/ AddAlloc(t)
           \/ AddInsert(t) \/ DelWalk(t)
    PROVE  \/ \E a \in Admin : \/ \E k \in Syscall : SyscallList!Admit(a, k)
                             \/ SyscallList!Drop(a) \/ SyscallList!Insert(a)
           \/ \E k \in Syscall : SyscallList!Delete(k)
           \/ blocked_syscalls' = blocked_syscalls /\ Pending' = Pending
<1>0. /\ pc[t] # "idle" => nr[t] \in Syscall /\ nr[t] # NoNr
      /\ Pending \in [Admin -> Syscall \cup {NoNr}]
  BY AuditAssumption, Zenon DEF IInv, ControlOK, Pending, PendPc, Syscall
<1>1. CASE AddStart(t) \/ DelStart(t)
  <2>1. Pending[t] = NoNr /\ Pending' = [Pending EXCEPT ![t] = NoNr]
    BY <1>1, PendingStep DEF AddStart, DelStart, Request, PendPc
  <2> QED BY <1>0, <1>1, <2>1 DEF AddStart, DelStart, Request, list_vars
<1>2. CASE AddCheck(t)
  <2> DEFINE full == blocked_syscall_count >= AEGIS_MAX_BLOCKED_SYSCALLS
  <2>1. CASE full \/ Blocked(nr[t])
    <3>1. Pending[t] = NoNr /\ Pending' = [Pending EXCEPT ![t] = NoNr]
      BY <1>2, <2>1, PendingStep DEF AddCheck, PendPc
    <3> QED BY <1>0, <1>2, <3>1, Zenon DEF AddCheck, list_vars
  <2>2. CASE ~full /\ ~Blocked(nr[t])
    <3>1. Pending[t] = NoNr /\ Pending' = [Pending EXCEPT ![t] = nr[t]]
      BY <1>2, <2>2, PendingStep DEF AddCheck, PendPc
    <3>2. Len(blocked_syscalls) < AEGIS_MAX_BLOCKED_SYSCALLS
      BY <2>2, AuditAssumption DEF IInv, ListOK, CountExact
    <3>3. \A i \in 1..Len(blocked_syscalls) : blocked_syscalls[i] # nr[t]
      BY <2>2 DEF Blocked, Range
    <3>4. blocked_syscalls' = blocked_syscalls /\ pc[t] = "add_check"
      BY <1>2 DEF AddCheck, list_vars, Goto
    <3>5. PICK n \in Syscall : n = nr[t]
      BY <1>0, <3>4
    <3>6. SyscallList!Admit(t, n)
      BY <3>1, <3>2, <3>3, <3>4, <3>5 DEF SyscallList!Admit, SyscallList!Copies, Pending, PendPc
    <3> QED BY <3>6
  <2> QED BY <2>1, <2>2, SMTT(30)
<1>3. CASE AddAlloc(t)
  <2>1. PICK l \in {"idle", "add_relock"} : Goto(t, "add_alloc", l)
    BY <1>3 DEF AddAlloc
  <2>2. blocked_syscalls' = blocked_syscalls /\ Leave(t) /\ pc[t] = "add_alloc"
    BY <1>3 DEF AddAlloc, list_vars, Goto
  <2>3. /\ Pending[t] = nr[t]
        /\ Pending' = [Pending EXCEPT ![t] = IF l \in PendPc THEN nr[t] ELSE NoNr]
    BY <2>1, <2>2, PendingStep DEF PendPc
  <2>4. CASE l = "add_relock"
    BY <1>0, <2>2, <2>3, <2>4, Zenon DEF PendPc
  <2>5. CASE l = "idle"
    <3>1. SyscallList!Drop(t)
      BY <1>0, <2>2, <2>3, <2>5, Zenon DEF SyscallList!Drop, Pending, PendPc
    <3> QED BY <3>1, SMTT(30)
  <2> QED BY <2>1, <2>4, <2>5
<1>4. CASE AddInsert(t)
  <2>1. Pending[t] = nr[t] /\ Pending' = [Pending EXCEPT ![t] = NoNr]
    BY <1>4, PendingStep DEF AddInsert, PendPc
  <2>2. blocked_syscalls' = Append(blocked_syscalls, nr[t]) /\ nr[t] # NoNr
    BY <1>0, <1>4, SMTT(30) DEF AddInsert, Goto
  <2>3. SyscallList!Insert(t)
    BY <2>1, <2>2, Zenon DEF SyscallList!Insert, Pending, PendPc
  <2> QED BY <2>3
<1>5. CASE DelWalk(t)
  <2>1. Pending' = Pending
    <3>1. Pending[t] = NoNr /\ Pending' = [Pending EXCEPT ![t] = NoNr]
      BY <1>5, PendingStep DEF DelWalk, PendPc
    <3> QED BY <1>0, <3>1
  <2>2. PICK n \in Syscall : n = nr[t]
    BY <1>0, <1>5 DEF DelWalk, Goto
  <2>3. ASSUME NEW i \in FirstAt(blocked_syscalls, nr[t]),
               blocked_syscalls' = list_del(blocked_syscalls, i)
        PROVE  SyscallList!Delete(n)
    <3>1. DOMAIN blocked_syscalls = 1..Len(blocked_syscalls)
      BY DEF IInv, ListOK
    <3> QED BY <2>1, <2>2, <2>3, <3>1, Zenon
            DEF SyscallList!Delete, SyscallList!Copies, FirstAt, list_del, Pending, PendPc
  <2>4. CASE UNCHANGED list_vars
    BY <2>1, <2>4 DEF list_vars
  <2> QED BY <1>5, <2>3, <2>4, Zenon DEF DelWalk
<1> QED BY <1>1, <1>2, <1>3, <1>4, <1>5, SMTT(30)

LEMMA NextImplements == IInv /\ [Next]_vars => [SyscallList!Next]_(SyscallList!vars)
<1> SUFFICES ASSUME IInv, [Next]_vars
             PROVE  \/ SyscallList!Next
                    \/ blocked_syscalls' = blocked_syscalls /\ Pending' = Pending
  BY Zenon DEF SyscallList!vars, Pending, PendPc
<1>0. Admin \subseteq Thread /\ Admin \cap Loader = {} /\ pc \in [Thread -> Pc]
  BY AuditAssumption, Zenon DEF Thread, IInv, ControlOK
<1>1. CASE UNCHANGED vars
  BY <1>1 DEF vars, list_vars, Pending
<1>2. CASE \E t \in Admin : \/ AddStart(t) \/ DelStart(t) \/ AddCheck(t) \/ AddAlloc(t)
                          \/ AddInsert(t) \/ DelWalk(t)
  BY <1>2, AdminImplements DEF SyscallList!Next
<1>3. CASE \E t \in Thread : SpinLock(t)
  <2>1. PICK t \in Thread : SpinLock(t)
    BY <1>3
  <2>2. /\ pc'[t] \in PendPc <=> pc[t] \in PendPc
        /\ \A u \in Thread \ {t} : pc'[u] = pc[u]
        /\ blocked_syscalls' = blocked_syscalls /\ nr' = nr
    BY <1>0, <2>1 DEF SpinLock, Section, PendPc, list_vars
  <2>3. \A u \in Admin : pc'[u] \in PendPc <=> pc[u] \in PendPc
    BY <1>0, <2>2
  <2> QED BY <2>2, <2>3 DEF Pending
<1>4. CASE \E t \in Loader :
             \/ LoadStart(t) \/ HookEnabled(t) \/ HookFeature(t) \/ HookAudit(t)
             \/ HookWalk(t) \/ HookRefuse(t) \/ HookControl(t) \/ HookDenied(t)
             \/ HookDeny(t) \/ HookDenySilent(t) \/ Load(t)
  <2>1. (\A u \in Admin : pc'[u] = pc[u]) /\ nr' = nr /\ blocked_syscalls' = blocked_syscalls
    BY <1>0, <1>4, Zenon DEF LoadStart, HookEnabled, HookFeature, HookAudit, HookWalk, HookRefuse,
                      HookControl, HookDenied, HookDeny, HookDenySilent, Load, Goto, list_vars
  <2> QED BY <2>1 DEF Pending
<1>5. CASE (\E t \in Loader : Exec(t)) \/ (\E k \in Tunable : SetKnob(k))
  BY <1>5, Zenon DEF Exec, SetKnob, list_vars, Pending
<1> QED BY <1>1, <1>2, <1>3, <1>4, <1>5 DEF Next, Step, ThreadStep

(* Every change of the list of blocked syscalls is one GuardedList makes,    *)
(* whatever the threads and the capacity.                                   *)
THEOREM ListImplemented == Spec => ImplementsList
BY InitImplements, NextImplements, Invariance, PTL
   DEF Spec, ImplementsList, SyscallList!Spec

Bounds == INSTANCE GuardedListProofs WITH
    list <- blocked_syscalls,
    pending <- [t \in Admin |->
                   IF pc[t] \in {"add_alloc", "add_relock", "add_insert"} THEN nr[t] ELSE NoNr],
    Key <- Syscall, NoKey <- NoNr, Capacity <- AEGIS_MAX_BLOCKED_SYSCALLS

(* It is the same abstract list that GuardedListProofs is about.            *)
LEMMA SameList ==
    /\ SyscallList!Init => Bounds!Init
    /\ [SyscallList!Next]_(SyscallList!vars) => [Bounds!Next]_(Bounds!vars)
    /\ Bounds!Bounded => ListBounded
<1>1. \A S : Bounds!Cardinality(S) = SyscallList!Cardinality(S)
  BY DEF Bounds!Cardinality, SyscallList!Cardinality
<1>2. Bounds!Bounded => ListBounded
  BY <1>1 DEF ListBounded, Bounds!Bounded, SyscallList!Bounded, Bounds!Copies, SyscallList!Copies
<1>3. SyscallList!Init => Bounds!Init
  BY DEF Bounds!Init, SyscallList!Init
<1>4. [SyscallList!Next]_(SyscallList!vars) => [Bounds!Next]_(Bounds!vars)
  BY Zenon DEF Bounds!Next, SyscallList!Next, Bounds!vars, SyscallList!vars, Bounds!Admit,
              SyscallList!Admit, Bounds!Drop, SyscallList!Drop, Bounds!Insert,
              SyscallList!Insert, Bounds!Delete, SyscallList!Delete, Bounds!Copies,
              SyscallList!Copies
<1> QED BY <1>2, <1>3, <1>4

(* The bounds on the list of blocked syscalls come with the implementation.  *)
THEOREM ListIsBounded == Spec => []ListBounded
<1>1. Bounds!Setting
  BY AuditAssumption DEF Bounds!Setting, Bounds!IsFiniteSet, IsFiniteSet
<1>2. Bounds!Spec => []Bounds!Bounded
  BY <1>1, Bounds!ListBounded
<1>3. SyscallList!Init => Bounds!Init
  BY SameList
<1>4. [SyscallList!Next]_(SyscallList!vars) => [Bounds!Next]_(Bounds!vars)
  BY SameList
<1>5. Bounds!Bounded => ListBounded
  BY SameList
<1> QED BY <1>2, <1>3, <1>4, <1>5, ListImplemented, PTL
        DEF ImplementsList, SyscallList!Spec, Bounds!Spec
=============================================================================
