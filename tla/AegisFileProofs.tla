--------------------------- MODULE AegisFileProofs ---------------------------
(***************************************************************************)
(* Proofs about AegisFile, for every set of threads, names, files and       *)
(* addresses and every capacity.                                            *)
(***************************************************************************)
EXTENDS AegisFile, TLAPS

(* A list of length 0 has no positions, and Append adds one.                *)
LEMMA NoElements ==
    ASSUME NEW S, NEW s \in Seq(S), Len(s) = 0
    PROVE  DOMAIN s = {}
<1>1. DOMAIN s = 1..Len(s) /\ 1..0 = {}
  OBVIOUS
<1> QED BY <1>1, Zenon

LEMMA AppendElements ==
    ASSUME NEW S, NEW s \in Seq(S), NEW e \in S
    PROVE  /\ Append(s, e) \in Seq(S) /\ Len(Append(s, e)) = Len(s) + 1
           /\ DOMAIN Append(s, e) = 1..Len(s) + 1
           /\ Append(s, e)[Len(s) + 1] = e /\ Len(s) \in Nat
           /\ \A i \in 1..Len(s) : Append(s, e)[i] = s[i]
OBVIOUS

(* What is left when the entry at i goes.                                   *)
LEMMA DelElements ==
    ASSUME NEW S, NEW s \in Seq(S), NEW i \in 1..Len(s)
    PROVE  /\ list_del(s, i) \in Seq(S)
           /\ Len(list_del(s, i)) = Len(s) - 1
           /\ \A j \in 1..Len(s) - 1 :
                 list_del(s, i)[j] = IF j < i THEN s[j] ELSE s[j + 1]
<1>0. ASSUME NEW p \in Seq(S), NEW q \in Seq(S)
      PROVE  /\ p \o q \in Seq(S) /\ Len(p \o q) = Len(p) + Len(q)
             /\ \A j \in 1..Len(p) + Len(q) :
                   (p \o q)[j] = IF j <= Len(p) THEN p[j] ELSE q[j - Len(p)]
  OBVIOUS
<1> DEFINE pre == SubSeq(s, 1, i - 1)
           post == SubSeq(s, i + 1, Len(s))
           r == list_del(s, i)
<1>1. r = pre \o post
  BY DEF list_del
<1>2. /\ pre \in Seq(S) /\ Len(pre) = i - 1 /\ \A j \in 1..(i - 1) : pre[j] = s[j]
      /\ post \in Seq(S) /\ Len(post) = Len(s) - i
      /\ \A j \in 1..(Len(s) - i) : post[j] = s[i + j]
  BY SMT
<1> HIDE DEF pre, post, r
<1>3. /\ r \in Seq(S) /\ Len(r) = Len(pre) + Len(post)
      /\ \A j \in 1..Len(pre) + Len(post) :
            r[j] = IF j <= Len(pre) THEN pre[j] ELSE post[j - Len(pre)]
  BY <1>0, <1>1, <1>2, Zenon
<1>4. Len(s) \in Nat /\ Len(r) = Len(s) - 1
  BY <1>2, <1>3, SMT
<1>5. ASSUME NEW j \in 1..Len(s) - 1 PROVE r[j] = IF j < i THEN s[j] ELSE s[j + 1]
  <2>1. j \in 1..Len(pre) + Len(post)
    BY <1>2, <1>4, SMT
  <2>2. CASE j < i
    <3>1. j <= Len(pre) /\ j \in 1..(i - 1)
      BY <1>2, <2>2, SMT
    <3> QED BY <1>2, <1>3, <2>1, <2>2, <3>1, Zenon
  <2>3. CASE ~(j < i)
    <3>1. r[j] = post[j - Len(pre)]
      BY <1>2, <1>3, <2>1, <2>3, SMT
    <3>2. j - Len(pre) \in 1..(Len(s) - i) /\ i + (j - Len(pre)) = j + 1
      BY <1>2, <1>4, <2>3, SMT
    <3> QED BY <1>2, <2>3, <3>1, <3>2
  <2> QED BY <2>2, <2>3
<1> QED BY <1>3, <1>4, <1>5 DEF r

(* What list_del does to a list without repetitions: it loses one entry and *)
(* keeps the others, each once.                                             *)
LEMMA DelProperties ==
    ASSUME NEW s \in Seq(Addr), NEW i \in 1..Len(s), IsInjective(s)
    PROVE  /\ list_del(s, i) \in Seq(Addr)
           /\ Len(list_del(s, i)) = Len(s) - 1
           /\ \A j \in 1..(Len(s) - 1) :
                 list_del(s, i)[j] = IF j < i THEN s[j] ELSE s[j + 1]
           /\ IsInjective(list_del(s, i))
           /\ Range(list_del(s, i)) = Range(s) \ {s[i]}
<1> DEFINE r == list_del(s, i)
<1>1. /\ r \in Seq(Addr)
      /\ Len(r) = Len(s) - 1
      /\ \A j \in 1..(Len(s) - 1) : r[j] = IF j < i THEN s[j] ELSE s[j + 1]
  BY DelElements, Zenon
<1> HIDE DEF r
<1>2. IsInjective(r)
  <2> SUFFICES ASSUME NEW j \in 1..(Len(s) - 1), NEW k \in 1..(Len(s) - 1), r[j] = r[k]
               PROVE  j = k
    BY <1>1 DEF IsInjective
  <2> DEFINE at(m) == IF m < i THEN m ELSE m + 1
  <2>1. at(j) \in DOMAIN s /\ at(k) \in DOMAIN s /\ s[at(j)] = r[j] /\ s[at(k)] = r[k]
    BY <1>1, SMT
  <2>2. at(j) = at(k)
    BY <2>1 DEF IsInjective
  <2> QED BY <2>2, SMT
<1>3. Range(r) \subseteq Range(s) \ {s[i]}
  BY <1>1, SMT DEF Range, IsInjective
<1>4. ASSUME NEW k \in 1..Len(s), k # i
      PROVE  s[k] \in Range(r)
  <2>1. CASE k < i
    BY <1>1, <2>1, SMT DEF Range
  <2>2. CASE k > i
    BY <1>1, <2>2, k - 1 \in DOMAIN r, r[k - 1] = s[k], SMT DEF Range
  <2> QED BY <1>4, <2>1, <2>2, SMT
<1>5. Range(s) \ {s[i]} \subseteq Range(r)
  BY <1>4 DEF Range
<1> QED BY <1>1, <1>2, <1>3, <1>5 DEF r

-----------------------------------------------------------------------------
(* The inductive invariant behind the results below.  TypeOK alone is not    *)
(* inductive: that AddHash writes into an entry, and not into freed memory,  *)
(* is what EntriesAccounted says.                                            *)
IInv == TypeOK /\ EntriesAccounted /\ CountExact

(* TypeOK in three parts: where the threads are and who has the lock, the    *)
(* locals each point needs, and the values of the variables.                 *)
PcOK ==
    /\ pc \in [Thread -> AdminPc \cup ViewerPc \cup TaskPc]
    /\ \A t \in Admin : pc[t] \in AdminPc
    /\ \A t \in Viewer : pc[t] \in ViewerPc
    /\ \A t \in Task : pc[t] \in TaskPc
    /\ \A t \in Thread : pc[t] \in LockPc <=> lock = t

LocOK ==
    /\ \A t \in Admin : pc[t] # "idle" => path[t] \in Name
    /\ \A t \in Admin : pc[t] \in HoldPc => file[t] \in Addr
    /\ \A t \in Caller : pc[t] \in CallPc => target[t] \in File

ListOK ==
    /\ protected_files \in Seq(Addr)
    /\ heap \in [Addr -> Entry \cup {Free}]
    /\ protected_file_count \in Int

ValOK ==
    /\ lock \in Thread \cup {NoThread}
    /\ aegis_cfg \in [Knob -> BOOLEAN]
    /\ file_violations \in Nat /\ total_events \in Nat
    /\ disk \in [File -> Nat]
    /\ path \in [Admin -> Name \cup {NoName}]
    /\ file \in [Admin -> Addr \cup {NULL}]
    /\ target \in [Caller -> File \cup {NoFile}]
    /\ mask \in [Caller -> SUBSET Mask]
    /\ writing \in [Caller -> BOOLEAN]
    /\ header \in [Viewer -> Int]
    /\ blind \subseteq Caller
    /\ gap \subseteq Task

LEMMA IInvParts ==
    IInv <=> PcOK /\ LocOK /\ ListOK /\ ValOK /\ EntriesAccounted /\ CountExact
BY DEF IInv, TypeOK, PcOK, LocOK, ListOK, ValOK

LEMMA IInvPartsPrimed ==
    IInv' <=> PcOK' /\ LocOK' /\ ListOK' /\ ValOK' /\ EntriesAccounted' /\ CountExact'
BY DEF IInv, TypeOK, PcOK, LocOK, ListOK, ValOK

(* The initial state.                                                        *)
LEMMA InitIInv == Init => IInv
<1> SUFFICES ASSUME Init PROVE IInv
  OBVIOUS
<1> USE FileAssumption DEF Init
<1>1. TypeOK
  BY DEF TypeOK, Thread, Caller, Knob, Entry, AdminPc, ViewerPc, TaskPc, HookPc,
         HoldPc, CallPc, LockPc
<1>2. EntriesAccounted
  BY DEF EntriesAccounted, IsInjective, Range, Holds, HoldPc, HookPc, Thread
<1>3. CountExact
  BY DEF CountExact
<1> QED BY <1>1, <1>2, <1>3 DEF IInv

(* A thread moves to a point of its own functions, and takes, keeps or gives *)
(* up the lock as that point wants it.                                       *)
LEMMA PcStep ==
    ASSUME PcOK, NEW t \in Thread,
           pc' = [pc EXCEPT ![t] = pc'[t]],
           t \in Admin => pc'[t] \in AdminPc,
           t \in Viewer => pc'[t] \in ViewerPc,
           t \in Task => pc'[t] \in TaskPc,
           \/ UNCHANGED lock /\ (pc[t] \in LockPc <=> pc'[t] \in LockPc)
           \/ lock = NoThread /\ lock' = t /\ pc'[t] \in LockPc
           \/ lock' = NoThread /\ pc[t] \in LockPc /\ pc'[t] \notin LockPc
    PROVE  PcOK'
<1> USE FileAssumption
<1>1. /\ pc' \in [Thread -> AdminPc \cup ViewerPc \cup TaskPc]
      /\ \A u \in Admin : pc'[u] \in AdminPc
      /\ \A u \in Viewer : pc'[u] \in ViewerPc
      /\ \A u \in Task : pc'[u] \in TaskPc
  BY DEF PcOK, Thread
<1>2. \A u \in Thread : pc'[u] \in LockPc <=> lock' = u
  BY DEF PcOK
<1> QED BY <1>1, <1>2 DEF PcOK

(* The locals of the other threads stay, those of the moving thread fit the  *)
(* point it moves to.                                                        *)
LEMMA LocStep ==
    ASSUME PcOK, LocOK, NEW t \in Thread,
           pc' = [pc EXCEPT ![t] = pc'[t]],
           \A u \in Admin \ {t} : path'[u] = path[u] /\ file'[u] = file[u],
           \A u \in Caller \ {t} : target'[u] = target[u],
           t \in Admin => /\ pc'[t] # "idle" => path'[t] \in Name
                          /\ pc'[t] \in HoldPc => file'[t] \in Addr,
           t \in Caller => (pc'[t] \in CallPc => target'[t] \in File)
    PROVE  LocOK'
BY DEF PcOK, LocOK, Thread, Caller

(* The accounts without the shape of the list, for steps that only count.    *)
LEMMA Accounts ==
    ASSUME EntriesAccounted
    PROVE  /\ \A b \in Addr : heap[b] # Free <=>
                 b \in Range(protected_files) \/ \E u \in Admin : Holds(u, b)
           /\ \A u \in Admin, b \in Addr : Holds(u, b) =>
                 /\ b \notin Range(protected_files)
                 /\ \A v \in Admin \ {u} : ~Holds(v, b)
BY DEF EntriesAccounted

(* A step that leaves the list, the heap and the pointers alone, and moves   *)
(* no add into or out of the stretch where it owns an entry, keeps the       *)
(* accounts.                                                                 *)
LEMMA AccountsFrame ==
    ASSUME PcOK, ListOK, EntriesAccounted, CountExact, NEW t \in Thread,
           pc' = [pc EXCEPT ![t] = pc'[t]],
           UNCHANGED <<list_vars, file>>,
           t \in Admin => (pc'[t] \in HoldPc <=> pc[t] \in HoldPc)
    PROVE  ListOK' /\ EntriesAccounted' /\ CountExact'
<1>1. \A u \in Admin : pc'[u] \in HoldPc <=> pc[u] \in HoldPc
  BY DEF PcOK, Thread
<1> QED BY <1>1 DEF ListOK, EntriesAccounted, CountExact, list_vars, Holds

(* All a step has to show when it leaves the list alone.                     *)
LEMMA QuietStep ==
    ASSUME IInv, NEW t \in Thread,
           pc' = [pc EXCEPT ![t] = pc'[t]],
           t \in Admin => pc'[t] \in AdminPc,
           t \in Viewer => pc'[t] \in ViewerPc,
           t \in Task => pc'[t] \in TaskPc,
           \/ UNCHANGED lock /\ (pc[t] \in LockPc <=> pc'[t] \in LockPc)
           \/ lock = NoThread /\ lock' = t /\ pc'[t] \in LockPc
           \/ lock' = NoThread /\ pc[t] \in LockPc /\ pc'[t] \notin LockPc,
           \A u \in Admin \ {t} : path'[u] = path[u],
           \A u \in Caller \ {t} : target'[u] = target[u],
           t \in Admin => (pc'[t] # "idle" => path'[t] \in Name),
           t \in Admin => (pc'[t] \in HoldPc <=> pc[t] \in HoldPc),
           t \in Caller => (pc'[t] \in CallPc => target'[t] \in File),
           UNCHANGED <<list_vars, file>>,
           ValOK'
    PROVE  IInv'
<1>1. PcOK /\ LocOK /\ ListOK /\ EntriesAccounted /\ CountExact
  BY IInvParts
<1>2. PcOK'
  BY <1>1, PcStep
<1>3. t \in Admin => (pc'[t] \in HoldPc => file'[t] \in Addr)
  BY <1>1 DEF LocOK
<1>4. LocOK'
  BY <1>1, <1>3, LocStep
<1>5. ListOK' /\ EntriesAccounted' /\ CountExact'
  BY <1>1, AccountsFrame
<1> QED BY <1>2, <1>4, <1>5, IInvPartsPrimed

(* The steps of the hooks, for a task or for an add that opens its file: a   *)
(* hook never touches the list, and an add that is in one keeps its entry.   *)
LEMMA HookStepIInv ==
    ASSUME IInv, Watch, NEW t \in Caller, HookStep(t)
    PROVE  IInv'
<1>1. PcOK /\ LocOK /\ ValOK /\ t \in Thread
  BY IInvParts DEF Thread, Caller
<1>2. ValOK'
  <2> USE <1>1, FileAssumption DEF ValOK, list_vars, stat_vars, add_vars, call_vars, locals
  <2>1. gap' \subseteq Task
    BY DEF Watch
  <2>2. CASE PermFeature(t) \/ PermCount(t) \/ PermPath(t)
    BY <2>1, <2>2 DEF PermFeature, PermCount, PermPath
  <2>3. CASE PermNoPath(t)
    BY <2>1, <2>3 DEF PermNoPath
  <2>4. CASE PermWalk(t)
    BY <2>1, <2>4 DEF PermWalk, SpinUnlock
  <2>5. CASE PermEnforce(t)
    <3>1. /\ file_violations' \in Nat /\ total_events' \in Nat
          /\ UNCHANGED <<list_vars, lock, aegis_cfg, disk, add_vars, header>>
      BY <2>5 DEF PermEnforce
    <3>2. EndCall(t) \/ UNCHANGED call_vars
      BY <2>5 DEF PermEnforce
    <3> QED BY <2>1, <3>1, <3>2, Zenon DEF EndCall
  <2>6. CASE PermLog(t)
    BY <2>1, <2>6 DEF PermLog
  <2> QED BY <2>2, <2>3, <2>4, <2>5, <2>6 DEF HookStep
<1>3. /\ pc[t] \in HookPc
      /\ pc' = [pc EXCEPT ![t] = pc'[t]]
      /\ pc'[t] \in HookPc \cup {Admitted(t), Refused(t)}
      /\ pc'[t] \in CallPc => pc'[t] # Refused(t)
      /\ \/ UNCHANGED lock /\ pc[t] # "perm_walk" /\ pc'[t] # "perm_walk"
         \/ lock' = NoThread /\ pc[t] = "perm_walk" /\ pc'[t] # "perm_walk"
  <2> USE <1>1 DEF PcOK, HookPc, CallPc, Admitted, Refused, Goto
  <2>1. CASE PermFeature(t) \/ PermCount(t)
    BY <2>1 DEF PermFeature, PermCount
  <2>2. CASE PermPath(t) \/ PermNoPath(t)
    BY <2>2 DEF PermPath, PermNoPath
  <2>3. CASE PermWalk(t)
    BY <2>3 DEF PermWalk, SpinUnlock
  <2>4. CASE PermEnforce(t)
    BY <2>4 DEF PermEnforce
  <2>5. CASE PermLog(t)
    BY <2>5 DEF PermLog
  <2> QED BY <2>1, <2>2, <2>3, <2>4, <2>5 DEF HookStep
<1>4. /\ UNCHANGED <<list_vars, path, file>>
      /\ \A u \in Caller \ {t} : target'[u] = target[u]
      /\ pc'[t] # Refused(t) => target'[t] = target[t]
  BY <1>1 DEF HookStep, PermFeature, PermCount, PermNoPath, PermPath, PermWalk, PermEnforce,
     PermLog, EndCall, ValOK, locals, add_vars, call_vars, Goto, PcOK
<1>5. t \in Admin => /\ pc'[t] \in AdminPc /\ pc[t] \in HoldPc /\ pc'[t] \in HoldPc
                     /\ path[t] \in Name
  BY <1>1, <1>3, FileAssumption, Zenon
     DEF AdminPc, HoldPc, HookPc, Admitted, Refused, LocOK
<1>6. t \in Task => pc'[t] \in TaskPc
  BY <1>3 DEF TaskPc, Admitted, Refused
<1>7. \/ UNCHANGED lock /\ (pc[t] \in LockPc <=> pc'[t] \in LockPc)
      \/ lock' = NoThread /\ pc[t] \in LockPc /\ pc'[t] \notin LockPc
  BY <1>3 DEF LockPc, HookPc, Admitted, Refused
<1>8. pc'[t] \in CallPc => target'[t] \in File
  BY <1>1, <1>3, <1>4 DEF LocOK, CallPc
<1>9. t \notin Viewer
  BY FileAssumption DEF Caller
<1> QED BY <1>1, <1>2, <1>3, <1>4, <1>5, <1>6, <1>7, <1>8, <1>9, QuietStep

(* The calls that begin.                                                     *)
LEMMA AdminStartIInv ==
    ASSUME IInv, Watch, NEW t \in Admin, AddStart(t) \/ DelStart(t)
    PROVE  IInv'
<1>1. PcOK /\ LocOK /\ ValOK /\ t \in Thread /\ t \notin Task /\ t \notin Viewer
  BY IInvParts, FileAssumption DEF Thread
<1>2. PICK n \in Name, l \in {"add_lock", "del_lock"} :
         /\ pc[t] = "idle" /\ pc' = [pc EXCEPT ![t] = l]
         /\ path' = [path EXCEPT ![t] = n]
         /\ UNCHANGED <<list_vars, lock, aegis_cfg, stat_vars, disk, file, call_vars, header>>
  BY DEF AddStart, DelStart, Goto
<1>3. ValOK'
  BY <1>1, <1>2 DEF ValOK, Watch, stat_vars, call_vars
<1>4. pc'[t] = l
  BY <1>1, <1>2 DEF PcOK
<1>5. /\ l \in AdminPc /\ l \notin LockPc /\ l \notin HoldPc /\ l \notin CallPc /\ l # "idle"
      /\ pc[t] \notin LockPc /\ pc[t] \notin HoldPc
  BY <1>2 DEF AdminPc, LockPc, HoldPc, CallPc, HookPc
<1>6. path'[t] \in Name /\ \A u \in Admin \ {t} : path'[u] = path[u]
  BY <1>1, <1>2 DEF ValOK
<1>7. UNCHANGED <<list_vars, file, lock, target>>
  BY <1>2 DEF call_vars
<1> QED BY <1>1, <1>2, <1>3, <1>4, <1>5, <1>6, <1>7, QuietStep, Zenon

LEMMA ShowIInv ==
    ASSUME IInv, Watch, NEW t \in Viewer, ShowStart(t) \/ ShowWalk(t)
    PROVE  IInv'
<1>1. PcOK /\ LocOK /\ ListOK /\ ValOK /\ t \in Thread /\ t \notin Caller
  BY IInvParts, FileAssumption DEF Thread, Caller
<1>2. ValOK'
  <2>1. CASE ShowStart(t)
    BY <1>1, <2>1, Zenon DEF ValOK, ListOK, Watch, ShowStart, stat_vars, add_vars, call_vars
  <2>2. CASE ShowWalk(t)
    <3>1. /\ lock' = NoThread /\ header' = [header EXCEPT ![t] = 0] /\ gap' \subseteq Task
          /\ UNCHANGED <<aegis_cfg, stat_vars, disk, add_vars, call_vars>>
      BY <2>2, Zenon DEF Watch, ShowWalk, SpinUnlock
    <3>2. header' \in [Viewer -> Int]
      BY <1>1, <3>1 DEF ValOK
    <3> QED BY <1>1, <3>1, <3>2, Zenon DEF ValOK, stat_vars, locals, add_vars, call_vars
  <2> QED BY <2>1, <2>2
<1>3. /\ pc' = [pc EXCEPT ![t] = pc'[t]] /\ pc'[t] \in ViewerPc
      /\ \/ UNCHANGED lock /\ pc[t] \notin LockPc /\ pc'[t] \notin LockPc
         \/ lock' = NoThread /\ pc[t] \in LockPc /\ pc'[t] \notin LockPc
  BY <1>1 DEF PcOK, ViewerPc, LockPc, Goto, ShowStart, ShowWalk, SpinUnlock
<1>4. UNCHANGED <<list_vars, path, file, target>>
  BY DEF ShowStart, ShowWalk, add_vars, call_vars
<1> QED BY <1>1, <1>2, <1>3, <1>4, QuietStep DEF Caller

LEMMA CallIInv ==
    ASSUME IInv, Watch, NEW t \in Task, NEW f \in File, NEW m \in SUBSET Mask,
           NEW wr \in BOOLEAN, Call(t, f, m, wr)
    PROVE  IInv'
<1>1. PcOK /\ LocOK /\ ValOK /\ t \in Thread /\ t \in Caller /\ t \notin Admin /\ t \notin Viewer
  BY IInvParts, FileAssumption DEF Thread, Caller
<1>2. ValOK'
  BY <1>1 DEF ValOK, Watch, Call, stat_vars, add_vars
<1>3. /\ pc' = [pc EXCEPT ![t] = pc'[t]] /\ pc'[t] \in {"access", "perm_feature"}
      /\ pc[t] = "idle"
  BY <1>1 DEF PcOK, Goto, Call
<1>4. /\ pc'[t] \in TaskPc /\ pc[t] \notin LockPc /\ pc'[t] \notin LockPc
  BY <1>3 DEF TaskPc, LockPc, HookPc
<1>5. /\ UNCHANGED <<list_vars, path, file, lock>>
      /\ target'[t] = f /\ \A u \in Caller \ {t} : target'[u] = target[u]
  BY <1>1 DEF Call, add_vars, ValOK
<1> QED BY <1>1, <1>2, <1>3, <1>4, <1>5, QuietStep

LEMMA TaskStartIInv ==
    ASSUME IInv, Watch, NEW t \in Task, FileOpen(t) \/ FileAccess(t)
    PROVE  IInv'
<1>1. CASE FileOpen(t)
  <2>1. PICK f \in File, fmode \in SUBSET {"FMODE_READ", "FMODE_WRITE"} :
           Call(t, f, OpenMask(fmode), "FMODE_WRITE" \in fmode)
    BY <1>1 DEF FileOpen
  <2>2. OpenMask(fmode) \in SUBSET Mask /\ ("FMODE_WRITE" \in fmode) \in BOOLEAN
    BY DEF OpenMask, Mask
  <2> QED BY <2>1, <2>2, CallIInv, Zenon
<1>2. CASE FileAccess(t)
  <2>1. PICK f \in File, m \in SUBSET Mask : Call(t, f, m, m # {"MAY_READ"})
    BY <1>2 DEF FileAccess, Mask
  <2>2. (m # {"MAY_READ"}) \in BOOLEAN
    OBVIOUS
  <2> QED BY <2>1, <2>2, CallIInv, Zenon
<1> QED BY <1>1, <1>2

LEMMA AccessIInv ==
    ASSUME IInv, Watch, NEW t \in Task, Access(t)
    PROVE  IInv'
<1>1. PcOK /\ LocOK /\ ValOK /\ t \in Thread /\ t \in Caller /\ t \notin Admin /\ t \notin Viewer
  BY IInvParts, FileAssumption DEF Thread, Caller
<1>2. disk' \in [File -> Nat]
  BY <1>1 DEF ValOK, Access
<1>3. ValOK'
  BY <1>1, <1>2, Zenon DEF ValOK, Watch, Access, EndCall, stat_vars, add_vars
<1>4. /\ pc' = [pc EXCEPT ![t] = pc'[t]] /\ pc'[t] = "idle" /\ pc[t] = "access"
  BY <1>1, Zenon DEF PcOK, Goto, Access
<1>5. /\ pc'[t] \in TaskPc /\ pc[t] \notin LockPc /\ pc'[t] \notin LockPc /\ pc'[t] \notin CallPc
  BY <1>4 DEF TaskPc, LockPc, CallPc, HookPc
<1>6. /\ UNCHANGED <<list_vars, path, file, lock>>
      /\ \A u \in Caller \ {t} : target'[u] = target[u]
  BY <1>1 DEF Access, EndCall, add_vars, ValOK
<1> QED BY <1>1, <1>3, <1>4, <1>5, <1>6, QuietStep

(* Which section of the code each acquisition of the lock enters.            *)
LEMMA SectionMoves ==
    ASSUME NEW t, pc[t] \in DOMAIN Section, pc'[t] = Section[pc[t]]
    PROVE  \/ pc[t] = "add_lock" /\ pc'[t] = "add_check"
           \/ pc[t] = "add_relock" /\ pc'[t] = "add_insert"
           \/ pc[t] = "del_lock" /\ pc'[t] = "del_walk"
           \/ pc[t] = "show_lock" /\ pc'[t] = "show_walk"
           \/ pc[t] = "perm_lock" /\ pc'[t] = "perm_walk"
<1>1. pc[t] \in {"add_lock", "add_relock", "del_lock", "show_lock", "perm_lock"}
  BY DEF Section
<1>2. /\ Section["add_lock"] = "add_check" /\ Section["add_relock"] = "add_insert"
      /\ Section["del_lock"] = "del_walk" /\ Section["show_lock"] = "show_walk"
      /\ Section["perm_lock"] = "perm_walk"
  BY DEF Section
<1> QED BY <1>1, <1>2

(* Taking the lock, and the sysctl writes.                                   *)
LEMMA SpinLockIInv ==
    ASSUME IInv, Watch, NEW t \in Thread, SpinLock(t)
    PROVE  IInv'
<1>1. PcOK /\ LocOK /\ ValOK
  BY IInvParts
<1>2. ValOK'
  BY <1>1 DEF ValOK, Watch, SpinLock, stat_vars, add_vars, call_vars, locals
<1>3. /\ pc[t] \in DOMAIN Section
      /\ pc' = [pc EXCEPT ![t] = pc'[t]] /\ pc'[t] = Section[pc[t]]
  BY <1>1 DEF SpinLock, PcOK
<1>4. /\ pc'[t] \in LockPc
      /\ t \in Admin => /\ pc'[t] \in AdminPc /\ pc[t] # "idle"
                        /\ pc'[t] \in HoldPc <=> pc[t] \in HoldPc
      /\ t \in Viewer => pc'[t] \in ViewerPc
      /\ t \in Task => pc'[t] \in TaskPc
      /\ pc'[t] \in CallPc => pc[t] \in CallPc
  <2>1. \/ pc[t] = "add_lock" /\ pc'[t] = "add_check"
        \/ pc[t] = "add_relock" /\ pc'[t] = "add_insert"
        \/ pc[t] = "del_lock" /\ pc'[t] = "del_walk"
        \/ pc[t] = "show_lock" /\ pc'[t] = "show_walk"
        \/ pc[t] = "perm_lock" /\ pc'[t] = "perm_walk"
    BY <1>3, SectionMoves
  <2>2. /\ t \in Admin => pc[t] \in AdminPc
        /\ t \in Viewer => pc[t] \in ViewerPc
        /\ t \in Task => pc[t] \in TaskPc
    BY <1>1 DEF PcOK
  <2> QED BY <2>1, <2>2 DEF AdminPc, ViewerPc, TaskPc, LockPc, HoldPc, CallPc, HookPc
<1>5. UNCHANGED <<list_vars, path, file, target>> /\ lock = NoThread /\ lock' = t
  BY DEF SpinLock, add_vars, call_vars, locals
<1> QED BY <1>1, <1>2, <1>3, <1>4, <1>5, QuietStep DEF LocOK

LEMMA SetKnobIInv ==
    ASSUME IInv, Watch, NEW k \in Tunable, SetKnob(k)
    PROVE  IInv'
<1>1. PcOK /\ LocOK /\ ListOK /\ ValOK /\ EntriesAccounted /\ CountExact
  BY IInvParts
<1>2. ValOK'
  BY <1>1, FileAssumption DEF ValOK, Watch, SetKnob, stat_vars, add_vars, call_vars, locals
<1>3. PcOK' /\ LocOK' /\ ListOK' /\ EntriesAccounted' /\ CountExact'
  BY <1>1 DEF SetKnob, PcOK, LocOK, ListOK, EntriesAccounted, CountExact, Holds,
     list_vars, add_vars, call_vars, locals
<1> QED BY <1>2, <1>3, IInvPartsPrimed

(* The steps of add that leave the list alone: the tests, the failed         *)
(* allocation and the closing message.                                       *)
LEMMA AddQuietIInv ==
    ASSUME IInv, Watch, NEW t \in Admin, AddCheck(t) \/ AddNoMem(t) \/ AddInfo(t)
    PROVE  IInv'
<1>1. PcOK /\ LocOK /\ ValOK /\ t \in Thread /\ t \notin Task /\ t \notin Viewer
  BY IInvParts, FileAssumption DEF Thread
<1>2. ValOK'
  <2> USE <1>1 DEF ValOK, Watch, stat_vars, call_vars, list_vars
  <2>1. CASE AddCheck(t)
    BY <2>1, Zenon DEF AddCheck, SpinUnlock
  <2>2. CASE AddNoMem(t)
    BY <2>2, Zenon DEF AddNoMem
  <2>3. CASE AddInfo(t)
    BY <2>3, Zenon DEF AddInfo
  <2> QED BY <2>1, <2>2, <2>3, Zenon
<1>3. /\ pc' = [pc EXCEPT ![t] = pc'[t]]
      /\ \/ pc[t] = "add_check" /\ pc'[t] = "add_alloc" /\ lock' = NoThread /\ path'[t] = path[t]
         \/ pc[t] = "add_check" /\ pc'[t] = "idle" /\ lock' = NoThread
         \/ pc[t] \in {"add_alloc", "add_info"} /\ pc'[t] = "idle" /\ lock' = lock
      /\ \A u \in Admin \ {t} : path'[u] = path[u] /\ file'[u] = file[u]
      /\ UNCHANGED <<list_vars, target>>
  BY <1>1, SMTT(30) DEF PcOK, ValOK, Goto, AddCheck, AddNoMem, AddInfo, SpinUnlock, call_vars
<1>4. /\ pc'[t] \in AdminPc /\ pc[t] \notin HoldPc /\ pc'[t] \notin HoldPc /\ pc'[t] \notin CallPc
      /\ pc'[t] # "idle" => path'[t] \in Name
      /\ \/ UNCHANGED lock /\ (pc[t] \in LockPc <=> pc'[t] \in LockPc)
         \/ lock' = NoThread /\ pc[t] \in LockPc /\ pc'[t] \notin LockPc
  BY <1>1, <1>3, Zenon DEF AdminPc, HoldPc, CallPc, LockPc, HookPc, LocOK
<1>5. PcOK'
  BY <1>1, <1>3, <1>4, PcStep, Zenon
<1>6. LocOK'
  BY <1>1, <1>3, <1>4, LocStep, Zenon
<1>7. \A u \in Admin : /\ pc'[u] \in HoldPc <=> pc[u] \in HoldPc
                       /\ pc[u] \in HoldPc => file'[u] = file[u]
  BY <1>1, <1>3, <1>4, Zenon DEF PcOK, Thread
<1>8. ListOK' /\ EntriesAccounted' /\ CountExact'
  <2>1. ListOK /\ EntriesAccounted /\ CountExact
    BY IInvParts
  <2>2. \A u \in Admin, a \in Addr : Holds(u, a)' <=> Holds(u, a)
    BY <1>7 DEF Holds
  <2> QED BY <1>3, <2>1, <2>2, Zenon DEF ListOK, EntriesAccounted, CountExact, list_vars
<1> QED BY <1>2, <1>5, <1>6, <1>8, IInvPartsPrimed

(* The new entry is at an address nobody had.                                *)
LEMMA AddAllocIInv ==
    ASSUME IInv, Watch, NEW t \in Admin, AddAlloc(t)
    PROVE  IInv'
<1>1. /\ PcOK /\ LocOK /\ ListOK /\ ValOK /\ EntriesAccounted /\ CountExact
      /\ t \in Thread /\ t \in Caller /\ t \notin Task /\ t \notin Viewer
  BY IInvParts, FileAssumption DEF Thread, Caller
<1>0. PICK f \in {Resolve[path[t]], NoFile} :
         /\ Goto(t, "add_alloc", IF f = NoFile THEN "add_relock" ELSE "perm_feature")
         /\ \E a \in Addr :
               /\ heap[a] = Free
               /\ heap' = [heap EXCEPT ![a] = [path |-> path[t], hash |-> Pending]]
               /\ file' = [file EXCEPT ![t] = a]
         /\ target' = [target EXCEPT ![t] = f]
         /\ mask' = [mask EXCEPT ![t] = IF f = NoFile THEN {} ELSE OpenMask({"FMODE_READ"})]
         /\ UNCHANGED <<protected_files, protected_file_count, lock, aegis_cfg,
                        stat_vars, disk, path, writing, blind, header>>
  BY Zenon DEF AddAlloc
<1>2. PICK a \in Addr :
         /\ heap[a] = Free
         /\ heap' = [heap EXCEPT ![a] = [path |-> path[t], hash |-> Pending]]
         /\ file' = [file EXCEPT ![t] = a]
  BY <1>0, Zenon
<1>3. /\ pc[t] = "add_alloc"
      /\ pc' = [pc EXCEPT ![t] = pc'[t]]
      /\ pc'[t] = IF f = NoFile THEN "add_relock" ELSE "perm_feature"
      /\ target'[t] = f /\ \A u \in Caller \ {t} : target'[u] = target[u]
      /\ file'[t] = a /\ \A u \in Admin \ {t} : file'[u] = file[u]
      /\ UNCHANGED <<protected_files, protected_file_count, lock, path>>
  BY <1>0, <1>1, <1>2, Zenon DEF Goto, PcOK, ValOK
<1>4. path[t] \in Name /\ f \in File \cup {NoFile}
  <2>1. path[t] \in Name
    BY <1>1, <1>3, Zenon DEF LocOK
  <2>2. Resolve[path[t]] \in File \cup {NoFile}
    BY <2>1, FileAssumption, Zenon
  <2> QED BY <1>0, <2>1, <2>2, Zenon
<1>5. /\ pc'[t] \in AdminPc /\ pc'[t] \in HoldPc /\ pc[t] \notin HoldPc
      /\ pc[t] \notin LockPc /\ pc'[t] \notin LockPc
      /\ pc'[t] \in CallPc => target'[t] \in File
  BY <1>3, <1>4, Zenon DEF AdminPc, HoldPc, CallPc, LockPc, HookPc
<1>6. PcOK'
  BY <1>1, <1>3, <1>5, PcStep, Zenon
<1>7. LocOK'
  BY <1>1, <1>3, <1>4, <1>5, LocStep, Zenon
<1>8. ValOK'
  BY <1>0, <1>1, <1>2, <1>4, Zenon DEF OpenMask, Mask, ValOK, Watch, stat_vars
<1>9. /\ [path |-> path[t], hash |-> Pending] \in Entry
      /\ heap'[a] # Free /\ \A b \in Addr \ {a} : heap'[b] = heap[b]
      /\ heap' \in [Addr -> Entry \cup {Free}]
  BY <1>1, <1>2, <1>4, FileAssumption, SMTT(30) DEF Entry, ListOK
<1>10. ListOK' /\ CountExact'
  BY <1>1, <1>3, <1>9, SMTT(30) DEF ListOK, CountExact
<1>11. EntriesAccounted'
  <2>1. a \notin Range(protected_files) /\ \A u \in Admin : ~Holds(u, a)
    BY <1>1, <1>2, Zenon DEF EntriesAccounted
  <2>2. /\ \A b \in Addr : Holds(t, b)' <=> b = a
        /\ \A b \in Addr : ~Holds(t, b)
        /\ \A u \in Admin \ {t}, b \in Addr : Holds(u, b)' <=> Holds(u, b)
    BY <1>1, <1>3, <1>5, Zenon DEF Holds, PcOK, Thread
  <2>3. \A b \in Addr : heap'[b] # Free <=>
           b \in Range(protected_files)' \/ \E u \in Admin : Holds(u, b)'
    <3> TAKE b \in Addr
    <3>1. Range(protected_files)' = Range(protected_files)
      BY <1>3
    <3>2. CASE b = a
      BY <1>9, <2>2, <3>2
    <3>3. CASE b # a
      <4>1. (\E u \in Admin : Holds(u, b)') <=> \E u \in Admin : Holds(u, b)
        BY <2>2, <3>3
      <4>2. heap'[b] = heap[b]
        BY <1>9, <3>3
      <4>3. heap[b] # Free <=> b \in Range(protected_files) \/ \E u \in Admin : Holds(u, b)
        BY <1>1, Accounts, Zenon
      <4> QED BY <3>1, <4>1, <4>2, <4>3
    <3> QED BY <3>2, <3>3, Zenon
  <2>4. \A u \in Admin, b \in Addr : Holds(u, b)' =>
           /\ b \notin Range(protected_files)'
           /\ \A v \in Admin \ {u} : ~Holds(v, b)'
    <3> SUFFICES ASSUME NEW u \in Admin, NEW b \in Addr, Holds(u, b)'
                 PROVE  /\ b \notin Range(protected_files)
                        /\ \A v \in Admin \ {u} : ~Holds(v, b)'
      BY <1>3
    <3>1. CASE u = t
      BY <2>1, <2>2, <3>1
    <3>2. CASE u # t
      <4>1. Holds(u, b) /\ b # a
        BY <2>1, <2>2, <3>2
      <4>2. /\ b \notin Range(protected_files)
            /\ \A v \in Admin \ {u} : ~Holds(v, b)
        BY <1>1, <4>1, Accounts
      <4> QED BY <2>2, <4>1, <4>2
    <3> QED BY <3>1, <3>2, Zenon
  <2> QED BY <1>1, <1>3, <2>3, <2>4, Zenon DEF EntriesAccounted
<1> QED BY <1>6, <1>7, <1>8, <1>10, <1>11, IInvPartsPrimed, Zenon

(* The digest goes into the entry the thread owns.                           *)
LEMMA AddHashIInv ==
    ASSUME IInv, Watch, NEW t \in Admin, AddHash(t)
    PROVE  IInv'
<1>1. /\ PcOK /\ LocOK /\ ListOK /\ ValOK /\ EntriesAccounted /\ CountExact
      /\ t \in Thread /\ t \in Caller /\ t \notin Task /\ t \notin Viewer
  BY IInvParts, FileAssumption DEF Thread, Caller
<1>2. /\ pc[t] = "add_hash" /\ pc' = [pc EXCEPT ![t] = pc'[t]] /\ pc'[t] = "add_relock"
      /\ \A u \in Caller \ {t} : target'[u] = target[u]
      /\ UNCHANGED <<protected_files, protected_file_count, lock, path, file>>
  BY <1>1 DEF AddHash, Goto, EndCall, PcOK, ValOK, add_vars
<1>3. /\ pc'[t] \in AdminPc /\ pc'[t] \in HoldPc /\ pc[t] \in HoldPc /\ pc[t] \in CallPc
      /\ pc[t] \notin LockPc /\ pc'[t] \notin LockPc /\ pc'[t] \notin CallPc
  BY <1>2 DEF AdminPc, HoldPc, CallPc, LockPc, HookPc
<1>4. file[t] \in Addr /\ path[t] \in Name /\ target[t] \in File
  BY <1>1, <1>2, <1>3, SMTT(30) DEF LocOK
<1>5. heap[file[t]] \in Entry
  BY <1>1, <1>3, <1>4, Zenon DEF EntriesAccounted, Holds, ListOK
<1>6. PICK digest \in Nat \cup {Pending} : heap' = [heap EXCEPT ![file[t]].hash = digest]
  BY <1>1, <1>4, Zenon DEF AddHash, ValOK
<1>7. /\ heap' \in [Addr -> Entry \cup {Free}]
      /\ \A b \in Addr : heap'[b] # Free <=> heap[b] # Free
  <2>1. [heap[file[t]] EXCEPT !.hash = digest] \in Entry
    BY <1>5 DEF Entry
  <2>2. heap' = [heap EXCEPT ![file[t]] = [heap[file[t]] EXCEPT !.hash = digest]]
    BY <1>1, <1>6 DEF ListOK
  <2> QED BY <1>1, <1>4, <1>5, <2>1, <2>2, FileAssumption, Zenon DEF ListOK
<1>8. PcOK'
  BY <1>1, <1>2, <1>3, PcStep, Zenon
<1>9. LocOK'
  BY <1>1, <1>2, <1>3, <1>4, LocStep, Zenon
<1>10. ValOK'
  <2>1. PICK reads \in 0..MaxReads :
          total_events' = total_events + (IF ReadLogged(target[t]) THEN reads ELSE 0)
    BY Zenon DEF AddHash
  <2>2. total_events' \in Nat
    BY <1>1, <2>1, FileAssumption DEF ValOK
  <2> QED BY <1>1, <2>2 DEF AddHash, EndCall, ValOK, Watch, add_vars
<1>11. ListOK' /\ CountExact'
  BY <1>1, <1>2, <1>7, Zenon DEF ListOK, CountExact
<1>12. \A u \in Admin, b \in Addr : Holds(u, b)' <=> Holds(u, b)
  BY <1>1, <1>2, <1>3, Zenon DEF Holds, PcOK, Thread
<1>13. EntriesAccounted'
  BY <1>1, <1>2, <1>7, <1>12, Zenon DEF EntriesAccounted
<1> QED BY <1>8, <1>9, <1>10, <1>11, <1>13, IInvPartsPrimed

(* The entry passes from the thread to the list.                             *)
LEMMA AddInsertIInv ==
    ASSUME IInv, Watch, NEW t \in Admin, AddInsert(t)
    PROVE  IInv'
<1>1. /\ PcOK /\ LocOK /\ ListOK /\ ValOK /\ EntriesAccounted /\ CountExact
      /\ t \in Thread /\ t \notin Task /\ t \notin Viewer
  BY IInvParts, FileAssumption DEF Thread
<1>2. /\ pc[t] = "add_insert" /\ pc' = [pc EXCEPT ![t] = pc'[t]] /\ pc'[t] = "add_info"
      /\ protected_files' = Append(protected_files, file[t])
      /\ protected_file_count' = protected_file_count + 1
      /\ lock' = NoThread
      /\ UNCHANGED <<heap, path, file, target>>
  BY <1>1 DEF AddInsert, Goto, Counted, SpinUnlock, PcOK, locals, add_vars, call_vars
<1>3. /\ pc'[t] \in AdminPc /\ pc'[t] \notin HoldPc /\ pc[t] \in HoldPc
      /\ pc[t] \in LockPc /\ pc'[t] \notin LockPc /\ pc'[t] \notin CallPc
  BY <1>2 DEF AdminPc, HoldPc, CallPc, LockPc, HookPc
<1>4. file[t] \in Addr /\ path[t] \in Name
  BY <1>1, <1>2, <1>3 DEF LocOK
<1>5. PcOK'
  BY <1>1, <1>2, <1>3, PcStep, SMTT(30)
<1>6. LocOK'
  BY <1>1, <1>2, <1>3, <1>4, LocStep, Zenon
<1>7. ValOK'
  BY <1>1, Zenon DEF AddInsert, SpinUnlock, ValOK, Watch, stat_vars, add_vars, call_vars, locals
<1>8. /\ protected_files' \in Seq(Addr)
      /\ Len(protected_files') = Len(protected_files) + 1
      /\ \A i \in 1..Len(protected_files) : protected_files'[i] = protected_files[i]
      /\ protected_files'[Len(protected_files) + 1] = file[t]
      /\ DOMAIN protected_files = 1..Len(protected_files)
      /\ DOMAIN protected_files' = 1..(Len(protected_files) + 1)
      /\ Len(protected_files) \in Nat
  <2>1. protected_files \in Seq(Addr) /\ protected_files' = Append(protected_files, file[t])
    BY <1>1, <1>2 DEF ListOK
  <2>2. /\ protected_files' \in Seq(Addr)
        /\ Len(protected_files') = Len(protected_files) + 1
        /\ Len(protected_files) \in Nat
    BY <1>4, <2>1
  <2>3. /\ \A i \in 1..Len(protected_files) : protected_files'[i] = protected_files[i]
        /\ protected_files'[Len(protected_files) + 1] = file[t]
    BY <1>4, <2>1
  <2>4. /\ DOMAIN protected_files = 1..Len(protected_files)
        /\ DOMAIN protected_files' = 1..(Len(protected_files) + 1)
    BY <2>1, <2>2
  <2> QED BY <2>2, <2>3, <2>4, Zenon
<1>9. Range(protected_files') = Range(protected_files) \cup {file[t]}
  BY <1>8 DEF Range
<1>10. ListOK' /\ CountExact'
  <2>1. ListOK /\ CountExact
    BY <1>1
  <2>2. protected_file_count' = Len(protected_files')
    BY <1>2, <1>8, <2>1, Zenon DEF CountExact
  <2>3. protected_file_count' \in Int
    BY <1>2, <2>1 DEF ListOK
  <2> QED BY <1>2, <1>8, <2>1, <2>2, <2>3, Zenon DEF ListOK, CountExact
<1>11. EntriesAccounted'
  <2>1. Holds(t, file[t]) /\ file[t] \notin Range(protected_files)
    BY <1>1, <1>3, <1>4, Zenon DEF EntriesAccounted, Holds
  <2>2. /\ \A b \in Addr : ~Holds(t, b)'
        /\ \A b \in Addr : Holds(t, b) <=> b = file[t]
        /\ \A u \in Admin \ {t}, b \in Addr : Holds(u, b)' <=> Holds(u, b)
    BY <1>1, <1>2, <1>3, SMTT(30) DEF Holds, PcOK, Thread
  <2>3. IsInjective(protected_files')
    <3>1. \A i, j \in 1..Len(protected_files) :
             protected_files[i] = protected_files[j] => i = j
      BY <1>1, <1>8, Zenon DEF EntriesAccounted, IsInjective
    <3>2. \A i \in 1..Len(protected_files) : protected_files[i] # file[t]
      BY <1>8, <2>1, Zenon DEF Range
    <3>3. \A i \in 1..(Len(protected_files) + 1) :
             i \in 1..Len(protected_files) \/ i = Len(protected_files) + 1
      BY <1>8
    <3>4. \A i, j \in 1..(Len(protected_files) + 1) :
             protected_files'[i] = protected_files'[j] => i = j
      BY <1>8, <3>1, <3>2, <3>3
    <3> QED BY <1>8, <3>4, Zenon DEF IsInjective
  <2>4. \A b \in Addr : heap'[b] # Free <=>
           b \in Range(protected_files') \/ \E u \in Admin : Holds(u, b)'
    <3> TAKE b \in Addr
    <3>1. heap'[b] # Free <=>
             b \in Range(protected_files) \/ \E u \in Admin : Holds(u, b)
      BY <1>1, <1>2, Accounts
    <3>2. CASE b = file[t]
      BY <1>9, <2>1, <3>1, <3>2, Zenon
    <3>3. CASE b # file[t]
      <4>1. (\E u \in Admin : Holds(u, b)') <=> \E u \in Admin : Holds(u, b)
        BY <2>2, <3>3
      <4> QED BY <1>9, <3>1, <3>3, <4>1, Zenon
    <3> QED BY <3>2, <3>3
  <2>5. \A u \in Admin, b \in Addr : Holds(u, b)' =>
           /\ b \notin Range(protected_files')
           /\ \A v \in Admin \ {u} : ~Holds(v, b)'
    <3> SUFFICES ASSUME NEW u \in Admin, NEW b \in Addr, Holds(u, b)'
                 PROVE  /\ b \notin Range(protected_files')
                        /\ \A v \in Admin \ {u} : ~Holds(v, b)'
      OBVIOUS
    <3>1. u # t /\ Holds(u, b)
      BY <2>2
    <3>2. /\ b \notin Range(protected_files)
          /\ \A v \in Admin \ {u} : ~Holds(v, b)
      BY <1>1, <3>1, Accounts
    <3>3. b # file[t]
      BY <2>1, <3>1, <3>2
    <3> QED BY <1>9, <2>2, <3>2, <3>3
  <2> QED BY <2>3, <2>4, <2>5, SMTT(30) DEF EntriesAccounted
<1> QED BY <1>5, <1>6, <1>7, <1>10, <1>11, IInvPartsPrimed

(* The freed entry is off the list and nobody else's.                        *)
LEMMA DelWalkIInv ==
    ASSUME IInv, Watch, NEW t \in Admin, DelWalk(t)
    PROVE  IInv'
<1>1. /\ PcOK /\ LocOK /\ ListOK /\ ValOK /\ EntriesAccounted /\ CountExact
      /\ t \in Thread /\ t \notin Task /\ t \notin Viewer
  BY IInvParts, FileAssumption DEF Thread
<1>2. /\ pc[t] = "del_walk" /\ pc' = [pc EXCEPT ![t] = pc'[t]] /\ pc'[t] = "idle"
      /\ lock' = NoThread
      /\ \A u \in Admin \ {t} : path'[u] = path[u]
      /\ UNCHANGED <<file, target>>
  BY <1>1, Zenon DEF DelWalk, Goto, SpinUnlock, PcOK, ValOK, call_vars
<1>3. /\ pc'[t] \in AdminPc /\ pc'[t] \notin HoldPc /\ pc[t] \notin HoldPc
      /\ pc[t] \in LockPc /\ pc'[t] \notin LockPc /\ pc'[t] \notin CallPc
  BY <1>2 DEF AdminPc, HoldPc, CallPc, LockPc, HookPc
<1>4. PcOK'
  BY <1>1, <1>2, <1>3, PcStep, Zenon
<1>5. LocOK'
  BY <1>1, <1>2, <1>3, LocStep, Zenon
<1>6. ValOK'
  BY <1>1, Zenon DEF DelWalk, SpinUnlock, ValOK, Watch, stat_vars, call_vars
<1>7. \A u \in Admin, b \in Addr : Holds(u, b)' <=> Holds(u, b)
  BY <1>1, <1>2, <1>3, Zenon DEF Holds, PcOK, Thread
<1>8. CASE UNCHANGED list_vars
  BY <1>1, <1>4, <1>5, <1>6, <1>7, <1>8, IInvPartsPrimed
     DEF ListOK, EntriesAccounted, CountExact, list_vars
<1>9. ASSUME NEW i \in Matches(path[t]),
             protected_files' = list_del(protected_files, i),
             kfree(protected_files[i]), Counted(-1)
      PROVE  IInv'
  <2> DEFINE a == protected_files[i]
  <2>1. i \in 1..Len(protected_files) /\ a \in Addr /\ a \in Range(protected_files)
    <3>1. i \in DOMAIN protected_files
      BY Zenon DEF Matches
    <3>2. protected_files \in Seq(Addr)
      BY <1>1 DEF ListOK
    <3> QED BY <3>1, <3>2, SMTT(30) DEF Range
  <2>2. /\ protected_files' \in Seq(Addr)
        /\ Len(protected_files') = Len(protected_files) - 1
        /\ IsInjective(protected_files')
        /\ Range(protected_files') = Range(protected_files) \ {a}
    BY <1>1, <1>9, <2>1, DelProperties DEF ListOK, EntriesAccounted
  <2>3. /\ heap' \in [Addr -> Entry \cup {Free}]
        /\ heap'[a] = Free /\ \A b \in Addr \ {a} : heap'[b] = heap[b]
    BY <1>1, <1>9, <2>1 DEF kfree, ListOK
  <2>4. ListOK' /\ CountExact'
    BY <1>1, <1>9, <2>1, <2>2, <2>3 DEF Counted, ListOK, CountExact
  <2>5. \A u \in Admin : ~Holds(u, a)
    BY <1>1, <2>1, Zenon DEF EntriesAccounted
  <2>6. EntriesAccounted'
    <3>1. \A b \in Addr : heap'[b] # Free <=>
             b \in Range(protected_files') \/ \E u \in Admin : Holds(u, b)'
      <4> TAKE b \in Addr
      <4>1. (\E u \in Admin : Holds(u, b)') <=> \E u \in Admin : Holds(u, b)
        BY <1>7
      <4>2. heap[b] # Free <=> b \in Range(protected_files) \/ \E u \in Admin : Holds(u, b)
        BY <1>1, Accounts, Zenon
      <4>3. CASE b = a
        BY <2>2, <2>3, <2>5, <4>1, <4>3, Zenon
      <4>4. CASE b # a
        BY <2>2, <2>3, <4>1, <4>2, <4>4, Zenon
      <4> QED BY <4>3, <4>4, Zenon
    <3>2. \A u \in Admin, b \in Addr : Holds(u, b)' =>
             b \notin Range(protected_files') /\ \A v \in Admin \ {u} : ~Holds(v, b)'
      BY <1>1, <1>7, <2>2, Accounts, Zenon
    <3> QED BY <2>2, <3>1, <3>2, Zenon DEF EntriesAccounted
  <2> QED BY <1>4, <1>5, <1>6, <2>4, <2>6, IInvPartsPrimed
<1> QED BY <1>8, <1>9 DEF DelWalk

-----------------------------------------------------------------------------
(* Every step keeps the invariant.                                           *)
LEMMA NextIInv == IInv /\ [Next]_vars => IInv'
<1> SUFFICES ASSUME IInv, [Next]_vars PROVE IInv'
  OBVIOUS
<1>1. CASE UNCHANGED vars
  BY <1>1, Zenon DEF IInv, TypeOK, EntriesAccounted, CountExact, Holds, vars, list_vars, stat_vars,
     add_vars, call_vars, locals
<1>2. CASE Next
  <2>1. Step /\ Watch
    BY <1>2 DEF Next
  <2>2. ASSUME NEW t \in Thread, ThreadStep(t)
        PROVE  IInv'
    <3>1. CASE SpinLock(t)
      BY <2>1, <3>1, SpinLockIInv
    <3>2. CASE t \in Admin /\ AdminStep(t)
      BY <2>1, <3>2, AddQuietIInv, AddAllocIInv, AddHashIInv, AddInsertIInv, DelWalkIInv,
         HookStepIInv DEF AdminStep, Caller
    <3>3. CASE t \in Viewer /\ ShowWalk(t)
      BY <2>1, <3>3, ShowIInv
    <3>4. CASE t \in Task /\ (HookStep(t) \/ Access(t))
      BY <2>1, <3>4, HookStepIInv, AccessIInv DEF Caller
    <3> QED BY <2>2, <3>1, <3>2, <3>3, <3>4 DEF ThreadStep
  <2> QED BY <2>1, <2>2, AdminStartIInv, ShowIInv, TaskStartIInv, SetKnobIInv DEF Step
<1> QED BY <1>1, <1>2

(* The inductive invariant holds throughout.                                *)
THEOREM Invariance == Spec => []IInv
BY InitIInv, NextIInv, PTL DEF Spec

(* Type correctness, with mutual exclusion in the critical sections of       *)
(* protected_files_lock and the locals each point of add, del, show and the  *)
(* hooks relies on.                                                          *)
THEOREM TypeCorrect == Spec => []TypeOK
<1>1. IInv => TypeOK
  BY DEF IInv
<1> QED BY <1>1, Invariance, PTL

(* Neither add, which allocates between two critical sections, nor del leaks *)
(* an entry, links one twice or frees one that is linked or being filled in. *)
THEOREM NoLeakNoDangling == Spec => []EntriesAccounted
<1>1. IInv => EntriesAccounted
  BY DEF IInv
<1> QED BY <1>1, Invariance, PTL

(* The count that aegis_file_permission reads without the lock is exact.     *)
THEOREM CountIsExact == Spec => []CountExact
<1>1. IInv => CountExact
  BY DEF IInv
<1> QED BY <1>1, Invariance, PTL

-----------------------------------------------------------------------------
(***************************************************************************)
(* What AegisFile promises the outside, from the same invariant: the hooks   *)
(* miss nothing (WriteNeedsGap), for every number of tasks and               *)
(* administrators and every interleaving with sysctl writes; and the list    *)
(* they walk implements GuardedList, with the bound on copies that comes    *)
(* from there.                                                              *)
(***************************************************************************)
(* A task's own part of the invariant.  A writer in the hook asks with a     *)
(* mask that says so; once past the enforcement test it has met a moment     *)
(* without enforcement.                                                     *)
WriterOK(t) ==
    /\ pc[t] = "access" /\ writing[t] => t \in gap \cup blind
    /\ pc[t] \in HookPc /\ writing[t] => mask[t] \cap {"MAY_WRITE", "MAY_APPEND"} # {}
    /\ pc[t] = "perm_log" /\ writing[t] => t \in gap

(* The history variable knows every moment without the policy.              *)
GuardInv ==
    \A t \in Task : /\ pc[t] \in HookPc /\ ~InForce(target[t]) => t \in gap
                    /\ WriterOK(t)

LEMMA GuardInit == Init => GuardInv
BY DEF Init, GuardInv, WriterOK, Thread, HookPc

(* What Watch records and keeps.                                            *)
LEMMA WatchFacts ==
    ASSUME PcOK, PcOK', Watch, NEW t \in Task
    PROVE  /\ pc'[t] \in HookPc /\ ~InForce(target[t])' => t \in gap'
           /\ t \in gap /\ pc[t] # "idle" /\ pc'[t] # "idle" => t \in gap'
<1>1. pc[t] \in TaskPc /\ pc'[t] \in TaskPc
  BY DEF PcOK
<1>2. /\ InHook(t) <=> pc[t] \in HookPc
      /\ InHook(t)' <=> pc'[t] \in HookPc
  BY <1>1 DEF InHook, TaskPc, HookPc
<1>3. pc'[t] \in HookPc /\ ~InForce(target[t])' => t \in gap'
  BY <1>2 DEF Watch
<1>4. pc[t] # "idle" => InHook(t) \/ pc[t] = "access"
  BY DEF InHook
<1>5. t \in gap /\ pc[t] # "idle" /\ pc'[t] # "idle" => t \in gap'
  BY <1>4 DEF Watch
<1> QED BY <1>3, <1>5

(* A step of somebody else leaves a task's frame alone.                     *)
SameFrame(t) ==
    /\ pc'[t] = pc[t] /\ writing'[t] = writing[t] /\ mask'[t] = mask[t]
    /\ t \in blind' <=> t \in blind

LEMMA FrameKeeps ==
    ASSUME PcOK, PcOK', Watch, NEW t \in Task, WriterOK(t), SameFrame(t)
    PROVE  WriterOK(t)'
<1>1. t \in gap /\ pc[t] # "idle" => t \in gap'
  BY WatchFacts DEF SameFrame
<1>2. pc[t] \in HookPc => pc[t] # "idle"
  BY DEF HookPc
<1> QED BY <1>1, <1>2 DEF WriterOK, SameFrame

LEMMA OthersKeepFrame ==
    ASSUME IInv, NEW u \in Thread, NEW t \in Task \ {u},
           \/ u \in Admin /\ (AddStart(u) \/ DelStart(u))
           \/ u \in Viewer /\ ShowStart(u)
           \/ u \in Task /\ (FileOpen(u) \/ FileAccess(u))
           \/ ThreadStep(u)
    PROVE  SameFrame(t)
<1>1. PcOK /\ ValOK /\ t \in Thread /\ t \in Caller
  BY IInvParts DEF Thread, Caller
<1> USE <1>1 DEF SameFrame, PcOK, ValOK, Goto, call_vars, locals
<1>2. CASE AddStart(u) \/ DelStart(u) \/ ShowStart(u) \/ SpinLock(u) \/ ShowWalk(u)
  BY <1>2, Zenon DEF AddStart, DelStart, ShowStart, SpinLock, ShowWalk
<1>3. ASSUME NEW f, NEW m, NEW wr, Call(u, f, m, wr)
      PROVE  SameFrame(t)
  BY <1>3 DEF Call
<1>4. CASE FileOpen(u) \/ FileAccess(u)
  BY <1>3, <1>4, Zenon DEF FileOpen, FileAccess
<1>5. CASE AddCheck(u) \/ AddNoMem(u) \/ AddInsert(u) \/ AddInfo(u) \/ DelWalk(u)
  BY <1>5, Zenon DEF AddCheck, AddNoMem, AddInsert, AddInfo, DelWalk
<1>6. CASE AddAlloc(u)
  BY <1>6, Zenon DEF AddAlloc
<1>7. CASE AddHash(u) \/ Access(u)
  BY <1>7, SMTT(30) DEF AddHash, Access, EndCall
<1>8. CASE PermFeature(u) \/ PermCount(u) \/ PermPath(u) \/ PermWalk(u) \/ PermLog(u)
  BY <1>8, Zenon DEF PermFeature, PermCount, PermPath, PermWalk, PermLog
<1>9. CASE PermNoPath(u)
  BY <1>9, SMTT(30) DEF PermNoPath
<1>10. CASE PermEnforce(u)
  BY <1>10, Zenon DEF PermEnforce, EndCall
<1> QED BY <1>2, <1>4, <1>5, <1>6, <1>7, <1>8, <1>9, <1>10, Zenon
           DEF ThreadStep, AdminStep, HookStep

(* The call that begins asks with the mask of what it is going to do.       *)
LEMMA StartKeepsWriter ==
    ASSUME IInv, IInv', Watch, NEW t \in Task, FileOpen(t) \/ FileAccess(t)
    PROVE  WriterOK(t)'
<1>1. PcOK /\ ValOK /\ t \in Thread /\ t \in Caller
  BY IInvParts DEF Thread, Caller
<1>2. ASSUME NEW f \in File, NEW m \in SUBSET Mask, NEW wr \in BOOLEAN, Call(t, f, m, wr),
             wr => m \cap {"MAY_WRITE", "MAY_APPEND"} # {}
      PROVE  WriterOK(t)'
  <2>1. /\ pc'[t] = IF m = {} THEN "access" ELSE "perm_feature"
        /\ writing'[t] = wr /\ mask'[t] = m
    BY <1>1, <1>2 DEF Call, Goto, PcOK, ValOK
  <2> QED BY <1>2, <2>1, Zenon DEF WriterOK
<1>3. CASE FileOpen(t)
  <2>1. PICK f \in File, fmode \in SUBSET {"FMODE_READ", "FMODE_WRITE"} :
           Call(t, f, OpenMask(fmode), "FMODE_WRITE" \in fmode)
    BY <1>3 DEF FileOpen
  <2>2. /\ OpenMask(fmode) \in SUBSET Mask /\ ("FMODE_WRITE" \in fmode) \in BOOLEAN
        /\ "FMODE_WRITE" \in fmode => OpenMask(fmode) \cap {"MAY_WRITE", "MAY_APPEND"} # {}
    BY DEF OpenMask, Mask
  <2> QED BY <1>2, <2>1, <2>2, Zenon
<1>4. CASE FileAccess(t)
  <2>1. PICK f \in File, m \in {{"MAY_READ"}, {"MAY_WRITE"}, {"MAY_WRITE", "MAY_APPEND"}} :
           Call(t, f, m, m # {"MAY_READ"})
    BY <1>4 DEF FileAccess
  <2>2. /\ m \in SUBSET Mask /\ (m # {"MAY_READ"}) \in BOOLEAN
        /\ m # {"MAY_READ"} => m \cap {"MAY_WRITE", "MAY_APPEND"} # {}
    BY DEF Mask
  <2> QED BY <1>2, <2>1, <2>2, Zenon
<1> QED BY <1>3, <1>4

(* An admission by the hook rests on a moment without the policy.  The fast  *)
(* path needs CountExact: a count of zero means that nothing is listed.     *)
LEMMA HookKeepsWriter ==
    ASSUME IInv, IInv', GuardInv, Watch, NEW t \in Task, HookStep(t)
    PROVE  WriterOK(t)'
<1>1. /\ PcOK /\ PcOK' /\ LocOK /\ ListOK /\ ValOK /\ CountExact
      /\ t \in Thread /\ t \in Caller
  BY IInvParts, IInvPartsPrimed DEF Thread, Caller
<1>2. /\ WriterOK(t)
      /\ pc[t] \in HookPc /\ ~InForce(target[t]) => t \in gap
      /\ t \in gap /\ pc[t] # "idle" /\ pc'[t] # "idle" => t \in gap'
  BY <1>1, WatchFacts, Zenon DEF GuardInv
<1>3. Admitted(t) = "access" /\ Refused(t) = "idle"
  BY DEF Admitted, Refused
<1> USE <1>1, <1>2, <1>3 DEF WriterOK, HookPc, PcOK, Goto, InForce, call_vars, locals
<1>4. CASE PermFeature(t)
  BY <1>4, Zenon DEF PermFeature
<1>5. CASE PermCount(t)
  <2>1. ASSUME protected_file_count = 0 PROVE ~Listed(DPath[target[t]])
    <3>1. protected_files \in Seq(Addr) /\ Len(protected_files) = 0
      BY <2>1, Zenon DEF CountExact, ListOK
    <3>2. DOMAIN protected_files = {}
      BY <3>1, NoElements, Zenon
    <3> QED BY <3>2, Zenon DEF Listed, Matches
  <2>2. /\ pc[t] = "perm_count" /\ UNCHANGED <<writing, mask, blind>>
        /\ (pc'[t] = "access" /\ protected_file_count = 0) \/ pc'[t] = "perm_path"
    BY <1>5, Zenon DEF PermCount
  <2> QED BY <2>1, <2>2, Zenon
<1>6. CASE PermNoPath(t)
  BY <1>6, Zenon DEF PermNoPath
<1>7. CASE PermPath(t)
  BY <1>7, Zenon DEF PermPath
<1>8. CASE PermWalk(t)
  BY <1>8, Zenon DEF PermWalk
<1>9. CASE PermEnforce(t)
  <2>1. CASE pc'[t] = "idle"
    BY <2>1, Zenon
  <2>2. CASE pc'[t] # "idle"
    <3>1. /\ pc[t] = "perm_enforce" /\ pc'[t] = "perm_log"
          /\ UNCHANGED <<writing, mask, blind>>
          /\ ~(/\ mask[t] \cap {"MAY_WRITE", "MAY_APPEND"} # {}
               /\ aegis_cfg["file_integrity_enforce"])
      BY <1>9, <2>2, Zenon DEF PermEnforce
    <3>2. writing[t] => ~InForce(target[t])
      BY <3>1, Zenon
    <3> QED BY <3>1, <3>2, Zenon
  <2> QED BY <2>1, <2>2, Zenon
<1>10. CASE PermLog(t)
  BY <1>10, Zenon DEF PermLog
<1> QED BY <1>4, <1>5, <1>6, <1>7, <1>8, <1>9, <1>10, Zenon DEF HookStep

LEMMA GuardNext == IInv /\ GuardInv /\ [Next]_vars => GuardInv'
<1> SUFFICES ASSUME IInv, GuardInv, [Next]_vars PROVE GuardInv'
  OBVIOUS
<1>1. IInv' /\ PcOK /\ PcOK' /\ ValOK
  BY NextIInv, IInvParts, IInvPartsPrimed
<1>2. CASE UNCHANGED vars
  BY <1>2, Zenon DEF GuardInv, WriterOK, InForce, AEGIS_FEATURE_CHECK, Listed, Matches,
     vars, list_vars, call_vars, locals
<1>3. CASE Next
  <2>1. Step /\ Watch
    BY <1>3 DEF Next
  <2> SUFFICES ASSUME NEW t \in Task PROVE WriterOK(t)'
    BY <1>1, <2>1, WatchFacts, Zenon DEF GuardInv
  <2>2. WriterOK(t)
    BY DEF GuardInv
  <2>3. ASSUME SameFrame(t) PROVE WriterOK(t)'
    BY <1>1, <2>1, <2>2, <2>3, FrameKeeps
  <2>4. ASSUME NEW u \in Thread, u # t,
               \/ u \in Admin /\ (AddStart(u) \/ DelStart(u))
               \/ u \in Viewer /\ ShowStart(u)
               \/ u \in Task /\ (FileOpen(u) \/ FileAccess(u))
               \/ ThreadStep(u)
        PROVE  WriterOK(t)'
    BY <2>3, <2>4, OthersKeepFrame
  <2>5. CASE FileOpen(t) \/ FileAccess(t)
    BY <1>1, <2>1, <2>5, StartKeepsWriter
  <2>6. CASE ThreadStep(t)
    <3>1. CASE HookStep(t)
      BY <1>1, <2>1, <3>1, HookKeepsWriter
    <3>2. CASE SpinLock(t)
      <4>1. pc[t] \in TaskPc /\ t \in Thread
        BY <1>1 DEF PcOK, Thread
      <4>2. /\ pc[t] = "perm_lock" /\ pc'[t] = "perm_walk"
            /\ UNCHANGED <<writing, mask, blind>>
        <5>1. pc[t] \in DOMAIN Section /\ pc' = [pc EXCEPT ![t] = Section[pc[t]]]
          BY <3>2, Zenon DEF SpinLock
        <5>2. pc[t] = "perm_lock"
          BY <4>1, <5>1, Zenon DEF Section, TaskPc, HookPc
        <5>3. pc'[t] = "perm_walk"
          <6>1. Section["perm_lock"] = "perm_walk"
            BY Zenon DEF Section
          <6> QED BY <1>1, <4>1, <5>1, <5>2, <6>1, Zenon DEF PcOK
        <5>4. UNCHANGED <<writing, mask, blind>>
          BY <3>2, Zenon DEF SpinLock, call_vars, locals
        <5> QED BY <5>2, <5>3, <5>4
      <4> QED BY <2>2, <4>2 DEF WriterOK, HookPc
    <3>3. CASE Access(t)
      <4>1. pc'[t] = "idle"
        BY <1>1, <3>3, Zenon DEF Access, Goto, PcOK, Thread
      <4> QED BY <4>1, Zenon DEF WriterOK, HookPc
    <3> QED BY <2>6, <3>1, <3>2, <3>3, FileAssumption DEF ThreadStep
  <2>7. ASSUME NEW k \in Tunable, SetKnob(k)
        PROVE  WriterOK(t)'
    <3>1. SameFrame(t)
      BY <2>7, Zenon DEF SetKnob, SameFrame, call_vars, locals
    <3> QED BY <2>3, <3>1
  <2>8. Admin \subseteq Thread /\ Viewer \subseteq Thread /\ Task \subseteq Thread
        /\ Admin \cap Task = {} /\ Viewer \cap Task = {}
    BY FileAssumption DEF Thread
  <2> QED BY <2>1, <2>4, <2>5, <2>6, <2>7, <2>8 DEF Step
<1> QED BY <1>2, <1>3

(* aegis_file_permission and aegis_file_open let a write through only if at  *)
(* some moment since the hook was entered the policy on the file was not in  *)
(* force, or no path string could be had: whatever the administrators do to  *)
(* the list and to the sysctls meanwhile, the unlocked reads of the count    *)
(* and of the knobs never add up to an admission no moment justifies.       *)
THEOREM HooksMissNothing == Spec => []WriteNeedsGap
<1>1. GuardInv => WriteNeedsGap
  BY Zenon DEF GuardInv, WriterOK, WriteNeedsGap
<1> QED BY <1>1, Invariance, GuardInit, GuardNext, PTL DEF Spec

-----------------------------------------------------------------------------
(* The abstract list and the additions pending, as FileList has them.       *)
Paths == [i \in DOMAIN protected_files |-> heap[protected_files[i]].path]
PendPc == HoldPc \cup {"add_alloc"}
Pend == [t \in Admin |-> IF pc[t] \in PendPc THEN path[t] ELSE NoName]

(* The entry an add has allocated carries the path the add was asked for:    *)
(* what it links is what it had pending.                                    *)
EntryFor(t) == pc[t] \in HoldPc => heap[file[t]].path = path[t]

HeldInv == \A t \in Admin : EntryFor(t)

(* What is in the list: entries, with their paths.                          *)
LEMMA PathsType ==
    ASSUME IInv
    PROVE  /\ DOMAIN protected_files = 1..Len(protected_files) /\ Len(protected_files) \in Nat
           /\ \A i \in 1..Len(protected_files) :
                 protected_files[i] \in Addr /\ heap[protected_files[i]] \in Entry
           /\ Paths \in Seq(Name) /\ Len(Paths) = Len(protected_files)
<1>1. ListOK /\ EntriesAccounted
  BY IInvParts
<1>2. /\ DOMAIN protected_files = 1..Len(protected_files) /\ Len(protected_files) \in Nat
      /\ \A i \in 1..Len(protected_files) : protected_files[i] \in Addr
  BY <1>1 DEF ListOK
<1>3. \A i \in 1..Len(protected_files) : heap[protected_files[i]] \in Entry
  <2> TAKE i \in 1..Len(protected_files)
  <2>1. protected_files[i] \in Range(protected_files)
    BY <1>2 DEF Range
  <2>2. heap[protected_files[i]] # Free
    BY <1>1, <1>2, <2>1 DEF EntriesAccounted
  <2> QED BY <1>1, <1>2, <2>2 DEF ListOK
<1>4. Paths = [i \in 1..Len(protected_files) |-> heap[protected_files[i]].path]
  BY <1>2 DEF Paths
<1>5. Paths \in [1..Len(protected_files) -> Name]
  BY <1>3, <1>4 DEF Entry
<1>6. Paths \in Seq(Name) /\ Len(Paths) = Len(protected_files)
  BY <1>2, <1>5
<1> QED BY <1>2, <1>3, <1>6, Zenon

(* Whatever happens to entries that are not listed, or to digests, the       *)
(* listed paths stay.                                                       *)
LEMMA PathsStay ==
    ASSUME IInv, protected_files' = protected_files,
           \A a \in Range(protected_files) : heap'[a].path = heap[a].path
    PROVE  Paths' = Paths
<1>1. \A i \in DOMAIN protected_files : protected_files[i] \in Range(protected_files)
  BY PathsType DEF Range
<1> QED BY <1>1 DEF Paths

(* The thread that moves changes at most what it has pending itself.        *)
LEMMA PendStep ==
    ASSUME IInv, NEW t \in Admin, NEW from, NEW to, Goto(t, from, to),
           \A u \in Admin \ {t} : path'[u] = path[u]
    PROVE  /\ Pend \in [Admin -> Name \cup {NoName}]
           /\ Pend[t] = IF from \in PendPc THEN path[t] ELSE NoName
           /\ Pend' = [Pend EXCEPT ![t] = IF to \in PendPc THEN path'[t] ELSE NoName]
<1>1. PcOK /\ ValOK
  BY IInvParts
<1>2. /\ pc[t] = from /\ pc'[t] = to /\ \A u \in Admin \ {t} : pc'[u] = pc[u]
  BY <1>1, Zenon DEF Goto, PcOK, Thread
<1> QED BY <1>1, <1>2, Zenon DEF Pend, ValOK

(* A step that leaves the list alone and moves no add past its tests or its   *)
(* insertion is invisible in the abstract list.                             *)
Invisible == Paths' = Paths /\ Pend' = Pend

LEMMA QuietList ==
    ASSUME IInv, HeldInv, NEW t \in Thread,
           pc' = [pc EXCEPT ![t] = pc'[t]],
           UNCHANGED <<list_vars, file>>,
           \A u \in Admin \ {t} : path'[u] = path[u],
           t \in Admin => /\ pc'[t] \in PendPc <=> pc[t] \in PendPc
                          /\ pc'[t] \in HoldPc <=> pc[t] \in HoldPc
                          /\ pc[t] \in PendPc => path'[t] = path[t]
    PROVE  Invisible /\ HeldInv'
<1>1. pc \in [Thread -> AdminPc \cup ViewerPc \cup TaskPc] /\ Admin \subseteq Thread
  BY IInvParts DEF PcOK, Thread
<1>2. \A u \in Admin \ {t} : pc'[u] = pc[u]
  BY <1>1
<1>3. Paths' = Paths
  BY PathsStay, Zenon DEF list_vars
<1>4. Pend' = Pend
  BY <1>2 DEF Pend
<1>5. HeldInv'
  BY <1>2 DEF HeldInv, EntryFor, list_vars, PendPc
<1> QED BY <1>3, <1>4, <1>5 DEF Invisible

(* The hooks, for a task and for an add that opens its file.                *)
LEMMA HookList ==
    ASSUME IInv, HeldInv, NEW t \in Caller, HookStep(t)
    PROVE  Invisible /\ HeldInv'
<1>1. t \in Thread /\ PcOK
  BY IInvParts DEF Caller, Thread
<1>2. UNCHANGED <<list_vars, file, path>>
  BY Zenon DEF HookStep, PermFeature, PermCount, PermNoPath, PermPath, PermWalk, PermEnforce,
         PermLog, locals, add_vars
<1>3. /\ pc' = [pc EXCEPT ![t] = pc'[t]]
      /\ pc[t] \in HookPc
      /\ pc'[t] \in HookPc \cup {Admitted(t), Refused(t)}
  BY <1>1, Zenon DEF HookStep, PermFeature, PermCount, PermNoPath, PermPath, PermWalk, PermEnforce,
         PermLog, Goto, HookPc, PcOK
<1>4. t \in Admin => pc'[t] \in HoldPc
  BY <1>3, FileAssumption DEF Admitted, Refused, HoldPc
<1> QED BY <1>1, <1>2, <1>3, <1>4, QuietList DEF PendPc, HoldPc

(* The other steps that the abstract list does not see.                      *)
LEMMA OtherList ==
    ASSUME IInv, HeldInv, NEW t \in Thread,
           \/ SpinLock(t)
           \/ t \in Admin /\ (AddStart(t) \/ DelStart(t) \/ AddInfo(t))
           \/ t \in Viewer /\ (ShowStart(t) \/ ShowWalk(t))
           \/ t \in Task /\ (FileOpen(t) \/ FileAccess(t) \/ Access(t))
    PROVE  Invisible /\ HeldInv'
<1>1. PcOK /\ ValOK
  BY IInvParts
<1>2. CASE SpinLock(t)
  <2>1. /\ pc[t] \in DOMAIN Section /\ pc' = [pc EXCEPT ![t] = Section[pc[t]]]
        /\ UNCHANGED <<list_vars, file, path>>
    BY <1>2, Zenon DEF SpinLock, locals, add_vars
  <2>2. pc' = [pc EXCEPT ![t] = pc'[t]] /\ pc'[t] = Section[pc[t]]
    BY <1>1, <2>1, Zenon DEF PcOK
  <2>3. pc'[t] \in HoldPc <=> pc[t] \in HoldPc
    BY <2>1, <2>2 DEF Section, HoldPc, HookPc
  <2>4. pc'[t] \in PendPc <=> pc[t] \in PendPc
    BY <2>1, <2>2, <2>3 DEF Section, PendPc
  <2> QED BY <2>1, <2>2, <2>3, <2>4, QuietList, Zenon
<1>3. CASE t \in Viewer /\ (ShowStart(t) \/ ShowWalk(t))
  <2>1. /\ pc' = [pc EXCEPT ![t] = pc'[t]] /\ t \notin Admin
        /\ UNCHANGED <<list_vars, file, path>>
    BY <1>1, <1>3, FileAssumption, Zenon DEF ShowStart, ShowWalk, Goto, PcOK, add_vars
  <2> QED BY <2>1, QuietList, SMTT(30)
<1>4. CASE t \in Task /\ (FileOpen(t) \/ FileAccess(t) \/ Access(t))
  <2>1. /\ pc' = [pc EXCEPT ![t] = pc'[t]] /\ t \notin Admin
        /\ UNCHANGED <<list_vars, file, path>>
    BY <1>1, <1>4, FileAssumption, Zenon DEF FileOpen, FileAccess, Call, Access, Goto, PcOK, add_vars
  <2> QED BY <2>1, QuietList
<1>5. CASE t \in Admin /\ (AddStart(t) \/ DelStart(t))
  <2>1. /\ pc' = [pc EXCEPT ![t] = pc'[t]] /\ pc[t] = "idle"
        /\ pc'[t] \in {"add_lock", "del_lock"}
        /\ UNCHANGED <<list_vars, file>>
        /\ \A u \in Admin \ {t} : path'[u] = path[u]
    BY <1>1, <1>5, Zenon DEF AddStart, DelStart, Goto, PcOK, ValOK
  <2> QED BY <2>1, QuietList, Zenon DEF PendPc, HoldPc, HookPc
<1>6. CASE t \in Admin /\ AddInfo(t)
  <2>1. /\ Goto(t, "add_info", "idle") /\ UNCHANGED list_vars
        /\ \A u \in Admin \ {t} : path'[u] = path[u] /\ file'[u] = file[u]
    BY <1>1, <1>6, Zenon DEF AddInfo, PcOK, ValOK
  <2>2. pc[t] = "add_info" /\ pc'[t] = "idle" /\ \A u \in Admin \ {t} : pc'[u] = pc[u]
    BY <1>1, <2>1, Zenon DEF Goto, PcOK, Thread
  <2>3. Paths' = Paths
    BY <2>1, PathsStay, Zenon DEF list_vars
  <2>4. Pend' = Pend
    BY <2>1, <2>2, Zenon DEF Pend, PendPc, HoldPc, HookPc
  <2>5. HeldInv'
    BY <2>1, <2>2, Zenon DEF HeldInv, EntryFor, list_vars, HoldPc, HookPc
  <2> QED BY <2>3, <2>4, <2>5, SMTT(30) DEF Invisible
<1> QED BY <1>2, <1>3, <1>4, <1>5, <1>6

-----------------------------------------------------------------------------
(* The strncmp walks find a path where the abstract list holds it.           *)
LEMMA MatchesAreCopies ==
    ASSUME IInv, NEW n
    PROVE  Matches(n) = {i \in 1..Len(Paths) : Paths[i] = n}
BY PathsType, Zenon DEF Matches, Paths

(* A step of an add or a deletion as the abstract list sees it.             *)
Visible ==
    \/ \E a \in Admin : \/ \E n \in Name : FileList!Admit(a, n)
                       \/ FileList!Drop(a) \/ FileList!Insert(a)
    \/ \E n \in Name : FileList!Delete(n)
    \/ Invisible

LEMMA AddCheckList ==
    ASSUME IInv, HeldInv, NEW t \in Admin, AddCheck(t)
    PROVE  Visible /\ HeldInv'
<1> DEFINE refused == AddRefused(path[t])
<1>1. /\ Goto(t, "add_check", IF refused THEN "idle" ELSE "add_alloc")
      /\ path' = [path EXCEPT ![t] = IF refused THEN NoName ELSE @]
      /\ UNCHANGED <<list_vars, file>>
  BY DEF AddCheck
<1> HIDE DEF refused
<1>2. PcOK /\ LocOK /\ ListOK /\ ValOK /\ CountExact /\ t \in Thread
  BY IInvParts, SMTT(30) DEF Thread
<1>3. /\ pc[t] = "add_check" /\ pc'[t] = IF refused THEN "idle" ELSE "add_alloc"
      /\ pc' = [pc EXCEPT ![t] = pc'[t]] /\ path[t] \in Name
      /\ \A u \in Admin \ {t} : pc'[u] = pc[u] /\ path'[u] = path[u]
  BY <1>1, <1>2, Zenon DEF Goto, PcOK, LocOK, ValOK, Thread
<1>4. HeldInv'
  BY <1>1, <1>3, Zenon DEF HeldInv, EntryFor, list_vars, HoldPc, HookPc
<1>5. Paths' = Paths
  BY <1>1, PathsStay DEF list_vars
<1>6. CASE refused
  <2>1. Pend' = Pend
    BY <1>3, <1>6, Zenon DEF Pend, PendPc, HoldPc, HookPc
  <2> QED BY <1>4, <1>5, <2>1 DEF Visible, Invisible
<1>7. CASE ~refused
  <2>1. path'[t] = path[t]
    BY <1>1, <1>2, <1>7 DEF ValOK
  <2>2. Pend[t] = NoName /\ Pend' = [Pend EXCEPT ![t] = path[t]]
    BY <1>3, <1>7, <2>1, Zenon DEF Pend, PendPc, HoldPc, HookPc
  <2>3. /\ Len(Paths) < AEGIS_MAX_PROTECTED_FILES
        /\ {i \in 1..Len(Paths) : Paths[i] = path[t]} = {}
    <3>1. protected_file_count < AEGIS_MAX_PROTECTED_FILES /\ Matches(path[t]) = {}
      BY <1>2, <1>7, FileAssumption DEF refused, AddRefused, Listed, ListOK
    <3>2. Len(Paths) < AEGIS_MAX_PROTECTED_FILES
      BY <1>2, <3>1, PathsType DEF CountExact
    <3> QED BY <3>1, <3>2, MatchesAreCopies
  <2>4. PICK n \in Name : n = path[t]
    BY <1>3
  <2>5. FileList!Admit(t, n)
    BY <1>5, <2>2, <2>3, <2>4, Zenon DEF FileList!Admit, FileList!Copies, Pend, PendPc, Paths
  <2> QED BY <1>4, <2>5 DEF Visible
<1> QED BY <1>6, <1>7

LEMMA AddNoMemList ==
    ASSUME IInv, HeldInv, NEW t \in Admin, AddNoMem(t)
    PROVE  Visible /\ HeldInv'
<1>1. /\ Goto(t, "add_alloc", "idle") /\ UNCHANGED <<list_vars, file>>
      /\ path' = [path EXCEPT ![t] = NoName]
  BY DEF AddNoMem
<1>2. PcOK /\ LocOK /\ ValOK
  BY IInvParts, SMTT(30)
<1>3. /\ pc[t] = "add_alloc" /\ pc'[t] = "idle" /\ path[t] \in Name
      /\ \A u \in Admin \ {t} : pc'[u] = pc[u] /\ path'[u] = path[u]
  BY <1>1, <1>2, Zenon DEF Goto, PcOK, LocOK, ValOK, Thread
<1>4. HeldInv'
  BY <1>1, <1>3, Zenon DEF HeldInv, EntryFor, list_vars, HoldPc, HookPc
<1>5. Paths' = Paths
  BY <1>1, PathsStay DEF list_vars
<1>6. Pend[t] = path[t] /\ Pend' = [Pend EXCEPT ![t] = NoName]
  BY <1>3, Zenon DEF Pend, PendPc, HoldPc, HookPc
<1>7. FileList!Drop(t)
  BY <1>3, <1>5, <1>6, FileAssumption, Zenon DEF FileList!Drop, Pend, PendPc, Paths
<1> QED BY <1>4, <1>7 DEF Visible

(* The entry is made at an address the list does not have.                   *)
LEMMA AddAllocList ==
    ASSUME IInv, HeldInv, NEW t \in Admin, AddAlloc(t)
    PROVE  Visible /\ HeldInv'
<1>1. PcOK /\ LocOK /\ ListOK /\ ValOK /\ EntriesAccounted
  BY IInvParts
<1>2. PICK a \in Addr :
         /\ heap[a] = Free
         /\ heap' = [heap EXCEPT ![a] = [path |-> path[t], hash |-> Pending]]
         /\ file' = [file EXCEPT ![t] = a]
  BY Zenon DEF AddAlloc
<1>3. /\ pc[t] = "add_alloc" /\ pc'[t] \in {"add_relock", "perm_feature"}
      /\ \A u \in Admin \ {t} : pc'[u] = pc[u]
      /\ UNCHANGED <<path, protected_files>>
  BY <1>1, Zenon DEF AddAlloc, Goto, PcOK, Thread
<1>4. a \notin Range(protected_files) /\ \A u \in Admin : ~Holds(u, a)
  BY <1>1, <1>2 DEF EntriesAccounted
<1>5. Paths' = Paths
  <2>1. Range(protected_files) \subseteq Addr
    BY PathsType, Zenon DEF Range
  <2> QED BY <1>1, <1>2, <1>3, <1>4, <2>1, PathsStay, Zenon DEF ListOK
<1>6. Pend' = Pend
  BY <1>3, Zenon DEF Pend, PendPc, HoldPc, HookPc
<1>7. EntryFor(t)'
  BY <1>1, <1>2, <1>3, Zenon DEF EntryFor, ListOK, ValOK
<1>8. ASSUME NEW u \in Admin \ {t}, pc[u] \in HoldPc
      PROVE  heap'[file'[u]].path = path[u]
  <2>1. file[u] \in Addr /\ file'[u] = file[u] /\ heap[file[u]].path = path[u]
    BY <1>1, <1>2, <1>8, Zenon DEF LocOK, ValOK, HeldInv, EntryFor
  <2>2. file[u] # a
    BY <1>4, <1>8, SMTT(30) DEF Holds
  <2> QED BY <1>1, <1>2, <2>1, <2>2, SMTT(30) DEF ListOK
<1>9. HeldInv'
  BY <1>3, <1>7, <1>8, Zenon DEF HeldInv, EntryFor
<1> QED BY <1>5, <1>6, <1>9 DEF Visible, Invisible

(* The digest goes into the entry, its path stays.                          *)
LEMMA AddHashList ==
    ASSUME IInv, HeldInv, NEW t \in Admin, AddHash(t)
    PROVE  Visible /\ HeldInv'
<1>1. PcOK /\ LocOK /\ ListOK /\ ValOK /\ EntriesAccounted
  BY IInvParts
<1>2. PICK digest : heap' = [heap EXCEPT ![file[t]].hash = digest]
  BY Zenon DEF AddHash
<1>3. /\ pc[t] = "add_hash" /\ pc'[t] = "add_relock"
      /\ \A u \in Admin \ {t} : pc'[u] = pc[u]
      /\ UNCHANGED <<path, file, protected_files>>
  BY <1>1 DEF AddHash, Goto, PcOK, Thread, add_vars
<1>4. file[t] \in Addr /\ Holds(t, file[t])
  BY <1>1, <1>3, Zenon DEF LocOK, Holds, HoldPc
<1>5. heap[file[t]] \in Entry
  BY <1>1, <1>4 DEF EntriesAccounted, ListOK
<1>6. \A b \in Addr : heap[b] \in Entry => heap'[b].path = heap[b].path
  BY <1>1, <1>2, <1>4, <1>5 DEF ListOK, Entry
<1>7. Paths' = Paths
  BY <1>3, <1>6, PathsType, PathsStay, Zenon DEF Range
<1>8. Pend' = Pend
  BY <1>3 DEF Pend, PendPc, HoldPc, HookPc
<1>9. ASSUME NEW u \in Admin, pc[u] \in HoldPc
      PROVE  heap'[file[u]].path = path[u]
  <2>1. file[u] \in Addr /\ heap[file[u]].path = path[u] /\ Holds(u, file[u])
    BY <1>1, <1>9, Zenon DEF LocOK, HeldInv, EntryFor, Holds
  <2>2. heap[file[u]] \in Entry
    BY <1>1, <2>1, Zenon DEF EntriesAccounted, ListOK
  <2> QED BY <1>6, <2>1, <2>2
<1>10. HeldInv'
  BY <1>3, <1>9, Zenon DEF HeldInv, EntryFor, HoldPc
<1> QED BY <1>7, <1>8, <1>10 DEF Visible, Invisible

(* What is linked is the path that was pending.                             *)
LEMMA AddInsertList ==
    ASSUME IInv, HeldInv, NEW t \in Admin, AddInsert(t)
    PROVE  Visible /\ HeldInv'
<1>1. PcOK /\ LocOK /\ ListOK /\ ValOK
  BY IInvParts
<1>2. /\ protected_files' = Append(protected_files, file[t])
      /\ UNCHANGED <<heap, path, file>>
      /\ pc[t] = "add_insert" /\ pc'[t] = "add_info"
      /\ \A u \in Admin \ {t} : pc'[u] = pc[u]
  BY <1>1 DEF AddInsert, Goto, PcOK, Thread, locals, add_vars
<1>3. file[t] \in Addr /\ path[t] \in Name /\ heap[file[t]].path = path[t]
  BY <1>1, <1>2, Zenon DEF LocOK, HeldInv, EntryFor, HoldPc
<1>4. HeldInv'
  BY <1>2, Zenon DEF HeldInv, EntryFor, HoldPc, HookPc
<1>5. Pend[t] = path[t] /\ Pend' = [Pend EXCEPT ![t] = NoName]
  BY <1>2, Zenon DEF Pend, PendPc, HoldPc, HookPc
<1>6. Paths' = Append(Paths, path[t])
  <2> DEFINE r == protected_files'
             n == Len(protected_files)
  <2>1. /\ DOMAIN r = 1..n + 1 /\ r[n + 1] = file[t] /\ n \in Nat
        /\ \A i \in 1..n : r[i] = protected_files[i]
    <3>1. r = Append(protected_files, file[t]) /\ protected_files \in Seq(Addr)
      BY <1>1, <1>2, Zenon DEF ListOK
    <3>2. /\ DOMAIN Append(protected_files, file[t]) = 1..n + 1
          /\ Append(protected_files, file[t])[n + 1] = file[t] /\ n \in Nat
          /\ \A i \in 1..n : Append(protected_files, file[t])[i] = protected_files[i]
      <4>1. file[t] \in Addr
        BY <1>3, Zenon
      <4> QED BY <3>1, <4>1, AppendElements
    <3> QED BY <3>1, <3>2, Zenon
  <2>2. /\ Append(Paths, path[t]) \in Seq(Name) /\ Len(Append(Paths, path[t])) = n + 1
        /\ Append(Paths, path[t])[n + 1] = path[t]
        /\ \A i \in 1..n : Append(Paths, path[t])[i] = Paths[i]
    <3>1. Paths \in Seq(Name) /\ Len(Paths) = n /\ path[t] \in Name
      BY <1>3, PathsType, Zenon
    <3> QED BY <3>1, AppendElements
  <2>3. \A i \in 1..n : Paths[i] = heap[protected_files[i]].path
    BY PathsType DEF Paths
  <2>4. Paths' = [i \in DOMAIN r |-> heap[r[i]].path]
    BY <1>2 DEF Paths
  <2> HIDE DEF r, n
  <2>5. \A i \in 1..n + 1 : Append(Paths, path[t])[i] = heap[r[i]].path
    BY <1>3, <2>1, <2>2, <2>3
  <2>6. Append(Paths, path[t]) = [i \in 1..n + 1 |-> heap[r[i]].path]
    BY <2>2, <2>5
  <2> QED BY <2>1, <2>4, <2>6
<1>7. FileList!Insert(t)
  BY <1>3, <1>5, <1>6, FileAssumption, Zenon DEF FileList!Insert, Pend, PendPc, Paths
<1> QED BY <1>4, <1>7 DEF Visible

(* Unlinking the first entry with a path removes the path's first place, and *)
(* freeing it takes the path of no other entry away.                        *)
LEMMA DelPaths ==
    ASSUME IInv, NEW n, NEW i \in Matches(n),
           protected_files' = list_del(protected_files, i), kfree(protected_files[i])
    PROVE  /\ Paths' = list_del(Paths, i)
           /\ \A b \in Addr : b # protected_files[i] => heap'[b] = heap[b]
<1>1. /\ protected_files \in Seq(Addr) /\ IsInjective(protected_files)
      /\ heap \in [Addr -> Entry \cup {Free}]
      /\ i \in 1..Len(protected_files) /\ i \in 1..Len(Paths)
  BY IInvParts, PathsType, Zenon DEF ListOK, EntriesAccounted, Matches
<1>2. \A b \in Addr : b # protected_files[i] => heap'[b] = heap[b]
  BY <1>1 DEF kfree
<1> DEFINE r == list_del(protected_files, i)
           q == list_del(Paths, i)
           l == Len(protected_files)
<1>3. /\ r \in Seq(Addr) /\ Len(r) = l - 1
      /\ \A j \in 1..(l - 1) : r[j] = IF j < i THEN protected_files[j] ELSE protected_files[j + 1]
      /\ Range(r) = Range(protected_files) \ {protected_files[i]}
  BY <1>1, DelProperties, Zenon
<1>4. l \in Nat /\ Len(Paths) = l /\ \A j \in 1..l : Paths[j] = heap[protected_files[j]].path
  <2>1. /\ l \in Nat /\ Len(Paths) = l /\ DOMAIN protected_files = 1..l
    BY PathsType, Zenon
  <2> HIDE DEF l
  <2> QED BY <2>1 DEF Paths
<1>5. /\ q \in Seq(Name) /\ Len(q) = l - 1
      /\ \A j \in 1..(l - 1) : q[j] = IF j < i THEN Paths[j] ELSE Paths[j + 1]
  BY <1>1, <1>4, PathsType, DelElements, Zenon
<1> HIDE DEF r, q, l
<1>6. \A j \in 1..(l - 1) : q[j] = heap[r[j]].path
  <2> TAKE j \in 1..(l - 1)
  <2>1. j \in 1..l /\ j + 1 \in 1..l
    BY <1>4
  <2> QED BY <1>3, <1>4, <1>5, <2>1, Zenon
<1>7. \A j \in 1..(l - 1) : heap'[r[j]] = heap[r[j]]
  <2> TAKE j \in 1..(l - 1)
  <2>0. DOMAIN r = 1..Len(r) /\ \A k \in 1..Len(r) : r[k] \in Addr
    <3>1. r \in Seq(Addr)
      BY <1>3, Zenon
    <3> QED BY <3>1
  <2>1. j \in DOMAIN r /\ r[j] \in Addr
    BY <1>3, <2>0, Zenon
  <2>2. r[j] \in Range(r)
    BY <2>1, Zenon DEF Range
  <2> QED BY <1>2, <1>3, <2>1, <2>2, Zenon
<1>8. Paths' = [j \in 1..(l - 1) |-> heap'[r[j]].path]
  <2>1. DOMAIN r = 1..(l - 1)
    BY <1>3
  <2> QED BY <2>1, Zenon DEF Paths, r
<1>9. q = [j \in 1..(l - 1) |-> q[j]]
  BY <1>5
<1>10. Paths' = q
  BY <1>6, <1>7, <1>8, <1>9
<1> QED BY <1>2, <1>10 DEF q

LEMMA DelWalkList ==
    ASSUME IInv, HeldInv, NEW t \in Admin, DelWalk(t)
    PROVE  Visible /\ HeldInv'
<1>1. PcOK /\ LocOK /\ ListOK /\ ValOK /\ EntriesAccounted
  BY IInvParts
<1>2. /\ pc[t] = "del_walk" /\ pc'[t] = "idle" /\ path[t] \in Name /\ UNCHANGED file
      /\ \A u \in Admin \ {t} : pc'[u] = pc[u] /\ path'[u] = path[u]
  BY <1>1, Zenon DEF DelWalk, Goto, PcOK, LocOK, ValOK, Thread
<1>3. Pend' = Pend
  BY <1>2, Zenon DEF Pend, PendPc, HoldPc, HookPc
<1>4. CASE UNCHANGED list_vars
  <2>1. Paths' = Paths
    BY <1>4, PathsStay DEF list_vars
  <2>2. HeldInv'
    BY <1>2, <1>4, Zenon DEF HeldInv, EntryFor, list_vars, HoldPc, HookPc
  <2> QED BY <1>3, <2>1, <2>2 DEF Visible, Invisible
<1>5. CASE ~UNCHANGED list_vars
  <2>0. PICK n \in Name : n = path[t]
    BY <1>2
  <2>1. PICK i \in Matches(n) :
           /\ \A j \in Matches(n) : i <= j
           /\ protected_files' = list_del(protected_files, i)
           /\ kfree(protected_files[i])
    BY <1>5, <2>0 DEF DelWalk
  <2>2. /\ Paths' = list_del(Paths, i)
        /\ \A b \in Addr : b # protected_files[i] => heap'[b] = heap[b]
    BY <2>1, DelPaths, Zenon
  <2>3. FileList!Delete(n)
    BY <1>3, <2>1, <2>2, MatchesAreCopies, Zenon
       DEF FileList!Delete, FileList!Copies, list_del, Pend, PendPc, Paths
  <2>4. protected_files[i] \in Range(protected_files)
    BY <2>1 DEF Matches, Range
  <2>5. ASSUME NEW u \in Admin, u # t, pc[u] \in HoldPc
        PROVE  heap'[file[u]].path = path[u]
    <3>1. file[u] \in Addr /\ heap[file[u]].path = path[u] /\ Holds(u, file[u])
      BY <1>1, <2>5, Zenon DEF LocOK, HeldInv, EntryFor, Holds
    <3>2. file[u] # protected_files[i]
      BY <1>1, <2>4, <3>1, Zenon DEF EntriesAccounted
    <3> QED BY <2>2, <3>1, <3>2, Zenon
  <2>6. HeldInv'
    BY <1>2, <2>5, Zenon DEF HeldInv, EntryFor, HoldPc, HookPc
  <2> QED BY <2>3, <2>6 DEF Visible
<1> QED BY <1>4, <1>5, SMTT(30)

-----------------------------------------------------------------------------
LEMMA InitList == Init => FileList!Init /\ HeldInv
<1> SUFFICES ASSUME Init PROVE FileList!Init /\ HeldInv
  OBVIOUS
<1>1. Paths = <<>>
  BY DEF Init, Paths
<1>2. Pend = [a \in Admin |-> NoName] /\ HeldInv
  BY DEF Init, Pend, PendPc, HoldPc, HookPc, Thread, HeldInv, EntryFor
<1>3. Paths \in Seq(Name) /\ Len(Paths) = 0 /\ 0 <= AEGIS_MAX_PROTECTED_FILES
  BY <1>1, FileAssumption
<1>4. \A i, j \in 1..Len(Paths) : Paths[i] = Paths[j] => i = j
  BY <1>3
<1> QED BY <1>2, <1>3, <1>4, Zenon DEF FileList!Init, Pend, PendPc, Paths

LEMMA NextList ==
    IInv /\ HeldInv /\ [Next]_vars => [FileList!Next]_(FileList!vars) /\ HeldInv'
<1> SUFFICES ASSUME IInv, HeldInv, [Next]_vars PROVE Visible /\ HeldInv'
  BY Zenon DEF FileList!Next, FileList!vars, Visible, Invisible, Pend, PendPc, Paths
<1>0. Invisible => Visible
  BY DEF Visible
<1>1. CASE UNCHANGED vars
  BY <1>1, Zenon DEF vars, list_vars, locals, add_vars, Visible, Invisible, Pend, Paths, HeldInv, EntryFor
<1>2. CASE \E k \in Tunable : SetKnob(k)
  BY <1>2, Zenon DEF SetKnob, list_vars, locals, add_vars, Visible, Invisible, Pend, Paths, HeldInv,
              EntryFor
<1>3. CASE \E t \in Admin : AddStart(t) \/ DelStart(t)
  BY <1>0, <1>3, OtherList DEF Thread
<1>4. CASE \E t \in Viewer : ShowStart(t)
  BY <1>0, <1>4, OtherList DEF Thread
<1>5. CASE \E t \in Task : FileOpen(t) \/ FileAccess(t)
  BY <1>0, <1>5, OtherList DEF Thread
<1>6. ASSUME NEW t \in Thread, ThreadStep(t) PROVE Visible /\ HeldInv'
  <2>1. CASE SpinLock(t)
    BY <1>0, <2>1, OtherList
  <2>2. CASE t \in Viewer /\ ShowWalk(t)
    BY <1>0, <2>2, OtherList
  <2>3. CASE t \in Task /\ (HookStep(t) \/ Access(t))
    BY <1>0, <2>3, OtherList, HookList DEF Caller
  <2>4. CASE t \in Admin /\ AdminStep(t)
    BY <1>0, <2>4, OtherList, HookList, AddCheckList, AddNoMemList, AddAllocList, AddHashList,
       AddInsertList, DelWalkList DEF AdminStep, Caller
  <2> QED BY <1>6, <2>1, <2>2, <2>3, <2>4 DEF ThreadStep
<1> QED BY <1>1, <1>2, <1>3, <1>4, <1>5, <1>6 DEF Next, Step

(* Every change of the list of protected files is one GuardedList makes,     *)
(* whatever the threads, the names, the memory and the capacity.            *)
THEOREM ListImplemented == Spec => ImplementsList
BY InitList, NextList, Invariance, PTL DEF Spec, ImplementsList, FileList!Spec

Bounds == INSTANCE GuardedListProofs WITH
    list <- [i \in DOMAIN protected_files |-> heap[protected_files[i]].path],
    pending <- [t \in Admin |->
                   IF pc[t] \in HoldPc \cup {"add_alloc"} THEN path[t] ELSE NoName],
    Key <- Name, NoKey <- NoName, Capacity <- AEGIS_MAX_PROTECTED_FILES

(* It is the same abstract list that GuardedListProofs is about.            *)
LEMMA SameList ==
    /\ FileList!Init => Bounds!Init
    /\ [FileList!Next]_(FileList!vars) => [Bounds!Next]_(Bounds!vars)
<1>1. FileList!Init => Bounds!Init
  BY Zenon DEF Bounds!Init, FileList!Init
<1>2. [FileList!Next]_(FileList!vars) => [Bounds!Next]_(Bounds!vars)
  BY Zenon DEF Bounds!Next, FileList!Next, Bounds!vars, FileList!vars, Bounds!Admit,
              FileList!Admit, Bounds!Drop, FileList!Drop, Bounds!Insert,
              FileList!Insert, Bounds!Delete, FileList!Delete, Bounds!Copies, FileList!Copies
<1> QED BY <1>1, <1>2

(* The entries with a path are the places of the path in the abstract list. *)
LEMMA BoundCopies == IInv /\ Bounds!Bounded => CopiesBounded
<1> SUFFICES ASSUME IInv, Bounds!Bounded, NEW n \in Name
             PROVE  Cardinality(Matches(n)) <= Cardinality(Admin)
  BY DEF CopiesBounded
<1>1. Bounds!Copies(n) = Matches(n)
  BY MatchesAreCopies, Zenon DEF Bounds!Copies, Paths
<1>2. \A S : Bounds!Cardinality(S) = Cardinality(S)
  BY SMTT(30) DEF Bounds!Cardinality, Cardinality
<1> QED BY <1>1, <1>2 DEF Bounds!Bounded

(* Both lists are of one length.                                            *)
LEMMA BoundLength == IInv /\ Bounds!Bounded => OvershootBounded
<1> SUFFICES ASSUME IInv, Bounds!Bounded PROVE OvershootBounded
  OBVIOUS
<1>1. Paths \in Seq(Name) /\ Len(Paths) = Len(protected_files)
  BY PathsType
<1>2. \A S : Bounds!Cardinality(S) = Cardinality(S)
  BY DEF Bounds!Cardinality, Cardinality
<1> QED BY <1>1, <1>2, Zenon DEF Bounds!Bounded, OvershootBounded, Paths

(* The bounds of the abstract list, whose steps are all the list takes.     *)
LEMMA BoundsHold == Spec => []Bounds!Bounded
<1>1. Bounds!Setting
  BY FileAssumption DEF Bounds!Setting, Bounds!IsFiniteSet, IsFiniteSet
<1>2. Bounds!Spec => []Bounds!Bounded
  BY <1>1, Bounds!ListBounded
<1>3. FileList!Init => Bounds!Init
  BY SameList
<1>4. [FileList!Next]_(FileList!vars) => [Bounds!Next]_(Bounds!vars)
  BY SameList
<1> QED BY <1>2, <1>3, <1>4, ListImplemented, PTL
        DEF ImplementsList, FileList!Spec, Bounds!Spec

(* A path is listed at most once for each thread that adds, since add tests  *)
(* for a duplicate before it lets go of the lock and not again.             *)
THEOREM CopiesAreBounded == Spec => []CopiesBounded
BY BoundsHold, BoundCopies, Invariance, PTL

(* However many threads add at once and however the allocations and digests  *)
(* between the two critical sections of aegis_protected_file_add interleave, *)
(* the list outgrows AEGIS_MAX_PROTECTED_FILES by at most the number of      *)
(* adding threads less one.                                                  *)
THEOREM OvershootIsBounded == Spec => []OvershootBounded
BY BoundsHold, BoundLength, Invariance, PTL
=============================================================================
