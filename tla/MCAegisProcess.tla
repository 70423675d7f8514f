--------------------------- MODULE MCAegisProcess ---------------------------
(* Instances of AegisProcess: a leader and a thread of it, an entry for a    *)
(* name and one for a name with pid 1.                                      *)
EXTENDS AegisProcess, TLC

CONSTANTS lead, thr

MCLeader == [c \in {lead, thr} |-> lead]

Sshd == [comm |-> "sshd", pid |-> 0]
Init1 == [comm |-> "init", pid |-> 1]

RequestList == {Sshd, Init1}

(* Administrators are interchangeable.                                      *)
AdminSymmetry == Permutations(Admin)

(* What only a race of administrators makes: overlapping calls, copies of an  *)
(* entry, a list beyond its capacity.                                       *)
Racing ==
    \/ \A t \in Admin : pc[t] # "idle"
    \/ ~IsInjective(protected_procs)
    \/ Len(protected_procs) > AEGIS_MAX_PROTECTED_PROCS

(* Bound: administrators race only while no task lives and the knobs are as   *)
(* booted.                                                                  *)
RacesComeFirst ==
    Racing => /\ \A c \in Task : pid[c] = 0
              /\ \A k \in Tunable : aegis_cfg[k] <=> k # "ptrace_restrict_all"

(* Bound: a hook that has met moments at which neither the list nor           *)
(* ptrace_restrict_all was in force may answer as it likes, and is not        *)
(* followed further; nor is a behaviour after its first refusal, which        *)
(* leaves nothing behind but the counters.                                  *)
Undecided == gap \cap free_for_all = {} /\ ptrace_blocked = 0

(* Bound: tasks come and go between hooks.  The child of a running hook and   *)
(* its leader cannot go, and a hook looks at no other task.                 *)
TasksChangeBetweenHooks == pid' # pid => \A t \in Tracer : pc[t] = "idle"
=============================================================================
