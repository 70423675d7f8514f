---------------------------- MODULE AegisControl ----------------------------
(***************************************************************************)
(* The way in from userspace: the six control endpoints (aegis_control.c)   *)
(* on top of the lists, and the commands of aegisctl (aegisctl.c) that write *)
(* to them.                                                                 *)
(*                                                                          *)
(* The three lists share no state, so a behaviour is about one of them,      *)
(* which Init picks.  The list operations take the steps of GuardedList.    *)
(***************************************************************************)
EXTENDS AegisRequest

CONSTANTS
    Client,     \* processes that write to the endpoints
    Text,       \* Text[l]: what is written to the endpoints of list l
    Limit,      \* Limit[l]: the capacity of list l
    Boot,       \* Boot[l]: what the init of list l may have added to it, in
                \* the form of texts (its allocations may fail)
    None

Errors == {"EPERM", "ENOMEM", "EFAULT", "EINVAL", "ENOSPC", "EEXIST", "ENOENT"}

ASSUME ControlAssumption ==
    /\ Client # {} /\ IsFiniteSet(Client)
    /\ Limit \in [List -> Nat \ {0}] /\ Text \in [List -> SUBSET Seq(Char)]
    /\ Boot \in [List -> SUBSET Seq(Seq(Char))]
    /\ \A l \in List : \A texts \in Boot[l] : Len(texts) <= Limit[l]
    /\ None \notin Errors \cup {"len", "0"}

VARIABLES
    kind,       \* which of the lists this is
    list,       \* the list, of paths, of names with pids, or of numbers
    pc,
    req,        \* what each client asks: operation, text, program
    key,        \* what the list operation is called with
    ret,        \* what write(2) returns: "len", "0", or an error
    changes     \* history: how often each client's request changed the list

vars == <<kind, list, pc, req, key, ret, changes>>

Goto(t, from, to) ==
    /\ pc[t] = from
    /\ pc' = [pc EXCEPT ![t] = to]

(* The handler returns r.                                                   *)
Return(c, from, r) ==
    /\ Goto(c, from, "done")
    /\ ret' = [ret EXCEPT ![c] = r]

(* An authorized writer's text can be refused, can come to nothing, in which *)
(* case aectl_get_string's 0 goes back to the writer, or is acted on.       *)
Refused(text) == ~WellFormed(kind, text)
Vain(text) == ~Refused(text) /\ Line(kind, text) = <<>>

(* How a handler ends before it gets to the list operation: no               *)
(* CAP_MAC_ADMIN, no memory for the path's buffer, a copy that faults, a text *)
(* that is refused or comes to nothing.                                     *)
EarlyReturn(text, authorized, r) ==
    \/ ~authorized /\ r = "EPERM"
    \/ authorized /\ kind = "files" /\ LengthOK(kind, text) /\ r = "ENOMEM"
    \/ authorized /\ LengthOK(kind, text) /\ r = "EFAULT"
    \/ authorized /\ Refused(text) /\ r = "EINVAL"
    \/ authorized /\ Vain(text) /\ r = "0"

(* write(2) of a text to an endpoint.                                       *)
Submit(c, r, authorized) ==
    /\ req' = [req EXCEPT ![c] = r]
    /\ \/ /\ \E e \in Errors \cup {"0"} : EarlyReturn(r.text, authorized, e) /\ Return(c, "idle", e)
          /\ UNCHANGED key
       \/ /\ authorized /\ ~Refused(r.text) /\ ~Vain(r.text)
          /\ Goto(c, "idle", r.op)
          /\ key' = [key EXCEPT ![c] = Target(kind, r.text)]
          /\ UNCHANGED ret
    /\ UNCHANGED <<kind, list, changes>>

(* A write by any program.                                                  *)
Write(c) ==
    /\ pc[c] = "idle"
    /\ \E op \in {"add", "del"}, text \in Text[kind], authorized \in BOOLEAN :
        Submit(c, [op |-> op, text |-> text, by |-> "any"], authorized)

(* aegisctl {file,proc,syscall}-{add,del} text: cmd_write passes the first    *)
(* argument on as it is, and no other.                                      *)
cmd_write(c) ==
    /\ pc[c] = "idle"
    /\ \E op \in {"add", "del"}, text \in Text[kind], authorized \in BOOLEAN :
        /\ ~HasNul(text)
        /\ Submit(c, [op |-> op, text |-> text, by |-> "aegisctl"], authorized)

(***************************************************************************)
(* The list operations, in the steps of GuardedList.                        *)
(***************************************************************************)
Changed(c, s) ==
    /\ list' = s
    /\ changes' = [changes EXCEPT ![c] = @ + 1]

(* Mutant: the capacity is not looked at.                                   *)
AddCheck_NoLimit(c) ==
    LET there == key[c] \in Range(list)
    IN  /\ \/ there /\ Return(c, "add", "EEXIST")
           \/ ~there /\ Goto(c, "add", "alloc") /\ UNCHANGED ret
        /\ UNCHANGED <<kind, list, req, key, changes>>

AddCheck(c) ==
    LET full == Len(list) >= Limit[kind]
        there == key[c] \in Range(list)
    IN  /\ \/ full /\ Return(c, "add", "ENOSPC")
           \/ ~full /\ there /\ Return(c, "add", "EEXIST")
           \/ ~full /\ ~there /\ Goto(c, "add", "alloc") /\ UNCHANGED ret
        /\ UNCHANGED <<kind, list, req, key, changes>>

AddNoMem(c) ==
    /\ Return(c, "alloc", "ENOMEM")
    /\ UNCHANGED <<kind, list, req, key, changes>>

AddInsert(c) ==
    /\ Return(c, "alloc", "len")
    /\ Changed(c, Append(list, key[c]))
    /\ UNCHANGED <<kind, req, key>>

(* Mutant: a deletion that finds nothing succeeds.                          *)
Del_Quiet(c) ==
    /\ Return(c, "del", "len")
    /\ \/ key[c] \notin Range(list) /\ UNCHANGED <<list, changes>>
       \/ \E i \in FirstAt(list, key[c]) : Changed(c, list_del(list, i))
    /\ UNCHANGED <<kind, req, key>>

Del(c) ==
    /\ \/ /\ key[c] \notin Range(list)
          /\ Return(c, "del", "ENOENT")
          /\ UNCHANGED <<list, changes>>
       \/ /\ Return(c, "del", "len")
          /\ \E i \in FirstAt(list, key[c]) : Changed(c, list_del(list, i))
    /\ UNCHANGED <<kind, req, key>>

(* write(2) has returned and aegisctl has said so.                          *)
Finish(c) ==
    /\ Goto(c, "done", "idle")
    /\ req' = [req EXCEPT ![c] = None]
    /\ key' = [key EXCEPT ![c] = None]
    /\ ret' = [ret EXCEPT ![c] = None]
    /\ changes' = [changes EXCEPT ![c] = 0]
    /\ UNCHANGED <<kind, list>>

(* write_secfs takes any result that is not an error for success.           *)
ReportedOK(c) == pc[c] = "done" /\ req[c].by = "aegisctl" /\ ret[c] \notin Errors
-----------------------------------------------------------------------------
Init ==
    /\ kind \in List
    /\ \E texts \in Boot[kind] : list = [i \in DOMAIN texts |-> Target(kind, texts[i])]
    /\ pc = [c \in Client |-> "idle"]
    /\ req = [c \in Client |-> None]
    /\ key = [c \in Client |-> None]
    /\ ret = [c \in Client |-> None]
    /\ changes = [c \in Client |-> 0]

Next ==
    \E c \in Client : \/ Write(c) \/ cmd_write(c)
                      \/ AddCheck(c) \/ AddNoMem(c) \/ AddInsert(c) \/ Del(c) \/ Finish(c)

Spec == Init /\ [][Next]_vars
-----------------------------------------------------------------------------
(* The variables have their types: answers are of write(2)'s kinds and the   *)
(* list stays within its capacity for one writer.                           *)
TypeOK ==
    /\ kind \in List
    /\ \A c \in Client : /\ pc[c] \in {"idle", "add", "alloc", "del", "done"}
                         /\ ret[c] \in Errors \cup {"len", "0", None}
                         /\ (ret[c] = None) = (pc[c] # "done")
    /\ Len(list) < Limit[kind] + Cardinality(Client)

(* The path an operation is called with is the one that was written, without *)
(* its line ends, whatever the lengths aectl_write_op and aectl_get_string   *)
(* allow; only a write of exactly AEGIS_PATH_LEN characters that does not     *)
(* end in a line end loses its last one.                                    *)
PathWhole ==
    \A c \in Client :
        kind = "files" /\ pc[c] \in {"add", "del", "alloc"} =>
            LET text == req[c].text
            IN  \/ key[c] = Strip(text)
                \/ /\ Len(text) = AEGIS_PATH_LEN /\ text[Len(text)] # "\n"
                   /\ key[c] = Strip(SubSeq(text, 1, Len(text) - 1))

(* What the documented forms ask for: "comm" a name without a pid, "comm pid" *)
(* an entry with both, a decimal number that syscall.                       *)
Digits(s) == s # <<>> /\ \A i \in DOMAIN s : s[i] \in Digit

AsksForName(line, comm) ==
    line = comm /\ \A i \in DOMAIN comm : comm[i] \notin Blank

AsksForPid(line, comm, pid) ==
    line = comm \o <<" ">> \o pid /\ Digits(pid) /\ \A i \in DOMAIN comm : comm[i] \notin Blank

(* A request in the documented form, whose name fits in AEGIS_COMM_LEN and    *)
(* whose number is an int, gets through the parsing with the name and the    *)
(* number it gives: the width in the format cuts nothing off it and the pid  *)
(* is not taken from, or lost to, the name.                                 *)
RequestHonoured ==
    \A c \in Client :
        pc[c] \in {"add", "del", "alloc"} /\ kind # "files" =>
            LET line == Strip(req[c].text)
            IN  /\ kind = "syscalls" /\ Digits(line) => key[c] = Number(line)
                /\ kind = "procs" =>
                     \A n \in 1..Min({Len(line), AEGIS_COMM_LEN - 1}) :
                        LET comm == SubSeq(line, 1, n)
                            pid == After(line, n + 1)
                        IN  /\ AsksForName(line, comm) => key[c] = [comm |-> comm, pid |-> 0]
                            /\ AsksForPid(line, comm, pid) /\ Number(pid) <= INT_MAX =>
                                  key[c] = [comm |-> comm, pid |-> Number(pid)]

(* A writer that is told its length has changed the list exactly once, and    *)
(* one that is told anything else has not changed it, however often it has   *)
(* been read or refused in between; what aegisctl reports as done is done     *)
(* unless its argument was nothing but line ends, as far as it was copied.  *)
AnswerTrue ==
    \A c \in Client :
        /\ pc[c] = "done" => changes[c] = IF ret[c] = "len" THEN 1 ELSE 0
        /\ ReportedOK(c) => \/ changes[c] = 1
                            \/ \A i \in DOMAIN req[c].text :
                                  req[c].text[i] = "\n" \/ i = AEGIS_PATH_LEN
=============================================================================
