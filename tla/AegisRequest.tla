---------------------------- MODULE AegisRequest ----------------------------
(***************************************************************************)
(* What the control endpoints make of the bytes written to them             *)
(* (aegis_control.c): the length tests, aectl_get_string, and the formats   *)
(* read with sscanf and kstrtoint.  A text is a sequence of characters of   *)
(* few kinds: letters, digits, a sign, a blank, a line end (\n or \r), NUL. *)
(***************************************************************************)
EXTENDS FiniteSetsExt, KernelList

CONSTANTS
    AEGIS_PATH_LEN,     \* the buffer for a path and for "comm pid"
    AEGIS_COMM_LEN,     \* the buffer for a name
    NrBufLen,           \* the buffer for a syscall number
    INT_MAX

List == {"files", "procs", "syscalls"}

ASSUME RequestAssumption ==
    /\ AEGIS_COMM_LEN \in Nat \ {0, 1} /\ AEGIS_PATH_LEN >= AEGIS_COMM_LEN
    /\ AEGIS_PATH_LEN \in Nat /\ NrBufLen \in Nat \ {0, 1} /\ INT_MAX \in Nat \ {0}

Blank == {" ", "\n"}
Digit == {"0", "1"}
Char == Blank \cup Digit \cup {"a", "+", "-", "NUL"}

(* The longest beginning of s that has characters of C only, and the rest.   *)
Span(s, C) == SubSeq(s, 1, Min({n \in 0..Len(s) : n = Len(s) \/ s[n + 1] \notin C}))
After(s, n) == SubSeq(s, n + 1, Len(s))
SkipBlanks(s) == After(s, Len(Span(s, Blank)))

Number(digits) ==
    LET value[n \in 0..Len(digits)] ==
            IF n = 0 THEN 0 ELSE 10 * value[n - 1] + (IF digits[n] = "1" THEN 1 ELSE 0)
    IN  value[Len(digits)]

(* The conversion of a long long to an int.                                 *)
ToInt(n) == ((n + INT_MAX + 1) % (2 * (INT_MAX + 1))) - (INT_MAX + 1)

BufLen(l) == IF l = "syscalls" THEN NrBufLen ELSE AEGIS_PATH_LEN

(* The length tests: aectl_write_op lets a write as long as the buffer pass, *)
(* the other handlers do not.                                               *)
LengthOK(l, text) ==
    text # <<>> /\ (IF l = "files" THEN Len(text) <= BufLen(l) ELSE Len(text) < BufLen(l))

(* Mutant: one character less than fits is copied.                          *)
Copied_Short(text, max) == SubSeq(text, 1, Min({Len(text), max - 2}))

(* aectl_get_string: at most max - 1 characters are copied, a NUL among them *)
(* is refused, line ends are stripped.                                      *)
Copied(text, max) == SubSeq(text, 1, Min({Len(text), max - 1}))

HasNul(text) == "NUL" \in Range(text)

Strip(s) == SubSeq(s, 1, Max({n \in 0..Len(s) : n = 0 \/ s[n] # "\n"}))

(* Mutant: the width in the format is one less than the buffer takes.       *)
sscanf_Narrow(s) ==
    LET t == SkipBlanks(s)
        word == Span(t, Char \ Blank)
        digits == Span(SkipBlanks(After(t, Len(word))), Digit)
    IN  [comm |-> SubSeq(word, 1, Min({Len(word), AEGIS_COMM_LEN - 2})), pid |-> ToInt(Number(digits))]

(* sscanf(s, "%15s %d"): the name is the first word, as far as it fits; what *)
(* follows it, blanks or not, is read as a number if it begins as one, and   *)
(* the pid stays 0 otherwise.  A text of blanks gives the empty name.       *)
sscanf(s) ==
    LET t == SkipBlanks(s)
        word == Span(t, Char \ Blank)
        comm == SubSeq(word, 1, Min({Len(word), AEGIS_COMM_LEN - 1}))
        rest == SkipBlanks(After(t, Len(comm)))
        neg == rest # <<>> /\ rest[1] = "-"
        n == Number(Span(IF neg THEN Tail(rest) ELSE rest, Digit))
    IN  [comm |-> comm, pid |-> ToInt(IF neg THEN -n ELSE n)]

Unsigned(s) == IF s[1] \in {"+", "-"} THEN Tail(s) ELSE s

(* kstrtoint(s, 10, &nr) succeeds and nr is not negative.                   *)
IsNr(s) ==
    LET d == Unsigned(s)
    IN  /\ d # <<>> /\ \A i \in DOMAIN d : d[i] \in Digit
        /\ Number(d) <= (IF s[1] = "-" THEN 0 ELSE INT_MAX)

(* The handlers up to the list operation: Line is the string in their        *)
(* buffer, Target the argument the operation is called with.                *)
Line(l, text) == Strip(Copied(text, BufLen(l)))

WellFormed(l, text) ==
    /\ LengthOK(l, text) /\ ~HasNul(Copied(text, BufLen(l)))
    /\ l = "syscalls" /\ Line(l, text) # <<>> => IsNr(Line(l, text))

Target(l, text) ==
    IF l = "files" THEN Line(l, text)
    ELSE IF l = "procs" THEN sscanf(Line(l, text))
    ELSE Number(Unsigned(Line(l, text)))
=============================================================================
