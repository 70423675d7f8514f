--------------------------- MODULE MCAegisControl ---------------------------
(* The two ways in from userspace: AegisControl with AEGIS_PATH_LEN = 5,      *)
(* AEGIS_COMM_LEN = 3 and numbers of up to two digits that do and do not fit *)
(* in an int; AegisSysctl with 0, a value that is neither 0 nor 1, and -1.   *)
EXTENDS AegisControl, AegisSysctl, TLC

Sequence(S, n) == UNION {[1..m -> S] : m \in 0..n}

(* Paths up to one character longer than the buffer; names with and without  *)
(* pids, of every length that matters; numbers with and without signs.      *)
MCText ==
    [files |-> Sequence({"a", "\n"}, 2)
               \cup {<<"a", "a", "a", "a">>, <<"a", "a", "\n", "\n">>, <<"a", "NUL", "a">>,
                     <<"a", "a", "a", "a", "\n">>, <<"a", "a", "a", "a", "a">>,
                     <<"\n", "\n", "\n", "\n", "a">>, <<"a", "a", "a", "a", "NUL">>,
                     <<"a", "a", "a", "a", "a", "a">>},
     procs |-> Sequence({"a", "1", " "}, 4)
               \cup {<<"a", " ", "-", "1">>, <<"a", "1", "\n">>, <<"\n">>,
                     <<"a", "NUL">>, <<"a", "a", "a", "a", "a">>},
     syscalls |-> Sequence({"1", "0", "-", "\n"}, 3)
                  \cup {<<"+", "1">>, <<"1", "NUL">>, <<"1", "1", "1", "1">>}]

MCLimit == [l \in List |-> 2]

(* No file is protected at boot; the two kinds of default process, with and   *)
(* without a pid, and a default syscall, as far as their allocations succeed.*)
MCBoot ==
    [files |-> {<<>>},
     procs |-> {<<>>, <<<<"a">>, <<"a", " ", "1">>>>},
     syscalls |-> {<<>>, <<<<"1">>>>}]

MCValue == {-1, 0, 2}

WriterSymmetry == Permutations(Writer)

(* The lists and the knobs share no state, so each moves while the other is   *)
(* as it was at boot.                                                       *)
UserInit == Init /\ SysctlInit

UserNext ==
    \/ SysctlInit /\ Next /\ UNCHANGED sysctl_vars
    \/ Init /\ kind = "files" /\ SysctlNext /\ UNCHANGED vars

UserSpec == UserInit /\ [][UserNext]_<<vars, sysctl_vars>>
=============================================================================
