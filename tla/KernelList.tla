----------------------------- MODULE KernelList -----------------------------
(***************************************************************************)
(* A kernel list kept as the sequence of its entries: list_add_tail is       *)
(* Append, a walk visits the positions in order.                            *)
(***************************************************************************)
EXTENDS Integers, FiniteSets, Functions, Sequences

(* The entry at i is unlinked.                                              *)
list_del(s, i) == SubSeq(s, 1, i - 1) \o SubSeq(s, i + 1, Len(s))

(* Where a walk that looks for e stops: at the first entry that is e.       *)
FirstAt(s, e) == {i \in DOMAIN s : s[i] = e /\ \A j \in DOMAIN s : s[j] = e => i <= j}
=============================================================================
