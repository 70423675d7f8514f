----------------------------- MODULE GuardedList -----------------------------
(***************************************************************************)
(* What the three guarded lists promise whoever adds to them and deletes    *)
(* from them: the protected files, the protected processes, the blocked     *)
(* syscalls.  The functions that change them have one shape.  An add makes  *)
(* its two tests, lets go of the lock to allocate, and inserts at the tail   *)
(* without testing again, so that between its tests and its insertion it is *)
(* pending; a deletion takes the first match.  Locks, counters, entries in  *)
(* memory and hooks are not seen here.                                      *)
(***************************************************************************)
EXTENDS Integers, FiniteSets, Sequences

CONSTANTS
    Admin,      \* the threads that add and delete
    Key,        \* what identifies an entry
    NoKey,      \* nothing is pending
    Capacity         \* the capacity the adds test for

VARIABLES
    list,       \* the keys of the entries, in list order
    pending     \* the key each thread is about to insert

vars == <<list, pending>>

(* The positions of the entries for a key.                                  *)
Copies(k) == {i \in 1..Len(list) : list[i] = k}

(* The tests of an add are passed.                                          *)
Admit(a, k) ==
    /\ pending[a] = NoKey
    /\ Len(list) < Capacity /\ Copies(k) = {}
    /\ pending' = [pending EXCEPT ![a] = k]
    /\ UNCHANGED list

(* The allocation has failed.                                               *)
Drop(a) ==
    /\ pending[a] # NoKey
    /\ pending' = [pending EXCEPT ![a] = NoKey]
    /\ UNCHANGED list

Insert(a) ==
    /\ pending[a] # NoKey
    /\ list' = Append(list, pending[a])
    /\ pending' = [pending EXCEPT ![a] = NoKey]

Delete(k) ==
    /\ \E i \in Copies(k) :
          /\ \A j \in Copies(k) : i <= j
          /\ list' = SubSeq(list, 1, i - 1) \o SubSeq(list, i + 1, Len(list))
    /\ UNCHANGED pending

(* The list boot leaves: some of the defaults, each once.                   *)
Init ==
    /\ list \in Seq(Key) /\ Len(list) <= Capacity
    /\ \A i, j \in 1..Len(list) : list[i] = list[j] => i = j
    /\ pending = [a \in Admin |-> NoKey]

Next ==
    \/ \E a \in Admin : (\E k \in Key : Admit(a, k)) \/ Drop(a) \/ Insert(a)
    \/ \E k \in Key : Delete(k)

Spec == Init /\ [][Next]_vars
-----------------------------------------------------------------------------
(* What the gap between tests and insertion costs.  The list outgrows its    *)
(* capacity by at most one entry for each thread but one, and a key has at   *)
(* most one entry per thread.                                               *)
Bounded ==
    /\ Len(list) <= Capacity - 1 + Cardinality(Admin)
    /\ \A k \in Key : Cardinality(Copies(k)) <= Cardinality(Admin)
=============================================================================
