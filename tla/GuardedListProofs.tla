------------------------- MODULE GuardedListProofs -------------------------
(***************************************************************************)
(* What the three lists owe to GuardedList alone.                           *)
(***************************************************************************)
EXTENDS GuardedList, KernelList, FiniteSetTheorems, TLAPS

(* What is left when the entry at i goes.                                   *)
LEMMA DelElements ==
    ASSUME NEW S, NEW s \in Seq(S), NEW i \in 1..Len(s)
    PROVE  /\ list_del(s, i) \in Seq(S)
           /\ Len(list_del(s, i)) = Len(s) - 1
           /\ \A j \in 1..Len(s) - 1 :
                 list_del(s, i)[j] = IF j < i THEN s[j] ELSE s[j + 1]
<1>0. ASSUME NEW p \in Seq(S), NEW q \in Seq(S)
      PROVE  /\ p \o q \in Seq(S) /\ Len(p \o q) = Len(p) + Len(q)
             /\ \A j \in 1..Len(p) + Len(q) :
                   (p \o q)[j] = IF j <= Len(p) THEN p[j] ELSE q[j - Len(p)]
  OBVIOUS
<1> DEFINE pre == SubSeq(s, 1, i - 1)
           post == SubSeq(s, i + 1, Len(s))
           r == list_del(s, i)
<1>1. r = pre \o post
  BY DEF list_del
<1>2. /\ pre \in Seq(S) /\ Len(pre) = i - 1 /\ \A j \in 1..(i - 1) : pre[j] = s[j]
      /\ post \in Seq(S) /\ Len(post) = Len(s) - i
      /\ \A j \in 1..(Len(s) - i) : post[j] = s[i + j]
  BY SMT
<1> HIDE DEF pre, post, r
<1>3. /\ r \in Seq(S) /\ Len(r) = Len(pre) + Len(post)
      /\ \A j \in 1..Len(pre) + Len(post) :
            r[j] = IF j <= Len(pre) THEN pre[j] ELSE post[j - Len(pre)]
  BY <1>0, <1>1, <1>2, Zenon
<1>4. Len(s) \in Nat /\ Len(r) = Len(s) - 1
  BY <1>2, <1>3, SMT
<1>5. ASSUME NEW j \in 1..Len(s) - 1 PROVE r[j] = IF j < i THEN s[j] ELSE s[j + 1]
  <2>1. j \in 1..Len(pre) + Len(post)
    BY <1>2, <1>4, SMT
  <2>2. CASE j < i
    <3>1. j <= Len(pre) /\ j \in 1..(i - 1)
      BY <1>2, <2>2, SMT
    <3> QED BY <1>2, <1>3, <2>1, <2>2, <3>1, Zenon
  <2>3. CASE ~(j < i)
    <3>1. r[j] = post[j - Len(pre)]
      BY <1>2, <1>3, <2>1, <2>3, SMT
    <3>2. j - Len(pre) \in 1..(Len(s) - i) /\ i + (j - Len(pre)) = j + 1
      BY <1>2, <1>4, <2>3, SMT
    <3> QED BY <1>2, <2>3, <3>1, <3>2
  <2> QED BY <2>2, <2>3
<1> QED BY <1>3, <1>4, <1>5 DEF r

(* The places of a list that hold k.                                        *)
Places(s, k) == {i \in 1..Len(s) : s[i] = k}

LEMMA PlacesFinite ==
    ASSUME NEW S, NEW s \in Seq(S), NEW k
    PROVE  IsFiniteSet(Places(s, k)) /\ Cardinality(Places(s, k)) \in Nat
<1>1. Len(s) \in Nat /\ IsFiniteSet(1..Len(s))
  BY FS_Interval
<1>2. Places(s, k) \in SUBSET (1..Len(s))
  BY DEF Places
<1> QED BY <1>1, <1>2, FS_Subset, FS_CardinalityType

(* Append gives one key one place more.                                     *)
LEMMA PlacesAppend ==
    ASSUME NEW S, NEW s \in Seq(S), NEW e \in S, NEW k
    PROVE  Cardinality(Places(Append(s, e), k)) =
               Cardinality(Places(s, k)) + (IF e = k THEN 1 ELSE 0)
<1> DEFINE r == Append(s, e)
           n == Len(s) + 1
<1>1. /\ Len(r) = n /\ n \in Nat /\ r[n] = e
      /\ \A i \in 1..Len(s) : r[i] = s[i]
      /\ 1..n = (1..Len(s)) \cup {n} /\ n \notin 1..Len(s)
  OBVIOUS
<1> HIDE DEF r, n
<1>2. Places(r, k) = Places(s, k) \cup (IF e = k THEN {n} ELSE {})
  BY <1>1 DEF Places
<1>3. n \notin Places(s, k)
  BY <1>1 DEF Places
<1>4. CASE e = k
  BY <1>2, <1>3, <1>4, PlacesFinite, FS_AddElement, Zenon DEF r
<1>5. CASE e # k
  <2>1. Places(r, k) = Places(s, k)
    BY <1>2, <1>5
  <2> QED BY <1>5, <2>1, PlacesFinite DEF r
<1> QED BY <1>4, <1>5

(* A removal gives no key more places.                                      *)
LEMMA PlacesRemove ==
    ASSUME NEW S, NEW s \in Seq(S), NEW i \in 1..Len(s), NEW k
    PROVE  Cardinality(Places(list_del(s, i), k)) <= Cardinality(Places(s, k))
<1> DEFINE r == list_del(s, i)
           f == [j \in Places(r, k) |-> IF j < i THEN j ELSE j + 1]
<1>1. /\ r \in Seq(S) /\ Len(r) = Len(s) - 1 /\ Len(s) \in Nat
      /\ \A j \in 1..Len(s) - 1 : r[j] = IF j < i THEN s[j] ELSE s[j + 1]
  BY DelElements
<1> HIDE DEF r
<1>2. f \in Injection(Places(r, k), Places(s, k))
  <2>1. \A j \in Places(r, k) : f[j] \in Places(s, k)
    BY <1>1 DEF Places
  <2>2. \A j, l \in Places(r, k) : f[j] = f[l] => j = l
    BY <1>1 DEF Places
  <2>3. f \in [Places(r, k) -> Places(s, k)]
    BY <2>1
  <2> QED BY <2>2, <2>3 DEF Injection, IsInjective
<1> QED BY <1>1, <1>2, PlacesFinite, FS_Injection DEF r

(* The threads with an addition pending, and those among them that are about *)
(* to add k.                                                                *)
Busy == {a \in Admin : pending[a] # NoKey}
BusyFor(k) == {a \in Admin : pending[a] = k}

(* What is pending will be inserted whatever the list is then, so that the   *)
(* bounds are inductive only with it counted in.                            *)
Types == list \in Seq(Key) /\ pending \in [Admin -> Key \cup {NoKey}]

Room == Len(list) + Cardinality(Busy) <= Capacity - 1 + Cardinality(Admin)

Share(k) == Cardinality(Places(list, k)) + Cardinality(BusyFor(k)) <= Cardinality(Admin)

IInv == Types /\ Room /\ \A k \in Key : Share(k)

Setting ==
    /\ IsFiniteSet(Admin) /\ Admin # {}
    /\ NoKey \notin Key /\ Capacity \in Nat \ {0}

(* Of every set of threads at most all are there.                           *)
LEMMA Sizes ==
    ASSUME Setting
    PROVE  /\ Cardinality(Admin) \in Nat \ {0}
           /\ \A B \in SUBSET Admin : IsFiniteSet(B) /\ Cardinality(B) \in 0..Cardinality(Admin)
<1>1. Cardinality(Admin) \in Nat \ {0}
  BY FS_CardinalityType, FS_EmptySet DEF Setting
<1>2. ASSUME NEW B \in SUBSET Admin
      PROVE  IsFiniteSet(B) /\ Cardinality(B) \in 0..Cardinality(Admin)
  BY <1>1, FS_Subset, FS_CardinalityType DEF Setting
<1> QED BY <1>1, <1>2

LEMMA InitIInv == ASSUME Setting, Init PROVE IInv
<1>1. Types
  BY DEF Init, Types
<1>2. Busy = {} /\ \A k \in Key : BusyFor(k) = {}
  BY DEF Init, Busy, BusyFor, Setting
<1>3. Room
  <2>1. Len(list) \in Nat /\ Len(list) <= Capacity /\ Cardinality(Busy) = 0
    BY <1>2, FS_EmptySet DEF Init
  <2> QED BY <2>1, Sizes DEF Room, Setting
<1>4. ASSUME NEW k \in Key PROVE Share(k)
  <2>1. Cardinality(Places(list, k)) <= 1
    <3>1. CASE Places(list, k) = {}
      BY <3>1, FS_EmptySet
    <3>2. CASE Places(list, k) # {}
      <4>1. PICK i \in Places(list, k) : TRUE
        BY <3>2
      <4>2. Places(list, k) = {i}
        BY <4>1 DEF Places, Init
      <4>3. Cardinality({i}) = 1
        BY FS_Singleton, Zenon
      <4> QED BY <4>2, <4>3
    <3> QED BY <3>1, <3>2
  <2>2. Cardinality(BusyFor(k)) = 0 /\ Cardinality(Places(list, k)) \in Nat
    BY <1>2, FS_EmptySet, PlacesFinite, Zenon DEF Init
  <2> QED BY <2>1, <2>2, Sizes DEF Share
<1> QED BY <1>1, <1>3, <1>4 DEF IInv

(* The tests are passed: with room, and no entry for k yet.                 *)
LEMMA AdmitIInv ==
    ASSUME Setting, IInv, NEW a \in Admin, NEW k \in Key, Admit(a, k)
    PROVE  IInv'
<1>1. Types'
  BY DEF Admit, IInv, Types
<1>2. Len(list) \in Nat /\ Len(list) < Capacity /\ Places(list, k) = {} /\ list' = list
  BY DEF Admit, IInv, Types, Places, Copies
<1>3. Room'
  <2>1. Cardinality(Busy') \in 0..Cardinality(Admin)
    <3>1. Busy' \in SUBSET Admin
      BY DEF Busy
    <3> QED BY <3>1, Sizes
  <2> QED BY <1>2, <2>1, Sizes DEF Room, Setting
<1>4. ASSUME NEW l \in Key PROVE Share(l)'
  <2>1. CASE l = k
    <3>1. Cardinality(Places(list', k)) = 0
      BY <1>2, FS_EmptySet, Zenon
    <3>2. Cardinality(BusyFor(k)') \in 0..Cardinality(Admin)
      <4>1. BusyFor(k)' \in SUBSET Admin
        BY DEF BusyFor
      <4> QED BY <4>1, Sizes
    <3> QED BY <2>1, <3>1, <3>2, Sizes DEF Share
  <2>2. CASE l # k
    <3>1. BusyFor(l)' = BusyFor(l)
      BY <2>2 DEF Admit, IInv, Types, BusyFor, Setting
    <3> QED BY <1>2, <3>1 DEF IInv, Share
  <2> QED BY <2>1, <2>2
<1> QED BY <1>1, <1>3, <1>4 DEF IInv

(* An addition that ends, with or without its insertion, leaves one thread   *)
(* less on its way.                                                         *)
LEMMA Ended ==
    ASSUME Setting, IInv, NEW a \in Admin, pending[a] # NoKey,
           pending' = [pending EXCEPT ![a] = NoKey]
    PROVE  /\ pending[a] \in Key /\ pending' \in [Admin -> Key \cup {NoKey}]
           /\ Cardinality(Busy') = Cardinality(Busy) - 1 /\ Cardinality(Busy) \in Nat
           /\ \A k \in Key : /\ Cardinality(BusyFor(k)) \in Nat
                             /\ Cardinality(BusyFor(k)') =
                                   Cardinality(BusyFor(k)) - (IF k = pending[a] THEN 1 ELSE 0)
<1>1. pending[a] \in Key /\ pending' \in [Admin -> Key \cup {NoKey}]
  BY DEF IInv, Types
<1>2. /\ Busy' = Busy \ {a} /\ a \in Busy /\ Busy \in SUBSET Admin
  BY <1>1 DEF Busy, IInv, Types
<1>3. Cardinality(Busy') = Cardinality(Busy) - 1 /\ Cardinality(Busy) \in Nat
  BY <1>2, Sizes, FS_RemoveElement
<1>4. ASSUME NEW k \in Key
      PROVE  /\ Cardinality(BusyFor(k)) \in Nat
             /\ Cardinality(BusyFor(k)') =
                   Cardinality(BusyFor(k)) - (IF k = pending[a] THEN 1 ELSE 0)
  <2>1. BusyFor(k) \in SUBSET Admin
    BY DEF BusyFor
  <2>2. BusyFor(k)' = BusyFor(k) \ {a}
    BY DEF BusyFor, IInv, Types, Setting
  <2>3. a \in BusyFor(k) <=> k = pending[a]
    BY DEF BusyFor
  <2>4. IsFiniteSet(BusyFor(k)) /\ Cardinality(BusyFor(k)) \in Nat
    BY <2>1, Sizes
  <2>5. Cardinality(BusyFor(k) \ {a}) =
            IF a \in BusyFor(k) THEN Cardinality(BusyFor(k)) - 1 ELSE Cardinality(BusyFor(k))
    BY <2>4, FS_RemoveElement, Zenon
  <2> QED BY <2>2, <2>3, <2>4, <2>5
<1> QED BY <1>1, <1>3, <1>4

LEMMA DropIInv ==
    ASSUME Setting, IInv, NEW a \in Admin, Drop(a)
    PROVE  IInv'
<1>a. Cardinality(Busy') = Cardinality(Busy) - 1 /\ Cardinality(Busy) \in Nat
  BY Ended, Zenon DEF Drop
<1>b. \A k \in Key : /\ Cardinality(BusyFor(k)) \in Nat
                    /\ Cardinality(BusyFor(k)') =
                          Cardinality(BusyFor(k)) - (IF k = pending[a] THEN 1 ELSE 0)
  BY Ended, Zenon DEF Drop
<1>c. Cardinality(Admin) \in Nat \ {0} /\ Capacity \in Nat
  BY Sizes DEF Setting
<1>1. Types'
  BY Ended DEF Drop, IInv, Types
<1>2. Len(list) \in Nat /\ list' = list
  BY DEF IInv, Types, Drop
<1>3. Room'
  BY <1>2, <1>a, <1>c DEF IInv, Room
<1>4. ASSUME NEW k \in Key PROVE Share(k)'
  <2>1. Cardinality(Places(list, k)) \in Nat
    BY PlacesFinite DEF IInv, Types
  <2> QED BY <1>2, <1>b, <1>c, <2>1 DEF IInv, Share
<1> QED BY <1>1, <1>3, <1>4 DEF IInv

LEMMA InsertIInv ==
    ASSUME Setting, IInv, NEW a \in Admin, Insert(a)
    PROVE  IInv'
<1>0. pending[a] \in Key /\ list \in Seq(Key)
  BY Ended DEF Insert, IInv, Types
<1>a. Cardinality(Busy') = Cardinality(Busy) - 1 /\ Cardinality(Busy) \in Nat
  BY Ended, Zenon DEF Insert
<1>b. \A k \in Key : /\ Cardinality(BusyFor(k)) \in Nat
                    /\ Cardinality(BusyFor(k)') =
                          Cardinality(BusyFor(k)) - (IF k = pending[a] THEN 1 ELSE 0)
  BY Ended, Zenon DEF Insert
<1>c. Cardinality(Admin) \in Nat \ {0} /\ Capacity \in Nat
  BY Sizes DEF Setting
<1>1. Types'
  BY <1>0, Ended DEF Insert, IInv, Types
<1>2. Len(list) \in Nat /\ Len(list') = Len(list) + 1
  BY <1>0 DEF Insert
<1>3. Room'
  BY <1>2, <1>a, <1>c DEF IInv, Room
<1>4. ASSUME NEW k \in Key PROVE Share(k)'
  <2>1. Cardinality(Places(list', k)) =
            Cardinality(Places(list, k)) + (IF pending[a] = k THEN 1 ELSE 0)
    BY <1>0, PlacesAppend DEF Insert
  <2>2. Cardinality(Places(list, k)) \in Nat
    BY <1>0, PlacesFinite
  <2> QED BY <1>b, <1>c, <2>1, <2>2 DEF IInv, Share
<1> QED BY <1>1, <1>3, <1>4 DEF IInv

LEMMA DeleteIInv ==
    ASSUME Setting, IInv, NEW k \in Key, Delete(k)
    PROVE  IInv'
<1>0. PICK i \in 1..Len(list) : list' = list_del(list, i)
  BY Zenon DEF Delete, Copies, list_del
<1>a. list \in Seq(Key) /\ list' \in Seq(Key) /\ Len(list') = Len(list) - 1
  BY <1>0, DelElements DEF IInv, Types
<1>1. /\ Types' /\ Len(list) \in Nat /\ Len(list') = Len(list) - 1
  BY <1>a DEF Delete, IInv, Types
<1>2. Room'
  <2>1. Busy \in SUBSET Admin /\ Busy' = Busy
    BY DEF Busy, Delete
  <2>2. Cardinality(Busy) \in Nat
    BY <2>1, Sizes
  <2> QED BY <1>1, <2>1, <2>2, Sizes DEF IInv, Room, Setting
<1>3. ASSUME NEW l \in Key PROVE Share(l)'
  <2>1. BusyFor(l) \in SUBSET Admin /\ BusyFor(l)' = BusyFor(l)
    BY DEF BusyFor, Delete
  <2>2. Cardinality(BusyFor(l)) \in Nat
    BY <2>1, Sizes
  <2>3. Cardinality(Places(list', l)) <= Cardinality(Places(list, l))
    BY <1>0, PlacesRemove DEF IInv, Types
  <2>4. Cardinality(Places(list, l)) \in Nat /\ Cardinality(Places(list', l)) \in Nat
    BY <1>1, PlacesFinite DEF IInv, Types
  <2> QED BY <2>1, <2>2, <2>3, <2>4, Sizes DEF IInv, Share
<1> QED BY <1>1, <1>2, <1>3 DEF IInv

LEMMA NextIInv == ASSUME Setting, IInv, [Next]_vars PROVE IInv'
<1>1. CASE UNCHANGED vars
  BY <1>1 DEF IInv, Types, Room, Share, Busy, BusyFor, vars
<1>2. CASE Next
  BY <1>2, AdmitIInv, DropIInv, InsertIInv, DeleteIInv DEF Next
<1> QED BY <1>1, <1>2

LEMMA IInvBounded == ASSUME Setting, IInv PROVE Bounded
<1>1. Len(list) \in Nat /\ Busy \in SUBSET Admin
  BY DEF IInv, Types, Busy
<1>2. Len(list) <= Capacity - 1 + Cardinality(Admin)
  BY <1>1, Sizes DEF IInv, Room, Setting
<1>3. ASSUME NEW k \in Key PROVE Cardinality(Copies(k)) <= Cardinality(Admin)
  <2>1. Copies(k) = Places(list, k) /\ BusyFor(k) \in SUBSET Admin
    BY DEF Copies, Places, BusyFor
  <2>2. Cardinality(Places(list, k)) \in Nat
    BY PlacesFinite DEF IInv, Types
  <2> QED BY <2>1, <2>2, Sizes DEF IInv, Share
<1> QED BY <1>2, <1>3 DEF Bounded

(* However many threads add and delete, the list outgrows its capacity by    *)
(* fewer entries than there are threads that add, and no key has more        *)
(* entries than there are such threads.                                     *)
THEOREM ListBounded == ASSUME Setting PROVE Spec => []Bounded
<1>1. Init => IInv
  BY InitIInv
<1>2. IInv /\ [Next]_vars => IInv'
  BY NextIInv
<1>3. IInv => Bounded
  BY IInvBounded
<1> QED BY <1>1, <1>2, <1>3, PTL DEF Spec
=============================================================================
