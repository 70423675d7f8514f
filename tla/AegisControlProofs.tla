------------------------- MODULE AegisControlProofs -------------------------
(***************************************************************************)
(* Proofs about AegisRequest and AegisControl, for texts of every length and *)
(* form, every size of the buffers and every number of clients.              *)
(***************************************************************************)
EXTENDS AegisControl, FiniteSetTheorems, TLAPS

(* list_del takes one entry off a list.                                     *)
LEMMA DelShorter ==
    ASSUME NEW S, NEW s \in Seq(S), NEW i \in 1..Len(s)
    PROVE  list_del(s, i) \in Seq(S) /\ Len(list_del(s, i)) = Len(s) - 1
<1> DEFINE pre == SubSeq(s, 1, i - 1)
           post == SubSeq(s, i + 1, Len(s))
<1>1. /\ pre \in Seq(S) /\ Len(pre) = i - 1
      /\ post \in Seq(S) /\ Len(post) = Len(s) - i /\ Len(s) \in Nat
  OBVIOUS
<1>2. ASSUME NEW p \in Seq(S), NEW q \in Seq(S)
      PROVE  p \o q \in Seq(S) /\ Len(p \o q) = Len(p) + Len(q)
  OBVIOUS
<1>3. list_del(s, i) = pre \o post
  BY DEF list_del
<1> HIDE DEF pre, post
<1>4. pre \o post \in Seq(S) /\ Len(pre \o post) = Len(pre) + Len(post)
  BY <1>1, <1>2, Zenon
<1>5. Len(pre) + Len(post) = Len(s) - 1
  BY <1>1
<1> QED BY <1>3, <1>4, <1>5, Zenon

(* Texts of one length with the same characters are one text.               *)
LEMMA SameText ==
    ASSUME NEW S, NEW s \in Seq(S), NEW t \in Seq(S), Len(s) = Len(t),
           \A i \in 1..Len(s) : s[i] = t[i]
    PROVE  s = t
OBVIOUS

(* The part of a text from its first character to its last.                 *)
LEMMA WholeText ==
    ASSUME NEW S, NEW s \in Seq(S)
    PROVE  SubSeq(s, 1, Len(s)) = s
<1>1. /\ SubSeq(s, 1, Len(s)) \in Seq(S) /\ Len(SubSeq(s, 1, Len(s))) = Len(s)
      /\ \A i \in 1..Len(s) : SubSeq(s, 1, Len(s))[i] = s[i]
  OBVIOUS
<1> QED BY <1>1, SameText

(* A set of positions has a least one.                                      *)
LEMMA LeastPosition ==
    ASSUME NEW I \in SUBSET Nat, I # {}
    PROVE  Min(I) \in I /\ \A j \in I : Min(I) <= j
<1>1. PICK m \in I : \A j \in I : <<j, m>> \notin OpToRel(<, Nat)
  BY WFMin, NatLessThanWellFounded, Zenon
<1>2. \A j \in I : ~(j < m)
  BY <1>1, Zenon DEF OpToRel
<1>3. \A j \in I : m <= j
  BY <1>2, SMT
<1> QED BY <1>3, Zenon DEF Min

(* So a set of numbers that has 0, and with every number the next, has all.  *)
LEMMA SetOfAll ==
    ASSUME NEW N \in SUBSET Nat, 0 \in N, \A n \in N : n + 1 \in N
    PROVE  N = Nat
<1> SUFFICES ASSUME Nat \ N # {} PROVE FALSE
  BY Zenon
<1> DEFINE m == Min(Nat \ N)
<1>1. m \in Nat \ N /\ \A j \in Nat \ N : m <= j
  BY LeastPosition
<1> HIDE DEF m
<1>2. m # 0 /\ m - 1 \in Nat
  BY <1>1
<1>3. m - 1 \in N
  BY <1>1, <1>2
<1> QED BY <1>1, <1>2, <1>3

(* A set of positions in a sequence has a greatest one.                     *)
LEMMA GreatestPosition ==
    ASSUME NEW n \in Nat, NEW I \in SUBSET (0..n), I # {}
    PROVE  Max(I) \in I /\ \A j \in I : j <= Max(I)
<1> DEFINE U == {u \in Nat : \A j \in I : j <= u}
           m == Min(U)
<1>1. n \in U /\ U \in SUBSET Nat
  OBVIOUS
<1>2. m \in U /\ \A u \in U : m <= u
  BY <1>1, LeastPosition
<1>3. m \in Nat /\ \A j \in I : j <= m
  BY <1>2
<1> HIDE DEF m
<1>4. m \in I
  <2> SUFFICES ASSUME m \notin I PROVE FALSE
    OBVIOUS
  <2>1. PICK i \in I : TRUE
    BY Zenon
  <2>2. i \in Nat /\ i < m
    BY <1>3
  <2>3. m - 1 \in U
    BY <1>3, <2>2
  <2> QED BY <1>2, <1>3, <2>3
<1>5. \A j \in I : j \in Nat /\ m >= j
  BY <1>3
<1>6. \E x \in I : \A y \in I : x >= y
  BY <1>4, <1>5
<1>7. Max(I) \in I /\ \A y \in I : Max(I) >= y
  BY <1>6, Zenon DEF Max
<1> QED BY <1>7

(* A function given by a first value and a step exists as far as one likes.  *)
Follows(f, first, step, n) == f[0] = first /\ \A i \in 1..n : f[i] = step[i][f[i - 1]]

LEMMA Recursion ==
    ASSUME NEW V, NEW first \in V, NEW step \in [Nat -> [V -> V]], NEW n \in Nat
    PROVE  \E f \in [0..n -> V] : Follows(f, first, step, n)
<1> DEFINE ok(m, f) == f[0] = first /\ \A i \in 1..m : f[i] = step[i][f[i - 1]]
           N == {m \in Nat : \E f \in [0..m -> V] : ok(m, f)}
<1>1. 0 \in N
  <2> DEFINE f == [i \in 0..0 |-> first]
  <2>1. f \in [0..0 -> V] /\ ok(0, f)
    OBVIOUS
  <2> QED BY <2>1, Zenon
<1>2. ASSUME NEW m \in N PROVE m + 1 \in N
  <2>1. PICK f \in [0..m -> V] : ok(m, f)
    OBVIOUS
  <2> DEFINE g == [i \in 0..m + 1 |-> IF i = m + 1 THEN step[m + 1][f[m]] ELSE f[i]]
  <2>2. step[m + 1][f[m]] \in V
    OBVIOUS
  <2>3. g \in [0..m + 1 -> V]
    BY <2>2
  <2>4. g[0] = first
    BY <2>1
  <2>5. ASSUME NEW i \in 1..m + 1 PROVE g[i] = step[i][g[i - 1]]
    <3>1. CASE i = m + 1
      BY <3>1
    <3>2. CASE i \in 1..m
      BY <2>1, <3>2
    <3> QED BY <3>1, <3>2
  <2>6. \E h \in [0..m + 1 -> V] : ok(m + 1, h)
    <3> HIDE DEF g
    <3> QED BY <2>3, <2>4, <2>5, Zenon
  <2>7. m + 1 \in Nat
    OBVIOUS
  <2> HIDE DEF ok
  <2> QED BY <2>6, <2>7
<1>3. N = Nat
  <2>1. N \in SUBSET Nat
    OBVIOUS
  <2> HIDE DEF N
  <2> QED BY <1>1, <1>2, <2>1, SetOfAll
<1> QED BY <1>3, Zenon DEF Follows

(* The lesser of two numbers.                                               *)
LEMMA MinOfTwo ==
    ASSUME NEW a \in Nat, NEW b \in Nat
    PROVE  Min({a, b}) = IF a <= b THEN a ELSE b
<1>1. Min({a, b}) \in {a, b} /\ \A j \in {a, b} : Min({a, b}) <= j
  BY LeastPosition
<1> QED BY <1>1

(* The beginning and the end of a sequence.                                 *)
LEMMA Parts ==
    ASSUME NEW s \in Seq(Char), NEW n \in 0..Len(s)
    PROVE  /\ SubSeq(s, 1, n) \in Seq(Char) /\ Len(SubSeq(s, 1, n)) = n
           /\ \A i \in 1..n : SubSeq(s, 1, n)[i] = s[i]
           /\ After(s, n) \in Seq(Char) /\ Len(After(s, n)) = Len(s) - n
           /\ \A i \in 1..Len(s) - n : After(s, n)[i] = s[n + i]
BY DEF After

(* The place of the last character that is not a line end decides what      *)
(* aectl_get_string leaves.                                                 *)
LEMMA StripIs ==
    ASSUME NEW s \in Seq(Char), NEW n \in 0..Len(s), n = 0 \/ s[n] # "\n",
           \A i \in n + 1 .. Len(s) : s[i] = "\n"
    PROVE  Strip(s) = SubSeq(s, 1, n)
<1> DEFINE I == {i \in 0..Len(s) : i = 0 \/ s[i] # "\n"}
<1>1. n \in I /\ I \in SUBSET (0..Len(s)) /\ Len(s) \in Nat
  OBVIOUS
<1>2. Max(I) \in I /\ \A j \in I : j <= Max(I)
  BY <1>1, GreatestPosition, Zenon
<1>3. \A j \in I : j <= n
  OBVIOUS
<1>4. Max(I) = n
  BY <1>1, <1>2, <1>3
<1> QED BY <1>4, Zenon DEF Strip

(* There is such a place.                                                   *)
LEMMA StripPlace ==
    ASSUME NEW s \in Seq(Char)
    PROVE  \E n \in 0..Len(s) : /\ n = 0 \/ s[n] # "\n"
                                /\ \A i \in n + 1 .. Len(s) : s[i] = "\n"
                                /\ Strip(s) = SubSeq(s, 1, n)
<1> DEFINE I == {i \in 0..Len(s) : i = 0 \/ s[i] # "\n"}
           n == Max(I)
<1>1. n \in I /\ \A j \in I : j <= n
  <2>1. 0 \in I /\ I \in SUBSET (0..Len(s)) /\ Len(s) \in Nat
    OBVIOUS
  <2> QED BY <2>1, GreatestPosition, Zenon
<1> HIDE DEF n
<1>2. n \in 0..Len(s) /\ (n = 0 \/ s[n] # "\n")
  BY <1>1
<1>3. \A i \in n + 1 .. Len(s) : s[i] = "\n"
  BY <1>1, <1>2
<1> QED BY <1>2, <1>3, StripIs

(* Likewise the place of the first character that is not in C.              *)
LEMMA SpanIs ==
    ASSUME NEW C, NEW s \in Seq(Char), NEW n \in 0..Len(s),
           n = Len(s) \/ s[n + 1] \notin C, \A i \in 1..n : s[i] \in C
    PROVE  Span(s, C) = SubSeq(s, 1, n)
<1> DEFINE I == {i \in 0..Len(s) : i = Len(s) \/ s[i + 1] \notin C}
<1>1. n \in I /\ I \in SUBSET Nat
  OBVIOUS
<1>2. Min(I) \in I /\ \A j \in I : Min(I) <= j
  BY <1>1, LeastPosition, Zenon
<1>3. ASSUME NEW j \in I PROVE n <= j
  <2>1. j + 1 \in 1..n => s[j + 1] \in C
    OBVIOUS
  <2> QED BY <2>1
<1>4. Min(I) = n
  BY <1>1, <1>2, <1>3
<1> QED BY <1>4, Zenon DEF Span

(* A number is a number: the recursion that reads the digits is well founded. *)
LEMMA NumberIsNat ==
    ASSUME NEW s \in Seq(Char)
    PROVE  Number(s) \in Nat /\ (Len(s) = 0 => Number(s) = 0)
<1> DEFINE d(n) == IF s[n] = "1" THEN 1 ELSE 0
           Is(f) == f = [n \in 0..Len(s) |-> IF n = 0 THEN 0 ELSE 10 * f[n - 1] + d(n)]
           value == CHOOSE f : Is(f)
<1>1. \E f : Is(f)
  <2> DEFINE step == [n \in Nat |-> [v \in Nat |-> 10 * v + d(n)]]
  <2>1. step \in [Nat -> [Nat -> Nat]]
    OBVIOUS
  <2>2. PICK f \in [0..Len(s) -> Nat] : Follows(f, 0, step, Len(s))
    <3> HIDE DEF step
    <3>1. Len(s) \in Nat /\ 0 \in Nat
      OBVIOUS
    <3> QED BY <2>1, <3>1, Recursion, Zenon
  <2>3. ASSUME NEW i \in 0..Len(s), i # 0 PROVE f[i] = 10 * f[i - 1] + d(i)
    <3>1. i \in 1..Len(s) /\ i \in Nat /\ f[i - 1] \in Nat
      BY <2>3
    <3>2. f[i] = step[i][f[i - 1]]
      BY <2>2, <3>1, Zenon DEF Follows
    <3> QED BY <3>1, <3>2
  <2>4. Is(f)
    BY <2>2, <2>3 DEF Follows
  <2> QED BY <2>4
<1>2. Is(value)
  BY <1>1, Zenon
<1>3. Number(s) = value[Len(s)]
  BY DEF Number
<1> HIDE DEF value
<1>4. value[0] = 0 /\ \A i \in 1..Len(s) : value[i] = 10 * value[i - 1] + d(i)
  BY <1>2
<1>5. \A i \in 0..Len(s) : value[i] \in Nat
  <2> DEFINE N == {i \in Nat : i \in 0..Len(s) => value[i] \in Nat}
  <2>1. 0 \in N
    BY <1>4
  <2>2. ASSUME NEW n \in N PROVE n + 1 \in N
    BY <1>4
  <2>3. N = Nat
    <3>1. N \in SUBSET Nat
      OBVIOUS
    <3> HIDE DEF N
    <3> QED BY <2>1, <2>2, <3>1, SetOfAll
  <2> QED BY <2>3
<1> QED BY <1>3, <1>4, <1>5

(* An int keeps its value when it is converted.                             *)
LEMMA ToIntKeeps ==
    ASSUME NEW n \in 0..INT_MAX
    PROVE  ToInt(n) = n
<1>1. \A a, m \in Nat : a < m => a % m = a
  OBVIOUS
<1> QED BY <1>1, RequestAssumption DEF ToInt

(* Blanks are skipped up to the first character that is not one.            *)
LEMMA SkipBlanksIs ==
    ASSUME NEW s \in Seq(Char), NEW n \in 0..Len(s),
           n = Len(s) \/ s[n + 1] \notin Blank, \A i \in 1..n : s[i] \in Blank
    PROVE  SkipBlanks(s) = After(s, n)
<1>1. Span(s, Blank) = SubSeq(s, 1, n)
  BY SpanIs
<1>2. Len(SubSeq(s, 1, n)) = n
  BY Parts
<1> QED BY <1>1, <1>2 DEF SkipBlanks

(* What %d makes of the rest of a line.                                     *)
PidOf(rest) ==
    LET neg == rest # <<>> /\ rest[1] = "-"
        n == Number(Span(IF neg THEN Tail(rest) ELSE rest, Digit))
    IN  ToInt(IF neg THEN -n ELSE n)

(* A line that begins with a word that fits: %15s takes the word, %d the     *)
(* rest.                                                                    *)
LEMMA SscanfWord ==
    ASSUME NEW s \in Seq(Char), NEW n \in 1..Len(s), n <= AEGIS_COMM_LEN - 1,
           \A i \in 1..n : s[i] \notin Blank, n = Len(s) \/ s[n + 1] \in Blank
    PROVE  sscanf(s) = [comm |-> SubSeq(s, 1, n), pid |-> PidOf(SkipBlanks(After(s, n)))]
<1> DEFINE w == SubSeq(s, 1, n)
           t == SkipBlanks(s)
           word == Span(t, Char \ Blank)
           comm == SubSeq(word, 1, Min({Len(word), AEGIS_COMM_LEN - 1}))
<1>1. t = s
  <2>1. 0 \in 0..Len(s) /\ s[0 + 1] \notin Blank /\ \A i \in 1..0 : s[i] \in Blank
    OBVIOUS
  <2>2. SkipBlanks(s) = After(s, 0)
    BY <2>1, SkipBlanksIs
  <2>3. After(s, 0) = s
    BY WholeText DEF After
  <2> QED BY <2>2, <2>3
<1>2. word = w
  <2>1. \A i \in 1..Len(s) : s[i] \in Char
    OBVIOUS
  <2>2. \A i \in 1..n : s[i] \in Char \ Blank
    BY <2>1
  <2>3. n \in 0..Len(s) /\ (n = Len(s) \/ s[n + 1] \notin Char \ Blank)
    OBVIOUS
  <2>4. Span(s, Char \ Blank) = SubSeq(s, 1, n)
    BY <2>2, <2>3, SpanIs
  <2> QED BY <1>1, <2>4, Zenon
<1>3. w \in Seq(Char) /\ Len(w) = n
  BY Parts
<1>4. Min({n, AEGIS_COMM_LEN - 1}) = n
  BY MinOfTwo, RequestAssumption
<1>5. comm = w
  BY <1>2, <1>3, <1>4, WholeText, Zenon
<1>6. sscanf(s) = [comm |-> comm, pid |-> PidOf(SkipBlanks(After(t, Len(comm))))]
  BY DEF sscanf, PidOf
<1> HIDE DEF w, t, comm
<1>7. sscanf(s) = [comm |-> w, pid |-> PidOf(SkipBlanks(After(s, n)))]
  BY <1>1, <1>3, <1>5, <1>6
<1> QED BY <1>7 DEF w

(* A number that fits in an int is read as what it is.                      *)
LEMMA PidIs ==
    ASSUME NEW s \in Seq(Char), \A i \in 1..Len(s) : s[i] \in Digit, Number(s) <= INT_MAX
    PROVE  PidOf(s) = Number(s)
<1>1. Number(s) \in 0..INT_MAX
  BY NumberIsNat, RequestAssumption
<1>2. ~(s # <<>> /\ s[1] = "-")
  BY DEF Digit
<1>3. Span(s, Digit) = s
  <2>1. Span(s, Digit) = SubSeq(s, 1, Len(s))
    BY SpanIs
  <2> QED BY <2>1, WholeText
<1>4. PidOf(s) = ToInt(Number(s))
  BY <1>2, <1>3 DEF PidOf
<1> QED BY <1>1, <1>4, ToIntKeeps

(* What aectl_get_string copies of a text that passed the length test: all    *)
(* of it, but for the last character of a path as long as the buffer.       *)
LEMMA CopiedIs ==
    ASSUME NEW l \in List, NEW text \in Seq(Char), LengthOK(l, text)
    PROVE  \/ Copied(text, BufLen(l)) = text
           \/ /\ l = "files" /\ Len(text) = AEGIS_PATH_LEN
              /\ Copied(text, BufLen(l)) = SubSeq(text, 1, Len(text) - 1)
<1> DEFINE max == BufLen(l)
<1>1. max \in Nat \ {0, 1} /\ Len(text) \in Nat
  BY RequestAssumption DEF BufLen
<1>2. Min({Len(text), max - 1}) = IF Len(text) <= max - 1 THEN Len(text) ELSE max - 1
  <2>1. max - 1 \in Nat
    BY <1>1
  <2> HIDE DEF max
  <2> QED BY <1>1, <2>1, MinOfTwo
<1>3. CASE Len(text) <= max - 1
  BY <1>2, <1>3, WholeText DEF Copied
<1>4. CASE ~(Len(text) <= max - 1)
  <2>1. l = "files" /\ max = AEGIS_PATH_LEN /\ Len(text) = max
    BY <1>1, <1>4 DEF LengthOK, BufLen
  <2>2. Copied(text, max) = SubSeq(text, 1, max - 1)
    BY <1>2, <1>4, Zenon DEF Copied
  <2> QED BY <2>1, <2>2
<1> QED BY <1>3, <1>4

(* A line end more or less at the end makes no difference to Strip.         *)
LEMMA StripShorter ==
    ASSUME NEW s \in Seq(Char), s # <<>>, s[Len(s)] = "\n"
    PROVE  Strip(SubSeq(s, 1, Len(s) - 1)) = Strip(s)
<1> DEFINE m == Len(s) - 1
           r == SubSeq(s, 1, m)
<1>1. m \in 0..Len(s) /\ Len(s) \in Nat /\ Len(s) = m + 1
  OBVIOUS
<1>2. r \in Seq(Char) /\ Len(r) = m /\ \A i \in 1..m : r[i] = s[i]
  BY <1>1, Parts, Zenon
<1> HIDE DEF r, m
<1>3. PICK n \in 0..m : /\ n = 0 \/ r[n] # "\n"
                        /\ \A i \in n + 1 .. m : r[i] = "\n"
                        /\ Strip(r) = SubSeq(r, 1, n)
  BY <1>2, StripPlace, Zenon
<1>4. n \in 0..Len(s) /\ (n = 0 \/ s[n] # "\n") /\ \A i \in n + 1 .. Len(s) : s[i] = "\n"
  BY <1>1, <1>2, <1>3
<1>5. Strip(s) = SubSeq(s, 1, n)
  BY <1>4, StripIs
<1>6. SubSeq(r, 1, n) = SubSeq(s, 1, n)
  <2>1. /\ SubSeq(r, 1, n) \in Seq(Char) /\ Len(SubSeq(r, 1, n)) = n
        /\ \A i \in 1..n : SubSeq(r, 1, n)[i] = r[i]
    BY <1>2, Parts, Zenon
  <2>2. /\ SubSeq(s, 1, n) \in Seq(Char) /\ Len(SubSeq(s, 1, n)) = n
        /\ \A i \in 1..n : SubSeq(s, 1, n)[i] = s[i]
    BY <1>4, Parts
  <2>3. \A i \in 1..n : r[i] = s[i]
    BY <1>1, <1>2
  <2> QED BY <2>1, <2>2, <2>3, SameText
<1> QED BY <1>3, <1>5, <1>6 DEF r, m

(* The path that is used is the one that was written.                       *)
LEMMA PathText ==
    ASSUME NEW text \in Seq(Char), LengthOK("files", text)
    PROVE  \/ Line("files", text) = Strip(text)
           \/ /\ Len(text) = AEGIS_PATH_LEN /\ text[Len(text)] # "\n"
              /\ Line("files", text) = Strip(SubSeq(text, 1, Len(text) - 1))
<1>1. text # <<>> /\ "files" \in List
  BY DEF LengthOK, List
<1>2. \/ Copied(text, BufLen("files")) = text
      \/ /\ Len(text) = AEGIS_PATH_LEN
         /\ Copied(text, BufLen("files")) = SubSeq(text, 1, Len(text) - 1)
  BY <1>1, CopiedIs
<1> QED BY <1>1, <1>2, StripShorter, Zenon DEF Line

(* The other endpoints copy all of what they accept.                        *)
LEMMA LineWhole ==
    ASSUME NEW l \in List \ {"files"}, NEW text \in Seq(Char), LengthOK(l, text)
    PROVE  Line(l, text) = Strip(text)
BY CopiedIs DEF Line

(* A text that comes to nothing has nothing but line ends in what is copied. *)
LEMMA VainText ==
    ASSUME NEW l \in List, NEW text \in Seq(Char), LengthOK(l, text), Line(l, text) = <<>>
    PROVE  \A i \in DOMAIN text : text[i] = "\n" \/ i = AEGIS_PATH_LEN
<1> DEFINE c == Copied(text, BufLen(l))
<1>1. /\ c \in Seq(Char) /\ Len(c) <= Len(text)
      /\ \A i \in 1..Len(c) : c[i] = text[i]
      /\ Len(c) = Len(text) \/ (Len(text) = AEGIS_PATH_LEN /\ Len(c) = Len(text) - 1)
  <2>1. CASE c = text
    BY <2>1
  <2>2. CASE Len(text) = AEGIS_PATH_LEN /\ c = SubSeq(text, 1, Len(text) - 1)
    <3>1. Len(text) - 1 \in 0..Len(text)
      BY DEF LengthOK
    <3> QED BY <2>2, <3>1, Parts
  <2> HIDE DEF c
  <2> QED BY <2>1, <2>2, CopiedIs DEF c
<1> HIDE DEF c
<1>2. PICK n \in 0..Len(c) : /\ \A i \in n + 1 .. Len(c) : c[i] = "\n"
                             /\ Strip(c) = SubSeq(c, 1, n)
  BY <1>1, StripPlace
<1>3. n = 0
  <2>1. Strip(c) = <<>>
    BY DEF Line, c
  <2>2. Len(SubSeq(c, 1, n)) = n
    BY <1>1, Parts
  <2> QED BY <1>2, <2>1, <2>2
<1>4. \A i \in 1..Len(c) : text[i] = "\n"
  BY <1>1, <1>2, <1>3
<1> QED BY <1>1, <1>4

(* Nothing is left of nothing, and no pid is 0.                             *)
LEMMA NoPid ==
    ASSUME NEW s \in Seq(Char), Len(s) = 0
    PROVE  SkipBlanks(s) = s /\ PidOf(s) = 0
<1>0. 1..0 = {} /\ Len(s) = 0 /\ \A i \in 1..Len(s) : s[i] \in Digit
  OBVIOUS
<1>1. 0 \in 0..Len(s) /\ \A i \in 1..0 : s[i] \in Blank
  OBVIOUS
<1>2. SkipBlanks(s) = After(s, 0)
  BY <1>1, <1>0, SkipBlanksIs, Zenon
<1>3. After(s, 0) = s
  BY WholeText DEF After
<1>4. Number(s) = 0 /\ Number(s) <= INT_MAX
  <2>1. Number(s) = 0
    BY NumberIsNat, Zenon
  <2>2. 0 <= INT_MAX
    BY RequestAssumption
  <2> QED BY <2>1, <2>2, Zenon
<1>5. PidOf(s) = Number(s)
  BY <1>0, <1>4, PidIs, Zenon
<1> QED BY <1>2, <1>3, <1>4, <1>5, Zenon

(* A request for a name alone.                                              *)
LEMMA NameHonoured ==
    ASSUME NEW line \in Seq(Char), NEW n \in 1..Len(line), n <= AEGIS_COMM_LEN - 1,
           AsksForName(line, SubSeq(line, 1, n))
    PROVE  sscanf(line) = [comm |-> SubSeq(line, 1, n), pid |-> 0]
<1> DEFINE comm == SubSeq(line, 1, n)
           rest == After(line, n)
<1>1. comm = line /\ \A i \in DOMAIN comm : comm[i] \notin Blank
  BY DEF AsksForName
<1>2. Len(comm) = n /\ rest \in Seq(Char) /\ Len(rest) = Len(line) - n
  BY Parts
<1> HIDE DEF comm, rest
<1>3. Len(line) = n /\ Len(rest) = 0 /\ \A i \in 1..n : line[i] \notin Blank
  BY <1>1, <1>2
<1>4. SkipBlanks(rest) = rest /\ PidOf(rest) = 0
  BY <1>2, <1>3, NoPid, Zenon
<1>5. sscanf(line) = [comm |-> comm, pid |-> PidOf(SkipBlanks(rest))]
  BY <1>3, SscanfWord DEF comm, rest
<1>6. sscanf(line) = [comm |-> comm, pid |-> 0]
  BY <1>4, <1>5
<1> QED BY <1>6 DEF comm

(* What comes after what comes after.                                       *)
LEMMA AfterNext ==
    ASSUME NEW s \in Seq(Char), NEW n \in Nat, n + 1 <= Len(s)
    PROVE  /\ After(s, n)[1] = s[n + 1]
           /\ n + 2 <= Len(s) => After(s, n)[2] = After(s, n + 1)[1]
           /\ After(After(s, n), 1) = After(s, n + 1)
<1>1. n \in 0..Len(s) /\ n + 1 \in 0..Len(s) /\ Len(s) \in Nat
  OBVIOUS
<1> DEFINE r == After(s, n)
           q == After(s, n + 1)
           t == After(r, 1)
<1>2. r \in Seq(Char) /\ Len(r) = Len(s) - n /\ \A i \in 1..Len(s) - n : r[i] = s[n + i]
  BY <1>1, Parts, Zenon
<1>3. /\ q \in Seq(Char) /\ Len(q) = Len(s) - (n + 1)
      /\ \A i \in 1..Len(s) - (n + 1) : q[i] = s[n + 1 + i]
  BY <1>1, Parts, Zenon
<1> HIDE DEF r, q
<1>4. 1 \in 0..Len(r)
  BY <1>1, <1>2
<1>5. t \in Seq(Char) /\ Len(t) = Len(r) - 1 /\ \A i \in 1..Len(r) - 1 : t[i] = r[1 + i]
  BY <1>2, <1>4, Parts, Zenon
<1> HIDE DEF t
<1>6. t = q
  <2>1. Len(t) = Len(q) /\ Len(q) \in Nat
    BY <1>1, <1>2, <1>3, <1>5
  <2>2. ASSUME NEW i \in 1..Len(q) PROVE t[i] = q[i]
    <3>1. i \in 1..Len(r) - 1 /\ 1 + i \in 1..Len(s) - n /\ i \in 1..Len(s) - (n + 1)
      BY <1>1, <1>2, <1>3
    <3>2. t[i] = s[n + (1 + i)] /\ q[i] = s[n + 1 + i]
      BY <1>2, <1>3, <1>5, <3>1
    <3>3. n + (1 + i) = n + 1 + i
      OBVIOUS
    <3> QED BY <3>2, <3>3
  <2> QED BY <1>3, <1>5, <2>1, <2>2, SameText, Zenon
<1>7. r[1] = s[n + 1]
  BY <1>1, <1>2
<1>8. ASSUME n + 2 <= Len(s) PROVE r[2] = q[1]
  <2>1. 2 \in 1..Len(s) - n /\ 1 \in 1..Len(s) - (n + 1) /\ n + 2 = n + 1 + 1
    BY <1>1, <1>8
  <2> QED BY <1>2, <1>3, <2>1
<1> QED BY <1>6, <1>7, <1>8 DEF r, q, t

(* What joining puts behind its first part.                                 *)
LEMMA Joined ==
    ASSUME NEW a \in Seq(Char), NEW e \in Char, NEW b \in Seq(Char)
    PROVE  (a \o <<e>> \o b)[Len(a) + 1] = e
<1>1. /\ a \o <<e>> \in Seq(Char) /\ Len(a \o <<e>>) = Len(a) + 1
      /\ (a \o <<e>>)[Len(a) + 1] = e
  OBVIOUS
<1> DEFINE s == a \o <<e>>
<1> HIDE DEF s
<1>2. \A i \in 1..Len(s) : (s \o b)[i] = s[i]
  BY <1>1 DEF s
<1> QED BY <1>1, <1>2 DEF s

(* A request for a name and a pid.                                          *)
LEMMA PidHonoured ==
    ASSUME NEW line \in Seq(Char), NEW n \in 1..Len(line), n <= AEGIS_COMM_LEN - 1,
           AsksForPid(line, SubSeq(line, 1, n), After(line, n + 1)),
           Number(After(line, n + 1)) <= INT_MAX
    PROVE  sscanf(line) = [comm |-> SubSeq(line, 1, n), pid |-> Number(After(line, n + 1))]
<1> DEFINE comm == SubSeq(line, 1, n)
           pid == After(line, n + 1)
           rest == After(line, n)
<1>1. comm \in Seq(Char) /\ Len(comm) = n /\ \A i \in 1..n : comm[i] = line[i]
  BY Parts
<1>2. pid # <<>> /\ \A i \in DOMAIN pid : pid[i] \in Digit
  BY Zenon DEF AsksForPid, Digits
<1>3. n + 1 <= Len(line) /\ n + 1 \in 0..Len(line) /\ n \in Nat
  BY <1>2 DEF After
<1>4. pid \in Seq(Char) /\ Len(pid) = Len(line) - (n + 1) /\ n + 2 <= Len(line)
  <2>1. pid \in Seq(Char) /\ Len(pid) = Len(line) - (n + 1)
    BY <1>3, Parts
  <2>2. Len(pid) # 0
    BY <1>2, <2>1
  <2> QED BY <1>3, <2>1, <2>2
<1>5. rest \in Seq(Char) /\ Len(rest) = Len(line) - n
  BY Parts
<1>6. line = comm \o <<" ">> \o pid /\ \A i \in DOMAIN comm : comm[i] \notin Blank
  BY Zenon DEF AsksForPid
<1>7. line[n + 1] = " " /\ " " \in Char
  <2>1. " " \in Char
    BY Zenon DEF Char, Blank
  <2>2. (comm \o <<" ">> \o pid)[Len(comm) + 1] = " "
    <3> HIDE DEF comm, pid
    <3> QED BY <1>1, <1>4, <2>1, Joined, Zenon
  <2> QED BY <1>1, <1>6, <2>1, <2>2, Zenon
<1>8. \A i \in 1..n : line[i] \notin Blank
  <2> HIDE DEF comm, pid
  <2>1. DOMAIN comm = 1..n
    BY <1>1
  <2> QED BY <1>1, <1>6, <2>1, Zenon
<1>9. SkipBlanks(rest) = pid
  <2>1. rest[1] = " " /\ rest[2] = pid[1] /\ After(rest, 1) = pid
    BY <1>3, <1>4, <1>7, AfterNext, Zenon
  <2>2. pid[1] \in Digit
    BY <1>2, <1>4
  <2> HIDE DEF rest, pid
  <2>3. 1 \in 0..Len(rest) /\ rest[1 + 1] \notin Blank /\ \A i \in 1..1 : rest[i] \in Blank
    <3>1. 1 \in 0..Len(rest) /\ 1 + 1 = 2 /\ 1..1 = {1}
      BY <1>3, <1>5
    <3>2. pid[1] \notin Blank /\ " " \in Blank
      BY <2>2, Zenon DEF Blank, Digit
    <3> QED BY <2>1, <3>1, <3>2, Zenon
  <2>4. SkipBlanks(rest) = After(rest, 1)
    BY <1>5, <2>3, SkipBlanksIs
  <2> QED BY <2>1, <2>4, Zenon
<1>10. PidOf(pid) = Number(pid)
  BY <1>2, <1>4, PidIs
<1>11. sscanf(line) = [comm |-> comm, pid |-> PidOf(SkipBlanks(rest))]
  <2>1. line[n + 1] \in Blank
    BY <1>7, Zenon DEF Blank
  <2> QED BY <1>8, <2>1, SscanfWord
<1> QED BY <1>9, <1>10, <1>11

(* A request for a syscall.                                                 *)
LEMMA NumberHonoured ==
    ASSUME NEW line \in Seq(Char), Digits(line)
    PROVE  Unsigned(line) = line
<1>1. line[1] \in Digit
  BY DEF Digits
<1> QED BY <1>1 DEF Unsigned, Digit

-----------------------------------------------------------------------------
(***************************************************************************)
(* The inductive invariant.  A client that has got to the list operation     *)
(* carries the key of its own, well-formed text; what it is told and what it *)
(* has changed go together; the adds that are between their test and their   *)
(* insertion are counted in the length.                                     *)
(***************************************************************************)
ClientPc == {"idle", "add", "alloc", "del", "done"}
Answer == Errors \cup {"len", "0", None}
Request == [op : {"add", "del"}, text : Seq(Char), by : {"any", "aegisctl"}]
Key == {Target(l, t) : l \in List, t \in Seq(Char)}

Types ==
    /\ kind \in List /\ list \in Seq(Key)
    /\ pc \in [Client -> ClientPc]
    /\ req \in [Client -> Request \cup {None}] /\ key \in [Client -> Key \cup {None}]
    /\ ret \in [Client -> Answer] /\ changes \in [Client -> Nat]

ClientOK(c) ==
    /\ pc[c] \in ClientPc /\ (ret[c] = None <=> pc[c] # "done")
    /\ changes[c] = IF ret[c] = "len" THEN 1 ELSE 0
    /\ pc[c] # "idle" => req[c] \in Request
    /\ pc[c] \in {"add", "alloc", "del"} =>
          key[c] = Target(kind, req[c].text) /\ WellFormed(kind, req[c].text)
    /\ ret[c] = "0" => Vain(req[c].text)

Alloc == {c \in Client : pc[c] = "alloc"}

Room == Len(list) + Cardinality(Alloc) < Limit[kind] + Cardinality(Client)

IInv ==
    /\ Types /\ Room
    /\ \A c \in Client : ClientOK(c)

(* A client's step leaves the other clients alone.                          *)
Only(c) ==
    /\ pc' = [pc EXCEPT ![c] = pc'[c]] /\ pc'[c] \in ClientPc
    /\ \A d \in Client \ {c} : /\ req'[d] = req[d] /\ key'[d] = key[d]
                               /\ ret'[d] = ret[d] /\ changes'[d] = changes[d]
    /\ UNCHANGED kind

(* How many adds are between test and insertion, when one client moves.     *)
LEMMA AllocCount ==
    ASSUME Types, NEW c \in Client, Only(c)
    PROVE  /\ Cardinality(Alloc) \in Nat /\ Cardinality(Alloc)' \in Nat
           /\ Cardinality(Client) \in Nat
           /\ Cardinality(Alloc)' <= Cardinality(Client)
           /\ pc[c] # "alloc" /\ pc'[c] # "alloc" => Cardinality(Alloc)' = Cardinality(Alloc)
           /\ pc[c] = "alloc" /\ pc'[c] # "alloc" => Cardinality(Alloc)' = Cardinality(Alloc) - 1
<1>1. /\ IsFiniteSet(Client) /\ Alloc \in SUBSET Client /\ Alloc' \in SUBSET Client
  BY ControlAssumption DEF Alloc
<1>2. IsFiniteSet(Alloc) /\ IsFiniteSet(Alloc')
  BY <1>1, FS_Subset
<1>3. /\ Cardinality(Alloc) \in Nat /\ Cardinality(Alloc') \in Nat
      /\ Cardinality(Client) \in Nat /\ Cardinality(Alloc') <= Cardinality(Client)
  BY <1>1, <1>2, FS_CardinalityType, FS_Subset
<1>4. \A d \in Client : pc'[d] = IF d = c THEN pc'[c] ELSE pc[d]
  BY DEF Types, Only
<1>5. ASSUME pc[c] # "alloc", pc'[c] # "alloc" PROVE Alloc' = Alloc
  BY <1>4, <1>5 DEF Alloc
<1>6. ASSUME pc[c] = "alloc", pc'[c] # "alloc" PROVE Cardinality(Alloc') = Cardinality(Alloc) - 1
  <2>1. Alloc' = Alloc \ {c} /\ c \in Alloc
    BY <1>4, <1>6 DEF Alloc
  <2> QED BY <1>2, <2>1, FS_RemoveElement
<1> QED BY <1>3, <1>5, <1>6

LEMMA OthersOK ==
    ASSUME IInv, NEW c \in Client, Only(c)
    PROVE  \A d \in Client \ {c} : ClientOK(d)'
<1> SUFFICES ASSUME NEW d \in Client \ {c} PROVE ClientOK(d)'
  OBVIOUS
<1>1. /\ pc'[d] = pc[d] /\ req'[d] = req[d] /\ key'[d] = key[d] /\ kind' = kind
      /\ ret'[d] = ret[d] /\ changes'[d] = changes[d] /\ ClientOK(d)
  BY DEF Only, IInv, Types
<1> QED BY <1>1 DEF ClientOK, Vain, Refused

LEMMA InitIInv == Init => IInv
<1> SUFFICES ASSUME Init PROVE IInv
  OBVIOUS
<1>1. PICK texts \in Boot[kind] : list = [i \in DOMAIN texts |-> Target(kind, texts[i])]
  BY DEF Init
<1>2. /\ kind \in List /\ texts \in Seq(Seq(Char)) /\ Len(texts) <= Limit[kind]
      /\ Len(texts) \in Nat /\ Limit[kind] \in Nat /\ DOMAIN texts = 1..Len(texts)
  BY ControlAssumption DEF Init
<1>3. list \in Seq(Key) /\ Len(list) = Len(texts)
  <2>1. \A i \in 1..Len(texts) : Target(kind, texts[i]) \in Key
    BY <1>2 DEF Key
  <2> QED BY <1>1, <1>2, <2>1
<1>4. Types
  BY <1>3, Zenon DEF Init, Types, ClientPc, Answer
<1>5. Room
  <2>1. Alloc = {}
    BY DEF Init, Alloc
  <2>2. Cardinality(Client) \in Nat /\ Cardinality(Client) # 0 /\ Cardinality({}) = 0
    BY ControlAssumption, FS_CardinalityType, FS_EmptySet
  <2> QED BY <1>2, <1>3, <2>1, <2>2 DEF Room
<1>6. ASSUME NEW c \in Client PROVE ClientOK(c)
  <2>1. pc[c] = "idle" /\ ret[c] = None /\ changes[c] = 0
    BY DEF Init
  <2> QED BY <2>1, ControlAssumption DEF ClientOK, ClientPc
<1> QED BY <1>4, <1>5, <1>6 DEF IInv

(* A client's step keeps the invariant if it does for itself.               *)
LEMMA ClientKeeps ==
    ASSUME IInv, NEW c \in Client, Only(c), Types', Room', ClientOK(c)'
    PROVE  IInv'
<1>1. \A d \in Client \ {c} : ClientOK(d)'
  BY OthersOK
<1> QED BY <1>1 DEF IInv

(* A client returns without having touched the list.                        *)
LEMMA ReturnKeeps ==
    ASSUME IInv, NEW c \in Client, NEW from \in ClientPc, NEW r \in Answer \ {None, "len"},
           from # "done", Return(c, from, r), NEW q \in Request, req' = [req EXCEPT ![c] = q],
           r = "0" => Vain(q.text), UNCHANGED <<kind, list, key, changes>>
    PROVE  IInv'
<1>1. /\ Types /\ Room /\ ClientOK(c) /\ pc[c] = from
      /\ pc' = [pc EXCEPT ![c] = "done"] /\ ret' = [ret EXCEPT ![c] = r]
  BY DEF IInv, Return, Goto
<1>2. Types'
  BY <1>1 DEF Types, ClientPc
<1>3. pc'[c] = "done" /\ ret'[c] = r /\ req'[c] = q /\ changes'[c] = 0
  <2>1. ret[c] = None /\ None # "len"
    BY <1>1, ControlAssumption DEF ClientOK
  <2> QED BY <1>1, <2>1 DEF Types, ClientOK
<1>4. ClientOK(c)'
  BY <1>3 DEF ClientOK, ClientPc, Vain, Refused
<1>5. Only(c)
  BY <1>1, <1>3 DEF Only, Types, ClientPc
<1>6. Room'
  <2>1. /\ Cardinality(Alloc) \in Nat /\ Cardinality(Alloc)' \in Nat
        /\ Cardinality(Client) \in Nat
        /\ \/ Cardinality(Alloc)' = Cardinality(Alloc)
           \/ Cardinality(Alloc)' = Cardinality(Alloc) - 1
    BY <1>1, <1>3, <1>5, AllocCount
  <2>2. Len(list) \in Nat /\ Limit[kind] \in Nat
    BY <1>1, ControlAssumption DEF Types
  <2> QED BY <1>1, <2>1, <2>2 DEF Room
<1> QED BY <1>2, <1>4, <1>5, <1>6, ClientKeeps

(* A write goes on to the list operation.                                   *)
LEMMA AcceptKeeps ==
    ASSUME IInv, NEW c \in Client, NEW q \in Request, req' = [req EXCEPT ![c] = q],
           ~Refused(q.text), Goto(c, "idle", q.op),
           key' = [key EXCEPT ![c] = Target(kind, q.text)],
           UNCHANGED <<kind, list, ret, changes>>
    PROVE  IInv'
<1>1. /\ Types /\ Room /\ ClientOK(c) /\ pc[c] = "idle" /\ q.op \in {"add", "del"}
      /\ pc' = [pc EXCEPT ![c] = q.op]
  BY DEF IInv, Goto, Request
<1>2. Types'
  <2>1. Target(kind, q.text) \in Key
    BY <1>1 DEF Key, Types, Request
  <2> QED BY <1>1, <2>1 DEF Types, ClientPc
<1>3. pc'[c] = q.op /\ req'[c] = q /\ key'[c] = Target(kind, q.text)
  BY <1>1 DEF Types
<1>4. ClientOK(c)'
  <2>1. ret[c] = None /\ None # "0"
    BY <1>1, ControlAssumption, Zenon DEF ClientOK
  <2>2. ret' = ret /\ changes' = changes /\ kind' = kind
    OBVIOUS
  <2> QED BY <1>1, <1>3, <2>1, <2>2 DEF ClientOK, ClientPc, Refused
<1>5. Only(c)
  BY <1>1, <1>3 DEF Only, Types, ClientPc
<1>6. Room'
  <2>1. Cardinality(Alloc)' = Cardinality(Alloc)
    BY <1>1, <1>3, <1>5, AllocCount
  <2> QED BY <1>1, <2>1 DEF Room
<1> QED BY <1>2, <1>4, <1>5, <1>6, ClientKeeps

(* write(2), whoever calls it.                                              *)
LEMMA SubmitKeeps ==
    ASSUME IInv, NEW c \in Client, NEW q \in Request, NEW authorized \in BOOLEAN,
           Submit(c, q, authorized)
    PROVE  IInv'
<1>1. /\ req' = [req EXCEPT ![c] = q]
      /\ UNCHANGED <<kind, list, changes>>
  BY DEF Submit
<1>2. ASSUME NEW e \in Errors \cup {"0"}, EarlyReturn(q.text, authorized, e),
             Return(c, "idle", e), UNCHANGED key
      PROVE  IInv'
  <2>1. e \in Answer \ {None, "len"}
    BY ControlAssumption DEF Answer, Errors
  <2>2. e = "0" => Vain(q.text)
    BY <1>2 DEF EarlyReturn
  <2>3. "idle" \in ClientPc
    BY DEF ClientPc
  <2> QED BY <1>1, <1>2, <2>1, <2>2, <2>3, ReturnKeeps, Zenon
<1>3. ASSUME ~Refused(q.text), Goto(c, "idle", q.op),
             key' = [key EXCEPT ![c] = Target(kind, q.text)], UNCHANGED ret
      PROVE  IInv'
  BY <1>1, <1>3, AcceptKeeps, Zenon
<1> QED BY <1>2, <1>3 DEF Submit

LEMMA WriteKeeps ==
    ASSUME IInv, NEW c \in Client, Write(c) \/ cmd_write(c)
    PROVE  IInv'
<1>1. ASSUME NEW op \in {"add", "del"}, NEW text \in Text[kind], NEW by \in {"any", "aegisctl"}
      PROVE  [op |-> op, text |-> text, by |-> by] \in Request
  <2>1. text \in Seq(Char)
    BY ControlAssumption DEF IInv, Types
  <2> QED BY <2>1 DEF Request
<1>2. PICK q \in Request, authorized \in BOOLEAN : Submit(c, q, authorized)
  BY <1>1, Zenon DEF Write, cmd_write
<1> QED BY <1>2, SubmitKeeps

(* The request stays what it is while the list operation runs.              *)
LEMMA SameRequest ==
    ASSUME IInv, NEW c \in Client, pc[c] # "idle", UNCHANGED req
    PROVE  req[c] \in Request /\ req' = [req EXCEPT ![c] = req[c]]
BY DEF IInv, ClientOK, Types

LEMMA AddCheckKeeps ==
    ASSUME IInv, NEW c \in Client, AddCheck(c)
    PROVE  IInv'
<1>1. /\ pc[c] = "add" /\ Types /\ Room /\ ClientOK(c)
      /\ UNCHANGED <<kind, list, req, key, changes>>
  BY DEF AddCheck, Return, Goto, IInv
<1>2. CASE \E r \in {"ENOSPC", "EEXIST"} : Return(c, "add", r)
  <2>1. PICK r \in {"ENOSPC", "EEXIST"} : Return(c, "add", r)
    BY <1>2
  <2>2. r \in Answer \ {None, "len"} /\ r # "0" /\ "add" \in ClientPc
    BY ControlAssumption DEF Answer, Errors, ClientPc
  <2> QED BY <1>1, <2>1, <2>2, SameRequest, ReturnKeeps
<1>3. CASE Len(list) < Limit[kind] /\ Goto(c, "add", "alloc") /\ UNCHANGED ret
  <2>1. pc' = [pc EXCEPT ![c] = "alloc"]
    BY <1>3 DEF Goto
  <2>2. Types' /\ pc'[c] = "alloc"
    BY <1>1, <1>3, <2>1, SMTT(30) DEF Types, ClientPc
  <2>3. ClientOK(c)'
    BY <1>1, <1>3, <2>2 DEF ClientOK, ClientPc, Vain, Refused
  <2>4. Only(c)
    BY <1>1, <1>3, <2>1, <2>2, Zenon DEF Only, ClientPc
  <2>5. Room'
    <3>1. /\ Cardinality(Alloc)' <= Cardinality(Client) /\ Cardinality(Alloc)' \in Nat
          /\ Cardinality(Client) \in Nat
      BY <1>1, <2>4, AllocCount
    <3>2. Len(list) \in Nat /\ Limit[kind] \in Nat
      BY <1>1, ControlAssumption DEF Types
    <3> QED BY <1>1, <1>3, <3>1, <3>2 DEF Room
  <2> QED BY <1>1, <2>2, <2>3, <2>4, <2>5, ClientKeeps
<1>4. Len(list) \in Nat /\ Limit[kind] \in Nat
  BY <1>1, ControlAssumption DEF Types
<1> QED BY <1>2, <1>3, <1>4 DEF AddCheck

LEMMA AddNoMemKeeps ==
    ASSUME IInv, NEW c \in Client, AddNoMem(c)
    PROVE  IInv'
<1>1. "ENOMEM" \in Answer \ {None, "len"} /\ "alloc" \in ClientPc
  BY ControlAssumption DEF Answer, Errors, ClientPc
<1>2. pc[c] = "alloc" /\ UNCHANGED req
  BY DEF AddNoMem, Return, Goto
<1>3. req[c] \in Request /\ req' = [req EXCEPT ![c] = req[c]]
  BY <1>2, SameRequest
<1>4. "ENOMEM" # "0" /\ "alloc" # "done"
  OBVIOUS
<1>5. Return(c, "alloc", "ENOMEM") /\ UNCHANGED <<kind, list, key, changes>>
  BY Zenon DEF AddNoMem
<1> QED BY <1>1, <1>2, <1>3, <1>4, <1>5, ReturnKeeps, Zenon

(* The list operation changes the list, once, and says so.                  *)
LEMMA ChangeKeeps ==
    ASSUME IInv, NEW c \in Client, NEW from \in {"alloc", "del"}, NEW s \in Seq(Key),
           Return(c, from, "len"), Changed(c, s), UNCHANGED <<kind, req, key>>,
           Len(s) = IF from = "alloc" THEN Len(list) + 1 ELSE Len(list) - 1
    PROVE  IInv'
<1>1. /\ Types /\ Room /\ ClientOK(c) /\ pc[c] = from /\ list' = s
      /\ pc' = [pc EXCEPT ![c] = "done"] /\ ret' = [ret EXCEPT ![c] = "len"]
      /\ changes' = [changes EXCEPT ![c] = changes[c] + 1]
  BY DEF IInv, Return, Goto, Changed
<1>2. Types'
  BY <1>1 DEF Types, ClientPc, Answer
<1>3. pc'[c] = "done" /\ ret'[c] = "len" /\ req'[c] = req[c] /\ changes'[c] = 1
  <2>1. ret[c] = None /\ None # "len"
    BY <1>1, ControlAssumption DEF ClientOK
  <2>2. changes[c] = 0
    BY <1>1, <2>1, SMTT(30) DEF ClientOK
  <2> QED BY <1>1, <2>2 DEF Types
<1>4. ClientOK(c)'
  BY <1>1, <1>3, ControlAssumption, Zenon DEF ClientOK, ClientPc
<1>5. Only(c)
  BY <1>1, <1>3 DEF Only, Types, ClientPc
<1>6. Room'
  <2>1. /\ Cardinality(Alloc) \in Nat /\ Cardinality(Alloc)' \in Nat
        /\ Cardinality(Client) \in Nat
        /\ Cardinality(Alloc)' =
              IF from = "alloc" THEN Cardinality(Alloc) - 1 ELSE Cardinality(Alloc)
    BY <1>1, <1>3, <1>5, AllocCount
  <2>2. Len(list) \in Nat /\ Limit[kind] \in Nat
    BY <1>1, ControlAssumption DEF Types
  <2>3. CASE from = "alloc"
    BY <1>1, <2>1, <2>2, <2>3 DEF Room
  <2>4. CASE from = "del"
    BY <1>1, <2>1, <2>2, <2>4 DEF Room
  <2> QED BY <2>3, <2>4
<1> QED BY <1>1, <1>2, <1>4, <1>5, <1>6, ClientKeeps

LEMMA AddInsertKeeps ==
    ASSUME IInv, NEW c \in Client, AddInsert(c)
    PROVE  IInv'
<1>1. Types /\ ClientOK(c) /\ pc[c] = "alloc"
  BY DEF IInv, AddInsert, Return, Goto
<1>2. key[c] \in Key
  BY <1>1 DEF ClientOK, Key, Types, Request
<1>3. Append(list, key[c]) \in Seq(Key) /\ Len(Append(list, key[c])) = Len(list) + 1
  BY <1>1, <1>2 DEF Types
<1> QED BY <1>3, ChangeKeeps, Zenon DEF AddInsert

LEMMA DelKeeps ==
    ASSUME IInv, NEW c \in Client, Del(c)
    PROVE  IInv'
<1>1. Types /\ pc[c] = "del" /\ UNCHANGED <<kind, req, key>>
  BY DEF IInv, Del, Return, Goto
<1>2. CASE Return(c, "del", "ENOENT") /\ UNCHANGED <<list, changes>>
  <2>1. "ENOENT" \in Answer \ {None, "len"} /\ "del" \in ClientPc
    BY ControlAssumption DEF Answer, Errors, ClientPc
  <2>2. req[c] \in Request /\ req' = [req EXCEPT ![c] = req[c]]
    BY <1>1, SameRequest
  <2>3. "ENOENT" # "0" /\ "del" # "done"
    OBVIOUS
  <2>4. UNCHANGED <<kind, list, key, changes>>
    BY <1>1, <1>2
  <2> QED BY <1>2, <2>1, <2>2, <2>3, <2>4, ReturnKeeps, Zenon
<1>3. ASSUME Return(c, "del", "len"),
             NEW i \in FirstAt(list, key[c]), Changed(c, list_del(list, i))
      PROVE  IInv'
  <2>1. i \in 1..Len(list)
    BY <1>1 DEF FirstAt, Types
  <2>2. list_del(list, i) \in Seq(Key) /\ Len(list_del(list, i)) = Len(list) - 1
    BY <1>1, <2>1, DelShorter, Zenon DEF Types
  <2> QED BY <1>1, <1>3, <2>2, ChangeKeeps, Zenon
<1> QED BY <1>2, <1>3, Zenon DEF Del

LEMMA FinishKeeps ==
    ASSUME IInv, NEW c \in Client, Finish(c)
    PROVE  IInv'
<1>1. /\ Types /\ Room /\ ClientOK(c) /\ pc[c] = "done"
      /\ pc' = [pc EXCEPT ![c] = "idle"] /\ req' = [req EXCEPT ![c] = None]
      /\ key' = [key EXCEPT ![c] = None] /\ ret' = [ret EXCEPT ![c] = None]
      /\ changes' = [changes EXCEPT ![c] = 0]
      /\ kind' = kind /\ list' = list
  BY DEF IInv, Finish, Goto
<1>2. Types'
  BY <1>1 DEF Types, ClientPc, Answer
<1>3. ClientOK(c)'
  <2>1. pc'[c] = "idle" /\ ret'[c] = None /\ changes'[c] = 0
    BY <1>1 DEF Types
  <2> QED BY <2>1, ControlAssumption, Zenon DEF ClientOK, ClientPc
<1>4. Only(c)
  BY <1>1 DEF Only, Types, ClientPc
<1>5. Room'
  <2>1. pc'[c] # "alloc"
    BY <1>1 DEF Types
  <2>2. Cardinality(Alloc)' = Cardinality(Alloc)
    BY <1>1, <1>4, <2>1, AllocCount
  <2> QED BY <1>1, <2>2 DEF Room
<1> QED BY <1>1, <1>2, <1>3, <1>4, <1>5, ClientKeeps

LEMMA NextIInv == IInv /\ [Next]_vars => IInv'
<1> SUFFICES ASSUME IInv, [Next]_vars PROVE IInv'
  OBVIOUS
<1>1. CASE UNCHANGED vars
  BY <1>1 DEF vars, IInv, Types, Room, Alloc, ClientOK, Vain, Refused
<1>2. ASSUME NEW c \in Client,
             \/ Write(c) \/ cmd_write(c) \/ AddCheck(c) \/ AddNoMem(c) \/ AddInsert(c)
             \/ Del(c) \/ Finish(c)
      PROVE  IInv'
  BY <1>2, WriteKeeps, AddCheckKeeps, AddNoMemKeeps, AddInsertKeeps, DelKeeps, FinishKeeps
<1> QED BY <1>1, <1>2 DEF Next

LEMMA Invariance == Spec => []IInv
BY InitIInv, NextIInv, PTL DEF Spec

(* Every answer of write(2) is of its kinds, and the list stays within its   *)
(* capacity but for one entry per client less one.                          *)
THEOREM TypeCorrect == Spec => []TypeOK
<1>1. IInv => TypeOK
  <2> SUFFICES ASSUME IInv PROVE TypeOK
    OBVIOUS
  <2>1. ASSUME NEW c \in Client
        PROVE  /\ pc[c] \in {"idle", "add", "alloc", "del", "done"}
               /\ ret[c] \in Errors \cup {"len", "0", None}
               /\ (ret[c] = None) = (pc[c] # "done")
    BY DEF IInv, Types, ClientOK, ClientPc, Answer
  <2>2. Len(list) < Limit[kind] + Cardinality(Client)
    <3>1. IsFiniteSet(Client) /\ Alloc \in SUBSET Client
      BY ControlAssumption DEF Alloc
    <3>2. Cardinality(Alloc) \in Nat /\ Cardinality(Client) \in Nat
      BY <3>1, FS_Subset, FS_CardinalityType
    <3>3. Len(list) \in Nat /\ Limit[kind] \in Nat
      BY ControlAssumption DEF IInv, Types
    <3> QED BY <3>2, <3>3 DEF IInv, Room
  <2> QED BY <2>1, <2>2 DEF IInv, Types, TypeOK
<1> QED BY <1>1, Invariance, PTL

(* Whatever the lengths of text and buffer, the path that is used is the one *)
(* that was written, up to the one character PathWhole names.               *)
THEOREM PathIsWhole == Spec => []PathWhole
<1>1. IInv => PathWhole
  <2> SUFFICES ASSUME IInv, NEW c \in Client, kind = "files", pc[c] \in {"add", "del", "alloc"}
               PROVE  \/ key[c] = Strip(req[c].text)
                      \/ /\ Len(req[c].text) = AEGIS_PATH_LEN
                         /\ req[c].text[Len(req[c].text)] # "\n"
                         /\ key[c] = Strip(SubSeq(req[c].text, 1, Len(req[c].text) - 1))
    BY DEF PathWhole
  <2>1. /\ req[c].text \in Seq(Char) /\ LengthOK("files", req[c].text)
        /\ key[c] = Line("files", req[c].text)
    BY DEF IInv, ClientOK, WellFormed, Target, Request
  <2> QED BY <2>1, PathText
<1> QED BY <1>1, Invariance, PTL

(* A request in a documented form gets through the parsing as it is, for     *)
(* names and numbers of any length that fit.                                *)
THEOREM RequestIsHonoured == Spec => []RequestHonoured
<1>1. IInv => RequestHonoured
  <2> SUFFICES ASSUME IInv, NEW c \in Client, pc[c] \in {"add", "del", "alloc"}, kind # "files"
               PROVE  LET line == Strip(req[c].text)
                      IN  /\ kind = "syscalls" /\ Digits(line) => key[c] = Number(line)
                          /\ kind = "procs" =>
                               \A n \in 1..Min({Len(line), AEGIS_COMM_LEN - 1}) :
                                  LET comm == SubSeq(line, 1, n)
                                      pid == After(line, n + 1)
                                  IN  /\ AsksForName(line, comm) =>
                                            key[c] = [comm |-> comm, pid |-> 0]
                                      /\ AsksForPid(line, comm, pid) /\ Number(pid) <= INT_MAX =>
                                            key[c] = [comm |-> comm, pid |-> Number(pid)]
    BY Zenon DEF RequestHonoured
  <2> DEFINE line == Strip(req[c].text)
  <2>1. /\ kind \in List \ {"files"} /\ req[c].text \in Seq(Char)
        /\ LengthOK(kind, req[c].text) /\ key[c] = Target(kind, req[c].text)
    <3>1. kind \in List /\ ClientOK(c)
      BY Zenon DEF IInv, Types
    <3>2. /\ req[c] \in Request /\ key[c] = Target(kind, req[c].text)
          /\ WellFormed(kind, req[c].text)
      BY <3>1, Zenon DEF ClientOK
    <3> QED BY <3>1, <3>2, Zenon DEF WellFormed, Request
  <2>2. Line(kind, req[c].text) = line
    BY <2>1, LineWhole
  <2>3. line \in Seq(Char) /\ Len(line) \in Nat
    <3>1. PICK n \in 0..Len(req[c].text) : Strip(req[c].text) = SubSeq(req[c].text, 1, n)
      BY <2>1, StripPlace, Zenon
    <3> QED BY <2>1, <3>1, Parts
  <2> HIDE DEF line
  <2>4. ASSUME kind = "syscalls", Digits(line) PROVE key[c] = Number(line)
    BY <2>1, <2>2, <2>3, <2>4, NumberHonoured, SMTT(30) DEF Target
  <2>5. ASSUME kind = "procs", NEW n \in 1..Min({Len(line), AEGIS_COMM_LEN - 1})
        PROVE  /\ AsksForName(line, SubSeq(line, 1, n)) =>
                     key[c] = [comm |-> SubSeq(line, 1, n), pid |-> 0]
               /\ AsksForPid(line, SubSeq(line, 1, n), After(line, n + 1))
                   /\ Number(After(line, n + 1)) <= INT_MAX =>
                     key[c] = [comm |-> SubSeq(line, 1, n), pid |-> Number(After(line, n + 1))]
    <3>1. key[c] = sscanf(line)
      BY <2>1, <2>2, <2>5 DEF Target
    <3>2. n \in 1..Len(line) /\ n <= AEGIS_COMM_LEN - 1
      <4>1. AEGIS_COMM_LEN - 1 \in Nat
        BY RequestAssumption
      <4>2. Min({Len(line), AEGIS_COMM_LEN - 1}) =
              IF Len(line) <= AEGIS_COMM_LEN - 1 THEN Len(line) ELSE AEGIS_COMM_LEN - 1
        BY <2>3, <4>1, MinOfTwo
      <4> QED BY <2>3, <2>5, <4>1, <4>2
    <3> QED BY <2>3, <3>1, <3>2, NameHonoured, PidHonoured
  <2> QED BY <2>4, <2>5, Zenon DEF line
<1> QED BY <1>1, Invariance, PTL

(* What a writer is told is what happened, and what aegisctl reports as done *)
(* is done.                                                                 *)
THEOREM AnswersAreTrue == Spec => []AnswerTrue
<1>1. IInv => AnswerTrue
  <2> SUFFICES ASSUME IInv, NEW c \in Client
               PROVE  /\ pc[c] = "done" => changes[c] = IF ret[c] = "len" THEN 1 ELSE 0
                      /\ ReportedOK(c) => \/ changes[c] = 1
                                          \/ \A i \in DOMAIN req[c].text :
                                                req[c].text[i] = "\n" \/ i = AEGIS_PATH_LEN
    BY DEF AnswerTrue
  <2>1. ClientOK(c) /\ kind \in List /\ ret[c] \in Answer
    BY DEF IInv, Types
  <2>2. pc[c] = "done" => changes[c] = IF ret[c] = "len" THEN 1 ELSE 0
    BY <2>1 DEF ClientOK
  <2>3. ASSUME ReportedOK(c), changes[c] # 1
        PROVE  \A i \in DOMAIN req[c].text : req[c].text[i] = "\n" \/ i = AEGIS_PATH_LEN
    <3>1. ret[c] = "0" /\ pc[c] = "done"
      BY <2>1, <2>2, <2>3 DEF ReportedOK, Answer, ClientOK
    <3>2. /\ req[c].text \in Seq(Char) /\ LengthOK(kind, req[c].text)
          /\ Line(kind, req[c].text) = <<>>
      BY <2>1, <3>1, Zenon DEF ClientOK, Vain, Refused, WellFormed, Request
    <3> QED BY <2>1, <3>2, VainText
  <2> QED BY <2>2, <2>3
<1> QED BY <1>1, Invariance, PTL
=============================================================================
