----------------------------- MODULE Wire_proofs ----------------------------
(***************************************************************************)
(* Lemmas about the framing: where a line ends, what the pieces of a       *)
(* sequence of pieces are, and what a number that was written is read as.  *)
(***************************************************************************)
EXTENDS Wire, SequenceTheorems, FiniteSetTheorems, WellFoundedInduction, TLAPS

(* Induction, as in KeyValueStore_proofs.                                  *)
LEMMA LeastNat ==
  ASSUME NEW T \in SUBSET Nat, T # {}
  PROVE  \E n \in T : \A m \in T : n <= m
<1> DEFINE R == StrictSubsetOrdering(Nat)
           U == {0 .. n : n \in T}
<1>1. IsWellFoundedOn(R, FiniteSubsetsOf(Nat))
  BY FS_StrictSubsetOrderingWellFounded
<1>2. U \subseteq FiniteSubsetsOf(Nat)
  <2>1. \A n \in T : 0 .. n \in SUBSET Nat /\ IsFiniteSet(0 .. n)
    BY FS_Interval
  <2> QED BY <2>1 DEF FiniteSubsetsOf
<1>3. U # {} OBVIOUS
<1>4. PICK I \in U : \A J \in U : <<J, I>> \notin R
  <2> HIDE DEF R, U
  <2> QED BY <1>1, <1>2, <1>3, WFMin
<1>5. PICK n \in T : I = 0 .. n OBVIOUS
<1>6. ASSUME NEW m \in T, m < n PROVE FALSE
  <2>1. 0 .. m \in U /\ 0 .. m \subseteq 0 .. n /\ 0 .. m # 0 .. n
    BY <1>6
  <2>2. <<0 .. m, 0 .. n>> \in R BY <2>1 DEF StrictSubsetOrdering
  <2> QED BY <1>4, <1>5, <2>1, <2>2
<1> QED BY <1>6

(* What holds of a, and of n + 1 whenever it holds of n, holds from a on.  *)
LEMMA InductionFrom ==
  ASSUME NEW a \in Nat, NEW b \in Nat, NEW S, a \in S,
         \A n \in a .. b : n \in S /\ n < b => n + 1 \in S
  PROVE  a .. b \subseteq S
<1> SUFFICES ASSUME NEW k \in a .. b, k \notin S PROVE FALSE
  OBVIOUS
<1> DEFINE T == {n \in a .. b : n \notin S}
<1>1. PICK n \in T : \A m \in T : n <= m
  <2>1. T \in SUBSET Nat /\ T # {} OBVIOUS
  <2> HIDE DEF T
  <2> QED BY <2>1, LeastNat
<1>2. n \in a .. b /\ n # a /\ n - 1 \in a .. b /\ n - 1 < b OBVIOUS
<1>3. n - 1 \in S BY <1>1, <1>2
<1>4. n - 1 + 1 \in S BY <1>2, <1>3
<1> QED BY <1>1, <1>2, <1>4

LEMMA MinIsLeast ==
  ASSUME NEW T \in SUBSET Nat, T # {}
  PROVE  Min(T) \in T /\ \A m \in T : Min(T) <= m
BY LeastNat DEF Min

LEMMA MaxIsGreatest ==
  ASSUME NEW N \in Nat, NEW T \in SUBSET (0 .. N), T # {}
  PROVE  Max(T) \in T /\ \A m \in T : m <= Max(T)
<1> DEFINE U == {N - m : m \in T}
<1>1. U \in SUBSET Nat /\ U # {}
  <2>1. \A m \in T : N - m \in Nat
    OBVIOUS
  <2> QED BY <2>1
<1>2. PICK u \in U : \A v \in U : u <= v
  <2> HIDE DEF U
  <2> QED BY <1>1, LeastNat
<1>3. PICK n \in T : u = N - n
  OBVIOUS
<1>4. \A m \in T : m <= n
  <2> SUFFICES ASSUME NEW m \in T PROVE m <= n
    OBVIOUS
  <2>1. N - m \in U
    OBVIOUS
  <2>2. u <= N - m
    BY <1>2, <2>1
  <2> QED BY <1>3, <2>2
<1> QED BY <1>4 DEF Max

-----------------------------------------------------------------------------
(* Lines.                                                                  *)

Breaks(s, i) == s[i] = "cr" /\ s[i + 1] = "lf"

(* The first line end at or after from, if there is one.                   *)
LEMMA LineEndFound ==
  ASSUME NEW s, Len(s) \in Nat, NEW from \in Nat \ {0}
  PROVE  /\ LineEnd(s, from) \in Nat
         /\ LineEnd(s, from) = 0 => \A i \in from .. Len(s) - 1 : ~Breaks(s, i)
         /\ LineEnd(s, from) # 0 =>
              /\ LineEnd(s, from) \in from .. Len(s) - 1
              /\ Breaks(s, LineEnd(s, from))
              /\ \A i \in from .. LineEnd(s, from) - 1 : ~Breaks(s, i)
<1> DEFINE ends == {i \in from .. Len(s) - 1 : s[i] = "cr" /\ s[i + 1] = "lf"}
<1>1. LineEnd(s, from) = IF ends = {} THEN 0 ELSE Min(ends)
  BY DEF LineEnd
<1>2. CASE ends = {}
  <2>1. LineEnd(s, from) = 0
    BY <1>1, <1>2
  <2>2. \A i \in from .. Len(s) - 1 : ~Breaks(s, i)
    BY <1>2 DEF Breaks
  <2> QED BY <2>1, <2>2
<1>3. CASE ends # {}
  <2>1. ends \in SUBSET Nat
    OBVIOUS
  <2>2. Min(ends) \in ends /\ \A m \in ends : Min(ends) <= m
    <3> HIDE DEF ends
    <3> QED BY <1>3, <2>1, MinIsLeast
  <2>3. LineEnd(s, from) = Min(ends)
    BY <1>1, <1>3
  <2>4. Min(ends) \in from .. Len(s) - 1 /\ Breaks(s, Min(ends))
    BY <2>2 DEF Breaks
  <2>5. ASSUME NEW i \in from .. Min(ends) - 1, Breaks(s, i)
        PROVE  FALSE
    <3>1. i \in from .. Len(s) - 1 /\ i < Min(ends)
      BY <2>4
    <3>2. i \in ends
      BY <2>5, <3>1 DEF Breaks
    <3>3. Min(ends) <= i
      BY <2>2, <3>2
    <3> HIDE DEF ends
    <3> QED BY <2>4, <3>1, <3>3
  <2> QED BY <2>3, <2>4, <2>5
<1> QED BY <1>2, <1>3

LEMMA LineEndIs ==
  ASSUME NEW s, Len(s) \in Nat, NEW from \in Nat \ {0}, NEW e \in from .. Len(s) - 1,
         Breaks(s, e), \A i \in from .. e - 1 : ~Breaks(s, i)
  PROVE  LineEnd(s, from) = e
BY LineEndFound, SMTT(20)

LEMMA NoLineEnd ==
  ASSUME NEW s, Len(s) \in Nat, NEW from \in Nat \ {0},
         \A i \in from .. Len(s) - 1 : ~Breaks(s, i)
  PROVE  LineEnd(s, from) = 0
BY LineEndFound

-----------------------------------------------------------------------------
(* Pieces.                                                                 *)

(* The first n pieces of q, in one.                                        *)
Joined(q, n) == FlattenSeq(SubSeq(q, 1, n))

IsFlatten(f, q) ==
  f = [i \in 1 .. Len(q) |-> IF i = 1 THEN q[i] ELSE f[i - 1] \o q[i]]

LEMMA FlattenExists ==
  ASSUME NEW q, Len(q) \in Nat \ {0}
  PROVE  \E f : IsFlatten(f, q)
<1> DEFINE Upto(g, n) == g = [i \in 1 .. n |-> IF i = 1 THEN q[i] ELSE g[i - 1] \o q[i]]
           S == {n \in Nat : \E g : Upto(g, n)}
<1>1. 1 \in S
  <2> DEFINE g == [i \in 1 .. 1 |-> q[1]]
  <2>1. Upto(g, 1)
    OBVIOUS
  <2> QED BY <2>1
<1>2. ASSUME NEW n \in 1 .. Len(q), n \in S, n < Len(q)
      PROVE  n + 1 \in S
  <2>1. PICK g : Upto(g, n)
    BY <1>2
  <2> DEFINE h == [i \in 1 .. n + 1 |-> IF i = n + 1 THEN g[n] \o q[n + 1] ELSE g[i]]
  <2>2. ASSUME NEW i \in 1 .. n + 1
        PROVE  h[i] = IF i = 1 THEN q[i] ELSE h[i - 1] \o q[i]
    <3>1. CASE i = n + 1
      <4>1. i # 1 /\ i - 1 = n /\ n \in 1 .. n + 1 /\ n # n + 1
        BY <3>1
      <4>2. h[i] = g[n] \o q[n + 1] /\ h[n] = g[n]
        BY <3>1, <4>1
      <4> QED BY <3>1, <4>1, <4>2
    <3>2. CASE i # n + 1
      <4>1. i \in 1 .. n /\ (i # 1 => i - 1 \in 1 .. n)
        BY <3>2
      <4>2. g[i] = IF i = 1 THEN q[i] ELSE g[i - 1] \o q[i]
        BY <2>1, <4>1
      <4> QED BY <3>2, <4>1, <4>2
    <3> QED BY <3>1, <3>2
  <2>3. Upto(h, n + 1)
    <3> HIDE DEF h
    <3>1. h = [i \in 1 .. n + 1 |-> h[i]]
      BY DEF h
    <3> QED BY <2>2, <3>1
  <2> HIDE DEF h, Upto
  <2> QED BY <1>2, <2>3
<1> HIDE DEF S
<1>3. 1 .. Len(q) \subseteq S
  BY <1>1, <1>2, InductionFrom
<1>4. Len(q) \in S
  BY <1>3
<1> QED BY <1>4 DEF S, IsFlatten

LEMMA FlattenChoice ==
  ASSUME NEW q, Len(q) \in Nat \ {0}
  PROVE  \E f : IsFlatten(f, q) /\ FlattenSeq(q) = f[Len(q)]
<1>1. FlattenSeq(q) = (CHOOSE f : IsFlatten(f, q))[Len(q)]
  BY DEF FlattenSeq, IsFlatten
<1> QED BY <1>1, FlattenExists

(* The function of a longer sequence is that of a shorter one, so far.     *)
LEMMA FlattenUnique ==
  ASSUME NEW f, NEW g, NEW q, NEW r, Len(q) \in Nat, Len(r) \in Nat,
         IsFlatten(f, q), IsFlatten(g, r), NEW n \in 1 .. Len(q), n <= Len(r),
         \A i \in 1 .. n : q[i] = r[i]
  PROVE  f[n] = g[n]
<1> DEFINE S == {m \in Nat : f[m] = g[m]}
<1>1. 1 \in S
  BY DEF IsFlatten
<1>2. ASSUME NEW m \in 1 .. n, m \in S, m < n
      PROVE  m + 1 \in S
  <2>1. m + 1 \in 1 .. n /\ m + 1 \in 1 .. Len(q) /\ m + 1 \in 1 .. Len(r)
        /\ (m + 1) - 1 = m /\ m + 1 # 1
    BY <1>2
  <2>2. f[m + 1] = f[m] \o q[m + 1] /\ g[m + 1] = g[m] \o r[m + 1]
    BY <2>1, ZenonT(30) DEF IsFlatten
  <2>3. f[m] = g[m] /\ q[m + 1] = r[m + 1]
    BY <1>2, <2>1
  <2>4. f[m + 1] = g[m + 1]
    BY <2>2, <2>3
  <2> QED BY <2>1, <2>4
<1>0. n \in Nat /\ 1 \in Nat
  OBVIOUS
<1> HIDE DEF S
<1>3. 1 .. n \subseteq S
  BY <1>0, <1>1, <1>2, InductionFrom
<1>4. n \in S
  BY <1>3
<1> QED BY <1>4 DEF S

(* One piece after another, ...                                            *)
LEMMA FlattenStep ==
  ASSUME NEW q, Len(q) \in Nat \ {0}, NEW r, Len(r) = Len(q) + 1,
         \A i \in 1 .. Len(q) : r[i] = q[i]
  PROVE  FlattenSeq(r) = FlattenSeq(q) \o r[Len(r)]
<1> DEFINE n == Len(q)
<1>1. PICK f : IsFlatten(f, q) /\ FlattenSeq(q) = f[n]
  BY FlattenChoice
<1>2. PICK g : IsFlatten(g, r) /\ FlattenSeq(r) = g[n + 1]
  BY FlattenChoice
<1>3. f[n] = g[n]
  BY <1>1, <1>2, FlattenUnique
<1>4. n + 1 \in 1 .. Len(r) /\ n + 1 # 1 /\ (n + 1) - 1 = n
  OBVIOUS
<1>5. g[n + 1] = g[n] \o r[n + 1]
  BY <1>2, <1>4 DEF IsFlatten
<1> QED BY <1>1, <1>2, <1>3, <1>5

LEMMA JoinedSteps ==
  ASSUME NEW S, NEW q \in Seq(Seq(S))
  PROVE  /\ Joined(q, 0) = <<>>
         /\ Joined(q, Len(q)) = FlattenSeq(q)
         /\ \A n \in 1 .. Len(q) : Joined(q, n) = Joined(q, n - 1) \o q[n]
         /\ \A n \in 0 .. Len(q) : Joined(q, n) \in Seq(S)
<1>1. Joined(q, 0) = <<>>
  <2>1. SubSeq(q, 1, 0) = <<>>
    BY SubSeqEmpty
  <2> QED BY <2>1 DEF Joined, FlattenSeq
<1>2. Joined(q, Len(q)) = FlattenSeq(q)
  BY SubSeqFull DEF Joined
<1>3. ASSUME NEW n \in 1 .. Len(q)
      PROVE  Joined(q, n) = Joined(q, n - 1) \o q[n]
  <2> DEFINE r == SubSeq(q, 1, n)
             p == SubSeq(q, 1, n - 1)
  <2>1. Len(r) = n /\ Len(p) = n - 1 /\ r[n] = q[n]
        /\ \A i \in 1 .. n - 1 : r[i] = p[i]
    OBVIOUS
  <2>2. CASE n = 1
    <3>1. p = <<>>
      BY <2>2, SubSeqEmpty
    <3>0. Len(r) \in Nat \ {0} /\ Len(r) = 1
      BY <2>1, <2>2
    <3>2. PICK f : IsFlatten(f, r) /\ FlattenSeq(r) = f[1]
      <4> HIDE DEF r
      <4> QED BY <3>0, FlattenChoice
    <3>3. FlattenSeq(r) = q[1]
      BY <2>1, <2>2, <3>2 DEF IsFlatten
    <3>4. q[1] \in Seq(S)
      BY <2>2
    <3>5. FlattenSeq(p) = <<>>
      BY <3>1 DEF FlattenSeq
    <3> QED BY <2>2, <3>3, <3>4, <3>5, ConcatEmptySeq DEF Joined
  <2>3. CASE n # 1
    <3>1. Len(p) \in Nat \ {0} /\ Len(r) = Len(p) + 1
      BY <2>1, <2>3
    <3> HIDE DEF r, p
    <3>2. FlattenSeq(r) = FlattenSeq(p) \o r[Len(r)]
      BY <2>1, <3>1, FlattenStep
    <3> QED BY <2>1, <3>2 DEF Joined, r, p
  <2> QED BY <2>2, <2>3
<1>4. ASSUME NEW n \in 0 .. Len(q)
      PROVE  Joined(q, n) \in Seq(S)
  <2> DEFINE T == {m \in Nat : Joined(q, m) \in Seq(S)}
  <2>0. Len(q) \in Nat /\ 0 \in Nat
    OBVIOUS
  <2>1. 0 \in T
    <3>1. Joined(q, 0) \in Seq(S)
      BY <1>1, EmptySeq
    <3> QED BY <3>1
  <2>2. ASSUME NEW m \in 0 .. Len(q), m \in T, m < Len(q)
        PROVE  m + 1 \in T
    <3>1. m + 1 \in 1 .. Len(q) /\ (m + 1) - 1 = m
      BY <2>2
    <3>2. Joined(q, m + 1) = Joined(q, m) \o q[m + 1]
      BY <1>3, <3>1
    <3>3. Joined(q, m) \in Seq(S) /\ q[m + 1] \in Seq(S)
      BY <2>2, <3>1
    <3>4. Joined(q, m + 1) \in Seq(S)
      BY <3>2, <3>3, ConcatProperties
    <3> QED BY <3>1, <3>4
  <2> HIDE DEF T
  <2>3. 0 .. Len(q) \subseteq T
    BY <2>0, <2>1, <2>2, InductionFrom
  <2>4. n \in T
    BY <2>3
  <2> QED BY <2>4 DEF T
<1> QED BY <1>1, <1>2, <1>3, <1>4

LEMMA JoinedLengths ==
  ASSUME NEW S, NEW q \in Seq(Seq(S))
  PROVE  /\ Len(Joined(q, 0)) = 0
         /\ \A n \in 0 .. Len(q) : Len(Joined(q, n)) \in Nat
         /\ \A n \in 1 .. Len(q) :
              Len(Joined(q, n)) = Len(Joined(q, n - 1)) + Len(q[n])
<1>1. Len(Joined(q, 0)) = 0
  BY JoinedSteps, EmptySeq
<1>2. ASSUME NEW n \in 0 .. Len(q) PROVE Len(Joined(q, n)) \in Nat
  BY JoinedSteps, LenProperties
<1>3. ASSUME NEW n \in 1 .. Len(q)
      PROVE  Len(Joined(q, n)) = Len(Joined(q, n - 1)) + Len(q[n])
  <2>1. n \in 0 .. Len(q) /\ n - 1 \in 0 .. Len(q) /\ q[n] \in Seq(S)
    OBVIOUS
  <2>2. Joined(q, n) = Joined(q, n - 1) \o q[n] /\ Joined(q, n - 1) \in Seq(S)
    BY <2>1, JoinedSteps
  <2> QED BY <2>1, <2>2, ConcatProperties
<1> QED BY <1>1, <1>2, <1>3

LEMMA JoinedGrows ==
  ASSUME NEW S, NEW q \in Seq(Seq(S)), NEW n \in 0 .. Len(q), NEW m \in n .. Len(q)
  PROVE  Len(Joined(q, n)) <= Len(Joined(q, m))
<1> DEFINE T == {k \in Nat : k <= Len(q) => Len(Joined(q, n)) <= Len(Joined(q, k))}
<1>0. n \in Nat /\ Len(q) \in Nat /\ n \in 0 .. Len(q)
  OBVIOUS
<1>1. n \in T
  BY <1>0, JoinedLengths
<1>2. ASSUME NEW k \in n .. Len(q), k \in T, k < Len(q)
      PROVE  k + 1 \in T
  <2>1. k + 1 \in 1 .. Len(q) /\ (k + 1) - 1 = k /\ k \in 0 .. Len(q) /\ k \in Nat
        /\ k + 1 \in 0 .. Len(q)
    BY <1>2
  <2>2. Len(Joined(q, k + 1)) = Len(Joined(q, k)) + Len(q[k + 1])
    BY <2>1, JoinedLengths
  <2>3. q[k + 1] \in Seq(S)
    BY <2>1
  <2>4. Len(q[k + 1]) \in Nat
    BY <2>3, LenProperties
  <2>5. Len(Joined(q, n)) \in Nat /\ Len(Joined(q, k)) \in Nat
    BY <1>0, <2>1, JoinedLengths
  <2>6. Len(Joined(q, n)) <= Len(Joined(q, k))
    BY <1>2
  <2>7. Len(Joined(q, n)) <= Len(Joined(q, k + 1))
    BY <2>2, <2>4, <2>5, <2>6
  <2> QED BY <2>1, <2>7
<1> HIDE DEF T
<1>3. n .. Len(q) \subseteq T
  BY <1>0, <1>1, <1>2, InductionFrom
<1>4. m \in T
  BY <1>3
<1> QED BY <1>4 DEF T

LEMMA ConcatPrefix ==
  ASSUME NEW S, NEW a \in Seq(S), NEW b \in Seq(S)
  PROVE  IsPrefix(a, a \o b)
<1>1. /\ Len(a \o b) = Len(a) + Len(b) /\ Len(a) \in Nat /\ Len(b) \in Nat
      /\ \A i \in 1 .. Len(a) + Len(b) :
           (a \o b)[i] = IF i <= Len(a) THEN a[i] ELSE b[i - Len(a)]
  BY ConcatProperties, LenProperties
<1>2. SubSeq(a, 1, Len(a)) = [i \in 1 .. Len(a) |-> a[i]]
      /\ SubSeq(a \o b, 1, Len(a)) = [i \in 1 .. Len(a) |-> (a \o b)[i]]
  BY <1>1
<1>3. SubSeq(a, 1, Len(a)) = SubSeq(a \o b, 1, Len(a))
  BY <1>1, <1>2
<1>4. Len(a) <= Len(a \o b)
  BY <1>1
<1> QED BY <1>3, <1>4 DEF IsPrefix

(* More pieces extend fewer.                                               *)
LEMMA JoinedPrefix ==
  ASSUME NEW S, NEW q \in Seq(Seq(S)), NEW n \in 0 .. Len(q), NEW m \in n .. Len(q)
  PROVE  IsPrefix(Joined(q, n), Joined(q, m))
<1> DEFINE T == {k \in Nat : k <= Len(q) =>
                   \E c \in Seq(S) : Joined(q, k) = Joined(q, n) \o c}
<1>0. n \in Nat /\ Len(q) \in Nat /\ n \in 0 .. Len(q)
  OBVIOUS
<1>1. n \in T
  <2>1. Joined(q, n) \in Seq(S)
    BY <1>0, JoinedSteps
  <2>2. <<>> \in Seq(S) /\ Joined(q, n) = Joined(q, n) \o <<>>
    BY <2>1, EmptySeq, ConcatEmptySeq
  <2> QED BY <1>0, <2>2
<1>2. ASSUME NEW k \in n .. Len(q), k \in T, k < Len(q)
      PROVE  k + 1 \in T
  <2>1. k + 1 \in 1 .. Len(q) /\ (k + 1) - 1 = k /\ k \in 0 .. Len(q) /\ k \in Nat
        /\ k + 1 \in Nat /\ k <= Len(q)
    BY <1>2
  <2>2. PICK c \in Seq(S) : Joined(q, k) = Joined(q, n) \o c
    BY <1>2, <2>1
  <2>3. Joined(q, k + 1) = Joined(q, k) \o q[k + 1]
    BY <2>1, JoinedSteps
  <2>4. q[k + 1] \in Seq(S) /\ Joined(q, n) \in Seq(S)
    <3>1. q[k + 1] \in Seq(S)
      BY <2>1, ElementOfSeq
    <3> QED BY <1>0, <3>1, JoinedSteps
  <2>5. Joined(q, k + 1) = Joined(q, n) \o (c \o q[k + 1])
    <3>1. \A x, y, z \in Seq(S) : (x \o y) \o z = x \o (y \o z)
      BY ConcatAssociative, SMTT(20)
    <3>2. (Joined(q, n) \o c) \o q[k + 1] = Joined(q, n) \o (c \o q[k + 1])
      BY <2>4, <3>1, Zenon
    <3> QED BY <2>2, <2>3, <3>2, Zenon
  <2>6. c \o q[k + 1] \in Seq(S)
    BY <2>4, ConcatProperties
  <2> QED BY <2>1, <2>5, <2>6
<1> HIDE DEF T
<1>3. n .. Len(q) \subseteq T
  BY <1>0, <1>1, <1>2, InductionFrom
<1>4. m \in T /\ m <= Len(q)
  BY <1>3
<1>5. PICK c \in Seq(S) : Joined(q, m) = Joined(q, n) \o c
  BY <1>4 DEF T
<1>6. Joined(q, n) \in Seq(S)
  BY <1>0, JoinedSteps
<1> QED BY <1>5, <1>6, ConcatPrefix

-----------------------------------------------------------------------------
(* What a reader sees.                                                     *)

(* From `from` on t is b, as far as t goes.                                *)
Shows(t, from, b) ==
  \A i \in 1 .. Len(b) : from + i - 1 <= Len(t) => t[from + i - 1] = b[i]

LEMMA ShowsConcat ==
  ASSUME NEW S, NEW a \in Seq(S), NEW b \in Seq(S), NEW t, Len(t) \in Nat,
         NEW from \in Nat, Shows(t, from, a \o b)
  PROVE  Shows(t, from, a) /\ Shows(t, from + Len(a), b)
<1>1. /\ Len(a \o b) = Len(a) + Len(b) /\ Len(a) \in Nat /\ Len(b) \in Nat
      /\ \A i \in 1 .. Len(a) + Len(b) :
           (a \o b)[i] = IF i <= Len(a) THEN a[i] ELSE b[i - Len(a)]
  BY ConcatProperties, LenProperties
<1>2. Shows(t, from, a)
  BY <1>1 DEF Shows
<1>3. ASSUME NEW i \in 1 .. Len(b), from + Len(a) + i - 1 <= Len(t)
      PROVE  t[from + Len(a) + i - 1] = b[i]
  <2>1. Len(a) + i \in 1 .. Len(a \o b) /\ from + (Len(a) + i) - 1 = from + Len(a) + i - 1
        /\ ~(Len(a) + i <= Len(a)) /\ (Len(a) + i) - Len(a) = i
    BY <1>1
  <2>2. (a \o b)[Len(a) + i] = b[i]
    BY <1>1, <2>1
  <2>3. t[from + (Len(a) + i) - 1] = (a \o b)[Len(a) + i]
    BY <1>3, <2>1 DEF Shows
  <2> QED BY <2>1, <2>2, <2>3
<1> QED BY <1>2, <1>3 DEF Shows

LEMMA ShowsPiece ==
  ASSUME NEW S, NEW q \in Seq(Seq(S)), NEW t, Len(t) \in Nat,
         NEW from \in Nat, Shows(t, from, FlattenSeq(q)), NEW n \in 1 .. Len(q)
  PROVE  Shows(t, from + Len(Joined(q, n - 1)), q[n])
<1> DEFINE T == {k \in Nat : k <= Len(q) => Shows(t, from, Joined(q, Len(q) - k))}
<1>0. Len(q) \in Nat /\ 0 \in Nat
  OBVIOUS
<1>1. 0 \in T
  <2>1. Len(q) - 0 = Len(q)
    BY <1>0
  <2>2. Joined(q, Len(q)) = FlattenSeq(q)
    BY JoinedSteps
  <2>3. Shows(t, from, Joined(q, Len(q) - 0))
    BY <2>1, <2>2
  <2> QED BY <2>3
<1>2. ASSUME NEW k \in 0 .. Len(q), k \in T, k < Len(q)
      PROVE  k + 1 \in T
  <2>1. Len(q) - k \in 1 .. Len(q) /\ (Len(q) - k) - 1 = Len(q) - (k + 1) /\ k + 1 \in Nat
        /\ Len(q) - (k + 1) \in 0 .. Len(q)
    BY <1>2
  <2>2. Shows(t, from, Joined(q, Len(q) - k))
    BY <1>2
  <2>3. Joined(q, Len(q) - k) = Joined(q, Len(q) - (k + 1)) \o q[Len(q) - k]
    BY <2>1, JoinedSteps
  <2>4. Joined(q, Len(q) - (k + 1)) \in Seq(S) /\ q[Len(q) - k] \in Seq(S)
    <3>1. q[Len(q) - k] \in Seq(S)
      BY <2>1, ElementOfSeq
    <3> QED BY <2>1, <3>1, JoinedSteps
  <2>5. Shows(t, from, Joined(q, Len(q) - (k + 1)))
    BY <2>2, <2>3, <2>4, ShowsConcat
  <2> QED BY <2>1, <2>5
<1>3. 0 .. Len(q) \subseteq T
  <2> HIDE DEF T
  <2> QED BY <1>0, <1>1, <1>2, InductionFrom
<1>4. Len(q) - n \in 0 .. Len(q) /\ Len(q) - (Len(q) - n) = n
      /\ n - 1 \in 0 .. Len(q)
  OBVIOUS
<1>5. Shows(t, from, Joined(q, n))
  <2>1. Len(q) - n \in T
    BY <1>3, <1>4
  <2> QED BY <1>4, <2>1
<1>6. Joined(q, n) = Joined(q, n - 1) \o q[n] /\ Joined(q, n - 1) \in Seq(S)
      /\ q[n] \in Seq(S)
  <2>1. q[n] \in Seq(S)
    BY ElementOfSeq
  <2> QED BY <1>4, <2>1, JoinedSteps
<1> QED BY <1>5, <1>6, ShowsConcat

(* The line that b begins with is the one a reader of t finds, once t goes *)
(* that far; and if b has no line end, what is found is not within b.      *)
LEMMA LineShown ==
  ASSUME NEW S, NEW b \in Seq(S), NEW t, Len(t) \in Nat,
         NEW from \in Nat \ {0}, Shows(t, from, b)
  PROVE  LET e == LineEnd(b, 1) IN
         /\ e # 0 => /\ LineEnd(t, from) = IF from + e <= Len(t) THEN from + e - 1 ELSE 0
                     /\ from + e <= Len(t) =>
                          SubSeq(t, from, from + e - 2) = SubSeq(b, 1, e - 1)
         /\ e = 0 => LineEnd(t, from) = 0 \/ LineEnd(t, from) >= from + Len(b) - 1
<1> DEFINE e == LineEnd(b, 1)
           l == LineEnd(t, from)
<1>1. Len(b) \in Nat /\ 1 \in Nat \ {0}
  BY LenProperties
<1>2. /\ e \in Nat
      /\ e = 0 => \A i \in 1 .. Len(b) - 1 : ~Breaks(b, i)
      /\ e # 0 => /\ e \in 1 .. Len(b) - 1 /\ Breaks(b, e)
                  /\ \A i \in 1 .. e - 1 : ~Breaks(b, i)
  BY <1>1, LineEndFound
<1>3. /\ l \in Nat
      /\ l = 0 => \A i \in from .. Len(t) - 1 : ~Breaks(t, i)
      /\ l # 0 => /\ l \in from .. Len(t) - 1 /\ Breaks(t, l)
                  /\ \A i \in from .. l - 1 : ~Breaks(t, i)
  BY LineEndFound
<1> HIDE DEF e, l
(* A line end within both is one of both.                                  *)
<1>4. ASSUME NEW i \in 1 .. Len(b) - 1, from + i <= Len(t)
      PROVE  Breaks(t, from + i - 1) <=> Breaks(b, i)
  <2>1. i \in 1 .. Len(b) /\ i + 1 \in 1 .. Len(b) /\ from + i - 1 <= Len(t)
        /\ from + (i + 1) - 1 <= Len(t) /\ from + (i + 1) - 1 = (from + i - 1) + 1
    BY <1>1, <1>4
  <2>2. t[from + i - 1] = b[i] /\ t[from + (i + 1) - 1] = b[i + 1]
    BY <2>1 DEF Shows
  <2> QED BY <2>1, <2>2 DEF Breaks
<1>5. ASSUME e = 0
      PROVE  l = 0 \/ l >= from + Len(b) - 1
  <2> SUFFICES ASSUME l # 0, l < from + Len(b) - 1 PROVE FALSE
    BY <1>1, <1>3
  <2>1. l - from + 1 \in 1 .. Len(b) - 1 /\ from + (l - from + 1) <= Len(t)
        /\ from + (l - from + 1) - 1 = l
    BY <1>1, <1>3
  <2> QED BY <1>2, <1>3, <1>4, <1>5, <2>1
<1>6. ASSUME e # 0, from + e <= Len(t)
      PROVE  l = from + e - 1 /\ SubSeq(t, from, from + e - 2) = SubSeq(b, 1, e - 1)
  <2>1. from + e - 1 \in from .. Len(t) - 1 /\ Breaks(t, from + e - 1)
    BY <1>2, <1>4, <1>6
  <2>2. ASSUME NEW j \in from .. from + e - 2
        PROVE  ~Breaks(t, j)
    <3>1. j - from + 1 \in 1 .. e - 1 /\ j - from + 1 \in 1 .. Len(b) - 1
          /\ from + (j - from + 1) <= Len(t) /\ from + (j - from + 1) - 1 = j
      BY <1>2, <1>6
    <3> QED BY <1>2, <1>4, <1>6, <3>1
  <2>3. l = from + e - 1
    <3>1. \A j \in from .. (from + e - 1) - 1 : ~Breaks(t, j)
      BY <1>2, <2>2
    <3> QED BY <2>1, <3>1, LineEndIs DEF l
  <2>4. SubSeq(t, from, from + e - 2) = SubSeq(b, 1, e - 1)
    <3>1. \A i \in 1 .. e - 1 : from + i - 1 <= Len(t) /\ t[from + i - 1] = b[i]
                                /\ i \in 1 .. Len(b) /\ b[i] \in S
      BY <1>1, <1>2, <1>6 DEF Shows
    <3>2. \A i \in from .. from + e - 2 : t[i] \in S
      <4> SUFFICES ASSUME NEW i \in from .. from + e - 2 PROVE t[i] \in S
        OBVIOUS
      <4>1. i - from + 1 \in 1 .. e - 1 /\ from + (i - from + 1) - 1 = i
        BY <1>2
      <4> QED BY <3>1, <4>1
    <3>3. from \in Int /\ from + e - 2 \in Int /\ e - 1 \in Int /\ 1 \in Int
          /\ (from + e - 2) - from + 1 = e - 1 /\ (e - 1) - 1 + 1 = e - 1
      BY <1>2
    <3>4. /\ SubSeq(t, from, from + e - 2) \in Seq(S)
          /\ Len(SubSeq(t, from, from + e - 2)) = e - 1
          /\ \A i \in 1 .. e - 1 : SubSeq(t, from, from + e - 2)[i] = t[from + i - 1]
      BY <1>2, <1>6, <3>2, <3>3, SubSeqProperties
    <3>5. /\ SubSeq(b, 1, e - 1) \in Seq(S)
          /\ Len(SubSeq(b, 1, e - 1)) = e - 1
          /\ \A i \in 1 .. e - 1 : SubSeq(b, 1, e - 1)[i] = b[1 + i - 1]
      BY <1>2, <1>6, <3>1, <3>3, SubSeqProperties
    <3>6. \A i \in 1 .. e - 1 : 1 + i - 1 = i
      BY <1>2
    <3> QED BY <3>1, <3>4, <3>5, <3>6, SeqEqual
  <2> QED BY <2>3, <2>4
<1>7. ASSUME e # 0, ~(from + e <= Len(t))
      PROVE  l = 0
  <2> SUFFICES ASSUME l # 0 PROVE FALSE
    OBVIOUS
  <2>1. l - from + 1 \in 1 .. e - 1 /\ l - from + 1 \in 1 .. Len(b) - 1
        /\ from + (l - from + 1) <= Len(t) /\ from + (l - from + 1) - 1 = l
    BY <1>2, <1>3, <1>7
  <2>2. Breaks(b, l - from + 1)
    BY <1>3, <1>4, <2>1
  <2> QED BY <1>2, <1>7, <2>1, <2>2
<1> QED BY <1>5, <1>6, <1>7 DEF e, l

LEMMA SubSeqShown ==
  ASSUME NEW S, NEW b \in Seq(S), NEW t, Len(t) \in Nat,
         NEW from \in Nat \ {0}, Shows(t, from, b), from + Len(b) - 1 <= Len(t)
  PROVE  SubSeq(t, from, from + Len(b) - 1) = b
<1> DEFINE n == Len(b)
<1>1. n \in Nat
  BY LenProperties
<1>2. \A i \in 1 .. n : t[from + i - 1] = b[i] /\ b[i] \in S
  BY <1>1, ElementOfSeq DEF Shows
<1> HIDE DEF n
<1>3. ASSUME NEW i \in from .. from + n - 1 PROVE t[i] \in S
  <2>1. i - from + 1 \in 1 .. n /\ from + (i - from + 1) - 1 = i
    BY <1>1
  <2> QED BY <1>2, <2>1
<1>4. from \in Int /\ from + n - 1 \in Int /\ (from + n - 1) - from + 1 = n
      /\ (from <= from + n - 1 \/ n = 0)
  BY <1>1
<1>5. /\ SubSeq(t, from, from + n - 1) \in Seq(S)
      /\ Len(SubSeq(t, from, from + n - 1)) = n
      /\ \A i \in 1 .. n : SubSeq(t, from, from + n - 1)[i] = t[from + i - 1]
  BY <1>1, <1>3, <1>4, SubSeqProperties
<1> QED BY <1>2, <1>5, SeqEqual DEF n

LEMMA SuffixCRLF ==
  ASSUME NEW s, NEW n \in Nat, Len(s) = n + 2
  PROVE  IsSuffix(CRLF, s) <=> s[n + 1] = "cr" /\ s[n + 2] = "lf"
<1> DEFINE r == Reverse(CRLF)
           t == Reverse(s)
<1>1. r = <<"lf", "cr">> /\ Len(r) = 2 /\ r[1] = "lf" /\ r[2] = "cr"
  <2>1. Len(CRLF) = 2 /\ CRLF[1] = "cr" /\ CRLF[2] = "lf"
    BY DEF CRLF
  <2>2. r = [i \in 1 .. 2 |-> CRLF[(2 - i) + 1]]
    BY <2>1 DEF Reverse
  <2>3. r[1] = "lf" /\ r[2] = "cr"
    BY <2>1, <2>2
  <2> QED BY <2>2, <2>3
<1>2. t = [i \in 1 .. n + 2 |-> s[(n + 2 - i) + 1]]
  BY DEF Reverse
<1>3. Len(t) = n + 2 /\ t[1] = s[n + 2] /\ t[2] = s[n + 1]
  BY <1>2
<1> HIDE DEF r, t
<1>4. /\ SubSeq(r, 1, 2) = [i \in 1 .. 2 |-> r[i]]
      /\ SubSeq(t, 1, 2) = [i \in 1 .. 2 |-> t[i]]
  OBVIOUS
<1>5. SubSeq(r, 1, 2) = SubSeq(t, 1, 2) <=> r[1] = t[1] /\ r[2] = t[2]
  BY <1>4
<1>6. IsSuffix(CRLF, s) <=> SubSeq(r, 1, 2) = SubSeq(t, 1, 2)
  BY <1>1, <1>3 DEF IsSuffix, IsPrefix, r, t
<1> QED BY <1>1, <1>3, <1>5, <1>6

-----------------------------------------------------------------------------
(* Numbers.                                                                *)

LEMMA DigitFacts ==
  ASSUME NEW k \in 0 .. 9
  PROVE  /\ Digits[k + 1] \in Digit /\ DigitValue(Digits[k + 1]) = k
         /\ Digits[k + 1] \notin {"-", "cr", "lf"}
<1>1. \A i, j \in 0 .. 9 : Digits[i + 1] = Digits[j + 1] => i = j
  BY DEF Digits
<1>2. Digits[k + 1] \in Digit
  BY DEF Digits, Digit, ToSet
<1>3. DigitValue(Digits[k + 1]) = k
  BY <1>1 DEF DigitValue
<1>4. Digits[k + 1] \notin {"-", "cr", "lf"}
  BY DEF Digits
<1> QED BY <1>2, <1>3, <1>4

LEMMA DigitIs ==
  ASSUME NEW d \in Digit
  PROVE  DigitValue(d) \in 0 .. 9 /\ d \notin {"-", "cr", "lf"}
<1>1. PICK i \in 1 .. 10 : d = Digits[i]
  BY DEF Digit, Digits, ToSet
<1>2. i - 1 \in 0 .. 9 /\ (i - 1) + 1 = i
  OBVIOUS
<1> QED BY <1>1, <1>2, DigitFacts

IsNumber(f, s) ==
  f = [i \in 0 .. Len(s) |-> IF i = 0 THEN 0 ELSE 10 * f[i - 1] + DigitValue(s[i])]

LEMMA NumberExists ==
  ASSUME NEW s, Len(s) \in Nat
  PROVE  \E f : IsNumber(f, s)
<1> DEFINE Upto(g, n) == g = [i \in 0 .. n |-> IF i = 0 THEN 0
                                                ELSE 10 * g[i - 1] + DigitValue(s[i])]
           S == {n \in Nat : \E g : Upto(g, n)}
<1>1. 0 \in S
  <2> DEFINE g == [i \in 0 .. 0 |-> 0]
  <2>1. Upto(g, 0)
    OBVIOUS
  <2> QED BY <2>1
<1>2. ASSUME NEW n \in 0 .. Len(s), n \in S, n < Len(s)
      PROVE  n + 1 \in S
  <2>1. PICK g : Upto(g, n)
    BY <1>2
  <2> DEFINE h == [i \in 0 .. n + 1 |-> IF i = n + 1 THEN 10 * g[n] + DigitValue(s[n + 1])
                                                     ELSE g[i]]
  <2>2. ASSUME NEW i \in 0 .. n + 1
        PROVE  h[i] = IF i = 0 THEN 0 ELSE 10 * h[i - 1] + DigitValue(s[i])
    <3>1. CASE i = n + 1
      <4>1. i # 0 /\ i - 1 = n /\ n \in 0 .. n + 1 /\ n # n + 1
        BY <3>1
      <4>2. h[i] = 10 * g[n] + DigitValue(s[n + 1]) /\ h[n] = g[n]
        BY <3>1, <4>1
      <4> QED BY <3>1, <4>1, <4>2
    <3>2. CASE i # n + 1
      <4>1. i \in 0 .. n /\ (i # 0 => i - 1 \in 0 .. n)
        BY <3>2
      <4>2. g[i] = IF i = 0 THEN 0 ELSE 10 * g[i - 1] + DigitValue(s[i])
        BY <2>1, <4>1
      <4> QED BY <3>2, <4>1, <4>2
    <3> QED BY <3>1, <3>2
  <2>3. Upto(h, n + 1)
    <3> HIDE DEF h
    <3>1. h = [i \in 0 .. n + 1 |-> h[i]]
      BY DEF h
    <3> QED BY <2>2, <3>1
  <2> HIDE DEF h, Upto
  <2> QED BY <1>2, <2>3
<1> HIDE DEF S
<1>3. 0 .. Len(s) \subseteq S
  BY <1>1, <1>2, InductionFrom
<1>4. Len(s) \in S
  BY <1>3
<1> QED BY <1>4 DEF S, IsNumber

LEMMA NumberChoice ==
  ASSUME NEW s, Len(s) \in Nat
  PROVE  \E f : IsNumber(f, s) /\ Number(s) = f[Len(s)]
<1>1. Number(s) = (CHOOSE f : IsNumber(f, s))[Len(s)]
  BY DEF Number, IsNumber
<1> QED BY <1>1, NumberExists

LEMMA NumberType ==
  ASSUME NEW s \in Seq(Digit)
  PROVE  Number(s) \in Nat
<1>0. Len(s) \in Nat /\ 0 \in Nat
  BY LenProperties
<1>1. PICK f : IsNumber(f, s) /\ Number(s) = f[Len(s)]
  BY <1>0, NumberChoice
<1> DEFINE S == {m \in Nat : f[m] \in Nat}
<1>2. 0 \in S
  BY <1>0, <1>1 DEF IsNumber
<1>3. ASSUME NEW m \in 0 .. Len(s), m \in S, m < Len(s)
      PROVE  m + 1 \in S
  <2>1. m + 1 \in 0 .. Len(s) /\ m + 1 \in 1 .. Len(s) /\ (m + 1) - 1 = m /\ m + 1 # 0
    BY <1>0, <1>3
  <2>2. f[m + 1] = 10 * f[m] + DigitValue(s[m + 1])
    BY <1>1, <2>1 DEF IsNumber
  <2>3. DigitValue(s[m + 1]) \in Nat
    <3>1. s[m + 1] \in Digit
      BY <2>1, ElementOfSeq
    <3> QED BY <3>1, DigitIs
  <2>4. f[m] \in Nat
    BY <1>3
  <2>5. f[m + 1] \in Nat
    BY <2>2, <2>3, <2>4
  <2> QED BY <2>1, <2>5
<1> HIDE DEF S
<1>4. 0 .. Len(s) \subseteq S
  BY <1>0, <1>2, <1>3, InductionFrom
<1>5. Len(s) \in S
  BY <1>0, <1>4
<1> QED BY <1>1, <1>5 DEF S

LEMMA LengthType ==
  ASSUME NEW S, NEW raw \in Seq(S), IsLength(raw)
  PROVE  LengthOf(raw) \in Int
<1>1. Unsigned(raw) \in Seq(S)
  <2>1. raw # <<>> => Tail(raw) \in Seq(S)
    BY HeadTailProperties
  <2> QED BY <2>1 DEF Unsigned
<1>2. \A i \in 1 .. Len(Unsigned(raw)) : Unsigned(raw)[i] \in Digit
  <2>1. DOMAIN Unsigned(raw) = 1 .. Len(Unsigned(raw))
    BY <1>1, LenProperties
  <2> QED BY <2>1 DEF IsLength, ToSet
<1>3. Unsigned(raw) \in Seq(Digit)
  <2> DEFINE u == Unsigned(raw)
  <2>1. u \in [1 .. Len(u) -> S] /\ Len(u) \in Nat
    BY <1>1, LenProperties
  <2>2. u \in [1 .. Len(u) -> Digit]
    BY <1>2, <2>1
  <2> HIDE DEF u
  <2>3. u \in Seq(Digit)
    BY <2>1, <2>2
  <2> QED BY <2>3 DEF u
<1>4. Number(Unsigned(raw)) \in Nat
  BY <1>3, NumberType
<1> QED BY <1>4 DEF LengthOf

LEMMA MaxWithZero ==
  ASSUME NEW x \in Int
  PROVE  Max({0, x}) = IF x > 0 THEN x ELSE 0
BY DEF Max

-----------------------------------------------------------------------------
(* Frames.                                                                 *)

Bulks == [head : Seq(Byte), payload : Seq(Byte)]

ClientFrame == [head : Seq(Byte), bulks : Seq(Bulks), rest : Seq(Byte)]

Pieces(f) == [i \in DOMAIN f.bulks |-> BulkBytes(f.bulks[i])]

(* The bytes of f before its i + 1st bulk string.                          *)
Offset(f, i) == Len(f.head) + Len(Joined(Pieces(f), i))

LEMMA CRLFType == CRLF \in Seq(Byte) /\ Len(CRLF) = 2 /\ CRLF[1] = "cr" /\ CRLF[2] = "lf"
<1>1. "cr" \in Byte /\ "lf" \in Byte
  BY DEF Byte
<1> QED BY <1>1 DEF CRLF

(* The lemmas about sequences, for bytes.                                  *)
LEMMA ByteConcat ==
  \A a, b \in Seq(Byte) :
    /\ a \o b \in Seq(Byte) /\ Len(a \o b) = Len(a) + Len(b)
    /\ Len(a) \in Nat /\ Len(b) \in Nat
BY ConcatProperties, LenProperties

LEMMA ByteJoined ==
  \A p \in Seq(Seq(Byte)) :
    /\ Len(p) \in Nat
    /\ Len(Joined(p, 0)) = 0 /\ Joined(p, Len(p)) = FlattenSeq(p)
    /\ FlattenSeq(p) \in Seq(Byte)
    /\ \A i \in 0 .. Len(p) : /\ Len(Joined(p, i)) \in Nat
                              /\ Len(Joined(p, i)) <= Len(Joined(p, Len(p)))
    /\ \A i \in 1 .. Len(p) : Len(Joined(p, i)) = Len(Joined(p, i - 1)) + Len(p[i])
<1> SUFFICES ASSUME NEW p \in Seq(Seq(Byte))
             PROVE  /\ Len(p) \in Nat
                    /\ Len(Joined(p, 0)) = 0 /\ Joined(p, Len(p)) = FlattenSeq(p)
                    /\ FlattenSeq(p) \in Seq(Byte)
                    /\ \A i \in 0 .. Len(p) : /\ Len(Joined(p, i)) \in Nat
                                              /\ Len(Joined(p, i)) <= Len(Joined(p, Len(p)))
                    /\ \A i \in 1 .. Len(p) :
                         Len(Joined(p, i)) = Len(Joined(p, i - 1)) + Len(p[i])
  OBVIOUS
<1>1. Len(p) \in Nat /\ Len(p) \in 0 .. Len(p) /\ \A i \in 0 .. Len(p) : Len(p) \in i .. Len(p)
  BY LenProperties
<1>2. Joined(p, Len(p)) = FlattenSeq(p)
  BY JoinedSteps
<1>3. Joined(p, Len(p)) \in Seq(Byte)
  BY <1>1, JoinedSteps
<1>4. ASSUME NEW i \in 0 .. Len(p)
      PROVE  Len(Joined(p, i)) \in Nat /\ Len(Joined(p, i)) <= Len(Joined(p, Len(p)))
  BY <1>1, JoinedLengths, JoinedGrows
<1>5. /\ Len(Joined(p, 0)) = 0
      /\ \A i \in 1 .. Len(p) : Len(Joined(p, i)) = Len(Joined(p, i - 1)) + Len(p[i])
  BY JoinedLengths
<1> QED BY <1>1, <1>2, <1>3, <1>4, <1>5

LEMMA BulkFacts ==
  ASSUME NEW b \in Bulks
  PROVE  /\ b.head \in Seq(Byte) /\ b.payload \in Seq(Byte)
         /\ b.head \o b.payload \in Seq(Byte) /\ b.payload \o CRLF \in Seq(Byte)
         /\ BulkBytes(b) \in Seq(Byte) /\ BulkBytes(b) = b.head \o (b.payload \o CRLF)
         /\ Len(b.payload \o CRLF) = Len(b.payload) + 2
         /\ Len(BulkBytes(b)) = Len(b.head) + Len(b.payload) + 2
<1>1. b.head \in Seq(Byte) /\ b.payload \in Seq(Byte)
  BY DEF Bulks
<1>2. b.head \o b.payload \in Seq(Byte) /\ b.payload \o CRLF \in Seq(Byte)
      /\ Len(b.payload \o CRLF) = Len(b.payload) + 2
  BY <1>1, CRLFType, ByteConcat
<1>3. BulkBytes(b) = b.head \o (b.payload \o CRLF)
  <2>1. \A x, y, z \in Seq(Byte) : (x \o y) \o z = x \o (y \o z)
    BY ConcatAssociative
  <2> QED BY <1>1, <2>1, CRLFType DEF BulkBytes
<1>4. BulkBytes(b) \in Seq(Byte) /\ Len(BulkBytes(b)) = Len(b.head) + Len(b.payload \o CRLF)
  BY <1>1, <1>2, <1>3, ByteConcat
<1>5. Len(b.head) \in Nat /\ Len(b.payload) \in Nat
  BY <1>1, LenProperties
<1>6. Len(BulkBytes(b)) = Len(b.head) + Len(b.payload) + 2
  <2>1. \A h, p, c \in Nat : c = p + 2 => h + c = h + p + 2
    OBVIOUS
  <2>2. Len(b.payload \o CRLF) \in Nat
    BY <1>2, LenProperties
  <2> QED BY <1>2, <1>4, <1>5, <2>1, <2>2
<1> QED BY <1>1, <1>2, <1>3, <1>4, <1>6

LEMMA PieceFacts ==
  ASSUME NEW f \in ClientFrame
  PROVE  /\ f.head \in Seq(Byte) /\ f.rest \in Seq(Byte)
         /\ f.bulks \in Seq(Bulks) /\ Len(f.bulks) \in Nat
         /\ DOMAIN f.bulks = 1 .. Len(f.bulks)
         /\ \A i \in 1 .. Len(f.bulks) : f.bulks[i] \in Bulks
         /\ Pieces(f) \in Seq(Seq(Byte)) /\ Len(Pieces(f)) = Len(f.bulks)
         /\ \A i \in 1 .. Len(f.bulks) : Pieces(f)[i] = BulkBytes(f.bulks[i])
<1>1. f.head \in Seq(Byte) /\ f.rest \in Seq(Byte) /\ f.bulks \in Seq(Bulks)
  BY DEF ClientFrame
<1>2. Len(f.bulks) \in Nat /\ DOMAIN f.bulks = 1 .. Len(f.bulks)
  BY <1>1, LenProperties
<1>3. \A i \in 1 .. Len(f.bulks) : f.bulks[i] \in Bulks
  BY <1>1, ElementOfSeq
<1>4. \A i \in 1 .. Len(f.bulks) : BulkBytes(f.bulks[i]) \in Seq(Byte)
  BY <1>3, BulkFacts
<1>5. Pieces(f) = [i \in 1 .. Len(f.bulks) |-> BulkBytes(f.bulks[i])]
  BY <1>2 DEF Pieces
<1>6. Pieces(f) \in Seq(Seq(Byte)) /\ Len(Pieces(f)) = Len(f.bulks)
  BY <1>2, <1>4, <1>5
<1> QED BY <1>1, <1>2, <1>3, <1>5, <1>6

LEMMA OffsetFacts ==
  ASSUME NEW f \in ClientFrame
  PROVE  /\ Offset(f, 0) = Len(f.head) /\ Len(f.head) \in Nat
         /\ \A i \in 0 .. Len(f.bulks) : Offset(f, i) \in Nat
         /\ \A i \in 1 .. Len(f.bulks) :
              Offset(f, i) = Offset(f, i - 1)
                               + Len(f.bulks[i].head) + Len(f.bulks[i].payload) + 2
         /\ \A i \in 0 .. Len(f.bulks) : Offset(f, i) <= Offset(f, Len(f.bulks))
         /\ Bytes(f) \in Seq(Byte)
         /\ Len(f.rest) \in Nat
         /\ Len(Bytes(f)) = Offset(f, Len(f.bulks)) + Len(f.rest)
<1> DEFINE p == Pieces(f)
<1>1. p \in Seq(Seq(Byte)) /\ Len(p) = Len(f.bulks) /\ Len(p) \in Nat
      /\ Len(f.head) \in Nat /\ Len(f.rest) \in Nat
  BY PieceFacts, LenProperties
<1> HIDE DEF p
<1>2. /\ Len(Joined(p, 0)) = 0
      /\ \A i \in 0 .. Len(p) : Len(Joined(p, i)) \in Nat
      /\ \A i \in 1 .. Len(p) : Len(Joined(p, i)) = Len(Joined(p, i - 1)) + Len(p[i])
      /\ \A i \in 0 .. Len(p) : Len(Joined(p, i)) <= Len(Joined(p, Len(p)))
  BY <1>1, ByteJoined
<1>3. \A i \in 0 .. Len(p) : Offset(f, i) = Len(f.head) + Len(Joined(p, i))
  BY DEF Offset, p
<1>4. ASSUME NEW i \in 1 .. Len(p)
      PROVE  Offset(f, i) = Offset(f, i - 1)
                              + Len(f.bulks[i].head) + Len(f.bulks[i].payload) + 2
  <2>1. i \in 0 .. Len(p) /\ i - 1 \in 0 .. Len(p)
    BY <1>1
  <2>2. f.bulks[i] \in Bulks /\ p[i] = BulkBytes(f.bulks[i])
    BY <1>1, PieceFacts DEF p
  <2>3. Len(p[i]) = Len(f.bulks[i].head) + Len(f.bulks[i].payload) + 2
        /\ Len(f.bulks[i].head) \in Nat /\ Len(f.bulks[i].payload) \in Nat
    BY <2>2, BulkFacts, LenProperties
  <2>4. Len(Joined(p, i)) = Len(Joined(p, i - 1)) + Len(p[i])
        /\ Len(Joined(p, i - 1)) \in Nat
    BY <1>2, <2>1
  <2>5. Offset(f, i) = Len(f.head) + Len(Joined(p, i))
        /\ Offset(f, i - 1) = Len(f.head) + Len(Joined(p, i - 1))
    BY <1>3, <2>1
  <2> DEFINE x == Len(f.head)
             y == Len(Joined(p, i - 1))
             h == Len(f.bulks[i].head)
             v == Len(f.bulks[i].payload)
  <2>6. x \in Nat /\ y \in Nat /\ h \in Nat /\ v \in Nat
    BY <1>1, <2>3, <2>4
  <2>7. Offset(f, i) = x + (y + (h + v + 2)) /\ Offset(f, i - 1) = x + y
    BY <2>3, <2>4, <2>5
  <2>8. x + (y + (h + v + 2)) = x + y + h + v + 2
    <3> HIDE DEF x, y, h, v
    <3> QED BY <2>6
  <2> QED BY <2>7, <2>8
<1>5. Bytes(f) = f.head \o Joined(p, Len(p)) \o f.rest
  BY <1>1, ByteJoined DEF Bytes, Pieces, p
<1>6. Joined(p, Len(p)) \in Seq(Byte)
  BY <1>1, ByteJoined
<1>7. /\ f.head \o Joined(p, Len(p)) \in Seq(Byte)
      /\ Len(f.head \o Joined(p, Len(p))) = Offset(f, Len(p))
  <2>1. f.head \in Seq(Byte) /\ Len(p) \in 0 .. Len(p)
    BY <1>1, PieceFacts
  <2> QED BY <1>1, <1>3, <1>6, <2>1, ByteConcat
<1>8. Bytes(f) \in Seq(Byte) /\ Len(Bytes(f)) = Offset(f, Len(f.bulks)) + Len(f.rest)
  <2>1. f.rest \in Seq(Byte)
    BY PieceFacts
  <2> DEFINE g == f.head \o Joined(p, Len(p))
  <2>2. g \in Seq(Byte) /\ Len(g) = Offset(f, Len(f.bulks)) /\ Bytes(f) = g \o f.rest
    BY <1>1, <1>5, <1>7
  <2> HIDE DEF g
  <2> QED BY <2>1, <2>2, ByteConcat
<1>9. \A i \in 0 .. Len(p) : Offset(f, i) \in Nat /\ Offset(f, i) <= Offset(f, Len(p))
  BY <1>1, <1>2, <1>3, SMTT(20)
<1>10. Offset(f, 0) = Len(f.head)
  BY <1>1, <1>2, <1>3
<1> QED BY <1>1, <1>4, <1>8, <1>9, <1>10

(* A reader of the bytes of a frame sees its parts.                        *)
LEMMA FrameShown ==
  ASSUME NEW f \in ClientFrame, NEW t, Len(t) \in Nat, NEW from \in Nat,
         Shows(t, from, Bytes(f))
  PROVE  /\ Shows(t, from, f.head)
         /\ \A i \in 1 .. Len(f.bulks) :
              /\ Shows(t, from + Offset(f, i - 1), f.bulks[i].head)
              /\ Shows(t, from + Offset(f, i - 1) + Len(f.bulks[i].head),
                       f.bulks[i].payload \o CRLF)
         /\ Shows(t, from + Offset(f, Len(f.bulks)), f.rest)
<1> DEFINE p == Pieces(f)
           h == f.head
           j == FlattenSeq(p)
<1>1. p \in Seq(Seq(Byte)) /\ Len(p) = Len(f.bulks) /\ Len(p) \in Nat
      /\ h \in Seq(Byte) /\ f.rest \in Seq(Byte) /\ Len(h) \in Nat
  BY PieceFacts, LenProperties
<1>2. Bytes(f) = (h \o j) \o f.rest
  BY DEF Bytes, Pieces
<1>3. j = Joined(p, Len(p)) /\ j \in Seq(Byte) /\ h \o j \in Seq(Byte)
      /\ Len(h \o j) = Offset(f, Len(f.bulks))
  <2>1. j = Joined(p, Len(p)) /\ Joined(p, Len(p)) \in Seq(Byte)
    BY <1>1, ByteJoined
  <2>2. Offset(f, Len(f.bulks)) = Len(h) + Len(j)
    BY <1>1, <2>1 DEF Offset
  <2> QED BY <1>1, <2>1, <2>2, ByteConcat
<1> HIDE DEF p, j, h
<1>4. Shows(t, from, h \o j) /\ Shows(t, from + Offset(f, Len(f.bulks)), f.rest)
  BY <1>1, <1>2, <1>3, ShowsConcat, ZenonT(30)
<1>5. Shows(t, from, h) /\ Shows(t, from + Len(h), j)
  BY <1>1, <1>3, <1>4, ShowsConcat
<1>6. ASSUME NEW i \in 1 .. Len(f.bulks)
      PROVE  /\ Shows(t, from + Offset(f, i - 1), f.bulks[i].head)
             /\ Shows(t, from + Offset(f, i - 1) + Len(f.bulks[i].head),
                      f.bulks[i].payload \o CRLF)
  <2>1. from + Len(h) \in Nat /\ i \in 1 .. Len(p) /\ i - 1 \in 0 .. Len(f.bulks)
        /\ i - 1 \in 0 .. Len(p)
    BY <1>1
  <2>2. Shows(t, from + Len(h) + Len(Joined(p, i - 1)), p[i])
    BY <1>1, <1>5, <2>1, ShowsPiece DEF j
  <2>3. from + Len(h) + Len(Joined(p, i - 1)) = from + Offset(f, i - 1)
        /\ from + Offset(f, i - 1) \in Nat
    <3>1. Len(Joined(p, i - 1)) \in Nat
      BY <1>1, <2>1, JoinedLengths
    <3>2. \A a, b, c \in Nat : a + b + c = a + (b + c) /\ a + (b + c) \in Nat
      OBVIOUS
    <3>3. Offset(f, i - 1) = Len(h) + Len(Joined(p, i - 1))
      BY DEF Offset, h, p
    <3> QED BY <1>1, <3>1, <3>2, <3>3
  <2>4. f.bulks[i] \in Bulks /\ p[i] = BulkBytes(f.bulks[i])
    BY PieceFacts DEF p
  <2>5. p[i] = f.bulks[i].head \o (f.bulks[i].payload \o CRLF)
        /\ f.bulks[i].head \in Seq(Byte) /\ f.bulks[i].payload \o CRLF \in Seq(Byte)
    BY <2>4, BulkFacts
  <2> QED BY <2>2, <2>3, <2>5, ShowsConcat
<1> QED BY <1>4, <1>5, <1>6 DEF h

-----------------------------------------------------------------------------
(* A number that was written is read back.                                 *)

LEMMA NumberOfDigit ==
  ASSUME NEW d
  PROVE  Number(<<d>>) = 10 * 0 + DigitValue(d)
<1>1. Len(<<d>>) = 1 /\ Len(<<d>>) \in Nat /\ <<d>>[1] = d
  OBVIOUS
<1>2. PICK f : IsNumber(f, <<d>>) /\ Number(<<d>>) = f[1]
  BY <1>1, NumberChoice
<1>3. f[0] = 0 /\ f[1] = 10 * f[1 - 1] + DigitValue(<<d>>[1])
  BY <1>1, <1>2 DEF IsNumber
<1> QED BY <1>1, <1>2, <1>3

(* Appending a digit.                                                      *)
LEMMA NumberAppend ==
  ASSUME NEW s \in Seq(Digit), NEW d \in Digit
  PROVE  Number(Append(s, d)) = 10 * Number(s) + DigitValue(d)
<1> DEFINE t == Append(s, d)
           n == Len(s)
<1>1. n \in Nat /\ Len(t) = n + 1 /\ t[n + 1] = d /\ \A i \in 1 .. n : t[i] = s[i]
  BY AppendProperties, LenProperties
<1> HIDE DEF t, n
<1>2. PICK f : IsNumber(f, s) /\ Number(s) = f[n]
  BY <1>1, NumberChoice DEF n
<1>3. PICK g : IsNumber(g, t) /\ Number(t) = g[n + 1]
  <2>1. Len(t) \in Nat
    BY <1>1
  <2>2. \E g : IsNumber(g, t) /\ Number(t) = g[Len(t)]
    BY <2>1, NumberChoice
  <2> QED BY <1>1, <2>2
<1>4. f = [i \in 0 .. n |-> IF i = 0 THEN 0 ELSE 10 * f[i - 1] + DigitValue(s[i])]
  BY <1>2 DEF IsNumber, n
<1>5. g = [i \in 0 .. n + 1 |-> IF i = 0 THEN 0 ELSE 10 * g[i - 1] + DigitValue(t[i])]
  BY <1>1, <1>3 DEF IsNumber
<1> DEFINE T == {m \in Nat : f[m] = g[m]}
<1>6. 0 \in T
  <2>1. f[0] = 0
    BY <1>1, <1>4
  <2>2. g[0] = 0
    BY <1>1, <1>5
  <2> QED BY <2>1, <2>2
<1>7. ASSUME NEW m \in 0 .. n, m \in T, m < n
      PROVE  m + 1 \in T
  <2>1. m + 1 \in 0 .. n /\ m + 1 \in 0 .. n + 1 /\ m + 1 \in 1 .. n /\ (m + 1) - 1 = m
        /\ m + 1 # 0
    BY <1>1, <1>7
  <2>2. f[m + 1] = 10 * f[m] + DigitValue(s[m + 1])
    BY <1>4, <2>1
  <2>3. g[m + 1] = 10 * g[m] + DigitValue(t[m + 1])
    BY <1>5, <2>1
  <2>4. f[m + 1] = g[m + 1]
    BY <1>1, <1>7, <2>1, <2>2, <2>3
  <2> QED BY <2>1, <2>4
<1> HIDE DEF T
<1>8. n \in T
  <2>1. 0 \in Nat
    OBVIOUS
  <2>2. 0 .. n \subseteq T
    BY <1>1, <1>6, <1>7, <2>1, InductionFrom
  <2> QED BY <1>1, <2>2
<1>9. f[n] = g[n]
  BY <1>8 DEF T
<1>10. g[n + 1] = 10 * g[n] + DigitValue(t[n + 1])
  <2>1. n + 1 \in 0 .. n + 1 /\ (n + 1) - 1 = n /\ n + 1 # 0
    BY <1>1
  <2> QED BY <1>5, <2>1
<1> QED BY <1>1, <1>2, <1>3, <1>9, <1>10 DEF t

LEMMA TenTimes ==
  ASSUME NEW k \in Nat
  PROVE  /\ k \div 10 \in Nat /\ k % 10 \in 0 .. 9 /\ k = 10 * (k \div 10) + (k % 10)
         /\ k >= 10 => k \div 10 < k
OBVIOUS

IsDecimal(f, n) ==
  f = [k \in 0 .. n |-> IF k < 10 THEN <<Digits[k + 1]>>
                        ELSE Append(f[k \div 10], Digits[(k % 10) + 1])]

LEMMA DecimalExists ==
  ASSUME NEW n \in Nat
  PROVE  \E f : IsDecimal(f, n)
<1> DEFINE S == {m \in Nat : \E g : IsDecimal(g, m)}
<1>1. 0 \in S
  <2> DEFINE g == [k \in 0 .. 0 |-> <<Digits[1]>>]
  <2>1. g = [k \in 0 .. 0 |-> IF k < 10 THEN <<Digits[k + 1]>>
                              ELSE Append(g[k \div 10], Digits[(k % 10) + 1])]
    OBVIOUS
  <2>2. IsDecimal(g, 0)
    <3> HIDE DEF g
    <3> QED BY <2>1 DEF IsDecimal
  <2> QED BY <2>2
<1>2. ASSUME NEW m \in 0 .. n, m \in S, m < n
      PROVE  m + 1 \in S
  <2>1. PICK g : IsDecimal(g, m)
    BY <1>2
  <2> DEFINE last == IF m + 1 < 10 THEN <<Digits[(m + 1) + 1]>>
                     ELSE Append(g[(m + 1) \div 10], Digits[((m + 1) % 10) + 1])
             h == [k \in 0 .. m + 1 |-> IF k = m + 1 THEN last ELSE g[k]]
  <2>2. ASSUME NEW k \in 0 .. m + 1
        PROVE  h[k] = IF k < 10 THEN <<Digits[k + 1]>>
                      ELSE Append(h[k \div 10], Digits[(k % 10) + 1])
    <3>0. k \in Nat /\ k \div 10 \in Nat /\ (k >= 10 => k \div 10 < k)
      BY TenTimes
    <3>1. k >= 10 => k \div 10 \in 0 .. m /\ h[k \div 10] = g[k \div 10]
      BY <3>0
    <3>2. CASE k = m + 1
      <4>1. h[k] = last
        BY <3>2
      <4> HIDE DEF h
      <4>2. k < 10 \/ k >= 10
        BY <3>0
      <4> QED BY <3>1, <3>2, <4>1, <4>2
    <3>3. CASE k # m + 1
      <4>1. k \in 0 .. m /\ h[k] = g[k]
        BY <3>3
      <4>2. g[k] = IF k < 10 THEN <<Digits[k + 1]>>
                   ELSE Append(g[k \div 10], Digits[(k % 10) + 1])
        BY <2>1, <4>1 DEF IsDecimal
      <4> HIDE DEF h
      <4>3. k < 10 \/ k >= 10
        BY <3>0
      <4> QED BY <3>1, <4>1, <4>2, <4>3
    <3> QED BY <3>2, <3>3
  <2>3. IsDecimal(h, m + 1)
    <3> HIDE DEF h
    <3>1. h = [k \in 0 .. m + 1 |-> h[k]]
      BY DEF h
    <3> QED BY <2>2, <3>1 DEF IsDecimal
  <2> HIDE DEF h
  <2> QED BY <1>2, <2>3
<1> HIDE DEF S
<1>3. 0 .. n \subseteq S
  <2>1. 0 \in Nat
    OBVIOUS
  <2> QED BY <1>1, <1>2, <2>1, InductionFrom
<1>4. n \in S
  BY <1>3
<1> QED BY <1>4 DEF S

LEMMA DecimalFacts ==
  ASSUME NEW n \in Nat
  PROVE  /\ Decimal(n) \in Seq(Digit) /\ Decimal(n) # <<>>
         /\ Number(Decimal(n)) = n
<1>1. PICK f : IsDecimal(f, n) /\ Decimal(n) = f[n]
  <2>1. Decimal(n) = (CHOOSE f : IsDecimal(f, n))[n]
    BY DEF Decimal, IsDecimal
  <2> QED BY <2>1, DecimalExists
<1> DEFINE P(k) == f[k] \in Seq(Digit) /\ f[k] # <<>> /\ Number(f[k]) = k
           S == {m \in Nat : \A k \in 0 .. m : P(k)}
<1>2. \A k \in 0 .. 9 : Digits[k + 1] \in Digit /\ DigitValue(Digits[k + 1]) = k
  BY DigitFacts
<1>3. ASSUME NEW k \in 0 .. n, \A j \in Nat : j < k => P(j)
      PROVE  P(k)
  <2>0. k \in Nat
    OBVIOUS
  <2>1. f[k] = IF k < 10 THEN <<Digits[k + 1]>>
               ELSE Append(f[k \div 10], Digits[(k % 10) + 1])
    BY <1>1 DEF IsDecimal
  <2>2. CASE k < 10
    <3>1. k \in 0 .. 9
      BY <2>0, <2>2
    <3>2. f[k] = <<Digits[k + 1]>> /\ Digits[k + 1] \in Digit
          /\ DigitValue(Digits[k + 1]) = k
      BY <1>2, <2>1, <2>2, <3>1
    <3>3. Number(<<Digits[k + 1]>>) = k
      BY <2>0, <3>2, NumberOfDigit
    <3> QED BY <3>2, <3>3
  <2>3. CASE ~(k < 10)
    <3> DEFINE q == k \div 10
               r == k % 10
    <3>1. q \in Nat /\ r \in 0 .. 9 /\ k = 10 * q + r /\ q < k
      BY <2>0, <2>3, TenTimes
    <3> HIDE DEF q, r
    <3>2. f[q] \in Seq(Digit) /\ Number(f[q]) = q
      BY <1>3, <3>1
    <3>3. f[k] = Append(f[q], Digits[r + 1])
      BY <2>1, <2>3 DEF q, r
    <3>4. Digits[r + 1] \in Digit /\ DigitValue(Digits[r + 1]) = r
      BY <1>2, <3>1
    <3>5. f[k] \in Seq(Digit) /\ f[k] # <<>>
      BY <3>2, <3>3, <3>4, AppendProperties
    <3>6. Number(f[k]) = 10 * q + r
      BY <3>2, <3>3, <3>4, NumberAppend
    <3> QED BY <3>1, <3>5, <3>6
  <2> QED BY <2>2, <2>3
<1> HIDE DEF P
<1>4. 0 \in S
  <2>1. 0 \in 0 .. n /\ \A j \in Nat : ~(j < 0)
    OBVIOUS
  <2>2. P(0)
    BY <1>3, <2>1
  <2> QED BY <2>2
<1>5. ASSUME NEW m \in 0 .. n, m \in S, m < n
      PROVE  m + 1 \in S
  <2>1. m + 1 \in 0 .. n /\ m + 1 \in Nat /\ \A j \in Nat : j < m + 1 => j \in 0 .. m
    BY <1>5
  <2>2. P(m + 1)
    BY <1>3, <1>5, <2>1
  <2>3. \A k \in 0 .. m + 1 : k \in 0 .. m \/ k = m + 1
    BY <2>1
  <2> QED BY <1>5, <2>1, <2>2, <2>3
<1>6. n \in S
  <2>1. 0 \in Nat
    OBVIOUS
  <2> HIDE DEF S
  <2>2. 0 .. n \subseteq S
    BY <1>4, <1>5, <2>1, InductionFrom
  <2> QED BY <2>2
<1>7. P(n)
  BY <1>6
<1> QED BY <1>1, <1>7 DEF P

LEMMA DecimalReads ==
  ASSUME NEW n \in Nat
  PROVE  IsLength(Decimal(n)) /\ LengthOf(Decimal(n)) = n
<1> DEFINE s == Decimal(n)
<1>1. s \in Seq(Digit) /\ s # <<>> /\ Number(s) = n
  BY DecimalFacts
<1> HIDE DEF s
<1>2. 1 \in 1 .. Len(s) /\ DOMAIN s = 1 .. Len(s)
  <2>1. Len(s) \in Nat /\ Len(s) # 0
    BY <1>1, EmptySeq, LenProperties
  <2> QED BY <1>1, <2>1, LenProperties
<1>3. s[1] \in Digit /\ \A i \in DOMAIN s : s[i] \in Digit
  BY <1>1, <1>2, ElementOfSeq
<1>4. s[1] # "-"
  BY <1>3, DigitIs
<1>5. Unsigned(s) = s
  BY <1>4 DEF Unsigned
<1>6. IsLength(s)
  BY <1>1, <1>3, <1>5 DEF IsLength, ToSet
<1>7. LengthOf(s) = n
  BY <1>1, <1>4, <1>5 DEF LengthOf
<1> QED BY <1>6, <1>7 DEF s

(* A header is one line, and what it says is read back.                    *)
LEMMA HeaderFacts ==
  ASSUME NEW marker \in {"*", "$"}, NEW n \in Nat
  PROVE  /\ Header(marker, n) \in Seq(Byte) /\ Len(Header(marker, n)) \in Nat
         /\ LineEnd(Header(marker, n), 1) = Len(Header(marker, n)) - 1
         /\ Len(Header(marker, n)) >= 4
         /\ SubSeq(Header(marker, n), 1, Len(Header(marker, n)) - 2)
              = <<marker>> \o Decimal(n)
         /\ <<marker>> \o Decimal(n) # <<>> /\ (<<marker>> \o Decimal(n))[1] = marker
         /\ Tail(<<marker>> \o Decimal(n)) = Decimal(n)
<1> DEFINE D == Decimal(n)
           d == Len(D)
           L == <<marker>> \o D
           H == L \o CRLF
<1>1. D \in Seq(Digit) /\ D # <<>>
  BY DecimalFacts
<1>2. d \in Nat /\ d >= 1 /\ \A i \in 1 .. d : D[i] \in Digit
  <2>1. d \in Nat
    BY <1>1, LenProperties
  <2>2. d # 0
    BY <1>1, EmptySeq
  <2>3. \A i \in 1 .. d : D[i] \in Digit
    BY <1>1, ElementOfSeq
  <2> QED BY <2>1, <2>2, <2>3
<1>3. D \in Seq(Byte)
  <2>1. Digit \subseteq Byte
    BY DEF Byte
  <2> HIDE DEF D
  <2> QED BY <1>1, <2>1
<1> HIDE DEF D
<1>4. <<marker>> \in Seq(Byte) /\ Len(<<marker>>) = 1 /\ <<marker>>[1] = marker
  BY DEF Byte
<1>5. /\ L \in Seq(Byte) /\ Len(L) = 1 + d /\ L[1] = marker
      /\ \A i \in 2 .. d + 1 : L[i] = D[i - 1]
  <2>1. /\ L \in Seq(Byte) /\ Len(L) = 1 + d
        /\ \A i \in 1 .. 1 + d : L[i] = IF i <= 1 THEN <<marker>>[i] ELSE D[i - 1]
    BY <1>3, <1>4, ConcatProperties
  <2> QED BY <1>2, <1>4, <2>1
<1> HIDE DEF L
<1>6. /\ H \in Seq(Byte) /\ Len(H) = d + 3
      /\ \A i \in 1 .. d + 1 : H[i] = L[i]
      /\ H[d + 2] = "cr" /\ H[d + 3] = "lf"
  <2>1. /\ H \in Seq(Byte) /\ Len(H) = (1 + d) + 2
        /\ \A i \in 1 .. (1 + d) + 2 : H[i] = IF i <= 1 + d THEN L[i] ELSE CRLF[i - (1 + d)]
    <3>1. \A a, b \in Seq(Byte) :
            /\ a \o b \in Seq(Byte) /\ Len(a \o b) = Len(a) + Len(b)
            /\ \A i \in 1 .. Len(a) + Len(b) :
                 (a \o b)[i] = IF i <= Len(a) THEN a[i] ELSE b[i - Len(a)]
      BY ConcatProperties
    <3>2. /\ L \o CRLF \in Seq(Byte) /\ Len(L \o CRLF) = Len(L) + Len(CRLF)
          /\ \A i \in 1 .. Len(L) + Len(CRLF) :
               (L \o CRLF)[i] = IF i <= Len(L) THEN L[i] ELSE CRLF[i - Len(L)]
      BY <1>5, <3>1, CRLFType, Zenon
    <3> DEFINE K == L \o CRLF
    <3> HIDE DEF K
    <3> QED BY <1>5, <3>2, CRLFType DEF K
  <2>2. d + 2 \in 1 .. (1 + d) + 2 /\ d + 3 \in 1 .. (1 + d) + 2
        /\ (d + 2) - (1 + d) = 1 /\ (d + 3) - (1 + d) = 2
        /\ ~(d + 2 <= 1 + d) /\ ~(d + 3 <= 1 + d)
    BY <1>2
  <2> QED BY <1>2, <2>1, <2>2, CRLFType, SMTT(20)
<1> HIDE DEF H
<1>7. H = Header(marker, n)
  BY DEF Header, H, L, D
<1>8. ASSUME NEW i \in 1 .. d + 1 PROVE H[i] # "cr"
  <2>1. CASE i = 1
    <3>1. H[i] = marker
      BY <1>2, <1>5, <1>6, <2>1
    <3> QED BY <3>1
  <2>2. CASE i # 1
    <3>1. i \in 2 .. d + 1 /\ i - 1 \in 1 .. d
      BY <1>2, <2>2
    <3>2. H[i] = D[i - 1] /\ D[i - 1] \in Digit
      BY <1>2, <1>5, <1>6, <3>1
    <3> QED BY <3>2, DigitIs
  <2> QED BY <2>1, <2>2
<1>9. LineEnd(H, 1) = d + 2
  <2>1. Len(H) \in Nat /\ 1 \in Nat \ {0} /\ d + 2 \in 1 .. Len(H) - 1
        /\ (d + 2) - 1 = d + 1 /\ (d + 2) + 1 = d + 3
    BY <1>2, <1>6
  <2>2. Breaks(H, d + 2)
    BY <1>6, <2>1 DEF Breaks
  <2>3. \A i \in 1 .. (d + 2) - 1 : ~Breaks(H, i)
    BY <1>8, <2>1 DEF Breaks
  <2> QED BY <2>1, <2>2, <2>3, LineEndIs
<1>10. SubSeq(H, 1, d + 1) = L
  <2>1. Shows(H, 1, L)
    <3>1. \A i \in 1 .. Len(L) : 1 + i - 1 = i
      BY <1>2, <1>5
    <3> QED BY <1>2, <1>5, <1>6, <3>1 DEF Shows
  <2>2. Len(H) \in Nat /\ 1 \in Nat \ {0} /\ 1 + Len(L) - 1 <= Len(H) /\ 1 + Len(L) - 1 = d + 1
    BY <1>2, <1>5, <1>6
  <2>3. SubSeq(H, 1, 1 + Len(L) - 1) = L
    BY <1>5, <2>1, <2>2, SubSeqShown
  <2> QED BY <2>2, <2>3
<1>11. L # <<>> /\ Tail(L) = D
  <2>1. L # <<>>
    BY <1>2, <1>5, EmptySeq
  <2>2. /\ Tail(L) \in Seq(Byte) /\ Len(Tail(L)) = d
        /\ \A i \in 1 .. d : Tail(L)[i] = L[i + 1]
    BY <1>2, <1>5, <2>1, HeadTailProperties
  <2>3. \A i \in 1 .. d : i + 1 \in 2 .. d + 1 /\ (i + 1) - 1 = i
    BY <1>2
  <2>4. \A i \in 1 .. d : Tail(L)[i] = D[i]
    BY <1>5, <2>2, <2>3
  <2> QED BY <1>3, <2>1, <2>2, <2>4, SeqEqual
<1>12. Len(H) - 1 = d + 2 /\ Len(H) - 2 = d + 1 /\ Len(H) >= 4 /\ Len(H) \in Nat
  BY <1>2, <1>6
<1> QED BY <1>5, <1>6, <1>7, <1>9, <1>10, <1>11, <1>12 DEF L, D

-----------------------------------------------------------------------------
(* Records.                                                                *)

ArrayFrame(r) ==
  Frame(Header("*", Len(r)), [i \in DOMAIN r |-> Bulk(Header("$", Len(r[i])), r[i])], <<>>)

LEMMA ArrayIsFrame ==
  ASSUME NEW r \in Seq(Seq(Byte))
  PROVE  /\ ArrayFrame(r) \in ClientFrame /\ EncodeArray(r) = Bytes(ArrayFrame(r))
         /\ Len(ArrayFrame(r).bulks) = Len(r) /\ Len(r) \in Nat
         /\ ArrayFrame(r).head = Header("*", Len(r)) /\ ArrayFrame(r).rest = <<>>
         /\ \A i \in 1 .. Len(r) : /\ r[i] \in Seq(Byte) /\ Len(r[i]) \in Nat
                                   /\ ArrayFrame(r).bulks[i] = Bulk(Header("$", Len(r[i])), r[i])
<1> DEFINE f == ArrayFrame(r)
<1>1. Len(r) \in Nat /\ DOMAIN r = 1 .. Len(r)
  BY LenProperties
<1>2. \A i \in 1 .. Len(r) : r[i] \in Seq(Byte) /\ Len(r[i]) \in Nat
  BY ElementOfSeq, LenProperties
<1>3. /\ f.head = Header("*", Len(r)) /\ f.rest = <<>>
      /\ f.bulks = [i \in 1 .. Len(r) |-> Bulk(Header("$", Len(r[i])), r[i])]
      /\ f = [head |-> f.head, bulks |-> f.bulks, rest |-> f.rest]
  BY <1>1 DEF ArrayFrame, Frame
<1>4. f.head \in Seq(Byte)
  BY <1>1, <1>3, HeaderFacts
<1>5. \A i \in 1 .. Len(r) : Bulk(Header("$", Len(r[i])), r[i]) \in Bulks
  <2>1. \A i \in 1 .. Len(r) : Header("$", Len(r[i])) \in Seq(Byte)
    BY <1>2, HeaderFacts
  <2> QED BY <1>2, <2>1 DEF Bulk, Bulks
<1>6. f.bulks \in Seq(Bulks) /\ Len(f.bulks) = Len(r)
  <2> HIDE DEF f
  <2> QED BY <1>1, <1>3, <1>5
<1>7. f \in ClientFrame
  <2> HIDE DEF f
  <2>1. <<>> \in Seq(Byte)
    OBVIOUS
  <2> QED BY <1>3, <1>4, <1>6, <2>1 DEF ClientFrame
<1>8. EncodeArray(r) = Bytes(f)
  <2>1. DOMAIN f.bulks = 1 .. Len(r)
    BY <1>3
  <2>2. ASSUME NEW i \in 1 .. Len(r)
        PROVE  BulkBytes(f.bulks[i]) = EncodeBulkString(r[i])
    <3>1. f.bulks[i] = Bulk(Header("$", Len(r[i])), r[i])
      BY <1>3
    <3>2. f.bulks[i].head = Header("$", Len(r[i])) /\ f.bulks[i].payload = r[i]
      BY <3>1 DEF Bulk
    <3> QED BY <3>2, Zenon DEF BulkBytes, EncodeBulkString
  <2> DEFINE p == [i \in DOMAIN r |-> EncodeBulkString(r[i])]
             q == [i \in DOMAIN f.bulks |-> BulkBytes(f.bulks[i])]
  <2>3. p = q
    <3> HIDE DEF f
    <3> QED BY <1>1, <2>1, <2>2
  <2>4. q = Pieces(f)
    BY DEF Pieces
  <2>5. FlattenSeq(q) \in Seq(Byte)
    <3>1. Pieces(f) \in Seq(Seq(Byte))
      BY <1>7, PieceFacts
    <3> QED BY <2>4, <3>1, ByteJoined
  <2> HIDE DEF p, q
  <2>6. f.head \o FlattenSeq(q) \in Seq(Byte)
    BY <1>4, <2>5, ByteConcat
  <2>7. (f.head \o FlattenSeq(q)) \o <<>> = f.head \o FlattenSeq(q)
    BY <2>6, ConcatEmptySeq
  <2>8. Bytes(f) = (f.head \o FlattenSeq(q)) \o <<>>
    BY <1>3 DEF Bytes, q
  <2>9. EncodeArray(r) = Header("*", Len(r)) \o FlattenSeq(p)
    BY DEF EncodeArray, p
  <2> QED BY <1>3, <2>3, <2>7, <2>8, <2>9
<1> QED BY <1>1, <1>2, <1>3, <1>6, <1>7, <1>8
=============================================================================
