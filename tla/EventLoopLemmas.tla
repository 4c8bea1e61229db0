-------------------------- MODULE EventLoopLemmas ---------------------------
(***************************************************************************)
(* Lemmas for the theorems of EventLoop.                                   *)
(*                                                                         *)
(* On definitions by recursion along a sequence, and on sums: a step of    *)
(* the recursion is a function on numbered values, not an operator, so     *)
(* that the lemmas are first-order; induction is by a least counterexample.*)
(*                                                                         *)
(* On the rule-based strategies: what a tick makes of the flags, and the   *)
(* signals it puts, whatever the indicator says. The rules of all four     *)
(* agree with their signals: a flag that is set or set back moves "long    *)
(* minus short" by one, to the side of its signal.                         *)
(***************************************************************************)
EXTENDS Sums, Strategies, WellFoundedInduction, SequenceTheorems, TLAPS

\* A non-empty set of natural numbers has a least element.
LEMMA LeastExists ==
  ASSUME NEW S \in SUBSET Nat, S # {}
  PROVE  \E x \in S : \A y \in S : x <= y
  <1>1. PICK x \in S : \A y \in S : <<y, x>> \notin OpToRel(<, Nat)
    BY NatLessThanWellFounded, WFMin
  <1>2. \A y \in S : ~(y < x)
    BY <1>1 DEF OpToRel
  <1> QED
    BY <1>2

\* Induction up to n: what holds of 0 and is passed on holds everywhere.
LEMMA Inductive ==
  ASSUME NEW n \in Nat, NEW S \in SUBSET (0 .. n), 0 \in S,
         \A i \in 1 .. n : i - 1 \in S => i \in S
  PROVE  S = 0 .. n
  <1> SUFFICES ASSUME S # 0 .. n
               PROVE  FALSE
    OBVIOUS
  <1> DEFINE T == (0 .. n) \ S
  <1>1. T \in SUBSET Nat
    OBVIOUS
  <1>2. T # {}
    OBVIOUS
  <1>3. PICK x \in T : \A y \in T : x <= y
    <2> HIDE DEF T
    <2> QED
      BY <1>1, <1>2, LeastExists
  <1>4. x \in 1 .. n
    OBVIOUS
  <1>5. x - 1 \in S
    BY <1>3, <1>4
  <1> QED
    BY <1>4, <1>5

\* f goes from a along the steps of F.
Follows(f, a, n, F) ==
  /\ f[0] = a
  /\ \A i \in 1 .. n : f[i] = F[i][f[i - 1]]

\* A recursion with a typed step defines a typed function.
LEMMA RecursionExists ==
  ASSUME NEW T, NEW a \in T, NEW n \in Nat, NEW F \in [1 .. n -> [T -> T]]
  PROVE  \E f \in [0 .. n -> T] : Follows(f, a, n, F)
  <1> DEFINE S == {m \in 0 .. n : \E f \in [0 .. m -> T] : Follows(f, a, m, F)}
  <1>1. 0 \in S
    <2> DEFINE f == [i \in 0 .. 0 |-> a]
    <2>1. f \in [0 .. 0 -> T] /\ Follows(f, a, 0, F)
      BY DEF Follows
    <2> QED
      BY <2>1
  <1>2. ASSUME NEW i \in 1 .. n, i - 1 \in S
        PROVE  i \in S
    <2>1. PICK f \in [0 .. i - 1 -> T] : Follows(f, a, i - 1, F)
      BY <1>2
    <2> DEFINE g == [j \in 0 .. i |-> IF j = i THEN F[i][f[i - 1]] ELSE f[j]]
    <2>2. i - 1 \in 0 .. i - 1 /\ f[i - 1] \in T
      BY <2>1
    <2>3. F[i][f[i - 1]] \in T
      BY <2>2
    <2>4. g \in [0 .. i -> T]
      BY <2>1, <2>3
    <2>5. g[0] = a
      BY <2>1 DEF Follows
    <2>6. ASSUME NEW j \in 1 .. i
          PROVE  g[j] = F[j][g[j - 1]]
      <3>1. j - 1 \in 0 .. i /\ j - 1 # i /\ g[j - 1] = f[j - 1]
        OBVIOUS
      <3>2. CASE j = i
        BY <3>1, <3>2
      <3>3. CASE j # i
        <4>1. j \in 1 .. i - 1 /\ g[j] = f[j]
          BY <3>3
        <4> QED
          BY <2>1, <3>1, <4>1 DEF Follows
      <3> QED
        BY <3>2, <3>3
    <2> HIDE DEF g
    <2>7. Follows(g, a, i, F)
      BY <2>5, <2>6 DEF Follows
    <2> QED
      BY <2>4, <2>7
  <1>3. S \in SUBSET (0 .. n)
    OBVIOUS
  <1> HIDE DEF S
  <1>4. S = 0 .. n
    BY <1>1, <1>2, <1>3, Inductive
  <1> QED
    BY <1>4 DEF S

\* Two functions that follow the same steps are the same as far as both go.
LEMMA RecursionUnique ==
  ASSUME NEW f, NEW g, NEW a, NEW n \in Nat, NEW F,
         Follows(f, a, n, F), Follows(g, a, n, F)
  PROVE  \A i \in 0 .. n : f[i] = g[i]
  <1> DEFINE S == {i \in 0 .. n : f[i] = g[i]}
  <1>1. 0 \in S
    BY DEF Follows
  <1>2. \A i \in 1 .. n : i - 1 \in S => i \in S
    BY DEF Follows
  <1>3. S = 0 .. n
    <2>1. S \in SUBSET (0 .. n)
      OBVIOUS
    <2> HIDE DEF S
    <2> QED
      BY <1>1, <1>2, <2>1, Inductive
  <1> QED
    BY <1>3

-----------------------------------------------------------------------------
(* Sums.                                                                   *)

\* f are the partial sums of v.
PartialSums(f, v) ==
  /\ f[0] = 0
  /\ \A i \in 1 .. Len(v) : f[i] = f[i - 1] + v[i]

LEMMA SumsExist ==
  ASSUME NEW v \in Seq(Int)
  PROVE  \E f \in [0 .. Len(v) -> Int] : PartialSums(f, v)
  <1> DEFINE n == Len(v)
             F == [i \in 1 .. n |-> [x \in Int |-> x + v[i]]]
  <1>1. n \in Nat /\ \A i \in 1 .. n : v[i] \in Int
    OBVIOUS
  <1> HIDE DEF n
  <1>2. F \in [1 .. n -> [Int -> Int]]
    BY <1>1
  <1>3. \A i \in 1 .. n : \A x \in Int : F[i][x] = x + v[i]
    OBVIOUS
  <1> HIDE DEF F
  <1>4. PICK f \in [0 .. n -> Int] : Follows(f, 0, n, F)
    <2>1. 0 \in Int
      OBVIOUS
    <2> QED
      BY <1>1, <1>2, <2>1, RecursionExists
  <1>5. \A i \in 1 .. n : f[i - 1] \in Int
    BY <1>1, <1>4
  <1>6. PartialSums(f, v)
    BY <1>1, <1>3, <1>4, <1>5 DEF Follows, PartialSums, n
  <1> QED
    BY <1>6 DEF n

\* Partial sums are unique, and the last of them is the sum.
LEMMA SumIs ==
  ASSUME NEW v \in Seq(Int), NEW f, PartialSums(f, v)
  PROVE  SumOf(v) = f[Len(v)]
  <1> DEFINE n == Len(v)
             Rec(g) == g = [i \in 0 .. n |-> IF i = 0 THEN 0 ELSE g[i - 1] + v[i]]
             sum == CHOOSE g : Rec(g)
  <1>1. n \in Nat
    OBVIOUS
  <1>2. \E g : Rec(g)
    <2>1. PICK h \in [0 .. n -> Int] : PartialSums(h, v)
      BY SumsExist
    <2>2. h = [i \in 0 .. n |-> h[i]]
      OBVIOUS
    <2>3. \A i \in 0 .. n : h[i] = IF i = 0 THEN 0 ELSE h[i - 1] + v[i]
      BY <1>1, <2>1 DEF PartialSums
    <2>4. Rec(h)
      BY <2>2, <2>3
    <2> QED
      BY <2>4
  <1>3. Rec(sum)
    BY <1>2
  <1>4. SumOf(v) = sum[n]
    BY DEF SumOf
  <1> HIDE DEF sum
  <1>5. sum[0] = 0 /\ \A i \in 1 .. n : sum[i] = sum[i - 1] + v[i]
    BY <1>1, <1>3
  <1> DEFINE S == {i \in 0 .. n : f[i] = sum[i]}
  <1>6. 0 \in S
    BY <1>1, <1>5 DEF PartialSums
  <1>7. \A i \in 1 .. n : i - 1 \in S => i \in S
    BY <1>1, <1>5 DEF PartialSums
  <1>8. S \in SUBSET (0 .. n)
    OBVIOUS
  <1> HIDE DEF S
  <1>9. S = 0 .. n
    BY <1>1, <1>6, <1>7, <1>8, Inductive
  <1> QED
    BY <1>1, <1>4, <1>9 DEF S

LEMMA SumEmpty == SumOf(<<>>) = 0
  <1> DEFINE f == [i \in 0 .. 0 |-> 0]
  <1>1. <<>> \in Seq(Int) /\ PartialSums(f, <<>>)
    BY DEF PartialSums
  <1> QED
    BY <1>1, SumIs

LEMMA SumTyped ==
  ASSUME NEW v \in Seq(Int)
  PROVE  SumOf(v) \in Int
  <1>1. PICK f \in [0 .. Len(v) -> Int] : PartialSums(f, v)
    BY SumsExist
  <1>2. Len(v) \in 0 .. Len(v)
    OBVIOUS
  <1> QED
    BY <1>1, <1>2, SumIs

\* w is v with one more element at its end.
LEMMA SumAppend ==
  ASSUME NEW v \in Seq(Int), NEW w \in Seq(Int), Len(w) = Len(v) + 1,
         \A i \in 1 .. Len(v) : w[i] = v[i]
  PROVE  SumOf(w) = SumOf(v) + w[Len(v) + 1]
  <1> DEFINE n == Len(v)
             x == w[n + 1]
  <1>1. /\ n \in Nat /\ w \in Seq(Int) /\ Len(w) = n + 1 /\ x \in Int
        /\ \A i \in 1 .. n : w[i] = v[i]
    OBVIOUS
  <1>2. PICK f \in [0 .. n -> Int] : PartialSums(f, v)
    BY SumsExist
  <1> DEFINE g == [i \in 0 .. n + 1 |-> IF i = n + 1 THEN f[n] + x ELSE f[i]]
  <1>3. PartialSums(g, w)
    <2>1. g[0] = 0
      BY <1>1, <1>2 DEF PartialSums
    <2>2. ASSUME NEW i \in 1 .. n + 1
          PROVE  g[i] = g[i - 1] + w[i]
      <3>1. CASE i = n + 1
        BY <1>1, <3>1
      <3>2. CASE i # n + 1
        BY <1>1, <1>2, <3>2 DEF PartialSums
      <3> QED
        BY <3>1, <3>2
    <2> QED
      BY <1>1, <2>1, <2>2 DEF PartialSums
  <1>4. SumOf(w) = g[n + 1]
    BY <1>1, <1>3, SumIs
  <1>5. g[n + 1] = f[n] + x
    BY <1>1
  <1>6. SumOf(v) = f[n]
    BY <1>2, SumIs
  <1> QED
    BY <1>4, <1>5, <1>6

\* w is v without its first element.
LEMMA SumTail ==
  ASSUME NEW v \in Seq(Int), NEW w \in Seq(Int), Len(v) = Len(w) + 1,
         \A i \in 1 .. Len(w) : w[i] = v[i + 1]
  PROVE  SumOf(v) = v[1] + SumOf(w)
  <1> DEFINE n == Len(v)
  <1>1. /\ n \in Nat \ {0} /\ w \in Seq(Int) /\ Len(w) = n - 1
        /\ \A i \in 1 .. n - 1 : w[i] = v[i + 1]
        /\ v[1] \in Int
    OBVIOUS
  <1>2. PICK f \in [0 .. n -> Int] : PartialSums(f, v)
    BY SumsExist
  <1> DEFINE g == [i \in 0 .. n - 1 |-> f[i + 1] - v[1]]
  <1> HIDE DEF n
  <1>3. f[1] = v[1]
    BY <1>1, <1>2 DEF PartialSums, n
  <1>4. PartialSums(g, w)
    <2>1. g[0] = 0
      BY <1>1, <1>3
    <2>2. ASSUME NEW i \in 1 .. n - 1
          PROVE  g[i] = g[i - 1] + w[i]
      <3>3. /\ i \in 0 .. n /\ i + 1 \in 1 .. n /\ (i + 1) - 1 = i /\ (i - 1) + 1 = i
            /\ i \in 0 .. n - 1 /\ i - 1 \in 0 .. n - 1
        BY <1>1
      <3>1. f[i + 1] = f[i] + v[i + 1]
        BY <1>2, <3>3 DEF PartialSums, n
      <3>2. g[i] = f[i + 1] - v[1] /\ g[i - 1] = f[i] - v[1]
        BY <3>3
      <3>4. {f[i], v[i + 1], v[1]} \subseteq Int /\ w[i] = v[i + 1]
        BY <1>1, <1>2, <3>3 DEF n
      <3>5. \A a, b, c \in Int : (a + b) - c = (a - c) + b
        OBVIOUS
      <3> HIDE DEF g
      <3> QED
        BY <3>1, <3>2, <3>4, <3>5
    <2> QED
      BY <1>1, <2>1, <2>2 DEF PartialSums
  <1>5. SumOf(w) = g[n - 1]
    BY <1>1, <1>4, SumIs
  <1>6. g[n - 1] = f[n] - v[1] /\ f[n] \in Int
    BY <1>1, <1>2
  <1>7. SumOf(v) = f[n]
    BY <1>2, SumIs DEF n
  <1> QED
    BY <1>1, <1>5, <1>6, <1>7

LEMMA SumOne ==
  ASSUME NEW v \in Seq(Int), Len(v) = 1
  PROVE  SumOf(v) = v[1]
  <1> DEFINE w == <<>>
  <1>1. w \in Seq(Int) /\ Len(w) = 0 /\ v[1] \in Int /\ SumOf(w) = 0
    BY SumEmpty
  <1> HIDE DEF w
  <1>2. Len(v) = Len(w) + 1 /\ \A i \in 1 .. Len(w) : w[i] = v[i + 1]
    BY <1>1
  <1>3. SumOf(v) = v[1] + SumOf(w)
    BY <1>1, <1>2, SumTail
  <1> QED
    BY <1>1, <1>3

\* A sum of zeros.
LEMMA SumZero ==
  ASSUME NEW v \in Seq(Int), \A i \in 1 .. Len(v) : v[i] = 0
  PROVE  SumOf(v) = 0
  <1> DEFINE f == [i \in 0 .. Len(v) |-> 0]
  <1>1. Len(v) \in Nat
    OBVIOUS
  <1>2. PartialSums(f, v)
    BY <1>1 DEF PartialSums
  <1> QED
    BY <1>1, <1>2, SumIs

\* A sum of integers, written in another order.
LEMMA Exchange == \A a, b, c \in Int : (a + b) + c = (a + c) + b
  OBVIOUS

\* Sums of equally long sequences add up.
LEMMA SumAdds ==
  ASSUME NEW u \in Seq(Int), NEW v \in Seq(Int), NEW w \in Seq(Int),
         Len(u) = Len(v), Len(w) = Len(v), \A i \in 1 .. Len(v) : w[i] = u[i] + v[i]
  PROVE  SumOf(w) = SumOf(u) + SumOf(v)
  <1> DEFINE n == Len(v)
  <1>1. n \in Nat /\ \A i \in 1 .. n : u[i] \in Int /\ v[i] \in Int /\ w[i] \in Int
    OBVIOUS
  <1>2. PICK f \in [0 .. n -> Int] : PartialSums(f, u)
    BY SumsExist
  <1>3. PICK g \in [0 .. n -> Int] : PartialSums(g, v)
    BY SumsExist
  <1> DEFINE h == [i \in 0 .. n |-> f[i] + g[i]]
  <1>4. PartialSums(h, w)
    <2>1. h[0] = 0
      BY <1>1, <1>2, <1>3 DEF PartialSums
    <2>2. ASSUME NEW i \in 1 .. n
          PROVE  h[i] = h[i - 1] + w[i]
      <3>1. f[i] = f[i - 1] + u[i] /\ g[i] = g[i - 1] + v[i] /\ w[i] = u[i] + v[i]
        BY <1>2, <1>3 DEF PartialSums
      <3>2. i \in 0 .. n /\ i - 1 \in 0 .. n
        BY <1>1
      <3>3. h[i] = f[i] + g[i] /\ h[i - 1] = f[i - 1] + g[i - 1]
        BY <3>2
      <3>4. f[i - 1] \in Int /\ g[i - 1] \in Int /\ u[i] \in Int /\ v[i] \in Int
        BY <1>1, <1>2, <1>3, <3>2
      <3> HIDE DEF h
      <3> DEFINE a == f[i - 1]
                 b == g[i - 1]
                 c == u[i]
                 d == v[i]
      <3>5. a \in Int /\ b \in Int /\ c \in Int /\ d \in Int
        BY <3>4
      <3> HIDE DEF a, b, c, d
      <3>6. (a + c) + (b + d) = (a + b) + (c + d)
        BY <3>5
      <3> QED
        BY <3>1, <3>3, <3>6 DEF a, b, c, d
    <2> HIDE DEF h
    <2> QED
      BY <2>1, <2>2 DEF PartialSums
  <1>5. n \in 0 .. n
    BY <1>1
  <1> QED
    BY <1>2, <1>3, <1>4, <1>5, SumIs

\* Sums that differ in one place differ by what that place differs.
LEMMA SumChanges ==
  ASSUME NEW v \in Seq(Int), NEW w \in Seq(Int), Len(w) = Len(v),
         NEW k \in 1 .. Len(v), NEW d \in Int, w[k] = v[k] + d,
         \A i \in 1 .. Len(v) : i # k => w[i] = v[i]
  PROVE  SumOf(w) = SumOf(v) + d
  <1> DEFINE n == Len(v)
  <1>1. n \in Nat /\ k \in 1 .. n /\ \A i \in 1 .. n : v[i] \in Int
    OBVIOUS
  <1>2. PICK f \in [0 .. n -> Int] : PartialSums(f, v)
    BY SumsExist
  <1> DEFINE g == [i \in 0 .. n |-> IF i < k THEN f[i] ELSE f[i] + d]
  <1>3. PartialSums(g, w)
    <2>1. g[0] = 0
      BY <1>1, <1>2 DEF PartialSums
    <2>2. ASSUME NEW i \in 1 .. n
          PROVE  g[i] = g[i - 1] + w[i]
      <3>1. f[i] = f[i - 1] + v[i]
        BY <1>2 DEF PartialSums
      <3>2. i \in 0 .. n /\ i - 1 \in 0 .. n
        BY <1>1
      <3>3. f[i - 1] \in Int /\ f[i] \in Int /\ v[i] \in Int
        BY <1>1, <1>2, <3>2
      <3>4. /\ g[i] = IF i < k THEN f[i] ELSE f[i] + d
            /\ g[i - 1] = IF i - 1 < k THEN f[i - 1] ELSE f[i - 1] + d
        BY <3>2
      <3> HIDE DEF g
      <3>5. w[i] = IF i = k THEN v[i] + d ELSE v[i]
        OBVIOUS
      <3>6. CASE i = k
        BY <1>1, <3>1, <3>3, <3>4, <3>5, <3>6
      <3>7. CASE i < k
        BY <1>1, <3>1, <3>3, <3>4, <3>5, <3>7
      <3>8. CASE i > k
        <4>1. ~(i < k) /\ ~(i - 1 < k) /\ i # k
          BY <1>1, <3>8
        <4>2. g[i] = (f[i - 1] + v[i]) + d /\ g[i - 1] = f[i - 1] + d /\ w[i] = v[i]
          BY <3>1, <3>4, <3>5, <4>1
        <4>3. (f[i - 1] + v[i]) + d = (f[i - 1] + d) + v[i]
          BY <3>3, Exchange
        <4> QED
          BY <4>2, <4>3
      <3> QED
        BY <1>1, <3>6, <3>7, <3>8
    <2> HIDE DEF g
    <2> QED
      BY <2>1, <2>2 DEF PartialSums
  <1>4. n \in 0 .. n /\ ~(n < k)
    BY <1>1
  <1>5. g[n] = f[n] + d
    BY <1>4
  <1> HIDE DEF g
  <1>6. SumOf(v) = f[n] /\ SumOf(w) = g[n]
    BY <1>2, <1>3, SumIs
  <1> QED
    BY <1>5, <1>6

-----------------------------------------------------------------------------
(* Sums of a figure that each element of a sequence has.                   *)

SumOver(f, s) == SumOf([i \in DOMAIN s |-> f[s[i]]])

LEMMA SumOverSeq ==
  ASSUME NEW S, NEW f \in [S -> Int], NEW s \in Seq(S)
  PROVE  /\ SumOver(f, s) \in Int
         /\ s # <<>> => SumOver(f, s) = f[Head(s)] + SumOver(f, Tail(s))
         /\ \A e \in S : SumOver(f, Append(s, e)) = SumOver(f, s) + f[e]
         /\ SumOver(f, <<>>) = 0
  <1> DEFINE n == Len(s)
             V(t) == [i \in DOMAIN t |-> f[t[i]]]
  <1>1. n \in Nat /\ DOMAIN s = 1 .. n /\ \A i \in 1 .. n : s[i] \in S
    OBVIOUS
  <1>2. \A t : SumOver(f, t) = SumOf(V(t))
    BY DEF SumOver
  <1>3. \A t \in Seq(S) : /\ V(t) \in Seq(Int) /\ Len(V(t)) = Len(t)
                          /\ \A i \in 1 .. Len(t) : V(t)[i] = f[t[i]]
    <2> SUFFICES ASSUME NEW t \in Seq(S)
                 PROVE  /\ V(t) \in Seq(Int) /\ Len(V(t)) = Len(t)
                        /\ \A i \in 1 .. Len(t) : V(t)[i] = f[t[i]]
      OBVIOUS
    <2>1. \A i \in 1 .. Len(t) : t[i] \in S
      OBVIOUS
    <2> QED
      BY <2>1
  <1>4. V(<<>>) = <<>>
    OBVIOUS
  <1>5. SumOver(f, <<>>) = 0
    BY <1>2, <1>4, SumEmpty
  <1>6. SumOver(f, s) \in Int
    <2> HIDE DEF V
    <2> QED
      BY <1>2, <1>3, SumTyped
  <1>7. ASSUME s # <<>>
        PROVE  SumOver(f, s) = f[Head(s)] + SumOver(f, Tail(s))
    <2>1. /\ Tail(s) \in Seq(S) /\ Len(Tail(s)) = n - 1 /\ n > 0 /\ Head(s) = s[1]
          /\ \A i \in 1 .. n - 1 : Tail(s)[i] = s[i + 1] /\ i + 1 \in 1 .. n
      BY <1>7
    <2> DEFINE v == V(s)
               w == V(Tail(s))
    <2> HIDE DEF V
    <2>2. /\ v \in Seq(Int) /\ Len(v) = n /\ w \in Seq(Int) /\ Len(w) = n - 1
          /\ \A i \in 1 .. n : v[i] = f[s[i]]
          /\ \A i \in 1 .. n - 1 : w[i] = f[Tail(s)[i]]
      BY <1>3, <2>1
    <2> HIDE DEF v, w, n
    <2>3. Len(v) = Len(w) + 1 /\ \A i \in 1 .. Len(w) : w[i] = v[i + 1]
      BY <1>1, <2>1, <2>2
    <2>4. v[1] = f[Head(s)]
      BY <1>1, <2>1, <2>2
    <2>5. SumOf(v) = v[1] + SumOf(w)
      BY <2>2, <2>3, SumTail
    <2> QED
      BY <1>2, <2>4, <2>5 DEF v, w
  <1>8. ASSUME NEW e \in S
        PROVE  SumOver(f, Append(s, e)) = SumOver(f, s) + f[e]
    <2> DEFINE t == Append(s, e)
    <2>1. /\ t \in Seq(S) /\ Len(t) = n + 1 /\ t[n + 1] = e
          /\ \A i \in 1 .. n : t[i] = s[i] /\ i \in 1 .. n + 1
      <3>1. t \in Seq(S) /\ Len(t) = n + 1 /\ t[n + 1] = e
        BY AppendProperties
      <3>2. \A i \in 1 .. n : t[i] = s[i]
        BY AppendProperties
      <3> QED
        BY <1>1, <3>1, <3>2
    <2> DEFINE v == V(s)
               w == V(t)
    <2> HIDE DEF V, t
    <2>2. /\ v \in Seq(Int) /\ Len(v) = n /\ w \in Seq(Int) /\ Len(w) = n + 1
          /\ \A i \in 1 .. n : v[i] = f[s[i]]
          /\ \A i \in 1 .. n + 1 : w[i] = f[t[i]]
      BY <1>3, <2>1
    <2> HIDE DEF v, w, n
    <2>3. (\A i \in 1 .. n : w[i] = v[i]) /\ w[n + 1] = f[e]
      <3>1. n + 1 \in 1 .. n + 1 /\ \A i \in 1 .. n : i \in 1 .. n + 1
        BY <1>1
      <3>2. w[n + 1] = f[t[n + 1]]
        BY <2>2, <3>1
      <3>3. \A i \in 1 .. n : w[i] = f[t[i]]
        BY <2>2, <3>1
      <3>4. \A i \in 1 .. n : t[i] = s[i] /\ v[i] = f[s[i]]
        BY <2>1, <2>2
      <3>5. t[n + 1] = e
        BY <2>1
      <3> QED
        BY <3>2, <3>3, <3>4, <3>5
    <2>4. SumOf(w) = SumOf(v) + w[n + 1]
      BY <2>2, <2>3, SumAppend
    <2> QED
      BY <1>2, <2>3, <2>4 DEF v, w, t
  <1> QED
    BY <1>5, <1>6, <1>7, <1>8

-----------------------------------------------------------------------------
(* The rules of the strategies.                                            *)

BuySell == {"true", "false"}
Flags == [long : BOOLEAN, short : BOOLEAN]
Accs == [flags : Flags, out : Seq(BuySell)]

\* Long minus short: the side that the flags say is held.
Believed(flags) == (IF flags.long THEN 1 ELSE 0) - (IF flags.short THEN 1 ELSE 0)

\* The side held after a signal, as the portfolio of the backtest executes it.
Turn(side, s) ==
  LET to == IF s = "true" THEN 1 ELSE -1
  IN  IF side = 0 THEN to ELSE IF side = to THEN 2 * side ELSE 0

\* A rule buys for setting long or for setting short back, and sells otherwise.
Agrees(r) ==
  \/ r.flag = "long" /\ r.set = TRUE /\ r.side = "true"
  \/ r.flag = "long" /\ r.set = FALSE /\ r.side = "false"
  \/ r.flag = "short" /\ r.set = TRUE /\ r.side = "false"
  \/ r.flag = "short" /\ r.set = FALSE /\ r.side = "true"

LEMMA RulesAgree ==
  ASSUME NEW name \in DOMAIN RuleBased
  PROVE  /\ Len(RuleBased[name].rules) \in Nat
         /\ \A i \in 1 .. Len(RuleBased[name].rules) : Agrees(RuleBased[name].rules[i])
  <1>1. name \in {"MovingAverageCross", "BollingerBand", "DonchianChannel", "RSI"}
    BY DEF RuleBased
  <1>2. CASE name = "MovingAverageCross"
    <2>1. RuleBased[name].rules = MovingAverageCrossStrategy.rules
      BY <1>2 DEF RuleBased
    <2> QED
      BY <2>1 DEF MovingAverageCrossStrategy, Rule, Agrees
  <1>3. CASE name = "BollingerBand"
    <2>1. RuleBased[name].rules = BollingerBandStrategy.rules
      BY <1>3 DEF RuleBased
    <2> QED
      BY <2>1 DEF BollingerBandStrategy, Rule, Agrees
  <1>4. CASE name = "DonchianChannel"
    <2>1. RuleBased[name].rules = DonchianChannelStrategy.rules
      BY <1>4 DEF RuleBased
    <2> QED
      BY <2>1 DEF DonchianChannelStrategy, Rule, Agrees
  <1>5. CASE name = "RSI"
    <2>1. RuleBased[name].rules = RSIStrategy.rules
      BY <1>5 DEF RuleBased
    <2> QED
      BY <2>1 DEF RSIStrategy, Rule, Agrees
  <1> QED
    BY <1>1, <1>2, <1>3, <1>4, <1>5

LEMMA BelievedValues ==
  ASSUME NEW flags
  PROVE  /\ flags.long = TRUE /\ flags.short = TRUE => Believed(flags) = 0
         /\ flags.long = TRUE /\ flags.short = FALSE => Believed(flags) = 1
         /\ flags.long = FALSE /\ flags.short = TRUE => Believed(flags) = -1
         /\ flags.long = FALSE /\ flags.short = FALSE => Believed(flags) = 0
  BY DEF Believed

LEMMA TurnValues ==
  /\ Turn(0, "true") = 1 /\ Turn(0, "false") = -1
  /\ Turn(1, "false") = 0 /\ Turn(-1, "true") = 0
  BY DEF Turn

\* A rule leaves everything, or sets its flag and adds its signal.
LEMMA FireTurns ==
  ASSUME NEW zone, NEW acc \in Accs, NEW r, Agrees(r)
  PROVE  \/ Fire(zone, acc, r) = acc
         \/ /\ Fire(zone, acc, r).flags \in Flags
            /\ Fire(zone, acc, r).out = Append(acc.out, r.side)
            /\ Fire(zone, acc, r) = [flags |-> Fire(zone, acc, r).flags,
                                     out |-> Fire(zone, acc, r).out]
            /\ r.side \in BuySell
            /\ Believed(Fire(zone, acc, r).flags) = Turn(Believed(acc.flags), r.side)
            /\ Believed(Fire(zone, acc, r).flags) \in {-1, 0, 1}
  <1> DEFINE old == acc.flags
             flags == [old EXCEPT ![r.flag] = r.set]
  <1>1. CASE ~(r.when \in zone /\ acc.flags[r.flag] # r.set)
    BY <1>1 DEF Fire
  <1>2. CASE r.when \in zone /\ acc.flags[r.flag] # r.set
    <2>1. Fire(zone, acc, r) = [flags |-> flags, out |-> Append(acc.out, r.side)]
      BY <1>2 DEF Fire
    <2>2. old \in Flags
      BY DEF Accs
    <2>3. CASE r.flag = "long"
      <3>1. flags = [long |-> r.set, short |-> old.short]
        BY <2>2, <2>3 DEF Flags
      <3> HIDE DEF flags, old
      <3>2. flags \in Flags /\ flags.long = r.set /\ flags.short = old.short
        BY <2>2, <2>3, <3>1 DEF Flags, Agrees
      <3>3. (old.short = TRUE \/ old.short = FALSE) /\ (old.long = TRUE \/ old.long = FALSE)
        BY <2>2 DEF Flags
      <3>6. old.long # r.set
        BY <1>2, <2>3 DEF old
      <3>4. \/ r.set = TRUE /\ r.side = "true"
            \/ r.set = FALSE /\ r.side = "false"
        BY <2>3 DEF Agrees
      <3>5. /\ Believed(flags) = Turn(Believed(old), r.side)
            /\ Believed(flags) \in {-1, 0, 1}
        <4>1. CASE r.set = TRUE /\ old.short = TRUE
          BY <3>2, <3>3, <3>4, <3>6, <4>1, BelievedValues, TurnValues
        <4>2. CASE r.set = TRUE /\ old.short = FALSE
          BY <3>2, <3>3, <3>4, <3>6, <4>2, BelievedValues, TurnValues
        <4>3. CASE r.set = FALSE /\ old.short = TRUE
          BY <3>2, <3>3, <3>4, <3>6, <4>3, BelievedValues, TurnValues
        <4>4. CASE r.set = FALSE /\ old.short = FALSE
          BY <3>2, <3>3, <3>4, <3>6, <4>4, BelievedValues, TurnValues
        <4> QED
          BY <3>3, <3>4, <4>1, <4>2, <4>3, <4>4
      <3> QED
        BY <2>1, <3>2, <3>4, <3>5 DEF BuySell, old
    <2>4. CASE r.flag = "short"
      <3>1. flags = [long |-> old.long, short |-> r.set]
        BY <2>2, <2>4 DEF Flags
      <3> HIDE DEF flags, old
      <3>2. flags \in Flags /\ flags.short = r.set /\ flags.long = old.long
        BY <2>2, <2>4, <3>1 DEF Flags, Agrees
      <3>3. (old.long = TRUE \/ old.long = FALSE) /\ (old.short = TRUE \/ old.short = FALSE)
        BY <2>2 DEF Flags
      <3>6. old.short # r.set
        BY <1>2, <2>4 DEF old
      <3>4. \/ r.set = TRUE /\ r.side = "false"
            \/ r.set = FALSE /\ r.side = "true"
        BY <2>4 DEF Agrees
      <3>5. /\ Believed(flags) = Turn(Believed(old), r.side)
            /\ Believed(flags) \in {-1, 0, 1}
        <4>1. CASE r.set = TRUE /\ old.long = TRUE
          BY <3>2, <3>3, <3>4, <3>6, <4>1, BelievedValues, TurnValues
        <4>2. CASE r.set = TRUE /\ old.long = FALSE
          BY <3>2, <3>3, <3>4, <3>6, <4>2, BelievedValues, TurnValues
        <4>3. CASE r.set = FALSE /\ old.long = TRUE
          BY <3>2, <3>3, <3>4, <3>6, <4>3, BelievedValues, TurnValues
        <4>4. CASE r.set = FALSE /\ old.long = FALSE
          BY <3>2, <3>3, <3>4, <3>6, <4>4, BelievedValues, TurnValues
        <4> QED
          BY <3>3, <3>4, <4>1, <4>2, <4>3, <4>4
      <3> QED
        BY <2>1, <3>2, <3>4, <3>5 DEF BuySell, old
    <2> QED
      BY <2>3, <2>4 DEF Agrees
  <1> QED
    BY <1>1, <1>2

\* The side believed goes along the signals in out, from that of flags, and never beyond
\* one trade long or short.
Walks(d, from, out) ==
  /\ d[0] = from
  /\ \A i \in 1 .. Len(out) : d[i] = Turn(d[i - 1], out[i])
  /\ \A i \in 0 .. Len(out) : d[i] \in {-1, 0, 1}

Sound(flags, acc) ==
  /\ acc \in Accs
  /\ \E d : Walks(d, Believed(flags), acc.out) /\ d[Len(acc.out)] = Believed(acc.flags)

LEMMA SoundStart ==
  ASSUME NEW flags \in Flags
  PROVE  Sound(flags, [flags |-> flags, out |-> <<>>])
  <1> DEFINE d == [i \in {0} |-> Believed(flags)]
  <1>1. Believed(flags) \in {-1, 0, 1}
    BY DEF Believed, Flags
  <1>2. Walks(d, Believed(flags), <<>>)
    BY <1>1 DEF Walks
  <1>3. [flags |-> flags, out |-> <<>>] \in Accs
    BY DEF Accs
  <1>4. d[Len(<<>>)] = Believed(flags)
    OBVIOUS
  <1> QED
    BY <1>2, <1>3, <1>4 DEF Sound

LEMMA SoundStep ==
  ASSUME NEW flags \in Flags, NEW zone, NEW acc, Sound(flags, acc), NEW r, Agrees(r)
  PROVE  Sound(flags, Fire(zone, acc, r))
  <1> DEFINE new == Fire(zone, acc, r)
  <1>1. acc \in Accs
    BY DEF Sound
  <1>2. CASE new = acc
    BY <1>2
  <1>3. CASE new # acc
    <2>1. /\ new.flags \in Flags
          /\ new.out = Append(acc.out, r.side)
          /\ new = [flags |-> new.flags, out |-> new.out]
          /\ r.side \in BuySell
          /\ Believed(new.flags) = Turn(Believed(acc.flags), r.side)
          /\ Believed(new.flags) \in {-1, 0, 1}
      BY <1>1, <1>3, FireTurns
    <2> HIDE DEF new
    <2> DEFINE n == Len(acc.out)
    <2>2. /\ n \in Nat /\ acc.out \in Seq(BuySell)
          /\ new.out \in Seq(BuySell) /\ Len(new.out) = n + 1
          /\ new.out[n + 1] = r.side
          /\ \A i \in 1 .. n : new.out[i] = acc.out[i]
      BY <1>1, <2>1 DEF Accs
    <2>3. new \in Accs
      BY <2>1, <2>2 DEF Accs
    <2>4. PICK d : Walks(d, Believed(flags), acc.out) /\ d[n] = Believed(acc.flags)
      BY DEF Sound
    <2> DEFINE e == [i \in 0 .. n + 1 |-> IF i = n + 1 THEN Believed(new.flags) ELSE d[i]]
    <2>5. /\ e[n + 1] = Believed(new.flags)
          /\ \A i \in 0 .. n : e[i] = d[i]
      BY <2>2
    <2>6. ASSUME NEW i \in 1 .. n + 1
          PROVE  e[i] = Turn(e[i - 1], new.out[i])
      <3>1. CASE i = n + 1
        <4>1. i - 1 = n /\ n \in 0 .. n
          BY <2>2, <3>1
        <4> QED
          BY <2>1, <2>2, <2>4, <2>5, <3>1, <4>1
      <3>2. CASE i # n + 1
        <4>1. i \in 1 .. n /\ i \in 0 .. n /\ i - 1 \in 0 .. n
          BY <2>2, <3>2
        <4> QED
          BY <2>2, <2>4, <2>5, <4>1 DEF Walks
      <3> QED
        BY <3>1, <3>2
    <2>7. \A i \in 0 .. n + 1 : e[i] \in {-1, 0, 1}
      BY <2>1, <2>2, <2>4, <2>5 DEF Walks
    <2>8. e[0] = Believed(flags)
      BY <2>2, <2>4, <2>5 DEF Walks
    <2> HIDE DEF e, n
    <2>9. Walks(e, Believed(flags), new.out)
      BY <2>2, <2>6, <2>7, <2>8 DEF Walks
    <2> QED
      BY <2>2, <2>3, <2>5, <2>9 DEF Sound, new
  <1> QED
    BY <1>2, <1>3

\* What a tick makes of the flags and which signals it puts.
LEMMA TriesSound ==
  ASSUME NEW name \in DOMAIN RuleBased, NEW zone, NEW flags \in Flags
  PROVE  Sound(flags, TryRules(name, zone, flags))
  <1> DEFINE rules == RuleBased[name].rules
             n == Len(rules)
             start == [flags |-> flags, out |-> <<>>]
             Rec(g) == g = [i \in 0 .. n |-> IF i = 0 THEN start
                                             ELSE Fire(zone, g[i - 1], rules[i])]
             tried == CHOOSE g : Rec(g)
             F == [i \in 1 .. n |-> [acc \in Accs |-> Fire(zone, acc, rules[i])]]
  <1>1. n \in Nat /\ \A i \in 1 .. n : Agrees(rules[i])
    BY RulesAgree
  <1> HIDE DEF rules, n
  <1>2. start \in Accs
    BY DEF Accs
  <1>3. \A i \in 1 .. n : \A acc \in Accs : Fire(zone, acc, rules[i]) \in Accs
    <2> SUFFICES ASSUME NEW i \in 1 .. n, NEW acc \in Accs
                 PROVE  Fire(zone, acc, rules[i]) \in Accs
      OBVIOUS
    <2> DEFINE new == Fire(zone, acc, rules[i])
    <2>1. \/ new = acc
          \/ /\ new.flags \in Flags
             /\ new.out = Append(acc.out, rules[i].side)
             /\ new = [flags |-> new.flags, out |-> new.out]
             /\ rules[i].side \in BuySell
      BY <1>1, FireTurns
    <2> HIDE DEF new
    <2>2. acc.out \in Seq(BuySell)
      BY DEF Accs
    <2>3. new \in Accs
      BY <2>1, <2>2 DEF Accs
    <2> QED
      BY <2>3 DEF new
  <1>4. F \in [1 .. n -> [Accs -> Accs]]
    BY <1>3
  <1>5. \A i \in 1 .. n : \A acc \in Accs : F[i][acc] = Fire(zone, acc, rules[i])
    OBVIOUS
  <1> HIDE DEF F, start
  <1>6. PICK f \in [0 .. n -> Accs] : Follows(f, start, n, F)
    BY <1>1, <1>2, <1>4, RecursionExists
  <1>7. Rec(f)
    <2>1. f = [i \in 0 .. n |-> f[i]]
      OBVIOUS
    <2>2. \A i \in 0 .. n : f[i] = IF i = 0 THEN start ELSE Fire(zone, f[i - 1], rules[i])
      BY <1>1, <1>5, <1>6 DEF Follows
    <2> QED
      BY <2>1, <2>2
  <1>8. Rec(tried)
    BY <1>7
  <1>9. TryRules(name, zone, flags) = tried[n]
    BY DEF TryRules, rules, n, start
  <1> HIDE DEF tried
  <1>10. tried[0] = start /\ \A i \in 1 .. n : tried[i] = Fire(zone, tried[i - 1], rules[i])
    BY <1>1, <1>8
  <1> DEFINE S == {i \in 0 .. n : Sound(flags, tried[i])}
  <1>11. 0 \in S
    BY <1>1, <1>10, SoundStart DEF start
  <1>12. \A i \in 1 .. n : i - 1 \in S => i \in S
    BY <1>1, <1>10, SoundStep
  <1>13. S \in SUBSET (0 .. n)
    OBVIOUS
  <1> HIDE DEF S
  <1>14. S = 0 .. n
    BY <1>1, <1>11, <1>12, <1>13, Inductive
  <1> QED
    BY <1>1, <1>9, <1>14 DEF S
=============================================================================
