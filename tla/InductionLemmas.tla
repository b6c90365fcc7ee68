-------------------------- MODULE InductionLemmas --------------------------
(***************************************************************************)
(* Induction over the natural numbers, stated with a set where the         *)
(* library has an operator, and what follows from it: a function defined   *)
(* by recursion over the natural numbers exists, filtering a list keeps    *)
(* what it should, a loop stays where its body does.  The proof modules    *)
(* rest on these lemmas where the model changes a list or runs a loop.     *)
(***************************************************************************)
EXTENDS Integers, Sequences, SequencesExt, Lists, TLAPS, WellFoundedInduction

(***************************************************************************)
(* A set that holds 0 and the successor of each of its members holds every *)
(* natural number: the smallest one it lacks would be the successor of one *)
(* it has.                                                                 *)
(***************************************************************************)
LEMMA NatInd ==
  ASSUME NEW S, 0 \in S, \A n \in Nat : n \in S => n + 1 \in S
  PROVE  Nat \subseteq S
<1> DEFINE R == OpToRel(<, Nat)
           T == Nat \ S
<1>1. IsWellFoundedOn(R, Nat)
  BY NatLessThanWellFounded
<1>2. \A x, y \in Nat : x < y => <<x, y>> \in R
  BY DEF OpToRel
<1> HIDE DEF R
<1>3. SUFFICES ASSUME T # {} PROVE FALSE
  OBVIOUS
<1>4. T \subseteq Nat
  OBVIOUS
<1>5. PICK x \in T : \A y \in T : ~ (<<y, x>> \in R)
  <2> HIDE DEF T
  <2> QED
    BY <1>1, <1>3, <1>4, WFMin
<1>6. x \in Nat /\ x \notin S /\ x # 0
  OBVIOUS
<1>7. x - 1 \in Nat /\ x - 1 < x
  BY <1>6
<1>8. x - 1 \in S
  BY <1>5, <1>7, <1>2, <1>6
<1> QED
  BY <1>6, <1>7, <1>8

(* f begins with b, and g[n] leads from its value at n to the next. *)
Iterates(f, A, b, g) ==
  f \in [Nat -> A] /\ f[0] = b /\ \A n \in Nat : f[n + 1] = g[n][f[n]]

(***************************************************************************)
(* A first value and a step, which may depend on the number of the round,  *)
(* determine the values of all rounds: there are such functions on every   *)
(* 0..n, two of them agree where both are defined, and their last values   *)
(* make up a function on all numbers.                                      *)
(***************************************************************************)
LEMMA RecursiveFunction ==
  ASSUME NEW A, NEW b \in A, NEW g \in [Nat -> [A -> A]]
  PROVE  \E f : Iterates(f, A, b, g)
<1> DEFINE H(n) == {h \in [0..n -> A] : h[0] = b /\ \A i \in 0..(n-1) : h[i + 1] = g[i][h[i]]}
           S == {n \in Nat : H(n) # {}}
<1>1. 0 \in S
  <2>1. [i \in 0..0 |-> b] \in H(0)
    OBVIOUS
  <2> QED
    BY <2>1
<1>2. ASSUME NEW n \in Nat, n \in S PROVE n + 1 \in S
  <2>1. PICK h \in H(n) : TRUE
    BY <1>2
  <2> DEFINE k == [i \in 0..(n+1) |-> IF i = n + 1 THEN g[n][h[n]] ELSE h[i]]
  <2>2. k \in [0..(n+1) -> A]
    BY <2>1
  <2>3. k[0] = b
    BY <2>1
  <2>4. ASSUME NEW i \in 0..n PROVE k[i + 1] = g[i][k[i]]
    BY <2>1
  <2>5. k \in H(n + 1)
    BY <2>2, <2>3, <2>4
  <2> QED
    BY <2>5, SMTT(30)
<1>3. Nat \subseteq S
  <2> HIDE DEF S
  <2> QED
    BY <1>1, <1>2, NatInd
<1>4. ASSUME NEW n \in Nat, NEW m \in Nat, NEW h \in H(n), NEW k \in H(m)
      PROVE  \A i \in Nat : i <= n /\ i <= m => h[i] = k[i]
  <2> DEFINE E == {i \in Nat : i <= n /\ i <= m => h[i] = k[i]}
  <2>1. 0 \in E
    OBVIOUS
  <2>2. ASSUME NEW i \in Nat, i \in E PROVE i + 1 \in E
    BY <2>2
  <2>3. Nat \subseteq E
    <3> HIDE DEF E
    <3> QED
      BY <2>1, <2>2, NatInd
  <2> QED
    BY <2>3
<1> DEFINE c(n) == CHOOSE h \in H(n) : TRUE
           f == [n \in Nat |-> c(n)[n]]
<1>5. ASSUME NEW n \in Nat PROVE c(n) \in H(n)
  <2>1. H(n) # {}
    BY <1>3
  <2> HIDE DEF H
  <2> QED
    BY <2>1
<1> HIDE DEF c
<1>6. f \in [Nat -> A]
  BY <1>5
<1>7. f[0] = b
  BY <1>5
<1>8. ASSUME NEW n \in Nat PROVE f[n + 1] = g[n][f[n]]
  <2>1. c(n + 1)[n + 1] = g[n][c(n + 1)[n]]
    BY <1>5
  <2>2. c(n + 1)[n] = c(n)[n]
    <3> HIDE DEF H
    <3> QED
      BY <1>4, <1>5
  <2> QED
    BY <2>1, <2>2
<1>9. Iterates(f, A, b, g)
  <2> HIDE DEF f
  <2> QED
    BY <1>6, <1>7, <1>8 DEF Iterates
<1> QED
  BY <1>9

-----------------------------------------------------------------------------
(* The elements of two lists joined. *)
LEMMA ConcatFacts ==
  ASSUME NEW S, NEW s \in Seq(S), NEW t \in Seq(S)
  PROVE  /\ s \o t \in Seq(S)
         /\ Len(s \o t) = Len(s) + Len(t)
         /\ \A i \in 1..Len(s) : (s \o t)[i] = s[i]
         /\ \A i \in 1..Len(t) : (s \o t)[Len(s) + i] = t[i]
  OBVIOUS

(* f is the function by which Kept(s, K) is defined. *)
IsKept(f, s, K) ==
  f = [i \in 0..Len(s) |-> IF i = 0 THEN << >>
                           ELSE IF s[i] \in K THEN Append(f[i - 1], s[i]) ELSE f[i - 1]]

(* Kept(s, K) is the last value of that function, and its values are lists. *)
LEMMA KeptIs ==
  ASSUME NEW X, NEW s \in Seq(X), NEW K
  PROVE  \E f \in [0..Len(s) -> Seq(X)] : IsKept(f, s, K) /\ Kept(s, K) = f[Len(s)]
<1> DEFINE c == CHOOSE f : IsKept(f, s, K)
<1>1. Kept(s, K) = c[Len(s)]
  BY DEF Kept, IsKept
<1>2. \E f : IsKept(f, s, K)
  <2> DEFINE g == [n \in Nat |-> [t \in Seq(X) |->
                     IF n + 1 \in 1..Len(s) /\ s[n + 1] \in K THEN Append(t, s[n + 1]) ELSE t]]
  <2>1. g \in [Nat -> [Seq(X) -> Seq(X)]]
    OBVIOUS
  <2>2. << >> \in Seq(X) /\ Len(s) \in Nat
    OBVIOUS
  <2>3. PICK h : Iterates(h, Seq(X), << >>, g)
    <3> HIDE DEF g
    <3> QED
      BY <2>1, <2>2, RecursiveFunction
  <2> DEFINE f == [i \in 0..Len(s) |-> h[i]]
  <2>4. ASSUME NEW i \in 1..Len(s)
        PROVE  f[i] = IF s[i] \in K THEN Append(f[i - 1], s[i]) ELSE f[i - 1]
    <3>1. i - 1 \in Nat /\ (i - 1) + 1 = i /\ i - 1 \in 0..Len(s) /\ i \in 0..Len(s)
      BY <2>2
    <3>2. h[(i - 1) + 1] = g[i - 1][h[i - 1]] /\ h[i - 1] \in Seq(X)
      BY <3>1, <2>3 DEF Iterates
    <3> QED
      BY <3>1, <3>2
  <2>5. f[0] = << >>
    BY <2>2, <2>3 DEF Iterates
  <2>6. DOMAIN f = 0..Len(s)
    OBVIOUS
  <2> HIDE DEF f
  <2>7. f = [i \in 0..Len(s) |-> f[i]]
    BY <2>6 DEF f
  <2>8. ASSUME NEW i \in 0..Len(s)
        PROVE  f[i] = IF i = 0 THEN << >> ELSE IF s[i] \in K THEN Append(f[i - 1], s[i]) ELSE f[i - 1]
    BY <2>2, <2>4, <2>5
  <2>9. IsKept(f, s, K)
    BY <2>7, <2>8 DEF IsKept
  <2> QED
    BY <2>9
<1>3. IsKept(c, s, K)
  BY <1>2
<1> HIDE DEF c
<1>4. c \in [0..Len(s) -> Seq(X)]
  <2>0. Len(s) \in Nat
    OBVIOUS
  <2> DEFINE S == {n \in Nat : n <= Len(s) => c[n] \in Seq(X)}
  <2>1. 0 \in S
    BY <1>3, <2>0 DEF IsKept
  <2>2. ASSUME NEW n \in Nat, n \in S PROVE n + 1 \in S
    <3>1. CASE n + 1 <= Len(s)
      <4>1. n + 1 \in 0..Len(s) /\ n + 1 # 0 /\ (n + 1) - 1 = n /\ s[n + 1] \in X /\ c[n] \in Seq(X)
        BY <2>0, <2>2, <3>1
      <4>2. c[n + 1] = IF s[n + 1] \in K THEN Append(c[n], s[n + 1]) ELSE c[n]
        BY <1>3, <4>1 DEF IsKept
      <4>3. CASE s[n + 1] \in K
        <5>1. c[n + 1] = Append(c[n], s[n + 1])
          BY <4>2, <4>3
        <5> DEFINE a == c[n]
                   b == s[n + 1]
        <5>2. a \in Seq(X) /\ b \in X
          BY <4>1
        <5> HIDE DEF a, b
        <5>3. Append(a, b) \in Seq(X)
          BY ONLY <5>2
        <5>4. c[n + 1] \in Seq(X)
          BY <5>1, <5>3 DEF a, b
        <5> QED
          BY <5>4
      <4>4. CASE s[n + 1] \notin K
        BY <4>1, <4>2, <4>4
      <4> QED
        BY <4>3, <4>4
    <3> QED
      BY <3>1
  <2>3. Nat \subseteq S
    <3> HIDE DEF S
    <3> QED
      BY <2>1, <2>2, NatInd
  <2>4. \A n \in 0..Len(s) : c[n] \in Seq(X)
    BY <2>0, <2>3
  <2>5. c = [n \in 0..Len(s) |-> c[n]]
    BY <1>3 DEF IsKept
  <2> QED
    BY <2>4, <2>5
<1> QED
  BY <1>1, <1>3, <1>4

(* e takes the places of k to those of the first n places of s that hold a member of K,
   in order. *)
Embeds(e, k, s, K, n) ==
  /\ e \in [1..Len(k) -> 1..n]
  /\ \A i \in 1..Len(k) : k[i] = s[e[i]] /\ k[i] \in K
  /\ \A i, j \in 1..Len(k) : i < j => e[i] < e[j]
  /\ \A j \in 1..n : s[j] \in K => \E i \in 1..Len(k) : e[i] = j

(* The elements of a list with one more at its end. *)
LEMMA AppendFacts ==
  ASSUME NEW X, NEW s \in Seq(X), NEW x \in X
  PROVE  /\ Append(s, x) \in Seq(X) /\ Len(Append(s, x)) = Len(s) + 1
         /\ \A i \in 1..Len(s) : Append(s, x)[i] = s[i]
         /\ Append(s, x)[Len(s) + 1] = x
  OBVIOUS

(* The next place of s holds a member of K, which Kept appends. *)
LEMMA EmbedsAppend ==
  ASSUME NEW X, NEW s \in Seq(X), NEW K, NEW k \in Seq(X), NEW n \in Nat, n + 1 <= Len(s),
         NEW e, Embeds(e, k, s, K, n), s[n + 1] \in K
  PROVE  \E d : Embeds(d, Append(k, s[n + 1]), s, K, n + 1)
<1> DEFINE l == Append(k, s[n + 1])
           m == Len(k)
           d == [i \in 1..(m + 1) |-> IF i = m + 1 THEN n + 1 ELSE e[i]]
<1>1. m \in Nat /\ s[n + 1] \in X
  OBVIOUS
<1>2. Len(l) = m + 1 /\ (\A i \in 1..m : l[i] = k[i]) /\ l[m + 1] = s[n + 1]
  BY <1>1, AppendFacts
<1> HIDE DEF l, m
<1>3. /\ e \in [1..m -> 1..n]
      /\ \A i \in 1..m : k[i] = s[e[i]] /\ k[i] \in K
      /\ \A i, j \in 1..m : i < j => e[i] < e[j]
      /\ \A j \in 1..n : s[j] \in K => \E i \in 1..m : e[i] = j
  BY DEF Embeds, m
<1>4. d[m + 1] = n + 1 /\ \A i \in 1..m : d[i] = e[i] /\ i # m + 1
  BY <1>1
<1>5. d \in [1..(m + 1) -> 1..(n + 1)]
  BY <1>1, <1>3
<1> HIDE DEF d
<1>6. ASSUME NEW i \in 1..(m + 1) PROVE l[i] = s[d[i]] /\ l[i] \in K
  <2>1. CASE i = m + 1
    BY <2>1, <1>2, <1>4
  <2>2. CASE i # m + 1
    <3>1. i \in 1..m
      BY <1>1, <2>2
    <3> QED
      BY <3>1, <1>2, <1>3, <1>4
  <2> QED
    BY <2>1, <2>2
<1>7. ASSUME NEW i \in 1..(m + 1), NEW j \in 1..(m + 1), i < j PROVE d[i] < d[j]
  <2>1. i \in 1..m /\ d[i] = e[i] /\ e[i] \in 1..n
    BY <1>1, <1>3, <1>4, <1>7
  <2>2. CASE j = m + 1
    BY <2>1, <2>2, <1>4
  <2>3. CASE j # m + 1
    <3>1. j \in 1..m
      BY <1>1, <2>3
    <3> QED
      BY <2>1, <3>1, <1>3, <1>4, <1>7
  <2> QED
    BY <2>2, <2>3
<1>8. ASSUME NEW j \in 1..(n + 1), s[j] \in K PROVE \E i \in 1..(m + 1) : d[i] = j
  <2>1. CASE j = n + 1
    BY <1>1, <1>4, <2>1
  <2>2. CASE j # n + 1
    <3>0. j \in 1..n
      BY <2>2
    <3>1. PICK i \in 1..m : e[i] = j
      BY <1>3, <1>8, <3>0
    <3>2. i \in 1..(m + 1)
      BY <1>1
    <3> QED
      BY <1>4, <3>1, <3>2
  <2> QED
    BY <2>1, <2>2
<1>9. Embeds(d, l, s, K, n + 1)
  BY <1>2, <1>5, <1>6, <1>7, <1>8 DEF Embeds
<1> QED
  BY <1>9 DEF l

(* The next place of s holds none. *)
LEMMA EmbedsSkip ==
  ASSUME NEW s, NEW K, NEW k, NEW n \in Nat, NEW e, Embeds(e, k, s, K, n), s[n + 1] \notin K
  PROVE  Embeds(e, k, s, K, n + 1)
<1> DEFINE D == 1..Len(k)
<1>1. /\ e \in [D -> 1..n]
      /\ \A i \in D : k[i] = s[e[i]] /\ k[i] \in K
      /\ \A i, j \in D : i < j => e[i] < e[j]
      /\ \A j \in 1..n : s[j] \in K => \E i \in D : e[i] = j
  BY DEF Embeds
<1> HIDE DEF D
<1>2. e \in [D -> 1..(n + 1)]
  BY <1>1
<1>3. \A j \in 1..(n + 1) : s[j] \in K => \E i \in D : e[i] = j
  BY <1>1
<1> QED
  BY <1>1, <1>2, <1>3 DEF Embeds, D

(* Filtering keeps exactly the places whose elements are in K, in their order. *)
LEMMA KeptEmbeds ==
  ASSUME NEW X, NEW s \in Seq(X), NEW K
  PROVE  Kept(s, K) \in Seq(X) /\ \E e : Embeds(e, Kept(s, K), s, K, Len(s))
<1>0. Len(s) \in Nat
  OBVIOUS
<1>1. PICK c \in [0..Len(s) -> Seq(X)] : IsKept(c, s, K) /\ Kept(s, K) = c[Len(s)]
  BY KeptIs
<1> DEFINE S == {n \in Nat : n <= Len(s) => \E e : Embeds(e, c[n], s, K, n)}
<1>2. 0 \in S
  <2>1. c[0] = << >>
    BY <1>0, <1>1 DEF IsKept
  <2>2. Embeds([i \in 1..0 |-> i], << >>, s, K, 0)
    BY DEF Embeds
  <2>3. \E e : Embeds(e, c[0], s, K, 0)
    BY <2>1, <2>2
  <2> QED
    BY <2>3
<1>3. ASSUME NEW n \in Nat, n \in S PROVE n + 1 \in S
  <2> SUFFICES ASSUME n + 1 <= Len(s) PROVE \E e : Embeds(e, c[n + 1], s, K, n + 1)
    OBVIOUS
  <2>1. n + 1 \in 0..Len(s) /\ n + 1 # 0 /\ (n + 1) - 1 = n /\ s[n + 1] \in X /\ c[n] \in Seq(X)
        /\ n <= Len(s)
    BY <1>0
  <2>2. c[n + 1] = IF s[n + 1] \in K THEN Append(c[n], s[n + 1]) ELSE c[n]
    BY <1>1, <2>1 DEF IsKept
  <2> DEFINE k == c[n]
  <2>3. k \in Seq(X)
    BY <2>1
  <2>4. PICK e : Embeds(e, k, s, K, n)
    BY <1>3, <2>1
  <2> HIDE DEF k
  <2>5. CASE s[n + 1] \in K
    <3>1. \E d : Embeds(d, Append(k, s[n + 1]), s, K, n + 1)
      BY <2>3, <2>4, <2>5, EmbedsAppend
    <3> QED
      BY <2>2, <2>5, <3>1 DEF k
  <2>6. CASE s[n + 1] \notin K
    <3>1. Embeds(e, k, s, K, n + 1)
      BY <2>4, <2>6, EmbedsSkip
    <3> QED
      BY <2>2, <2>6, <3>1 DEF k
  <2> QED
    BY <2>5, <2>6
<1>4. Nat \subseteq S
  <2> HIDE DEF S
  <2> QED
    BY <1>2, <1>3, NatInd
<1>5. Len(s) \in S
  <2> HIDE DEF S
  <2> QED
    BY <1>0, <1>4
<1>6. \E e : Embeds(e, c[Len(s)], s, K, Len(s))
  BY <1>0, <1>5
<1> QED
  BY <1>0, <1>1, <1>6

(***************************************************************************)
(* The elements of a filtered list, and that it repeats none if the list   *)
(* did not.                                                                *)
(***************************************************************************)
LEMMA KeptFacts ==
  ASSUME NEW X, NEW s \in Seq(X), NEW K
  PROVE  /\ Kept(s, K) \in Seq(X)
         /\ {Kept(s, K)[i] : i \in 1..Len(Kept(s, K))} = {s[i] : i \in 1..Len(s)} \cap K
         /\ (\A i, j \in 1..Len(s) : s[i] = s[j] => i = j)
              => \A i, j \in 1..Len(Kept(s, K)) : Kept(s, K)[i] = Kept(s, K)[j] => i = j
<1> DEFINE k == Kept(s, K)
           D == 1..Len(k)
<1>1. k \in Seq(X)
  BY KeptEmbeds
<1>2. PICK e : Embeds(e, k, s, K, Len(s))
  BY KeptEmbeds
<1> HIDE DEF k
<1>3. /\ e \in [D -> 1..Len(s)]
      /\ \A i \in D : k[i] = s[e[i]] /\ k[i] \in K
      /\ \A i, j \in D : i < j => e[i] < e[j]
      /\ \A j \in 1..Len(s) : s[j] \in K => \E i \in D : e[i] = j
  BY <1>2 DEF Embeds
<1>4. Len(k) \in Nat
  BY <1>1
<1>5. D \subseteq Int
  BY <1>4
<1> HIDE DEF D
<1>6. {k[i] : i \in D} = {s[i] : i \in 1..Len(s)} \cap K
  <2>1. ASSUME NEW i \in D PROVE k[i] \in {s[j] : j \in 1..Len(s)} \cap K
    BY <1>3
  <2>2. ASSUME NEW j \in 1..Len(s), s[j] \in K PROVE s[j] \in {k[i] : i \in D}
    BY <1>3, <2>2
  <2> QED
    BY <2>1, <2>2
<1>7. ASSUME \A i, j \in 1..Len(s) : s[i] = s[j] => i = j, NEW i \in D, NEW j \in D, k[i] = k[j]
      PROVE  i = j
  <2>1. e[i] = e[j] /\ e[i] \in Int
    BY <1>3, <1>7
  <2>2. ~(i < j) /\ ~(j < i)
    BY <1>3, <2>1
  <2> QED
    BY <1>5, <2>2
<1> QED
  BY <1>1, <1>6, <1>7 DEF k, D

-----------------------------------------------------------------------------
(***************************************************************************)
(* A loop whose body keeps to A, wherever it is run from A, ends in A.     *)
(***************************************************************************)
LEMMA RoundsIn ==
  ASSUME NEW A, NEW n \in Nat, NEW p \in A, NEW body,
         \A i \in 1..n : \A q \in A : body[i][q] \in A
  PROVE  Rounds(p, n, body) \in A
<1> DEFINE Def(f) == f = [i \in 0..n |-> IF i = 0 THEN p ELSE body[i][f[i - 1]]]
           c == CHOOSE f : Def(f)
           g == [m \in Nat |-> [q \in A |-> IF m + 1 \in 1..n THEN body[m + 1][q] ELSE q]]
<1>1. Rounds(p, n, body) = c[n]
  BY DEF Rounds
<1>2. g \in [Nat -> [A -> A]]
  OBVIOUS
<1>3. PICK h : Iterates(h, A, p, g)
  <2> HIDE DEF g
  <2> QED
    BY <1>2, RecursiveFunction
<1> DEFINE f == [i \in 0..n |-> h[i]]
<1>4. ASSUME NEW i \in 0..n PROVE f[i] = IF i = 0 THEN p ELSE body[i][f[i - 1]]
  <2>1. CASE i = 0
    BY <1>3, <2>1 DEF Iterates
  <2>2. CASE i # 0
    <3>1. i - 1 \in Nat /\ (i - 1) + 1 = i /\ i - 1 \in 0..n /\ i \in 1..n
      BY <2>2
    <3>2. h[(i - 1) + 1] = g[i - 1][h[i - 1]] /\ h[i - 1] \in A
      BY <3>1, <1>3 DEF Iterates
    <3> QED
      BY <3>1, <3>2, <2>2
  <2> QED
    BY <2>1, <2>2
<1>5. f = [i \in 0..n |-> f[i]]
  OBVIOUS
<1> HIDE DEF f, g
<1>6. Def(f)
  BY <1>4, <1>5
<1>7. Def(c)
  <2> HIDE DEF Def
  <2> QED
    BY <1>6
<1> HIDE DEF c
<1> DEFINE S == {m \in Nat : m <= n => c[m] \in A}
<1>8. 0 \in S
  BY <1>7
<1>9. ASSUME NEW m \in Nat, m \in S PROVE m + 1 \in S
  <2>1. CASE m + 1 <= n
    <3>1. m + 1 \in 0..n /\ m + 1 \in 1..n /\ m + 1 # 0 /\ (m + 1) - 1 = m /\ c[m] \in A
      BY <1>9, <2>1
    <3>2. c[m + 1] = body[m + 1][c[m]]
      BY <1>7, <3>1
    <3>3. c[m + 1] \in A
      BY <3>1, <3>2
    <3> QED
      BY <3>3
  <2> QED
    BY <2>1
<1>10. Nat \subseteq S
  <2> HIDE DEF S
  <2> QED
    BY <1>8, <1>9, NatInd
<1>11. n \in S
  <2> HIDE DEF S
  <2> QED
    BY <1>10
<1> QED
  BY <1>1, <1>11

-----------------------------------------------------------------------------
(* The set of the elements of a list, by its places. *)
LEMMA ToSetIs ==
  ASSUME NEW X, NEW s \in Seq(X)
  PROVE  /\ ToSet(s) = {s[i] : i \in 1..Len(s)} /\ ToSet(s) \subseteq X
         /\ ToSet(s) = {} <=> s = << >>
         /\ IsInjective(s) <=> \A i, j \in 1..Len(s) : s[i] = s[j] => i = j
<1>1. DOMAIN s = 1..Len(s) /\ Len(s) \in Nat
  OBVIOUS
<1>2. ToSet(s) = {s[i] : i \in 1..Len(s)}
  BY <1>1 DEF ToSet
<1>3. ToSet(s) \subseteq X
  BY <1>2
<1>4. ToSet(s) = {} <=> s = << >>
  <2>1. CASE s = << >>
    BY <1>2, <2>1
  <2>2. CASE s # << >>
    <3>1. 1 \in 1..Len(s)
      BY <1>1, <2>2
    <3> QED
      BY <1>2, <2>2, <3>1
  <2> QED
    BY <2>1, <2>2
<1>5. IsInjective(s) <=> \A i, j \in 1..Len(s) : s[i] = s[j] => i = j
  BY <1>1 DEF IsInjective
<1> QED
  BY <1>2, <1>3, <1>4, <1>5

(* The elements after push_back. *)
LEMMA ToSetAppend ==
  ASSUME NEW X, NEW s \in Seq(X), NEW x \in X
  PROVE  Append(s, x) \in Seq(X) /\ ToSet(Append(s, x)) = ToSet(s) \cup {x}
<1> DEFINE t == Append(s, x)
<1>1. t \in Seq(X) /\ Len(t) = Len(s) + 1 /\ (\A i \in 1..Len(s) : t[i] = s[i])
      /\ t[Len(s) + 1] = x /\ Len(s) \in Nat
  BY AppendFacts
<1> HIDE DEF t
<1>2. ToSet(t) = {t[i] : i \in 1..Len(t)} /\ ToSet(s) = {s[i] : i \in 1..Len(s)}
  BY <1>1, ToSetIs
<1>3. {t[i] : i \in 1..Len(t)} \subseteq {s[i] : i \in 1..Len(s)} \cup {x}
  BY <1>1
<1>4. Len(s) + 1 \in 1..Len(t) /\ \A i \in 1..Len(s) : i \in 1..Len(t)
  BY <1>1
<1>5. {s[i] : i \in 1..Len(s)} \cup {x} \subseteq {t[i] : i \in 1..Len(t)}
  BY <1>1, <1>4
<1> QED
  BY <1>1, <1>2, <1>3, <1>5 DEF t

(* The elements of two lists spliced. *)
LEMMA ToSetConcat ==
  ASSUME NEW X, NEW s \in Seq(X), NEW t \in Seq(X)
  PROVE  s \o t \in Seq(X) /\ ToSet(s \o t) = ToSet(s) \cup ToSet(t)
<1> DEFINE c == s \o t
           m == Len(s)
           n == Len(t)
<1>1. c \in Seq(X) /\ Len(c) = m + n /\ (\A i \in 1..m : c[i] = s[i])
      /\ (\A i \in 1..n : c[m + i] = t[i]) /\ m \in Nat /\ n \in Nat
  BY ConcatFacts
<1> HIDE DEF c, m, n
<1>2. ToSet(c) = {c[i] : i \in 1..Len(c)} /\ ToSet(s) = {s[i] : i \in 1..m}
      /\ ToSet(t) = {t[i] : i \in 1..n}
  BY <1>1, ToSetIs DEF m, n
<1>3. ASSUME NEW i \in 1..(m + n) PROVE c[i] \in {s[j] : j \in 1..m} \cup {t[j] : j \in 1..n}
  <2>1. CASE i <= m
    BY <1>1, <2>1
  <2>2. CASE i > m
    <3>1. i - m \in 1..n /\ m + (i - m) = i
      BY <1>1, <2>2
    <3> QED
      BY <1>1, <3>1
  <2> QED
    BY <1>1, <2>1, <2>2
<1>4. ASSUME NEW i \in 1..m PROVE s[i] \in {c[j] : j \in 1..(m + n)}
  BY <1>1
<1>5. ASSUME NEW i \in 1..n PROVE t[i] \in {c[j] : j \in 1..(m + n)}
  <2>1. m + i \in 1..(m + n)
    BY <1>1
  <2> QED
    BY <1>1, <2>1
<1>6. {c[i] : i \in 1..(m + n)} = {s[i] : i \in 1..m} \cup {t[i] : i \in 1..n}
  BY <1>3, <1>4, <1>5
<1> QED
  BY <1>1, <1>2, <1>6 DEF c

(* The elements before and after pop_front. *)
LEMMA ToSetTail ==
  ASSUME NEW X, NEW s \in Seq(X), s # << >>
  PROVE  /\ Head(s) \in X /\ Tail(s) \in Seq(X)
         /\ ToSet(s) = {Head(s)} \cup ToSet(Tail(s))
<1> DEFINE t == Tail(s)
<1>1. t \in Seq(X) /\ Len(t) = Len(s) - 1 /\ (\A i \in 1..Len(t) : t[i] = s[i + 1])
      /\ Head(s) = s[1] /\ Len(s) \in Nat \ {0} /\ s[1] \in X
  OBVIOUS
<1> HIDE DEF t
<1>2. ToSet(t) = {t[i] : i \in 1..Len(t)} /\ ToSet(s) = {s[i] : i \in 1..Len(s)}
  BY <1>1, ToSetIs
<1>3. ASSUME NEW i \in 1..Len(s) PROVE s[i] \in {s[1]} \cup {t[j] : j \in 1..Len(t)}
  <2>1. CASE i # 1
    <3>1. i - 1 \in 1..Len(t) /\ (i - 1) + 1 = i
      BY <1>1, <2>1
    <3> QED
      BY <1>1, <3>1
  <2> QED
    BY <2>1
<1>4. ASSUME NEW j \in 1..Len(t) PROVE t[j] \in {s[i] : i \in 1..Len(s)}
  <2>1. j + 1 \in 1..Len(s)
    BY <1>1
  <2> QED
    BY <1>1, <2>1
<1>5. 1 \in 1..Len(s)
  BY <1>1
<1> QED
  BY <1>1, <1>2, <1>3, <1>4, <1>5 DEF t

(* A filtered list. *)
LEMMA ToSetKept ==
  ASSUME NEW X, NEW s \in Seq(X), NEW K
  PROVE  /\ Kept(s, K) \in Seq(X)
         /\ ToSet(Kept(s, K)) = ToSet(s) \cap K
         /\ IsInjective(s) => IsInjective(Kept(s, K))
<1> DEFINE k == Kept(s, K)
<1>1. /\ k \in Seq(X)
      /\ {k[i] : i \in 1..Len(k)} = {s[i] : i \in 1..Len(s)} \cap K
      /\ (\A i, j \in 1..Len(s) : s[i] = s[j] => i = j)
              => \A i, j \in 1..Len(k) : k[i] = k[j] => i = j
  BY KeptFacts
<1> HIDE DEF k
<1>2. ToSet(k) = {k[i] : i \in 1..Len(k)} /\ ToSet(s) = {s[i] : i \in 1..Len(s)}
  BY <1>1, ToSetIs
<1>3. (IsInjective(k) <=> \A i, j \in 1..Len(k) : k[i] = k[j] => i = j)
      /\ (IsInjective(s) <=> \A i, j \in 1..Len(s) : s[i] = s[j] => i = j)
  BY <1>1, ToSetIs
<1> QED
  BY <1>1, <1>2, <1>3 DEF k

(* A list with a new element put at place n + 1. *)
LEMMA InsertAtFacts ==
  ASSUME NEW X, NEW s \in Seq(X), NEW n \in 0..Len(s), NEW x \in X
  PROVE  /\ InsertAt(s, n + 1, x) \in Seq(X)
         /\ ToSet(InsertAt(s, n + 1, x)) = ToSet(s) \cup {x}
         /\ IsInjective(s) /\ x \notin ToSet(s) => IsInjective(InsertAt(s, n + 1, x))
<1> DEFINE t == InsertAt(s, n + 1, x)
           m == Len(s)
           a == SubSeq(s, 1, n)
           b == SubSeq(s, n + 1, m)
<1>0. m \in Nat /\ n \in Nat /\ n <= m
  OBVIOUS
<1>1. a \in Seq(X) /\ Len(a) = n /\ \A i \in 1..n : a[i] = s[i]
  BY <1>0
<1>2. b \in Seq(X) /\ Len(b) = m - n /\ \A i \in 1..(m - n) : b[i] = s[n + i]
  BY <1>0
<1>3. t = (a \o <<x>>) \o b
  <2>1. (n + 1) - 1 = n
    BY <1>0
  <2> QED
    BY ONLY <2>1, Zenon DEF InsertAt, t, a, b, m
<1>4. <<x>> \in Seq(X) /\ Len(<<x>>) = 1 /\ <<x>>[1] = x
  OBVIOUS
<1> DEFINE o == <<x>>
           d == a \o o
<1> HIDE DEF a, b, t, m, o
<1>5. d \in Seq(X) /\ Len(d) = n + 1 /\ (\A i \in 1..n : d[i] = s[i]) /\ d[n + 1] = x
  <2>1. /\ d \in Seq(X) /\ Len(d) = Len(a) + Len(o)
        /\ (\A i \in 1..Len(a) : d[i] = a[i]) /\ \A i \in 1..Len(o) : d[Len(a) + i] = o[i]
    BY <1>1, <1>4, ConcatFacts DEF o
  <2> HIDE DEF d
  <2> QED
    BY <2>1, <1>0, <1>1, <1>4 DEF o
<1> HIDE DEF d
<1>6. t \in Seq(X) /\ Len(t) = m + 1 /\ (\A i \in 1..n : t[i] = s[i]) /\ t[n + 1] = x
      /\ \A i \in (n + 1)..m : t[i + 1] = s[i]
  <2>1. /\ t \in Seq(X) /\ Len(t) = Len(d) + Len(b)
        /\ (\A i \in 1..Len(d) : t[i] = d[i]) /\ \A i \in 1..Len(b) : t[Len(d) + i] = b[i]
    <3>1. t = d \o b
      BY <1>3 DEF d, o
    <3>2. /\ d \o b \in Seq(X) /\ Len(d \o b) = Len(d) + Len(b)
          /\ (\A i \in 1..Len(d) : (d \o b)[i] = d[i])
          /\ \A i \in 1..Len(b) : (d \o b)[Len(d) + i] = b[i]
      <4>1. d \in Seq(X) /\ b \in Seq(X)
        BY <1>2, <1>5
      <4> QED
        BY ONLY <4>1, ConcatFacts
    <3> QED
      BY ONLY <3>1, <3>2, Zenon
  <2>2. ASSUME NEW i \in (n + 1)..m PROVE t[i + 1] = s[i]
    <3>1. i - n \in 1..(m - n) /\ (n + 1) + (i - n) = i + 1 /\ n + (i - n) = i
      BY <1>0
    <3>2. t[(n + 1) + (i - n)] = b[i - n]
      BY <3>1, <2>1, <1>5, <1>2
    <3> QED
      BY <3>1, <3>2, <1>2
  <2> QED
    <3>1. Len(t) = m + 1
      BY <2>1, <1>0, <1>2, <1>5
    <3>2. ASSUME NEW i \in 1..n PROVE t[i] = s[i]
      <4>1. i \in 1..(n + 1)
        BY <1>0
      <4> QED
        BY <2>1, <4>1, <1>5
    <3>3. t[n + 1] = x
      <4>1. n + 1 \in 1..(n + 1)
        BY <1>0
      <4> QED
        BY <2>1, <4>1, <1>5
    <3> QED
      BY <2>1, <2>2, <3>1, <3>2, <3>3
<1>7. /\ ToSet(t) = {t[i] : i \in 1..(m + 1)} /\ ToSet(s) = {s[i] : i \in 1..m}
      /\ (IsInjective(t) <=> \A i, j \in 1..(m + 1) : t[i] = t[j] => i = j)
      /\ (IsInjective(s) <=> \A i, j \in 1..m : s[i] = s[j] => i = j)
  BY <1>6, ToSetIs, ZenonT(60) DEF m
(* Where a place of t comes from. *)
<1> DEFINE from(i) == IF i <= n THEN i ELSE i - 1
<1>8. ASSUME NEW i \in 1..(m + 1), i # n + 1 PROVE from(i) \in 1..m /\ t[i] = s[from(i)]
  <2>1. CASE i <= n
    BY <2>1, <1>0, <1>6
  <2>2. CASE i > n
    <3>1. i - 1 \in (n + 1)..m /\ (i - 1) + 1 = i /\ from(i) = i - 1
      BY <2>2, <1>0, <1>8
    <3> QED
      BY <3>1, <1>0, <1>6
  <2> QED
    BY <2>1, <2>2, <1>0
<1>9. ASSUME NEW i \in 1..m PROVE s[i] \in {t[j] : j \in 1..(m + 1)}
  <2>1. CASE i <= n
    BY <2>1, <1>0, <1>6
  <2>2. CASE i > n
    <3>1. i \in (n + 1)..m /\ i + 1 \in 1..(m + 1)
      BY <2>2, <1>0
    <3> QED
      BY <3>1, <1>6
  <2> QED
    BY <2>1, <2>2, <1>0
<1>10. ToSet(t) = ToSet(s) \cup {x}
  <2>1. n + 1 \in 1..(m + 1)
    BY <1>0
  <2>2. ASSUME NEW i \in 1..(m + 1) PROVE t[i] \in {s[j] : j \in 1..m} \cup {x}
    <3> HIDE DEF from
    <3> QED
      BY <1>6, <1>8
  <2> QED
    BY <1>6, <1>7, <1>9, <2>1, <2>2
<1>11. ASSUME IsInjective(s), x \notin ToSet(s), NEW i \in 1..(m + 1), NEW j \in 1..(m + 1), t[i] = t[j]
       PROVE  i = j
  <2>1. CASE i = n + 1 /\ j # n + 1
    <3> HIDE DEF from
    <3> QED
      BY <1>6, <1>7, <1>8, <1>11, <2>1
  <2>2. CASE j = n + 1 /\ i # n + 1
    <3> HIDE DEF from
    <3> QED
      BY <1>6, <1>7, <1>8, <1>11, <2>2
  <2>3. CASE i # n + 1 /\ j # n + 1
    <3>1. from(i) = from(j)
      <4> HIDE DEF from
      <4> QED
        BY <1>7, <1>8, <1>11, <2>3
    <3> QED
      BY <3>1, <2>3, <1>0
  <2> QED
    BY <2>1, <2>2, <2>3
<1> QED
  BY <1>6, <1>7, <1>10, <1>11 DEF t

(* The smaller of two numbers. *)
LEMMA MinTwo ==
  ASSUME NEW a \in Int, NEW b \in Int
  PROVE  Min({a, b}) \in {a, b} /\ Min({a, b}) <= a /\ Min({a, b}) <= b
<1>1. \E x \in {a, b} : \A y \in {a, b} : x <= y
  OBVIOUS
<1> QED
  BY <1>1 DEF Min

(* A nonempty set of natural numbers has its minimum. *)
LEMMA MinIn ==
  ASSUME NEW S, S \subseteq Nat, S # {}
  PROVE  Min(S) \in S
<1> DEFINE R == OpToRel(<, Nat)
<1>1. IsWellFoundedOn(R, Nat)
  BY NatLessThanWellFounded
<1>2. \A x, y \in Nat : x < y => <<x, y>> \in R
  BY DEF OpToRel
<1> HIDE DEF R
<1>3. PICK x \in S : \A y \in S : ~ (<<y, x>> \in R)
  BY <1>1, WFMin
<1>4. \A y \in S : x <= y
  <2> SUFFICES ASSUME NEW y \in S PROVE x <= y
    OBVIOUS
  <2>1. x \in Nat /\ y \in Nat /\ ~ (<<y, x>> \in R)
    BY <1>3
  <2>2. ~ (y < x)
    BY <1>2, <2>1
  <2> QED
    BY <2>1, <2>2
<1> QED
  BY <1>3, <1>4 DEF Min

(* Two distinct elements of a set of two are all of it: a list without repetitions of elements *)
(* of a list of at most two is not longer, and shorter if it lacks one.                        *)
LEMMA ShortLists ==
  ASSUME NEW X, NEW s \in Seq(X), NEW k \in Seq(X), Len(s) <= 2, IsInjective(k),
         ToSet(k) \subseteq ToSet(s)
  PROVE  Len(k) <= Len(s) /\ (ToSet(k) # ToSet(s) => Len(k) < Len(s))
<1>1. /\ ToSet(s) = {s[i] : i \in 1..Len(s)} /\ ToSet(k) = {k[i] : i \in 1..Len(k)}
      /\ \A i, j \in 1..Len(k) : k[i] = k[j] => i = j
      /\ Len(s) \in Nat /\ Len(k) \in Nat
  BY ToSetIs
<1>2. CASE Len(s) = 0
  <2>1. Len(k) = 0
    <3> SUFFICES ASSUME Len(k) >= 1 PROVE FALSE
      BY <1>1
    <3>1. k[1] \in ToSet(k)
      BY <1>1
    <3> QED
      BY <1>1, <1>2, <3>1
  <2> QED
    BY <1>1, <1>2, <2>1
<1>3. CASE Len(s) = 1
  <2>1. ToSet(s) = {s[1]}
    BY <1>1, <1>3
  <2>2. Len(k) <= 1
    <3> SUFFICES ASSUME Len(k) >= 2 PROVE FALSE
      BY <1>1
    <3>1. 1 \in 1..Len(k) /\ 2 \in 1..Len(k)
      BY <1>1
    <3>2. k[1] \in ToSet(k) /\ k[2] \in ToSet(k)
      BY <1>1, <3>1
    <3>3. k[1] = k[2]
      BY <2>1, <3>2
    <3> QED
      BY <1>1, <3>1, <3>3
  <2>3. Len(k) = 1 => ToSet(k) = {k[1]}
    BY <1>1
  <2> QED
    BY <1>1, <1>3, <2>1, <2>2, <2>3
<1>4. CASE Len(s) = 2
  <2>1. ToSet(s) = {s[1], s[2]}
    BY <1>1, <1>4
  <2>2. Len(k) <= 2
    <3> SUFFICES ASSUME Len(k) >= 3 PROVE FALSE
      BY <1>1
    <3>1. 1 \in 1..Len(k) /\ 2 \in 1..Len(k) /\ 3 \in 1..Len(k)
      BY <1>1
    <3>2. k[1] \in ToSet(k) /\ k[2] \in ToSet(k) /\ k[3] \in ToSet(k)
      BY <1>1, <3>1
    <3>3. k[1] \in {s[1], s[2]} /\ k[2] \in {s[1], s[2]} /\ k[3] \in {s[1], s[2]}
      BY <2>1, <3>2
    <3>4. k[1] # k[2] /\ k[1] # k[3] /\ k[2] # k[3]
      BY <1>1, <3>1
    <3> QED
      BY <3>3, <3>4
  <2>3. Len(k) = 2 => ToSet(k) = {k[1], k[2]} /\ k[1] # k[2]
    BY <1>1
  <2>4. Len(k) = 2 => ToSet(k) = ToSet(s)
    <3> SUFFICES ASSUME Len(k) = 2 PROVE ToSet(k) = ToSet(s)
      OBVIOUS
    <3> DEFINE a == k[1]
               b == k[2]
               c == s[1]
               d == s[2]
    <3>1. ToSet(k) = {a, b} /\ a # b /\ ToSet(s) = {c, d}
      BY <2>1, <2>3
    <3> HIDE DEF a, b, c, d
    <3>2. a \in {c, d} /\ b \in {c, d}
      BY <3>1
    <3>3. {a, b} = {c, d}
      BY ONLY <3>1, <3>2
    <3> QED
      BY <3>1, <3>3
  <2>5. Len(k) <= Len(s)
    BY <1>4, <2>2
  <2>6. ToSet(k) # ToSet(s) => Len(k) < Len(s)
    BY <1>1, <1>4, <2>2, <2>4, SMTT(30)
  <2> QED
    BY <2>5, <2>6
<1>5. Len(s) = 0 \/ Len(s) = 1 \/ Len(s) = 2
  <2> DEFINE n == Len(s)
  <2>1. n \in Nat /\ n <= 2
    BY <1>1
  <2> HIDE DEF n
  <2>2. n = 0 \/ n = 1 \/ n = 2
    BY ONLY <2>1
  <2> QED
    BY <2>2 DEF n
<1> QED
  BY <1>2, <1>3, <1>4, <1>5
=============================================================================
