----------------------------- MODULE Induction -----------------------------
(***************************************************************************)
(* Induction and arithmetic for the other proofs. The library's            *)
(* induction theorems take the property as an operator, which the provers  *)
(* here cannot instantiate; these take it as a set instead, and follow     *)
(* from the library's theorem that < is well founded on Nat.  From them    *)
(* follow what the recursive functions of the models compute: sums, powers *)
(* of a base, numbers read from and written as digits, and what FlattenSeq *)
(* joins.                                                                  *)
(***************************************************************************)
EXTENDS Integers, SequencesExt, WellFoundedInduction, TLAPS

LEMMA FitsBefore ==
  \A x, z, w, t, l \in Nat : z + w <= t /\ x + 1 + t <= l => x + 1 + z + w <= l
OBVIOUS

(* A set of natural numbers that is not empty has a least element. *)
LEMMA MinNat ==
  ASSUME NEW T, T \subseteq Nat, T # {}
  PROVE  \E x \in T : \A y \in T : x <= y
<1> DEFINE R == {p \in Nat \X Nat : p[1] < p[2]}
<1>1. IsWellFoundedOn(OpToRel(<, Nat), Nat)
  BY NatLessThanWellFounded
<1>2. OpToRel(<, Nat) = R
  BY DEF OpToRel
<1>3. IsWellFoundedOn(R, Nat)
  BY <1>1, <1>2, Zenon
<1>4. PICK x \in T : \A y \in T : ~ (<<y, x>> \in R)
  <2> HIDE DEF R
  <2> QED BY <1>3, WFMin
<1>5. ASSUME NEW y \in T PROVE x <= y
  <2>1. x \in Nat /\ y \in Nat
    OBVIOUS
  <2>2. <<y, x>> \in R <=> y < x
    BY <2>1
  <2>3. ~ (<<y, x>> \in R)
    BY <1>4
  <2> HIDE DEF R
  <2> QED BY <2>1, <2>2, <2>3
<1>6. QED
  BY <1>5

(* Induction up to n: a set that holds 0, and i + 1 with every i < n that  *)
(* it holds, holds every number up to n.                                   *)
LEMMA UpTo ==
  ASSUME NEW n \in Nat, NEW S,
         0 \in S,
         \A i \in 0..(n - 1) : i \in S => i + 1 \in S
  PROVE  \A i \in 0..n : i \in S
<1> DEFINE T == {i \in 0..n : i \notin S}
<1> SUFFICES ASSUME T # {} PROVE FALSE
  OBVIOUS
<1>1. T \subseteq Nat
  OBVIOUS
<1> HIDE DEF T
<1>2. PICK x \in T : \A y \in T : x <= y
  BY <1>1, MinNat
<1> USE DEF T
<1>3. x \in 1..n
  OBVIOUS
<1>4. x - 1 \in 0..(n - 1) /\ x - 1 \in 0..n
  BY <1>3
<1>5. x - 1 \in S
  BY <1>2, <1>4
<1>6. (x - 1) + 1 \in S
  BY <1>4, <1>5
<1> QED BY <1>3, <1>6

(* The linear recurrence of Horner's rule: one step, and its solutions *)
Horner(f, n, c, B, s) ==
    [i \in 0..n |-> IF i = 0 THEN c ELSE B * f[i - 1] + s[i]]

Solves(f, n, c, B, s) ==
    /\ f \in [0..n -> Nat]
    /\ f[0] = c
    /\ \A i \in 1..n : f[i] = B * f[i - 1] + s[i]

LEMMA NatProduct == \A a, b, d \in Nat : a * b + d \in Nat
OBVIOUS

(* It has a solution, which is a fixed point of the step. *)
LEMMA Linear ==
  ASSUME NEW n \in Nat, NEW c \in Nat, NEW B \in Nat, NEW s \in [1..n -> Nat]
  PROVE  \E f : Solves(f, n, c, B, s) /\ f = Horner(f, n, c, B, s)
<1> DEFINE Upto(m, f) ==
              /\ f[0] = c
              /\ \A i \in 1..m : f[i] = B * f[i - 1] + s[i]
           S == {m \in 0..n : \E f \in [0..m -> Nat] : Upto(m, f)}
<1>1. 0 \in S
  <2> DEFINE g == [i \in 0..0 |-> c]
  <2>1. g \in [0..0 -> Nat]
    OBVIOUS
  <2>2. Upto(0, g)
    OBVIOUS
  <2>3. 0 \in 0..n
    OBVIOUS
  <2> HIDE DEF g, Upto
  <2> QED BY <2>1, <2>2, <2>3
<1>2. ASSUME NEW m \in 0..(n - 1), m \in S PROVE m + 1 \in S
  <2>1. PICK f \in [0..m -> Nat] : Upto(m, f)
    BY <1>2
  <2>2. m \in 0..m /\ m + 1 \in 0..n /\ m + 1 \in 1..n /\ m \in Nat
    OBVIOUS
  <2> DEFINE x == B * f[m] + s[m + 1]
             g == [i \in 0..(m + 1) |-> IF i = m + 1 THEN x ELSE f[i]]
  <2>3. x \in Nat
    <3>1. f[m] \in Nat /\ s[m + 1] \in Nat
      BY <2>2
    <3> QED BY <3>1, NatProduct
  <2>4. g \in [0..(m + 1) -> Nat]
    <3> HIDE DEF x
    <3> QED BY <2>3, <2>2
  <2>5. g[0] = c
    BY <2>1, <2>2
  <2>6. ASSUME NEW i \in 1..(m + 1) PROVE g[i] = B * g[i - 1] + s[i]
    <3>1. CASE i = m + 1
      <4>1. g[i - 1] = f[m] /\ g[i] = x
        BY <3>1, <2>2
      <4>2. s[i] = s[m + 1]
        BY <3>1
      <4> HIDE DEF g
      <4> QED BY <4>1, <4>2
    <3>2. CASE i \in 1..m
      <4>1. g[i - 1] = f[i - 1] /\ g[i] = f[i]
        BY <3>2, <2>2
      <4>2. f[i] = B * f[i - 1] + s[i]
        BY <2>1, <3>2
      <4> QED BY <4>1, <4>2
    <3> QED BY <3>1, <3>2, <2>2
  <2>7. Upto(m + 1, g)
    BY <2>5, <2>6
  <2> HIDE DEF g, Upto
  <2> QED BY <2>2, <2>4, <2>7
<1>3. n \in S
  <2> HIDE DEF S
  <2>1. \A i \in 0..n : i \in S
    BY <1>1, <1>2, UpTo
  <2> QED BY <2>1
<1>4. PICK f \in [0..n -> Nat] : Upto(n, f)
  BY <1>3
<1>5. f = [i \in 0..n |-> IF i = 0 THEN c ELSE B * f[i - 1] + s[i]]
  <2>1. \A i \in 0..n : (IF i = 0 THEN c ELSE B * f[i - 1] + s[i]) = f[i]
    <3>1. TAKE i \in 0..n
    <3>2. CASE i = 0
      BY <3>2, <1>4
    <3>3. CASE i # 0
      BY <3>3, <1>4
    <3> QED BY <3>2, <3>3
  <2>2. f = [i \in 0..n |-> f[i]]
    OBVIOUS
  <2> QED BY <2>1, <2>2
<1>6. Solves(f, n, c, B, s) /\ f = Horner(f, n, c, B, s)
  BY <1>4, <1>5 DEF Solves, Horner
<1> QED BY <1>6

LEMMA HornerAt ==
  ASSUME NEW n \in Nat, NEW c, NEW B, NEW s, NEW f, NEW h,
         h = Horner(f, n, c, B, s)
  PROVE  /\ h[0] = c
         /\ \A i \in 1..n : h[i] = B * f[i - 1] + s[i]
         /\ h = [i \in 0..n |-> h[i]]
<1>1. \A i \in 0..n : h[i] = IF i = 0 THEN c ELSE B * f[i - 1] + s[i]
  BY DEF Horner
<1>2. h = [i \in 0..n |-> h[i]]
  BY DEF Horner
<1>3. h[0] = c /\ \A i \in 1..n : h[i] = B * f[i - 1] + s[i]
  BY <1>1
<1> QED BY <1>2, <1>3

LEMMA FixedPoint ==
  ASSUME NEW n \in Nat, NEW c \in Nat, NEW B \in Nat, NEW s \in [1..n -> Nat],
         NEW V, V = Horner(V, n, c, B, s)
  PROVE  Solves(V, n, c, B, s)
<1>1. V = [i \in 0..n |-> V[i]]
  BY HornerAt
<1>2. V[0] = c /\ \A i \in 1..n : V[i] = B * V[i - 1] + s[i]
  BY HornerAt
<1>3. \A i \in 0..n : V[i] \in Nat
  <2> DEFINE S == {i \in 0..n : V[i] \in Nat}
  <2>1. 0 \in S
    BY <1>2
  <2>2. ASSUME NEW i \in 0..(n - 1), i \in S PROVE i + 1 \in S
    <3>1. i + 1 \in 1..n /\ i + 1 \in 0..n /\ (i + 1) - 1 = i
      OBVIOUS
    <3>2. V[i + 1] = B * V[i] + s[i + 1]
      BY <3>1, <1>2
    <3>3. V[i] \in Nat /\ s[i + 1] \in Nat
      BY <2>2, <3>1
    <3>4. V[i + 1] \in Nat
      BY <3>2, <3>3, NatProduct
    <3> QED BY <3>1, <3>4
  <2> HIDE DEF S
  <2>3. \A i \in 0..n : i \in S
    BY <2>1, <2>2, UpTo
  <2> QED BY <2>3 DEF S
<1>4. V \in [0..n -> Nat]
  BY <1>1, <1>3
<1> QED BY <1>2, <1>4 DEF Solves

(* The function that a recursive definition chooses is that solution. *)
LEMMA Chosen ==
  ASSUME NEW n \in Nat, NEW c \in Nat, NEW B \in Nat, NEW s \in [1..n -> Nat],
         NEW V, V = CHOOSE f : f = Horner(f, n, c, B, s)
  PROVE  Solves(V, n, c, B, s)
<1>1. V = Horner(V, n, c, B, s)
  BY Linear
<1> QED BY <1>1, FixedPoint

(***************************************************************************)
(* Sums                                                                    *)
(***************************************************************************)
(* One step of the sum of w, and its partial sums *)
Adding(f, n, w) == [i \in 0..n |-> IF i = 0 THEN 0 ELSE f[i - 1] + w[i]]

PartialSums(f, n, w) ==
    /\ f \in [0..n -> Nat]
    /\ f[0] = 0
    /\ \A i \in 1..n : f[i] = f[i - 1] + w[i]

LEMMA AddingAt ==
  ASSUME NEW n \in Nat, NEW w, NEW f, NEW h, h = Adding(f, n, w)
  PROVE  /\ h[0] = 0
         /\ \A i \in 1..n : h[i] = f[i - 1] + w[i]
         /\ h = [i \in 0..n |-> h[i]]
<1>1. \A i \in 0..n : h[i] = IF i = 0 THEN 0 ELSE f[i - 1] + w[i]
  BY DEF Adding
<1>2. h = [i \in 0..n |-> h[i]]
  BY DEF Adding
<1>3. h[0] = 0 /\ \A i \in 1..n : h[i] = f[i - 1] + w[i]
  BY <1>1
<1> QED BY <1>2, <1>3

LEMMA SumsExist ==
  ASSUME NEW n \in Nat, NEW w \in [1..n -> Nat]
  PROVE  \E f : f = Adding(f, n, w)
<1>1. PICK f : Solves(f, n, 0, 1, w)
  BY Linear
<1>2. \A i \in 1..n : f[i] = f[i - 1] + w[i]
  <2> TAKE i \in 1..n
  <2>1. f[i - 1] \in Nat /\ f[i] = 1 * f[i - 1] + w[i]
    BY <1>1 DEF Solves
  <2> QED BY <2>1
<1>3. \A i \in 0..n : f[i] = IF i = 0 THEN 0 ELSE f[i - 1] + w[i]
  BY <1>1, <1>2 DEF Solves
<1>4. f = [i \in 0..n |-> f[i]]
  BY <1>1 DEF Solves
<1>5. f = Adding(f, n, w)
  BY <1>3, <1>4 DEF Adding
<1> QED BY <1>5

LEMMA AddingSums ==
  ASSUME NEW n \in Nat, NEW w \in [1..n -> Nat], NEW V, V = Adding(V, n, w)
  PROVE  PartialSums(V, n, w)
<1>1. V = [i \in 0..n |-> V[i]]
  BY AddingAt
<1>2. V[0] = 0 /\ \A i \in 1..n : V[i] = V[i - 1] + w[i]
  BY AddingAt
<1>3. \A i \in 0..n : V[i] \in Nat
  <2> DEFINE S == {i \in 0..n : V[i] \in Nat}
  <2>1. 0 \in S
    BY <1>2
  <2>2. ASSUME NEW i \in 0..(n - 1), i \in S PROVE i + 1 \in S
    <3>1. i + 1 \in 1..n /\ i + 1 \in 0..n /\ (i + 1) - 1 = i
      OBVIOUS
    <3>2. V[i + 1] = V[i] + w[i + 1]
      BY <3>1, <1>2
    <3>3. V[i] \in Nat /\ w[i + 1] \in Nat
      BY <2>2, <3>1
    <3> QED BY <3>1, <3>2, <3>3
  <2> HIDE DEF S
  <2>3. \A i \in 0..n : i \in S
    BY <2>1, <2>2, UpTo
  <2> QED BY <2>3 DEF S
<1>4. V \in [0..n -> Nat]
  BY <1>1, <1>3
<1> QED BY <1>2, <1>4 DEF PartialSums

(* The function that the recursive definition of a sum chooses *)
LEMMA SumChosen ==
  ASSUME NEW n \in Nat, NEW w \in [1..n -> Nat],
         NEW V, V = CHOOSE f : f = Adding(f, n, w)
  PROVE  PartialSums(V, n, w)
<1>1. V = Adding(V, n, w)
  BY SumsExist
<1> QED BY <1>1, AddingSums

Nats(w, n) == \A i \in 1..n : w[i] \in Nat

(* The same, of the first numbers of w *)
LEMMA FirstSumsChosen ==
  ASSUME NEW n \in Nat, NEW w, Nats(w, n), NEW V, V = CHOOSE f : f = Adding(f, n, w)
  PROVE  PartialSums(V, n, w)
<1> DEFINE u == [i \in 1..n |-> w[i]]
<1>1. u \in [1..n -> Nat] /\ \A i \in 1..n : u[i] = w[i]
  BY DEF Nats
<1> HIDE DEF u
<1>2. ASSUME NEW f PROVE Adding(f, n, u) = Adding(f, n, w)
  <2>1. \A i \in 0..n : i # 0 => i \in 1..n
    OBVIOUS
  <2> QED BY <1>1, <2>1 DEF Adding
<1>3. PICK f : f = Adding(f, n, u)
  BY <1>1, SumsExist
<1>4. f = Adding(f, n, w)
  BY <1>2, <1>3
<1>5. V = Adding(V, n, w)
  BY <1>4
<1>6. PartialSums(V, n, u)
  BY <1>1, <1>2, <1>5, AddingSums
<1> QED BY <1>1, <1>6 DEF PartialSums

(* Partial sums depend on the numbers summed so far alone. *)
LEMMA SumsAgree ==
  ASSUME NEW n \in Nat, NEW m \in n..(n + 1), NEW w, NEW u,
         \A i \in 1..n : u[i] = w[i],
         NEW f, PartialSums(f, n, w), NEW g, PartialSums(g, m, u)
  PROVE  g[n] = f[n]
<1> DEFINE S == {i \in 0..n : g[i] = f[i]}
<1>1. 0 \in S
  BY DEF PartialSums
<1>2. ASSUME NEW i \in 0..(n - 1), i \in S PROVE i + 1 \in S
  <2>1. i + 1 \in 1..n /\ i + 1 \in 1..m /\ i + 1 \in 0..n /\ (i + 1) - 1 = i
    OBVIOUS
  <2>2. f[i + 1] = f[i] + w[i + 1]
    BY <2>1 DEF PartialSums
  <2>3. g[i + 1] = g[i] + u[i + 1]
    BY <2>1 DEF PartialSums
  <2> QED BY <1>2, <2>1, <2>2, <2>3
<1> HIDE DEF S
<1>3. \A i \in 0..n : i \in S
  BY <1>1, <1>2, UpTo
<1> QED BY <1>3 DEF S

(* The same with one number more *)
LEMMA OneMoreSum ==
  ASSUME NEW w, NEW k \in Nat, NEW i \in Nat, i = k + 1,
         NEW f, PartialSums(f, k, w), NEW g, PartialSums(g, i, w)
  PROVE  g[k] = f[k]
<1> DEFINE S == {j \in 0..k : g[j] = f[j]}
<1>1. 0 \in S
  BY DEF PartialSums
<1>2. ASSUME NEW j \in 0..(k - 1), j \in S PROVE j + 1 \in S
  <2>1. PICK c \in 1..k : c = j + 1 /\ c - 1 = j /\ c \in 1..i /\ c \in 0..k
    OBVIOUS
  <2>2. f[c] = f[c - 1] + w[c] /\ g[c] = g[c - 1] + w[c]
    BY <2>1 DEF PartialSums
  <2> QED BY <1>2, <2>1, <2>2
<1> HIDE DEF S
<1>3. \A j \in 0..k : j \in S
  BY <1>1, <1>2, UpTo
<1> QED BY <1>3 DEF S

(* Sums of natural numbers do not decrease. *)
LEMMA SumsGrow ==
  ASSUME NEW n \in Nat, NEW w, Nats(w, n), NEW f, PartialSums(f, n, w),
         NEW j \in 0..n, NEW k \in j..n
  PROVE  f[j] <= f[k]
<1> DEFINE m == n - j
           S == {i \in 0..m : f[j] <= f[j + i]}
<1>1. f[j] \in Nat /\ m \in Nat /\ j + 0 = j
  BY DEF PartialSums
<1>2. 0 \in S
  BY <1>1
<1>3. ASSUME NEW i \in 0..(m - 1), i \in S PROVE i + 1 \in S
  <2>1. PICK c \in 1..n : c = j + (i + 1) /\ c - 1 = j + i /\ c - 1 \in 0..n
    OBVIOUS
  <2>2. f[c] = f[c - 1] + w[c] /\ f[c - 1] \in Nat /\ w[c] \in Nat
    BY <2>1 DEF PartialSums, Nats
  <2>3. f[j] <= f[c - 1]
    BY <1>3, <2>1
  <2>4. f[j] <= f[c] /\ i + 1 \in 0..m
    BY <1>1, <2>2, <2>3
  <2> QED BY <2>1, <2>4
<1> HIDE DEF S
<1>4. k - j \in 0..m /\ j + (k - j) = k
  OBVIOUS
<1> HIDE DEF m
<1>5. \A i \in 0..m : i \in S
  BY <1>1, <1>2, <1>3, UpTo
<1>6. k - j \in S
  BY <1>4, <1>5
<1> QED BY <1>4, <1>6 DEF S

(* A number up to the last sum is past one of the sums and not the next. *)
LEMMA SumsCover ==
  ASSUME NEW n \in Nat, NEW f \in [0..n -> Nat], f[0] = 0, NEW k \in 1..f[n]
  PROVE  \E i \in 1..n : f[i - 1] < k /\ k <= f[i]
<1> DEFINE S == {m \in 0..n : k <= f[m] => \E i \in 1..n : f[i - 1] < k /\ k <= f[i]}
<1>1. 0 \in S
  OBVIOUS
<1>2. ASSUME NEW m \in 0..(n - 1), m \in S PROVE m + 1 \in S
  <2>1. PICK c \in 1..n : c = m + 1 /\ c - 1 = m /\ c \in 0..n
    OBVIOUS
  <2>2. f[c] \in Nat /\ f[c - 1] \in Nat
    BY <2>1
  <2>3. CASE k <= f[m]
    BY <1>2, <2>1, <2>3
  <2>4. CASE ~ (k <= f[m])
    BY <2>1, <2>2, <2>4
  <2> QED BY <2>3, <2>4
<1> HIDE DEF S
<1>3. \A m \in 0..n : m \in S
  BY <1>1, <1>2, UpTo
<1>4. n \in S /\ k <= f[n]
  BY <1>3
<1> QED BY <1>4 DEF S

(***************************************************************************)
(* Powers                                                                  *)
(***************************************************************************)
(* The recursion of the powers of B, and what solves it *)
Raising(f, n, B) == [k \in 0..n |-> IF k = 0 THEN 1 ELSE B * f[k - 1]]

Powers(f, n, B) ==
    /\ f \in [0..n -> Nat \ {0}]
    /\ f[0] = 1
    /\ \A k \in 1..n : f[k] = B * f[k - 1]

LEMMA RaisingAt ==
  ASSUME NEW n \in Nat, NEW B, NEW f, NEW h, h = Raising(f, n, B)
  PROVE  /\ h[0] = 1
         /\ \A k \in 1..n : h[k] = B * f[k - 1]
         /\ h = [k \in 0..n |-> h[k]]
<1>1. \A k \in 0..n : h[k] = IF k = 0 THEN 1 ELSE B * f[k - 1]
  BY DEF Raising
<1>2. h = [k \in 0..n |-> h[k]]
  BY DEF Raising
<1> QED BY <1>1, <1>2

LEMMA PowersExist ==
  ASSUME NEW n \in Nat, NEW B \in Nat
  PROVE  \E f : f = Raising(f, n, B)
<1> DEFINE z == [i \in 1..n |-> 0]
<1>1. z \in [1..n -> Nat]
  OBVIOUS
<1>2. PICK f : Solves(f, n, 1, B, z)
  <2>1. 1 \in Nat
    OBVIOUS
  <2> HIDE DEF z
  <2> QED BY <1>1, <2>1, Linear
<1>3. ASSUME NEW k \in 1..n PROVE f[k] = B * f[k - 1]
  <2>1. z[k] = 0 /\ f[k - 1] \in Nat
    BY <1>2 DEF Solves
  <2>2. f[k] = B * f[k - 1] + z[k]
    BY <1>2 DEF Solves
  <2> HIDE DEF z
  <2> QED BY <2>1, <2>2
<1>4. \A k \in 0..n : f[k] = IF k = 0 THEN 1 ELSE B * f[k - 1]
  BY <1>2, <1>3 DEF Solves
<1>5. f = [k \in 0..n |-> f[k]]
  BY <1>2 DEF Solves
<1>6. f = Raising(f, n, B)
  BY <1>4, <1>5 DEF Raising
<1> QED BY <1>6

LEMMA RaisingPowers ==
  ASSUME NEW n \in Nat, NEW B \in Nat \ {0}, NEW V, V = Raising(V, n, B)
  PROVE  Powers(V, n, B)
<1>1. V[0] = 1 /\ \A k \in 1..n : V[k] = B * V[k - 1]
  BY RaisingAt
<1>2. V = [k \in 0..n |-> V[k]]
  BY RaisingAt
<1> DEFINE S == {k \in 0..n : V[k] \in Nat \ {0}}
<1>3. 0 \in S
  BY <1>1
<1>4. ASSUME NEW i \in 0..(n - 1), i \in S PROVE i + 1 \in S
  <2>1. i + 1 \in 1..n /\ i + 1 \in 0..n /\ (i + 1) - 1 = i
    OBVIOUS
  <2>2. V[i + 1] = B * V[i]
    BY <1>1, <2>1
  <2>3. V[i] \in Nat \ {0}
    BY <1>4
  <2>4. \A a \in Nat \ {0} : B * a \in Nat \ {0}
    OBVIOUS
  <2> QED BY <2>1, <2>2, <2>3, <2>4
<1>5. \A k \in 0..n : V[k] \in Nat \ {0}
  <2> HIDE DEF S
  <2>1. \A k \in 0..n : k \in S
    BY <1>3, <1>4, UpTo
  <2> QED BY <2>1 DEF S
<1>6. V \in [0..n -> Nat \ {0}]
  BY <1>2, <1>5
<1> QED BY <1>1, <1>6 DEF Powers

(* The function that the recursion names has the powers as its values. *)
LEMMA PowersChosen ==
  ASSUME NEW n \in Nat, NEW B \in Nat \ {0},
         NEW V, V = CHOOSE f : f = Raising(f, n, B)
  PROVE  Powers(V, n, B)
<1>1. V = Raising(V, n, B)
  BY PowersExist
<1> QED BY <1>1, RaisingPowers

(* A higher power is no smaller. *)
LEMMA PowersGrow ==
  ASSUME NEW n \in Nat, NEW B \in Nat \ {0}, NEW f, Powers(f, n, B),
         NEW j \in 0..n, NEW k \in j..n
  PROVE  f[j] <= f[k]
<1> DEFINE m == n - j
           S == {i \in 0..m : f[j] <= f[j + i]}
<1>1. f[j] \in Nat /\ m \in Nat /\ j + 0 = j
  BY DEF Powers
<1>2. 0 \in S
  BY <1>1
<1>3. ASSUME NEW i \in 0..(m - 1), i \in S PROVE i + 1 \in S
  <2>1. /\ j + (i + 1) \in 1..n /\ (j + (i + 1)) - 1 = j + i
        /\ i + 1 \in 0..m /\ j + i \in 0..n
    OBVIOUS
  <2>2. f[j + (i + 1)] = B * f[j + i] /\ f[j + i] \in Nat
    BY <2>1 DEF Powers
  <2>3. \A a, b \in Nat : a <= b => a <= B * b
    OBVIOUS
  <2>4. f[j] <= f[j + i]
    BY <1>3
  <2> QED BY <1>1, <2>1, <2>2, <2>3, <2>4
<1>4. \A i \in 0..m : i \in S
  <2> HIDE DEF S, m
  <2> QED BY <1>1, <1>2, <1>3, UpTo
<1>5. k - j \in 0..m /\ j + (k - j) = k
  OBVIOUS
<1>6. f[j] <= f[j + (k - j)]
  BY <1>4, <1>5
<1> QED BY <1>5, <1>6

(***************************************************************************)
(* Division                                                                *)
(***************************************************************************)
(* Division is determined by its quotient and remainder. *)
LEMMA DivUnique ==
  ASSUME NEW d \in Nat \ {0}, NEW t \in Nat, NEW w \in Nat, w < d
  PROVE  (d * t + w) \div d = t
OBVIOUS

LEMMA DivMod ==
  ASSUME NEW v \in Nat, NEW d \in Nat \ {0}
  PROVE  /\ v \div d \in Nat
         /\ v % d \in 0..(d - 1)
         /\ v = d * (v \div d) + (v % d)
OBVIOUS

(* Dividing by a product is dividing twice. *)
LEMMA DivDiv ==
  ASSUME NEW v \in Nat, NEW p \in Nat \ {0}, NEW B \in Nat \ {0}
  PROVE  v \div (B * p) = (v \div p) \div B
<1> DEFINE q == v \div p
           t == q \div B
           w == p * (q % B) + (v % p)
<1>1. /\ q \in Nat /\ v % p \in 0..(p - 1) /\ v = p * q + (v % p)
  BY DivMod
<1>2. /\ t \in Nat /\ q % B \in 0..(B - 1) /\ q = B * t + (q % B)
  <2> HIDE DEF q
  <2> QED BY <1>1, DivMod
<1> HIDE DEF q, t
<1>3. v = (B * p) * t + w
  <2>1. \A a, b, c, d, e \in Int : p * (B * a + b) + c = (B * p) * a + (p * b + c)
    OBVIOUS
  <2>2. t \in Int /\ q % B \in Int /\ v % p \in Int
    BY <1>1, <1>2
  <2>3. v = p * (B * t + (q % B)) + (v % p)
    BY <1>1, <1>2
  <2> QED BY <2>1, <2>2, <2>3
<1>4. w \in Nat /\ w < B * p
  <2>1. \A u \in 0..(B - 1), r \in 0..(p - 1) :
            p * u + r \in Nat /\ p * u + r < B * p
    <3> TAKE u \in 0..(B - 1), r \in 0..(p - 1)
    <3>1. p * u + r \in Nat
      OBVIOUS
    <3>2. p * (u + 1) <= p * B
      OBVIOUS
    <3> QED BY <3>1, <3>2
  <2> QED BY <1>1, <1>2, <2>1
<1>5. B * p \in Nat \ {0}
  OBVIOUS
<1> HIDE DEF w
<1>6. v \div (B * p) = t
  <2> DEFINE d == B * p
  <2>1. d \in Nat \ {0} /\ w < d /\ v = d * t + w
    BY <1>3, <1>4, <1>5
  <2> HIDE DEF d
  <2>2. v \div d = t
    BY <2>1, <1>2, <1>4, DivUnique
  <2> QED BY <2>2 DEF d
<1> QED BY <1>6 DEF t, q

LEMMA Remainders ==
  ASSUME NEW p \in Nat, NEW B \in Nat, NEW a \in Nat, NEW u \in Nat,
         NEW r \in Nat, NEW m \in Nat,
         p * (B * a + u) + r = (B * p) * a + m
  PROVE  m = p * u + r
<1>1. p * (B * a + u) = (B * p) * a + p * u
  OBVIOUS
<1> QED BY <1>1

(* The remainder of a division by a product, from the two divisions *)
LEMMA ModMod ==
  ASSUME NEW v \in Nat, NEW p \in Nat \ {0}, NEW B \in Nat \ {0}
  PROVE  v % (B * p) = p * ((v \div p) % B) + (v % p)
<1>1. PICK q \in Nat : q = v \div p
  BY DivMod
<1>2. PICK r \in Nat : r = v % p
  BY DivMod
<1>3. PICK t \in Nat : t = q \div B
  BY DivMod
<1>4. PICK u \in Nat : u = q % B
  BY DivMod
<1>5. PICK d \in Nat \ {0} : d = B * p
  OBVIOUS
<1>6. PICK m \in Nat : m = v % d
  BY DivMod
<1>7. v = p * q + r /\ q = B * t + u
  BY <1>1, <1>2, <1>3, <1>4, DivMod
<1>8. v = d * t + m
  <2>1. v \div d = t
    BY <1>1, <1>3, <1>5, DivDiv
  <2>2. v = d * (v \div d) + (v % d)
    BY DivMod
  <2> QED BY <1>6, <2>1, <2>2
<1>9. p * (B * t + u) + r = (B * p) * t + m
  BY <1>5, <1>7, <1>8
<1>10. m = p * u + r
  BY <1>9, Remainders
<1> QED BY <1>1, <1>2, <1>4, <1>5, <1>6, <1>10

(***************************************************************************)
(* Digits                                                                  *)
(***************************************************************************)
(* The digits of v in base B, the highest of n first *)
Digits(s, n, P, B, v) == \A i \in 1..n : s[i] = (v \div P[n - i]) % B

LEMMA DigitsAreSmall ==
  ASSUME NEW N \in Nat, NEW B \in Nat \ {0}, NEW P, Powers(P, N, B),
         NEW n \in 0..N, NEW v \in Nat, NEW s, Digits(s, n, P, B, v)
  PROVE  \A i \in 1..n : s[i] \in 0..(B - 1)
<1> TAKE i \in 1..n
<1>1. n - i \in 0..N
  OBVIOUS
<1>2. P[n - i] \in Nat \ {0}
  BY <1>1 DEF Powers
<1>3. PICK x \in Nat : x = v \div P[n - i]
  BY <1>2, DivMod
<1>4. x % B \in 0..(B - 1)
  BY DivMod
<1> QED BY <1>3, <1>4 DEF Digits

(* Horner's rule over the digits of a number gives the number back. *)
LEMMA DigitsValue ==
  ASSUME NEW N \in Nat, NEW B \in Nat \ {0}, NEW P, Powers(P, N, B),
         NEW n \in 0..N, NEW v \in Nat, v < P[n], NEW s,
         Digits(s, n, P, B, v), NEW f, Solves(f, n, 0, B, s)
  PROVE  f[n] = v
<1>1. n \in Nat /\ n \in 0..n
  OBVIOUS
<1>2. /\ f[0] = 0
      /\ \A i \in 1..n : f[i] = B * f[i - 1] + s[i]
  BY DEF Solves
<1> DEFINE S == {i \in 0..n : f[i] = v \div P[n - i]}
<1>3. 0 \in S
  <2>1. P[n] \in Nat \ {0} /\ n - 0 = n
    BY DEF Powers
  <2>2. \A p \in Nat \ {0} : v < p => v \div p = 0
    OBVIOUS
  <2> QED BY <1>1, <1>2, <2>1, <2>2
<1>4. ASSUME NEW i \in 0..(n - 1), i \in S PROVE i + 1 \in S
  <2> DEFINE k == n - (i + 1)
             p == P[k]
             x == v \div p
  <2>1. /\ i + 1 \in 1..n /\ i + 1 \in 0..n /\ (i + 1) - 1 = i
        /\ k \in 0..N /\ n - i \in 1..N /\ (n - i) - 1 = k
    OBVIOUS
  <2>2. p \in Nat \ {0}
    BY <2>1 DEF Powers
  <2>3. P[n - i] = B * p
    BY <2>1 DEF Powers
  <2>4. f[i] = v \div (B * p)
    BY <1>4, <2>3
  <2> HIDE DEF p
  <2>5. f[i] = x \div B /\ x \in Nat
    BY <2>2, <2>4, DivDiv, DivMod
  <2>6. f[i + 1] = B * f[i] + (x % B)
    BY <1>2, <2>1 DEF p, Digits
  <2> HIDE DEF x
  <2>7. x = B * (x \div B) + (x % B)
    BY <2>5, DivMod
  <2>8. f[i + 1] = x
    BY <2>5, <2>6, <2>7
  <2> QED BY <2>1, <2>8 DEF x, p
<1> HIDE DEF S
<1>5. \A i \in 0..n : i \in S
  BY <1>1, <1>3, <1>4, UpTo
<1>6. f[n] = v \div P[0]
  <2>1. n \in S /\ n - n = 0
    BY <1>1, <1>5
  <2> QED BY <2>1 DEF S
<1>7. v \div 1 = v /\ P[0] = 1
  BY DEF Powers
<1> QED BY <1>6, <1>7

(***************************************************************************)
(* Flattening                                                              *)
(***************************************************************************)
(* One step of the recursion of FlattenSeq *)
Joining(f, s, n) ==
    [i \in 1..n |-> IF i = 1 THEN s[i] ELSE f[i - 1] \o s[i]]

Joins(f, s, n) == f[1] = s[1] /\ \A i \in 2..n : f[i] = f[i - 1] \o s[i]

LEMMA JoiningExists ==
  ASSUME NEW n \in Nat, NEW s
  PROVE  \E f : f = Joining(f, s, n)
<1> DEFINE Upto(f, m) == /\ f = [i \in 1..m |-> f[i]]
                         /\ \A i \in 1..m :
                              f[i] = IF i = 1 THEN s[i] ELSE f[i - 1] \o s[i]
           S == {m \in 0..n : \E f : Upto(f, m)}
<1>1. 0 \in S
  <2> DEFINE g == [i \in 1..0 |-> i]
  <2>1. Upto(g, 0)
    OBVIOUS
  <2>2. 0 \in 0..n
    OBVIOUS
  <2> HIDE DEF g, Upto
  <2> QED BY <2>1, <2>2
<1>2. ASSUME NEW m \in 0..(n - 1), m \in S PROVE m + 1 \in S
  <2>1. PICK f : Upto(f, m)
    BY <1>2
  <2>2. m + 1 \in 0..n /\ m + 1 \in 1..(m + 1)
    OBVIOUS
  <2> DEFINE x == IF m + 1 = 1 THEN s[m + 1] ELSE f[m] \o s[m + 1]
             g == [i \in 1..(m + 1) |-> IF i = m + 1 THEN x ELSE f[i]]
  <2>3. g[m + 1] = x /\ \A i \in 1..m : g[i] = f[i]
    <3> HIDE DEF x
    <3> QED BY <2>2
  <2>4. g = [i \in 1..(m + 1) |-> g[i]]
    <3> HIDE DEF x
    <3> QED OBVIOUS
  <2> HIDE DEF g
  <2>5. ASSUME NEW i \in 1..(m + 1)
        PROVE  g[i] = IF i = 1 THEN s[i] ELSE g[i - 1] \o s[i]
    <3>1. CASE i = m + 1
      <4>1. i # 1 => g[i - 1] = f[m]
        BY <2>3, <3>1
      <4> QED BY <2>3, <3>1, <4>1
    <3>2. CASE i \in 1..m
      <4>1. i # 1 => g[i - 1] = f[i - 1]
        BY <2>3, <3>2
      <4>2. f[i] = IF i = 1 THEN s[i] ELSE f[i - 1] \o s[i]
        BY <2>1, <3>2
      <4> QED BY <2>3, <3>2, <4>1, <4>2
    <3> QED BY <3>1, <3>2
  <2>6. Upto(g, m + 1)
    BY <2>4, <2>5
  <2> HIDE DEF Upto
  <2> QED BY <2>2, <2>6
<1>3. n \in S
  <2> HIDE DEF S
  <2>1. \A i \in 0..n : i \in S
    BY <1>1, <1>2, UpTo
  <2> QED BY <2>1
<1>4. PICK f : Upto(f, n)
  BY <1>3
<1>5. f = Joining(f, s, n)
  BY <1>4 DEF Joining
<1> QED BY <1>5

LEMMA JoiningAt ==
  ASSUME NEW n \in Nat \ {0}, NEW s, NEW f, f = Joining(f, s, n)
  PROVE  Joins(f, s, n)
<1> DEFINE h == Joining(f, s, n)
<1>1. \A i \in 1..n : h[i] = IF i = 1 THEN s[i] ELSE f[i - 1] \o s[i]
  BY DEF Joining
<1>2. f = h
  OBVIOUS
<1> HIDE DEF h
<1>3. \A i \in 1..n : f[i] = IF i = 1 THEN s[i] ELSE f[i - 1] \o s[i]
  BY <1>1, <1>2
<1>4. f[1] = s[1]
  BY <1>3
<1>5. ASSUME NEW i \in 2..n PROVE f[i] = f[i - 1] \o s[i]
  <2>1. i \in 1..n /\ i # 1
    OBVIOUS
  <2> QED BY <1>3, <2>1
<1> QED BY <1>4, <1>5 DEF Joins

(* Sequences are equal when their lengths and their elements are. *)
LEMMA SameSeq ==
  ASSUME NEW T, NEW x \in Seq(T), NEW y \in Seq(T), Len(x) = Len(y),
         \A i \in 1..Len(x) : x[i] = y[i]
  PROVE  x = y
OBVIOUS

(* A function on 1..n is a sequence of length n. *)
LEMMA FunctionIsSeq ==
  ASSUME NEW n \in Nat, NEW T, NEW x \in [1..n -> T]
  PROVE  x \in Seq(T) /\ Len(x) = n
OBVIOUS

LEMMA JoinedLength ==
  ASSUME NEW T, NEW a \in Seq(T), NEW b \in Seq(T)
  PROVE  a \o b \in Seq(T) /\ Len(a \o b) = Len(a) + Len(b)
OBVIOUS

(* What is known of three parts put together *)
Joined(a, b, t, T) ==
    /\ a \o b \in Seq(T) /\ Len(a \o b) = Len(a) + Len(b)
    /\ b \o t \in Seq(T) /\ (a \o b) \o t \in Seq(T)
    /\ (a \o b) \o t = a \o (b \o t)
    /\ Len((a \o b) \o t) = (Len(a) + Len(b)) + Len(t)
    /\ \A k \in 1..Len(b) : ((a \o b) \o t)[Len(a) + k] = b[k]

LEMMA ThreeParts ==
  ASSUME NEW T, NEW a \in Seq(T), NEW b \in Seq(T), NEW t \in Seq(T)
  PROVE  Joined(a, b, t, T)
<1>1. a \o b \in Seq(T) /\ b \o t \in Seq(T) /\ (a \o b) \o t \in Seq(T)
  OBVIOUS
<1>2. (a \o b) \o t = a \o (b \o t)
  OBVIOUS
<1>3. Len(a \o b) = Len(a) + Len(b) /\ Len((a \o b) \o t) = (Len(a) + Len(b)) + Len(t)
  OBVIOUS
<1>4. ASSUME NEW k \in 1..Len(b) PROVE ((a \o b) \o t)[Len(a) + k] = b[k]
  OBVIOUS
<1> QED BY <1>1, <1>2, <1>3, <1>4 DEF Joined

SeqsOf(s, n, T) == s \in [1..n -> Seq(T)]

LEMMA FlattenJoins ==
  ASSUME NEW n \in Nat \ {0}, NEW s, Len(s) = n
  PROVE  \E f : Joins(f, s, n) /\ FlattenSeq(s) = f[n]
<1> DEFINE f == CHOOSE h : h = Joining(h, s, n)
<1>1. FlattenSeq(s) = f[n]
  BY DEF FlattenSeq, Joining
<1>2. f = Joining(f, s, n)
  BY JoiningExists
<1> HIDE DEF f
<1>3. Joins(f, s, n)
  BY <1>2, JoiningAt
<1> QED BY <1>1, <1>3

(* The prefixes of a flattened sequence *)
Accumulates(g, s, n) == g[0] = <<>> /\ \A i \in 1..n : g[i] = g[i - 1] \o s[i]

LEMMA JoinsType ==
  ASSUME NEW T, NEW n \in Nat \ {0}, NEW s, SeqsOf(s, n, T), NEW f, Joins(f, s, n)
  PROVE  \A i \in 1..n : f[i] \in Seq(T)
<1> USE DEF SeqsOf
<1> DEFINE S == {j \in 0..(n - 1) : f[j + 1] \in Seq(T)}
<1>1. f[1] = s[1] /\ \A i \in 2..n : f[i] = f[i - 1] \o s[i]
  BY DEF Joins
<1>2. 0 \in S
  <2>1. 1 \in 1..n /\ 0 \in 0..(n - 1) /\ 0 + 1 = 1
    OBVIOUS
  <2> QED BY <1>1, <2>1
<1>3. ASSUME NEW j \in 0..((n - 1) - 1), j \in S PROVE j + 1 \in S
  <2>1. PICK k \in 2..n : k = (j + 1) + 1 /\ k - 1 = j + 1
    OBVIOUS
  <2>2. f[k - 1] \in Seq(T)
    BY <1>3, <2>1
  <2>3. k \in 1..n /\ s[k] \in Seq(T)
    OBVIOUS
  <2>6. f[k] = f[k - 1] \o s[k]
    BY <1>1
  <2>4. f[k] \in Seq(T)
    BY <2>2, <2>3, <2>6, JoinedLength
  <2>5. j + 1 \in 0..(n - 1)
    OBVIOUS
  <2> QED BY <2>1, <2>4, <2>5
<1>4. PICK m \in Nat : m = n - 1
  OBVIOUS
<1> HIDE DEF S
<1>5. \A j \in 0..m : j \in S
  BY <1>2, <1>3, <1>4, UpTo
<1>6. ASSUME NEW i \in 1..n PROVE f[i] \in Seq(T)
  <2>1. i - 1 \in S /\ (i - 1) + 1 = i
    BY <1>4, <1>5
  <2> QED BY <2>1 DEF S
<1> QED BY <1>6

(* What FlattenSeq computes *)
LEMMA FlattenPrefixes ==
  ASSUME NEW T, NEW n \in Nat, NEW s, SeqsOf(s, n, T)
  PROVE  \E g \in [0..n -> Seq(T)] : Accumulates(g, s, n) /\ FlattenSeq(s) = g[n]
<1>1. Len(s) = n /\ \A i \in 1..n : s[i] \in Seq(T)
  BY DEF SeqsOf
<1>2. CASE n = 0
  <2> DEFINE g == [i \in 0..0 |-> <<>>]
  <2>1. FlattenSeq(s) = s
    BY <1>1, <1>2 DEF FlattenSeq
  <2>2. s = <<>>
    BY <1>2 DEF SeqsOf
  <2>3. g \in [0..0 -> Seq(T)] /\ g[0] = <<>>
    OBVIOUS
  <2>4. Accumulates(g, s, 0)
    BY <2>3 DEF Accumulates
  <2> HIDE DEF g
  <2> QED BY <1>2, <2>1, <2>2, <2>3, <2>4
<1>3. CASE n # 0
  <2>1. n \in Nat \ {0} /\ n \in 0..n /\ n \in 1..n
    BY <1>3
  <2>2. PICK f : Joins(f, s, n) /\ FlattenSeq(s) = f[n]
    BY <1>1, <2>1, FlattenJoins
  <2>3. \A i \in 1..n : f[i] \in Seq(T)
    BY <2>1, <2>2, JoinsType
  <2> DEFINE g == [i \in 0..n |-> IF i = 0 THEN <<>> ELSE f[i]]
  <2>4. g \in [0..n -> Seq(T)]
    <3>1. \A i \in 0..n : (IF i = 0 THEN <<>> ELSE f[i]) \in Seq(T)
      BY <2>3
    <3> QED BY <3>1
  <2>5. g[0] = <<>> /\ \A i \in 1..n : g[i] = f[i]
    OBVIOUS
  <2> HIDE DEF g
  <2>6. ASSUME NEW i \in 1..n PROVE g[i] = g[i - 1] \o s[i]
    <3>1. CASE i = 1
      <4>1. f[1] = s[1]
        BY <2>2 DEF Joins
      <4>2. g[i - 1] = <<>> /\ g[i] = s[i] /\ s[i] \in Seq(T)
        BY <1>1, <2>5, <3>1, <4>1
      <4>3. \A x \in Seq(T) : <<>> \o x = x
        OBVIOUS
      <4> QED BY <4>2, <4>3
    <3>2. CASE i # 1
      <4>1. i \in 2..n /\ i - 1 \in 1..n
        BY <3>2
      <4> QED BY <2>2, <2>5, <4>1 DEF Joins
    <3> QED BY <3>1, <3>2
  <2>7. Accumulates(g, s, n)
    BY <2>5, <2>6 DEF Accumulates
  <2> QED BY <2>1, <2>2, <2>4, <2>5, <2>7
<1> QED BY <1>2, <1>3

(* The whole begins with each of its prefixes. *)
LEMMA PrefixSplits ==
  ASSUME NEW T, NEW n \in Nat, NEW s, SeqsOf(s, n, T),
         NEW g \in [0..n -> Seq(T)], Accumulates(g, s, n)
  PROVE  \A i \in 0..n : \E t \in Seq(T) : g[n] = g[i] \o t
<1> DEFINE S == {j \in 0..n : \E t \in Seq(T) : g[n] = g[n - j] \o t}
<1>1. 0 \in S
  <2>1. n - 0 = n /\ 0 \in 0..n /\ n \in 0..n /\ <<>> \in Seq(T)
    OBVIOUS
  <2>2. \A x \in Seq(T) : x \o <<>> = x
    OBVIOUS
  <2>3. g[n] = g[n - 0] \o <<>>
    BY <2>1, <2>2
  <2> QED BY <2>1, <2>3
<1>2. ASSUME NEW j \in 0..(n - 1), j \in S PROVE j + 1 \in S
  <2>1. PICK t \in Seq(T) : g[n] = g[n - j] \o t
    BY <1>2
  <2>2. PICK k \in 1..n : k = n - j /\ k - 1 = n - (j + 1) /\ k - 1 \in 0..n
    OBVIOUS
  <2>3. g[k] = g[k - 1] \o s[k] /\ s[k] \in Seq(T) /\ g[k - 1] \in Seq(T)
    BY <2>2 DEF Accumulates, SeqsOf
  <2>4. /\ (g[k - 1] \o s[k]) \o t = g[k - 1] \o (s[k] \o t)
        /\ s[k] \o t \in Seq(T)
    <3>1. PICK a \in Seq(T) : a = g[k - 1]
      BY <2>3
    <3>2. PICK b \in Seq(T) : b = s[k]
      BY <2>3
    <3>3. Joined(a, b, t, T)
      BY ThreeParts
    <3>4. (a \o b) \o t = a \o (b \o t) /\ b \o t \in Seq(T)
      BY <3>3 DEF Joined
    <3> QED BY <3>1, <3>2, <3>4
  <2>5. g[n] = g[k - 1] \o (s[k] \o t) /\ s[k] \o t \in Seq(T)
    BY <2>1, <2>2, <2>3, <2>4
  <2>6. j + 1 \in 0..n
    OBVIOUS
  <2> QED BY <2>2, <2>5, <2>6
<1> HIDE DEF S
<1>3. \A j \in 0..n : j \in S
  BY <1>1, <1>2, UpTo
<1>4. ASSUME NEW i \in 0..n PROVE \E t \in Seq(T) : g[n] = g[i] \o t
  <2>1. n - i \in S /\ n - (n - i) = i
    BY <1>3
  <2> QED BY <2>1 DEF S
<1> QED BY <1>4

(* Where the pieces of a flattened sequence begin *)
Begins(f, s, n) ==
    /\ f \in [0..n -> Nat] /\ f[0] = 0
    /\ \A i \in 1..n : f[i] = f[i - 1] + Len(s[i])

(* x holds the pieces there *)
Laid(x, f, s, n, T) ==
    /\ x \in Seq(T) /\ Len(x) = f[n]
    /\ \A i \in 1..n : \A j \in 1..Len(s[i]) : x[f[i - 1] + j] = s[i][j]

LEMMA FlattenPieces ==
  ASSUME NEW T, NEW n \in Nat, NEW s, SeqsOf(s, n, T), NEW f, Begins(f, s, n)
  PROVE  Laid(FlattenSeq(s), f, s, n, T)
<1>1. PICK g \in [0..n -> Seq(T)] : Accumulates(g, s, n) /\ FlattenSeq(s) = g[n]
  BY FlattenPrefixes
<1>2. \A i \in 1..n : /\ g[i] = g[i - 1] \o s[i] /\ s[i] \in Seq(T)
                      /\ g[i - 1] \in Seq(T) /\ g[i] \in Seq(T)
                      /\ i \in 0..n /\ i - 1 \in 0..n
                      /\ f[i] = f[i - 1] + Len(s[i]) /\ f[i - 1] \in Nat
  <2> TAKE i \in 1..n
  <2>1. g[i] = g[i - 1] \o s[i]
    BY <1>1 DEF Accumulates
  <2>2. i \in 0..n /\ i - 1 \in 0..n
    OBVIOUS
  <2>3. f[i] = f[i - 1] + Len(s[i]) /\ f[i - 1] \in Nat
    BY <2>2 DEF Begins
  <2> QED BY <2>1, <2>2, <2>3 DEF SeqsOf
<1> DEFINE S == {i \in 0..n : Len(g[i]) = f[i]}
<1>3. 0 \in S
  BY <1>1 DEF Accumulates, Begins
<1>4. ASSUME NEW i \in 0..(n - 1), i \in S PROVE i + 1 \in S
  <2>1. PICK k \in 1..n : k = i + 1 /\ k - 1 = i /\ k \in 0..n
    OBVIOUS
  <2>2. Len(g[k]) = Len(g[i]) + Len(s[k])
    <3>1. g[k] = g[i] \o s[k] /\ g[i] \in Seq(T) /\ s[k] \in Seq(T)
      BY <1>2, <2>1
    <3> QED BY <3>1, JoinedLength
  <2>3. Len(g[k]) = f[k]
    BY <1>2, <1>4, <2>1, <2>2
  <2> QED BY <2>1, <2>3
<1>5. \A i \in 0..n : Len(g[i]) = f[i]
  <2> HIDE DEF S
  <2>1. \A i \in 0..n : i \in S
    BY <1>3, <1>4, UpTo
  <2> QED BY <2>1 DEF S
<1>6. ASSUME NEW i \in 1..n, NEW j \in 1..Len(s[i])
      PROVE  g[n][f[i - 1] + j] = s[i][j]
  <2>1. PICK t \in Seq(T) : g[n] = g[i] \o t
    <3>1. \A m \in 0..n : \E t \in Seq(T) : g[n] = g[m] \o t
      BY <1>1, PrefixSplits
    <3> QED BY <1>2, <3>1
  <2>2. PICK a \in Seq(T) : a = g[i - 1] /\ Len(a) = f[i - 1]
    BY <1>2, <1>5
  <2>3. PICK b \in Seq(T) : b = s[i]
    BY <1>2
  <2>4. j \in 1..Len(b)
    BY <2>3
  <2>5. ((a \o b) \o t)[Len(a) + j] = b[j]
    <3>1. Joined(a, b, t, T)
      BY ThreeParts
    <3> QED BY <2>4, <3>1 DEF Joined
  <2> QED BY <1>2, <2>1, <2>2, <2>3, <2>5
<1>7. n \in 0..n
  OBVIOUS
<1> QED BY <1>1, <1>5, <1>6, <1>7 DEF Laid

LengthsAre(s, n, w) == \A i \in 1..n : Len(s[i]) = w

(* Pieces of one length lie at its multiples. *)
LEMMA FlattenUniform ==
  ASSUME NEW T, NEW n \in Nat, NEW w \in Nat, NEW s, SeqsOf(s, n, T),
         LengthsAre(s, n, w)
  PROVE  /\ FlattenSeq(s) \in Seq(T) /\ Len(FlattenSeq(s)) = w * n
         /\ \A i \in 1..n, j \in 1..w : FlattenSeq(s)[w * (i - 1) + j] = s[i][j]
<1> DEFINE f == [i \in 0..n |-> w * i]
<1>1. \A i \in 0..n : w * i \in Nat
  OBVIOUS
<1>2. f \in [0..n -> Nat] /\ \A i \in 0..n : f[i] = w * i
  BY <1>1
<1> HIDE DEF f
<1>3. f[0] = 0 /\ f[n] = w * n
  <2>1. 0 \in 0..n /\ n \in 0..n /\ w * 0 = 0
    OBVIOUS
  <2> QED BY <1>2, <2>1
<1>4. ASSUME NEW i \in 1..n
      PROVE  f[i] = f[i - 1] + Len(s[i]) /\ f[i - 1] = w * (i - 1) /\ Len(s[i]) = w
  <2>1. i \in 0..n /\ i - 1 \in 0..n /\ w * i = w * (i - 1) + w
    OBVIOUS
  <2>2. Len(s[i]) = w
    BY DEF LengthsAre
  <2> QED BY <1>2, <2>1, <2>2
<1>5. Begins(f, s, n)
  BY <1>2, <1>3, <1>4 DEF Begins
<1>6. PICK x : x = FlattenSeq(s) /\ Laid(x, f, s, n, T)
  BY <1>5, FlattenPieces
<1>7. /\ x \in Seq(T) /\ Len(x) = f[n]
      /\ \A i \in 1..n : \A j \in 1..Len(s[i]) : x[f[i - 1] + j] = s[i][j]
  BY <1>6 DEF Laid
<1>8. ASSUME NEW i \in 1..n, NEW j \in 1..w PROVE x[w * (i - 1) + j] = s[i][j]
  BY <1>4, <1>7
<1> QED BY <1>3, <1>6, <1>7, <1>8

LEMMA SubSeqJoins ==
  ASSUME NEW T, NEW x \in Seq(T), NEW a \in Nat, NEW b \in Nat, a <= b, b <= Len(x)
  PROVE  SubSeq(x, 1, a) \o SubSeq(x, a + 1, b) = SubSeq(x, 1, b)
OBVIOUS

(* Flattening one piece more *)
LEMMA FlattenOneMore ==
  ASSUME NEW T, NEW n \in Nat, NEW s, SeqsOf(s, n, T), NEW u, SeqsOf(u, n + 1, T),
         \A i \in 1..n : u[i] = s[i]
  PROVE  FlattenSeq(u) = FlattenSeq(s) \o u[n + 1] /\ FlattenSeq(s) \in Seq(T)
<1>1. PICK g \in [0..n -> Seq(T)] : Accumulates(g, s, n) /\ FlattenSeq(s) = g[n]
  BY FlattenPrefixes
<1>2. n + 1 \in Nat
  OBVIOUS
<1>3. PICK h \in [0..(n + 1) -> Seq(T)] :
        Accumulates(h, u, n + 1) /\ FlattenSeq(u) = h[n + 1]
  BY <1>2, FlattenPrefixes
<1> DEFINE S == {i \in 0..n : g[i] = h[i]}
<1>4. 0 \in S
  BY <1>1, <1>3 DEF Accumulates
<1>5. ASSUME NEW i \in 0..(n - 1), i \in S PROVE i + 1 \in S
  <2>1. PICK k \in 1..n : k = i + 1 /\ k - 1 = i /\ k \in 0..n /\ k \in 1..(n + 1)
    OBVIOUS
  <2>2. g[k] = g[i] \o s[k] /\ h[k] = h[i] \o u[k]
    BY <1>1, <1>3, <2>1 DEF Accumulates
  <2>3. u[k] = s[k] /\ g[i] = h[i]
    BY <1>5
  <2> QED BY <2>1, <2>2, <2>3
<1> HIDE DEF S
<1>6. n \in S
  <2>1. \A i \in 0..n : i \in S
    BY <1>4, <1>5, UpTo
  <2> QED BY <2>1
<1>7. n + 1 \in 1..(n + 1) /\ (n + 1) - 1 = n
  OBVIOUS
<1>8. h[n + 1] = h[n] \o u[n + 1]
  BY <1>3, <1>7 DEF Accumulates
<1>9. n \in 0..n
  OBVIOUS
<1> QED BY <1>1, <1>3, <1>6, <1>8, <1>9 DEF S
=============================================================================
