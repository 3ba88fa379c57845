----------------------------- MODULE Induction -----------------------------
(***************************************************************************)
(* Facts about what is computed step by step: induction and recursion over *)
(* numbers, quotients, and the sequences that SetToSeq and FlattenSeq      *)
(* make.  The induction theorems of the library take a predicate as a      *)
(* parameter, which none of the provers can instantiate; with a set the    *)
(* principle is a fact of first order, and it follows from the             *)
(* well-foundedness of < on Nat.  Where a hypothesis is a quantified       *)
(* formula, it has a name here, so that it can be cited as a whole.        *)
(***************************************************************************)
EXTENDS Integers, SequencesExt, WellFoundedInduction, FiniteSetTheorems, SequenceTheorems, TLAPS

(* A set with 0 in it that is closed under the successor has all numbers.  *)
LEMMA SetInduction ==
  ASSUME NEW S, 0 \in S, \A n \in Nat : n \in S => n + 1 \in S
  PROVE  Nat \subseteq S
<1> DEFINE R == OpToRel(<, Nat)
           T == Nat \ S
<1>1. ASSUME T # {} PROVE FALSE
  <2>1. IsWellFoundedOn(R, Nat) BY NatLessThanWellFounded
  <2>2. \A x, y \in Nat : y < x => <<y, x>> \in R BY DEF OpToRel
  <2> HIDE DEF R
  <2>3. PICK x \in T : \A y \in T : ~(<<y, x>> \in R)
    BY <1>1, <2>1, WFMin
  <2>4. x # 0 /\ x - 1 \in Nat /\ x - 1 < x /\ (x - 1) + 1 = x
    BY <2>3
  <2>5. x - 1 \in S BY <2>2, <2>3, <2>4
  <2> QED BY <2>3, <2>4, <2>5
<1> QED BY <1>1

(* The same for the numbers up to n.                                       *)
LEMMA InductionUpTo ==
  ASSUME NEW n \in Nat, NEW S, 0 \in S, \A k \in 1..n : k - 1 \in S => k \in S
  PROVE  0..n \subseteq S
<1> DEFINE T == {k \in Nat : k <= n => k \in S}
<1>1. 0 \in T OBVIOUS
<1>2. ASSUME NEW k \in Nat, k \in T PROVE k + 1 \in T
  <2>1. ASSUME k + 1 <= n PROVE k + 1 \in S
    <3>1. k + 1 \in 1..n /\ (k + 1) - 1 = k /\ k \in S BY <1>2, <2>1
    <3> QED BY <3>1
  <2> QED BY <2>1
<1>3. Nat \subseteq T
  <2> HIDE DEF T
  <2> QED BY <1>1, <1>2, SetInduction
<1> QED BY <1>3

(* Functions on 0..n that start and go on in the same way are equal.       *)
Alike(f, g, n) ==
  /\ f = [k \in 0..n |-> f[k]] /\ g = [k \in 0..n |-> g[k]]
  /\ f[0] = g[0] /\ \A k \in 1..n : f[k - 1] = g[k - 1] => f[k] = g[k]

(* Two functions with the same recursion are the same function.            *)
LEMMA RecursionUnique == ASSUME NEW n \in Nat, NEW f, NEW g, Alike(f, g, n) PROVE f = g
<1> DEFINE S == {k \in 0..n : f[k] = g[k]}
<1>1. 0 \in S BY DEF Alike
<1>2. ASSUME NEW k \in 1..n, k - 1 \in S PROVE k \in S
  <2>1. f[k - 1] = g[k - 1] BY <1>2
  <2>2. f[k] = g[k] BY <2>1 DEF Alike
  <2> QED BY <2>2
<1>3. 0..n \subseteq S
  <2> HIDE DEF S
  <2> QED BY <1>1, <1>2, InductionUpTo
<1>4. \A k \in 0..n : f[k] = g[k] BY <1>3
<1> QED BY <1>4 DEF Alike

(* There is a function on 0..n that starts with v0 and goes on with step.  *)
Recurs(f, v0, step, n) == f[0] = v0 /\ \A k \in 1..n : f[k] = step[k][f[k - 1]]

(* There is a function for every recursion whose steps are functions.      *)
LEMMA RecursionExists ==
  ASSUME NEW n \in Nat, NEW V, NEW v0 \in V, NEW step \in [1..n -> [V -> V]]
  PROVE  \E f \in [0..n -> V] : Recurs(f, v0, step, n)
<1> DEFINE S == {m \in 0..n : \E f \in [0..m -> V] : Recurs(f, v0, step, m)}
<1>1. 0 \in S
  <2> DEFINE f == [k \in 0..0 |-> v0]
  <2>1. f \in [0..0 -> V] /\ Recurs(f, v0, step, 0) BY DEF Recurs
  <2> HIDE DEF f
  <2> QED BY <2>1
<1>2. ASSUME NEW m \in 1..n, m - 1 \in S PROVE m \in S
  <2>1. PICK f \in [0..(m - 1) -> V] : Recurs(f, v0, step, m - 1) BY <1>2
  <2> DEFINE g == [k \in 0..m |-> IF k < m THEN f[k] ELSE step[m][f[m - 1]]]
  <2>2. f[m - 1] \in V /\ step[m][f[m - 1]] \in V BY <2>1
  <2>3. g \in [0..m -> V] BY <2>1, <2>2
  <2>4. g[0] = v0 BY <2>1 DEF Recurs
  <2>5. ASSUME NEW k \in 1..m PROVE g[k] = step[k][g[k - 1]]
    <3>1. k - 1 \in 0..m /\ k - 1 < m /\ g[k - 1] = f[k - 1] OBVIOUS
    <3>2. CASE k = m BY <3>1, <3>2
    <3>3. CASE k < m
      <4>1. k \in 1..(m - 1) BY <3>3
      <4>2. f[k] = step[k][f[k - 1]] BY <2>1, <4>1 DEF Recurs
      <4>3. g[k] = f[k] BY <3>3
      <4> QED BY <3>1, <4>2, <4>3
    <3> QED BY <3>2, <3>3
  <2>6. Recurs(g, v0, step, m)
    <3> HIDE DEF g
    <3> QED BY <2>4, <2>5 DEF Recurs
  <2> HIDE DEF g
  <2> QED BY <2>3, <2>6
<1>3. n \in S
  <2> HIDE DEF S
  <2>1. 0..n \subseteq S BY <1>1, <1>2, InductionUpTo
  <2> QED BY <2>1
<1> QED BY <1>3

-----------------------------------------------------------------------------
(* Quotient and remainder.                                                 *)
LEMMA OneQuotient ==
  ASSUME NEW w \in Nat, w # 0, NEW n \in Nat, NEW q \in Nat, NEW r \in Nat,
         n = w * q + r, r < w
  PROVE  n \div w = q /\ n % w = r
  OBVIOUS

(* Every number has a quotient and a remainder.                            *)
LEMMA QuotientExists ==
  ASSUME NEW w \in Nat, w # 0, NEW n \in Nat
  PROVE  \E q, r \in Nat : n = w * q + r /\ r < w
<1> DEFINE S == {m \in Nat : \E q, r \in Nat : m = w * q + r /\ r < w}
<1>1. 0 \in S
  <2>1. 0 = w * 0 + 0 /\ 0 < w OBVIOUS
  <2> QED BY <2>1
<1>2. ASSUME NEW m \in Nat, m \in S PROVE m + 1 \in S
  <2>1. PICK q \in Nat, r \in Nat : m = w * q + r /\ r < w BY <1>2
  <2>2. CASE r + 1 < w
    <3>1. m + 1 = w * q + (r + 1) /\ r + 1 \in Nat
      <4>1. w * q \in Nat OBVIOUS
      <4> QED BY <2>1, <4>1
    <3> QED BY <2>2, <3>1
  <2>3. CASE r + 1 = w
    <3>1. w * (q + 1) = w * q + w OBVIOUS
    <3>2. w * q \in Nat /\ q + 1 \in Nat OBVIOUS
    <3>3. PICK p \in Nat : p = q + 1 BY <3>2
    <3>4. m + 1 = w * p + 0 BY <2>1, <2>3, <3>1, <3>2, <3>3
    <3>5. 0 \in Nat /\ 0 < w OBVIOUS
    <3> QED BY <3>4, <3>5
  <2> QED BY <2>1, <2>2, <2>3
<1>3. Nat \subseteq S
  <2> HIDE DEF S
  <2> QED BY <1>1, <1>2, SetInduction
<1> QED BY <1>3

(* \div and % give them.                                                   *)
LEMMA Division ==
  ASSUME NEW w \in Nat, w # 0, NEW n \in Nat
  PROVE  n \div w \in Nat /\ n % w \in 0..(w - 1) /\ n = w * (n \div w) + (n % w)
<1>1. PICK q \in Nat, r \in Nat : n = w * q + r /\ r < w BY QuotientExists
<1>2. n \div w = q /\ n % w = r BY <1>1, OneQuotient
<1> QED BY <1>1, <1>2

(* Digits: a quotient by a product is a quotient of a quotient.            *)
LEMMA DivisionTwice ==
  ASSUME NEW w \in Nat, w # 0, NEW b \in Nat, b # 0, NEW n \in Nat
  PROVE  n \div (b * w) = (n \div w) \div b
<1> DEFINE q == n \div w
           r == n % w
           p == q \div b
           s == q % b
<1>1. q \in Nat /\ r \in 0..(w - 1) /\ n = w * q + r BY Division
<1> HIDE DEF q, r
<1>2. p \in Nat /\ s \in 0..(b - 1) /\ q = b * p + s BY <1>1, Division
<1> HIDE DEF p, s
<1>3. b * w \in Nat /\ b * w # 0 OBVIOUS
<1>4. w * s + r \in Nat BY <1>1, <1>2
<1>5. n = (b * w) * p + (w * s + r)
  <2>1. w * q = w * (b * p) + w * s BY <1>2
  <2>2. w * (b * p) = (b * w) * p BY <1>2
  <2>3. (b * w) * p \in Nat /\ w * s \in Nat BY <1>2
  <2>4. PICK x \in Nat, y \in Nat : x = (b * w) * p /\ y = w * s BY <2>3
  <2>5. w * q = x + y BY <2>1, <2>2, <2>4
  <2>6. n = x + (y + r) BY <1>1, <2>5
  <2> QED BY <2>4, <2>6
<1>6. w * s + r < b * w
  <2>1. PICK d \in Nat : b - 1 = s + d BY <1>2
  <2>2. b * w = w * s + w * d + w BY <1>2, <2>1
  <2>3. w * d \in Nat /\ w * s \in Nat BY <1>2
  <2> QED BY <1>1, <2>2, <2>3
<1>7. n \div (b * w) = p
  <2> DEFINE v == b * w
             t == w * s + r
  <2> HIDE DEF v, t
  <2>1. v \in Nat /\ v # 0 /\ t \in Nat /\ t < v /\ n = v * p + t
    BY <1>3, <1>4, <1>5, <1>6 DEF v, t
  <2>2. n \div v = p BY <1>2, <2>1, OneQuotient
  <2> QED BY <2>2 DEF v
<1> QED BY <1>7 DEF p, q

-----------------------------------------------------------------------------
(* v stands in s after its first a members.                                *)
Occurs(v, s, a) == a + Len(v) <= Len(s) /\ \A k \in 1..Len(v) : s[a + k] = v[k]

(* What stands in a sequence stands in one that it is part of:             *)
(* first, last, or anywhere.                                               *)
LEMMA OccursFirst ==
  ASSUME NEW X, NEW s \in Seq(X), NEW t \in Seq(X) PROVE Occurs(s, s \o t, 0)
  BY DEF Occurs

LEMMA OccursLast ==
  ASSUME NEW X, NEW s \in Seq(X), NEW t \in Seq(X) PROVE Occurs(t, s \o t, Len(s))
  BY DEF Occurs

LEMMA OccursIn ==
  ASSUME NEW X, NEW s \in Seq(X), NEW t \in Seq(X), NEW v \in Seq(X), NEW a \in Nat, NEW b \in Nat,
         Occurs(t, s, a), Occurs(v, t, b)
  PROVE  Occurs(v, s, a + b)
<1>1. Len(v) \in Nat /\ Len(t) \in Nat /\ Len(s) \in Nat OBVIOUS
<1>2. (a + b) + Len(v) <= Len(s) BY <1>1 DEF Occurs
<1>3. ASSUME NEW k \in 1..Len(v) PROVE s[(a + b) + k] = v[k]
  <2>1. t[b + k] = v[k] BY DEF Occurs
  <2>2. b + k \in 1..Len(t) BY <1>1 DEF Occurs
  <2>3. s[a + (b + k)] = t[b + k] BY <2>2 DEF Occurs
  <2>4. (a + b) + k = a + (b + k) BY <1>1
  <2> QED BY <2>1, <2>3, <2>4
<1> QED BY <1>2, <1>3 DEF Occurs

(* SubSeq finds it again.                                                  *)
LEMMA OccursIsSubSeq ==
  ASSUME NEW X, NEW s \in Seq(X), NEW v \in Seq(X), NEW a \in Nat, Occurs(v, s, a)
  PROVE  SubSeq(s, a + 1, a + Len(v)) = v
<1>1. Len(v) \in Nat /\ Len(s) \in Nat OBVIOUS
<1>2. \A i \in (a + 1)..(a + Len(v)) : s[i] \in X
  <2> TAKE i \in (a + 1)..(a + Len(v))
  <2>1. i \in 1..Len(s) BY <1>1 DEF Occurs
  <2> QED BY <2>1
<1> DEFINE u == SubSeq(s, a + 1, a + Len(v))
<1>3. /\ u \in Seq(X) /\ Len(u) = IF a + 1 <= a + Len(v) THEN (a + Len(v)) - (a + 1) + 1 ELSE 0
      /\ \A i \in 1..((a + Len(v)) - (a + 1) + 1) : u[i] = s[(a + 1) + i - 1]
  <2> DEFINE m == a + 1
             n == a + Len(v)
  <2>1. m \in Int /\ n \in Int BY <1>1
  <2>2. \A i \in m..n : s[i] \in X BY <1>2
  <2> HIDE DEF m, n
  <2>3. /\ SubSeq(s, m, n) \in Seq(X) /\ Len(SubSeq(s, m, n)) = IF m <= n THEN n - m + 1 ELSE 0
        /\ \A i \in 1..(n - m + 1) : SubSeq(s, m, n)[i] = s[m + i - 1]
    BY <2>1, <2>2, SubSeqProperties
  <2> QED BY <2>3 DEF m, n
<1> HIDE DEF u
<1>4. Len(u) = Len(v) BY <1>1, <1>3
<1>5. ASSUME NEW i \in 1..Len(u) PROVE u[i] = v[i]
  <2>1. i \in 1..((a + Len(v)) - (a + 1) + 1) /\ (a + 1) + i - 1 = a + i BY <1>1, <1>4
  <2>2. s[a + i] = v[i] BY <1>4 DEF Occurs
  <2> QED BY <1>3, <2>1, <2>2
<1>6. u = v BY <1>3, <1>4, <1>5, SeqEqual
<1> QED BY <1>6 DEF u

(* A set in some order: all of its members are there.                      *)
LEMMA SetToSeqIsAll ==
  ASSUME NEW S, IsFiniteSet(S)
  PROVE  SetToSeq(S) \in Seq(S) /\ \A x \in S : \E j \in 1..Len(SetToSeq(S)) : SetToSeq(S)[j] = x
<1> DEFINE n == Cardinality(S)
           f == SetToSeq(S)
<1>1. n \in Nat /\ ExistsBijection(1..n, S) BY FS_CardinalityType
<1>2. \E g \in [1..n -> S] : IsInjective(g)
  BY <1>1 DEF ExistsBijection, Bijection, Injection, IsInjective
<1>3. f \in [1..n -> S] /\ IsInjective(f) BY <1>2 DEF SetToSeq
<1> HIDE DEF f
<1>4. f \in Injection(1..n, S) BY <1>3 DEF Injection
<1>5. IsFiniteSet(1..n) /\ Cardinality(1..n) = n
  <2>1. 1 \in Int /\ n \in Int BY <1>1
  <2>2. IsFiniteSet(1..n) /\ Cardinality(1..n) = IF 1 > n THEN 0 ELSE n - 1 + 1
    BY <2>1, FS_Interval
  <2> QED BY <1>1, <2>2
<1>6. f \in Surjection(1..n, S) BY <1>4, <1>5, FS_Injection
<1>7. \A x \in S : \E j \in 1..n : f[j] = x BY <1>6 DEF Surjection
<1>8. f \in Seq(S) /\ Len(f) = n
  <2> HIDE DEF n
  <2> QED BY <1>1, <1>3
<1> QED BY <1>7, <1>8 DEF f

(* What FlattenSeq joins, one sequence after the other.                    *)
IsFlat(f, seqs, n) == f = [i \in 1..n |-> IF i = 1 THEN seqs[i] ELSE f[i - 1] \o seqs[i]]

(* The function that FlattenSeq is defined by.                             *)
LEMMA FlatGoesOn ==
  ASSUME NEW seqs, NEW n \in Nat, NEW f, IsFlat(f, seqs, n)
  PROVE  /\ n # 0 => f[1] = seqs[1]
         /\ \A i \in 1..n : i # 1 => f[i] = f[i - 1] \o seqs[i]
         /\ f = [i \in 1..n |-> f[i]]
<1> DEFINE Step(i) == IF i = 1 THEN seqs[i] ELSE f[i - 1] \o seqs[i]
<1>1. f = [i \in 1..n |-> Step(i)] BY DEF IsFlat
<1>2. Step(1) = seqs[1] /\ \A i \in 1..n : i # 1 => Step(i) = f[i - 1] \o seqs[i] OBVIOUS
<1>3. n # 0 => 1 \in 1..n OBVIOUS
<1> HIDE DEF Step
<1>4. \A i \in 1..n : f[i] = Step(i) BY <1>1
<1>5. f = [i \in 1..n |-> f[i]] BY <1>1, <1>4
<1>6. n # 0 => f[1] = seqs[1] BY <1>2, <1>3, <1>4
<1>7. \A i \in 1..n : i # 1 => f[i] = f[i - 1] \o seqs[i] BY <1>2, <1>4
<1> QED BY <1>5, <1>6, <1>7

LEMMA OneFlat ==
  ASSUME NEW seqs, NEW n \in Nat, NEW f, IsFlat(f, seqs, n), NEW g, IsFlat(g, seqs, n)
  PROVE  f = g
<1>1. /\ n # 0 => f[1] = seqs[1]
      /\ \A i \in 1..n : i # 1 => f[i] = f[i - 1] \o seqs[i]
      /\ f = [i \in 1..n |-> f[i]]
  BY FlatGoesOn
<1>2. /\ n # 0 => g[1] = seqs[1]
      /\ \A i \in 1..n : i # 1 => g[i] = g[i - 1] \o seqs[i]
      /\ g = [i \in 1..n |-> g[i]]
  BY FlatGoesOn
<1> DEFINE S == {k \in 0..n : k = 0 \/ f[k] = g[k]}
<1>3. 0 \in S OBVIOUS
<1>4. ASSUME NEW k \in 1..n, k - 1 \in S PROVE k \in S
  <2>1. CASE k = 1 BY <1>1, <1>2, <2>1
  <2>2. CASE k # 1
    <3>1. f[k - 1] = g[k - 1] BY <1>4, <2>2
    <3>2. f[k] = g[k] BY <1>1, <1>2, <2>2, <3>1
    <3> QED BY <3>2
  <2> QED BY <2>1, <2>2
<1>5. 0..n \subseteq S
  <2> HIDE DEF S
  <2> QED BY <1>3, <1>4, InductionUpTo
<1>6. \A k \in 1..n : f[k] = g[k] BY <1>5
<1> QED BY <1>1, <1>2, <1>6

(* Its parts grow from the empty sequence to the result.                   *)
Grows(parts, seqs, n) ==
  parts[0] = <<>> /\ \A k \in 1..n : parts[k] = parts[k - 1] \o seqs[k]

(* FlattenSeq appends one sequence after the other.                        *)
LEMMA FlattenSeqGrows ==
  ASSUME NEW X, NEW seqs \in Seq(Seq(X))
  PROVE  \E parts \in [0..Len(seqs) -> Seq(X)] :
           Grows(parts, seqs, Len(seqs)) /\ FlattenSeq(seqs) = parts[Len(seqs)]
<1> DEFINE n == Len(seqs)
           Row(i) == [s \in Seq(X) |-> s \o seqs[i]]
           step == [i \in 1..n |-> Row(i)]
<1>1. n \in Nat /\ \A i \in 1..n : seqs[i] \in Seq(X) OBVIOUS
<1> HIDE DEF n
<1>2. step \in [1..n -> [Seq(X) -> Seq(X)]]
  <2>1. ASSUME NEW i \in 1..n PROVE Row(i) \in [Seq(X) -> Seq(X)]
    <3>1. seqs[i] \in Seq(X) BY <1>1
    <3> QED BY <3>1
  <2> HIDE DEF Row
  <2> QED BY <2>1
<1>3. \A i \in 1..n, s \in Seq(X) : step[i][s] = s \o seqs[i] OBVIOUS
<1> HIDE DEF step
<1>4. <<>> \in Seq(X) OBVIOUS
<1>5. PICK parts \in [0..n -> Seq(X)] : Recurs(parts, <<>>, step, n)
  BY <1>1, <1>2, <1>4, RecursionExists
<1>6. ASSUME NEW k \in 1..n PROVE parts[k] = parts[k - 1] \o seqs[k]
  <2>1. k - 1 \in 0..n BY <1>1
  <2>2. parts[k - 1] \in Seq(X) /\ parts[k] = step[k][parts[k - 1]] BY <1>5, <2>1 DEF Recurs
  <2> QED BY <1>3, <2>2
<1>7. parts[0] = <<>> BY <1>5 DEF Recurs
<1>8. CASE n = 0
  <2>1. seqs = <<>> BY <1>8 DEF n
  <2>2. FlattenSeq(seqs) = <<>> BY <2>1 DEF FlattenSeq
  <2> QED BY <1>6, <1>7, <1>8, <2>2 DEF n, Grows
<1>9. CASE n # 0
  <2> DEFINE f == [i \in 1..n |-> parts[i]]
  <2>1. ASSUME NEW i \in 1..n PROVE f[i] = IF i = 1 THEN seqs[i] ELSE f[i - 1] \o seqs[i]
    <3>1. CASE i = 1
      <4>1. parts[1] = <<>> \o seqs[1] /\ seqs[1] \in Seq(X)
        <5>1. 1 \in 1..n /\ 1 - 1 = 0 BY <3>1
        <5>2. parts[1] = parts[1 - 1] \o seqs[1] BY <1>6, <5>1
        <5> QED BY <1>1, <1>7, <5>1, <5>2
      <4>2. <<>> \o seqs[1] = seqs[1] BY <4>1, ConcatEmptySeq
      <4> QED BY <3>1, <4>1, <4>2
    <3>2. CASE i # 1
      <4>1. i - 1 \in 1..n BY <1>1, <3>2
      <4>2. parts[i] = parts[i - 1] \o seqs[i] BY <1>6
      <4> QED BY <3>2, <4>1, <4>2
    <3> QED BY <3>1, <3>2
  <2>2. f = [i \in 1..n |-> f[i]] OBVIOUS
  <2>3. f[n] = parts[n] BY <1>1, <1>9
  <2> HIDE DEF f
  <2>4. [i \in 1..n |-> f[i]] = [i \in 1..n |-> IF i = 1 THEN seqs[i] ELSE f[i - 1] \o seqs[i]]
    BY <2>1
  <2>5. IsFlat(f, seqs, n) BY <2>2, <2>4 DEF IsFlat
  <2> DEFINE g == CHOOSE flatten : IsFlat(flatten, seqs, n)
  <2>6. IsFlat(g, seqs, n) BY <2>5
  <2>7. FlattenSeq(seqs) = g[n] BY <1>9 DEF FlattenSeq, IsFlat, n
  <2> HIDE DEF g
  <2>8. g = f BY <1>1, <2>5, <2>6, OneFlat
  <2> QED BY <1>6, <1>7, <2>3, <2>7, <2>8 DEF n, Grows
<1> QED BY <1>1, <1>8, <1>9

(* Every one of them occurs in the result, after those before it.          *)
LEMMA PartsOccur ==
  ASSUME NEW X, NEW seqs \in Seq(Seq(X)), NEW k \in 1..Len(seqs),
         NEW parts \in [0..Len(seqs) -> Seq(X)], Grows(parts, seqs, Len(seqs))
  PROVE  Occurs(seqs[k], parts[Len(seqs)], Len(parts[k - 1]))
<1> DEFINE n == Len(seqs)
           a == Len(parts[k - 1])
           S == {m \in 0..n : m >= k => Occurs(seqs[k], parts[m], a)}
<1>2. n \in Nat /\ k \in 1..n /\ k - 1 \in 0..n OBVIOUS
<1>3. \A m \in 1..n : seqs[m] \in Seq(X) OBVIOUS
<1>4. parts[k - 1] \in Seq(X) BY <1>2
<1>5. a \in Nat BY <1>4
<1>6. 0 \in S BY <1>2
<1>7. ASSUME NEW m \in 1..n, m - 1 \in S PROVE m \in S
  <2>1. m - 1 \in 0..n /\ parts[m - 1] \in Seq(X) /\ seqs[m] \in Seq(X) /\ seqs[k] \in Seq(X)
    <3>1. m - 1 \in 0..n BY <1>2
    <3>2. parts[m - 1] \in Seq(X) BY <3>1
    <3> QED BY <1>2, <1>3, <3>1, <3>2
  <2>2. parts[m] = parts[m - 1] \o seqs[m] BY DEF Grows
  <2>3. CASE m < k BY <2>3
  <2>4. CASE m = k
    <3>1. Occurs(seqs[k], parts[m], a) BY <2>1, <2>2, <2>4, OccursLast
    <3> QED BY <3>1
  <2>5. CASE m > k
    <3>1. Occurs(seqs[k], parts[m - 1], a) BY <1>7, <2>5
    <3>2. Occurs(parts[m - 1], parts[m], 0) BY <2>1, <2>2, OccursFirst
    <3>3. parts[m] \in Seq(X) OBVIOUS
    <3>4. Occurs(seqs[k], parts[m], 0 + a) BY <1>5, <2>1, <3>1, <3>2, <3>3, OccursIn
    <3>5. Occurs(seqs[k], parts[m], a) BY <1>5, <3>4
    <3> QED BY <3>5
  <2> QED BY <2>3, <2>4, <2>5
<1>8. 0..n \subseteq S
  <2> HIDE DEF S
  <2> QED BY <1>2, <1>6, <1>7, InductionUpTo
<1>9. n \in 0..n /\ n >= k BY <1>2
<1>10. n \in S BY <1>8, <1>9
<1> HIDE DEF n, a
<1>11. Occurs(seqs[k], parts[n], a) BY <1>9, <1>10
<1> QED BY <1>11 DEF n, a

(* The same for FlattenSeq itself.                                         *)
LEMMA FlattenSeqHasAll ==
  ASSUME NEW X, NEW seqs \in Seq(Seq(X))
  PROVE  /\ FlattenSeq(seqs) \in Seq(X)
         /\ \A k \in 1..Len(seqs) : \E a \in Nat : Occurs(seqs[k], FlattenSeq(seqs), a)
<1>1. PICK parts \in [0..Len(seqs) -> Seq(X)] :
        Grows(parts, seqs, Len(seqs)) /\ FlattenSeq(seqs) = parts[Len(seqs)]
  BY FlattenSeqGrows
<1>2. ASSUME NEW k \in 1..Len(seqs) PROVE \E a \in Nat : Occurs(seqs[k], FlattenSeq(seqs), a)
  <2>1. Occurs(seqs[k], parts[Len(seqs)], Len(parts[k - 1])) BY <1>1, PartsOccur
  <2>2. k - 1 \in 0..Len(seqs) OBVIOUS
  <2>3. parts[k - 1] \in Seq(X) BY <2>2
  <2>4. Len(parts[k - 1]) \in Nat BY <2>3
  <2> QED BY <1>1, <2>1, <2>4
<1>3. Len(seqs) \in 0..Len(seqs) OBVIOUS
<1> QED BY <1>1, <1>2, <1>3
=============================================================================
