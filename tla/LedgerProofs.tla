------------------------------ MODULE LedgerProofs ------------------------------
(***************************************************************************)
(* Lemmas about arithmetic, about sums over finite sets, and about         *)
(* transfers between accounts, used by the proofs about every chain.       *)
(***************************************************************************)
EXTENDS ChainLedger, FiniteSetsExt, FiniteSetTheorems, TLAPS

LEMMA QuotientIsNat ==
    ASSUME NEW a \in Nat, NEW b \in Nat, b # 0 PROVE a \div b \in Nat
BY SMT

LEMMA RemainderInRange ==
    ASSUME NEW a \in Nat, NEW b \in Nat, b # 0 PROVE a % b \in 0 .. b - 1
BY SMT

LEMMA RemainderOfSmall ==
    ASSUME NEW a \in Nat, NEW b \in Nat, b # 0, a < b PROVE a % b = a
BY SMT

\* A number is its quotient and its remainder, and those are the only ones.
LEMMA Division ==
    ASSUME NEW n \in Nat, NEW d \in Nat, d # 0
    PROVE  /\ n \div d \in Nat /\ n % d \in Nat /\ n % d < d
           /\ n = d * (n \div d) + (n % d)
BY SMT

LEMMA OnlyDivision ==
    ASSUME NEW d \in Nat, d # 0, NEW q \in Nat, NEW r \in Nat, r < d
    PROVE  /\ (d * q + r) \div d = q /\ (d * q + r) % d = r
<1> DEFINE n == d * q + r
<1>1. n \in Nat
  BY SMT
<1>2. /\ n \div d \in Nat /\ n % d \in Nat /\ n % d < d
      /\ n = d * (n \div d) + (n % d)
  BY <1>1, Division
<1> DEFINE p == n \div d
           s == n % d
<1> HIDE DEF p, s
<1>3. p \in Nat /\ s \in Nat /\ s < d /\ d * q + r = d * p + s
  BY <1>2 DEF p, s
<1>4. ~(p < q)
  <2> SUFFICES ASSUME p < q PROVE FALSE
    OBVIOUS
  <2>1. PICK k \in Nat : q = p + 1 + k
    <3>1. q - p - 1 \in Nat /\ q = p + 1 + (q - p - 1)
      BY <1>3, SMT
    <3> QED BY <3>1
  <2>2. d * q = d * p + d + d * k /\ d * k \in Nat
    BY <1>3, <2>1, SMT
  <2> QED BY <1>3, <2>2, SMT
<1>5. ~(q < p)
  <2> SUFFICES ASSUME q < p PROVE FALSE
    OBVIOUS
  <2>1. PICK k \in Nat : p = q + 1 + k
    <3>1. p - q - 1 \in Nat /\ p = q + 1 + (p - q - 1)
      BY <1>3, SMT
    <3> QED BY <3>1
  <2>2. d * p = d * q + d + d * k /\ d * k \in Nat
    BY <1>3, <2>1, SMT
  <2> QED BY <1>3, <2>2, SMT
<1>6. p = q
  BY <1>3, <1>4, <1>5, SMT
<1>7. s = r
  BY <1>3, <1>6, SMT
<1> QED BY <1>6, <1>7 DEF p, s

\* The last digit of a number's quotient completes its remainder.
LEMMA NextDigit ==
    ASSUME NEW n \in Nat, NEW d \in Nat, d # 0
    PROVE  n % (256 * d) = (n % d) + ((n \div d) % 256) * d
<1> DEFINE q == n \div d
           r == n % d
           c == q % 256
           t == q \div 256
<1>1. q \in Nat /\ r \in Nat /\ r < d /\ n = d * q + r
  BY Division
<1> HIDE DEF q, r
<1>2. c \in Nat /\ t \in Nat /\ c < 256 /\ q = 256 * t + c
  BY <1>1, SMT
<1> HIDE DEF c, t
<1>3. d * q = d * (256 * t) + d * c
  BY <1>1, <1>2, SMT
<1>4. d * (256 * t) = (256 * d) * t /\ d * c = c * d
  BY <1>1, <1>2, SMT
<1>5. n = (256 * d) * t + (r + c * d)
  BY <1>1, <1>2, <1>3, <1>4, SMT
<1>6. c * d <= 255 * d
  <2>1. PICK k \in Nat : 255 = c + k
    <3>1. 255 - c \in Nat /\ 255 = c + (255 - c)
      BY <1>2, SMT
    <3> QED BY <3>1
  <2>2. 255 * d = c * d + k * d /\ k * d \in Nat /\ c * d \in Nat
    BY <1>2, <2>1, SMT
  <2> QED BY <2>2, SMT
<1>7. r + c * d \in Nat /\ r + c * d < 256 * d /\ 256 * d \in Nat /\ 256 * d # 0
  BY <1>1, <1>2, <1>6, SMT
<1> DEFINE m == 256 * d
           u == r + c * d
<1> HIDE DEF m, u
<1>8. m \in Nat /\ m # 0 /\ u \in Nat /\ u < m /\ n = m * t + u /\ t \in Nat
  BY <1>2, <1>5, <1>7 DEF m, u
<1>9. n % m = u
  BY <1>8, OnlyDivision
<1> QED BY <1>9 DEF m, u, r, c, q

LEMMA Multiples ==
    ASSUME NEW w \in Nat, NEW k \in Nat, NEW i \in 1 .. k
    PROVE  (i - 1) * w \in Nat /\ (i - 1) * w + w <= k * w
<1>1. PICK r \in Nat : k = i + r
  <2>1. k - i \in Nat /\ k = i + (k - i)
    BY SMT
  <2> QED BY <2>1
<1>2. k * w = (i - 1) * w + w + r * w /\ r * w \in Nat /\ (i - 1) * w \in Nat
  BY <1>1, SMT
<1> QED BY <1>2, SMT

--------------------------------------------------------------------------------
(* Induction. *)

\* A non-empty set of subsets of a finite set has a smallest one: induction on finite sets.
LEMMA MinimalSubset ==
    ASSUME NEW S, IsFiniteSet(S), NEW C \in SUBSET SUBSET S, C # {}
    PROVE  \E least \in C : \A s \in C : s \subseteq least => s = least
<1>1. \E least \in C : \A s \in C : ~ (<<s, least>> \in StrictSubsetOrdering(S))
  BY FS_StrictSubsetOrderingWellFounded, FS_FiniteSubsetsOfFinite, WFMin
<1>2. \A s, t \in SUBSET S : s \subseteq t /\ s # t => <<s, t>> \in StrictSubsetOrdering(S)
  BY DEF StrictSubsetOrdering
<1> QED BY <1>1, <1>2

\* Induction on the natural numbers.
LEMMA EveryNat ==
    ASSUME NEW P, 0 \in P, \A n \in Nat : n \in P => n + 1 \in P
    PROVE  \A n \in Nat : n \in P
<1> SUFFICES ASSUME NEW m \in Nat, m \notin P PROVE FALSE
  OBVIOUS
<1> DEFINE C == {0 .. k : k \in {n \in 0 .. m : n \notin P}}
<1>1. C \in SUBSET SUBSET (0 .. m)
  BY SMT
<1>2. m \in {n \in 0 .. m : n \notin P}
  BY SMT
<1>3. C # {}
  BY <1>2
<1>4. IsFiniteSet(0 .. m)
  BY FS_Interval, SMT
<1> DEFINE M == 0 .. m
<1> HIDE DEF C, M
<1>5. IsFiniteSet(M) /\ C \in SUBSET SUBSET M
  BY <1>1, <1>4 DEF M
<1>6. PICK least \in C : \A s \in C : s \subseteq least => s = least
  BY <1>3, <1>5, MinimalSubset
<1>7. PICK k \in 0 .. m : k \notin P /\ least = 0 .. k
  BY <1>6 DEF C
<1>8. k \in Nat /\ k # 0
  BY <1>7, SMT
<1>9. k - 1 \in Nat /\ k - 1 \in 0 .. m /\ (k - 1) + 1 = k
  BY <1>7, <1>8, SMT
<1>10. k - 1 \notin P
  BY <1>7, <1>9
<1>11. 0 .. k - 1 \in C
  BY <1>9, <1>10 DEF C
<1>12. 0 .. k - 1 \subseteq 0 .. k /\ k \in 0 .. k /\ k \notin 0 .. k - 1
  BY <1>8, SMT
<1> QED BY <1>6, <1>7, <1>11, <1>12

\* A function on the natural numbers may be defined by recursion.
Recursion(f, S, first, step) ==
    /\ f \in [Nat -> S] /\ f[0] = first
    /\ \A n \in Nat : f[n + 1] = step[<<n, f[n]>>]

LEMMA RecursionExists ==
    ASSUME NEW S, NEW first \in S, NEW step, \A n \in Nat, x \in S : step[<<n, x>>] \in S
    PROVE  \E f : Recursion(f, S, first, step)
<1> DEFINE UpTo(f, n) == /\ f \in [0 .. n -> S] /\ f[0] = first
                         /\ \A i \in 0 .. n - 1 : f[i + 1] = step[<<i, f[i]>>]
           P == {n \in Nat : \E f : UpTo(f, n)}
<1>1. 0 \in P
  <2>1. UpTo([i \in 0 .. 0 |-> first], 0)
    BY SMT
  <2> QED BY <2>1
<1>2. ASSUME NEW n \in Nat, n \in P PROVE n + 1 \in P
  <2>1. PICK f : UpTo(f, n)
    BY <1>2
  <2> DEFINE g == [i \in 0 .. n + 1 |-> IF i = n + 1 THEN step[<<n, f[n]>>] ELSE f[i]]
  <2>2. n \in 0 .. n /\ f[n] \in S /\ 0 # n + 1 /\ 0 \in 0 .. n + 1
    BY <2>1, SMT
  <2>3. step[<<n, f[n]>>] \in S
    BY <2>2
  <2>4. \A i \in 0 .. n + 1 : i # n + 1 => i \in 0 .. n
    BY SMT
  <2>5. g \in [0 .. n + 1 -> S]
    BY <2>1, <2>3, <2>4
  <2>6. g[0] = first
    BY <2>1, <2>2
  <2>7. ASSUME NEW i \in 0 .. (n + 1) - 1 PROVE g[i + 1] = step[<<i, g[i]>>]
    <3>1. i \in 0 .. n + 1 /\ i + 1 \in 0 .. n + 1 /\ i # n + 1
      BY SMT
    <3>2. g[i] = f[i]
      BY <3>1
    <3>3. CASE i = n
      <4>1. g[i + 1] = step[<<n, f[n]>>]
        BY <3>1, <3>3
      <4> QED BY <3>2, <3>3, <4>1
    <3>4. CASE i # n
      <4>1. i + 1 # n + 1 /\ i \in 0 .. n - 1
        BY <3>4, SMT
      <4>2. g[i + 1] = f[i + 1]
        BY <3>1, <4>1
      <4> QED BY <2>1, <3>2, <4>1, <4>2
    <3> QED BY <3>3, <3>4
  <2> HIDE DEF g
  <2>8. UpTo(g, n + 1)
    BY <2>5, <2>6, <2>7
  <2>9. n + 1 \in Nat
    BY SMT
  <2> QED BY <2>8, <2>9
<1> HIDE DEF P
<1>3. \A n \in Nat : n \in P
  BY <1>1, <1>2, EveryNat
<1>4. \A n \in Nat : \E f : UpTo(f, n)
  BY <1>3 DEF P
<1> DEFINE Fn(n) == CHOOSE f : UpTo(f, n)
           h == [n \in Nat |-> Fn(n)[n]]
<1>5. \A n \in Nat : UpTo(Fn(n), n)
  BY <1>4
<1> HIDE DEF Fn
<1> DEFINE Q == {n \in Nat : \A m \in Nat : n <= m => Fn(m)[n] = Fn(n)[n]}
<1>6. 0 \in Q
  BY <1>5, SMT
<1>7. ASSUME NEW n \in Nat, n \in Q PROVE n + 1 \in Q
  <2> SUFFICES ASSUME NEW m \in Nat, n + 1 <= m PROVE Fn(m)[n + 1] = Fn(n + 1)[n + 1]
    BY SMT
  <2>1. n + 1 \in Nat /\ n \in 0 .. m - 1 /\ n \in 0 .. (n + 1) - 1 /\ n <= m /\ n <= n + 1
    BY SMT
  <2>2. Fn(m)[n] = Fn(n)[n] /\ Fn(n + 1)[n] = Fn(n)[n]
    BY <1>7, <2>1
  <2>3. Fn(m)[n + 1] = step[<<n, Fn(m)[n]>>] /\ Fn(n + 1)[n + 1] = step[<<n, Fn(n + 1)[n]>>]
    BY <1>5, <2>1
  <2> QED BY <2>2, <2>3
<1> HIDE DEF Q
<1>8. \A n \in Nat : n \in Q
  BY <1>6, <1>7, EveryNat
<1>9. h \in [Nat -> S]
  <2>1. \A n \in Nat : n \in 0 .. n
    BY SMT
  <2> QED BY <1>5, <2>1
<1>10. h[0] = first
  BY <1>5
<1>11. ASSUME NEW n \in Nat PROVE h[n + 1] = step[<<n, h[n]>>]
  <2>1. n + 1 \in Nat /\ n \in 0 .. (n + 1) - 1 /\ n <= n + 1
    BY SMT
  <2>2. Fn(n + 1)[n] = Fn(n)[n]
    BY <1>8, <2>1 DEF Q
  <2>3. Fn(n + 1)[n + 1] = step[<<n, Fn(n + 1)[n]>>]
    BY <1>5, <2>1
  <2> QED BY <2>1, <2>2, <2>3
<1> QED BY <1>9, <1>10, <1>11 DEF Recursion

--------------------------------------------------------------------------------
(* Sums over finite sets, as MapThenSumSet of FiniteSetsExt forms them. *)

SumOver(f, S) == MapThenSumSet(LAMBDA a : f[a], S)

LEMMA SumFunctionIsSumOver ==
    ASSUME NEW f PROVE \A S : SumFunctionOnSet(f, S) = SumOver(f, S)
BY DEF SumFunctionOnSet, FoldFunctionOnSet, SumOver, MapThenSumSet

Chosen(s) == CHOOSE x \in s : TRUE

\* iter sums f over the subsets of S.
Sums(iter, f, S) ==
    iter = [s \in SUBSET S |-> IF s = {} THEN 0 ELSE f[Chosen(s)] + iter[s \ {Chosen(s)}]]

LEMMA SumIsIter ==
    ASSUME NEW f, NEW S PROVE SumOver(f, S) = (CHOOSE iter : Sums(iter, f, S))[S]
BY DEF SumOver, Sums, Chosen, MapThenSumSet, MapThenFoldSet

LEMMA ChosenFrom == ASSUME NEW s, s # {} PROVE Chosen(s) \in s
BY DEF Chosen

\* The recursion of SumOver has a solution: built up from one for the small subsets.
LEMMA SumsExists ==
    ASSUME NEW S, IsFiniteSet(S), NEW f PROVE \E iter : Sums(iter, f, S)
<1> DEFINE Good(g, s) == g[s] = IF s = {} THEN 0 ELSE f[Chosen(s)] + g[s \ {Chosen(s)}]
           UpTo(g, n) == /\ g = [s \in SUBSET S |-> g[s]]
                         /\ \A s \in SUBSET S : Cardinality(s) <= n => Good(g, s)
           P == {n \in Nat : \E g : UpTo(g, n)}
<1>1. \A s \in SUBSET S : IsFiniteSet(s) /\ Cardinality(s) \in Nat
  BY FS_Subset, FS_CardinalityType
<1>2. \A s \in SUBSET S : s # {} => /\ s \ {Chosen(s)} \in SUBSET S
                                    /\ Cardinality(s \ {Chosen(s)}) = Cardinality(s) - 1
  BY <1>1, ChosenFrom, FS_RemoveElement
<1>3. 0 \in P
  <2> DEFINE g == [s \in SUBSET S |-> 0]
  <2>1. \A s \in SUBSET S : Cardinality(s) <= 0 => s = {}
    BY <1>1, FS_EmptySet, SMT
  <2>2. UpTo(g, 0)
    BY <2>1
  <2> QED BY <2>2
<1>4. ASSUME NEW n \in Nat, n \in P PROVE n + 1 \in P
  <2>1. PICK g : UpTo(g, n)
    BY <1>4
  <2> DEFINE h == [s \in SUBSET S |-> IF Cardinality(s) <= n THEN g[s]
                                      ELSE f[Chosen(s)] + g[s \ {Chosen(s)}]]
  <2>2. ASSUME NEW s \in SUBSET S, Cardinality(s) <= n + 1 PROVE Good(h, s)
    <3>1. CASE s = {}
      <4>1. Cardinality(s) = 0 /\ 0 <= n
        BY <1>1, <3>1, FS_EmptySet, SMT
      <4>2. h[s] = g[s] /\ Good(g, s)
        BY <2>1, <4>1
      <4> QED BY <3>1, <4>2
    <3>2. CASE s # {} /\ Cardinality(s) <= n
      <4> DEFINE r == s \ {Chosen(s)}
      <4>1. r \in SUBSET S /\ Cardinality(r) <= n
        BY <1>1, <1>2, <3>2, SMT
      <4>2. h[r] = g[r] /\ h[s] = g[s]
        BY <3>2, <4>1
      <4>3. Good(g, s)
        BY <2>1, <3>2
      <4> QED BY <3>2, <4>2, <4>3
    <3>3. CASE s # {} /\ ~(Cardinality(s) <= n)
      <4> DEFINE r == s \ {Chosen(s)}
      <4>1. r \in SUBSET S /\ Cardinality(r) <= n
        BY <1>1, <1>2, <2>2, <3>3, SMT
      <4>2. h[r] = g[r] /\ h[s] = f[Chosen(s)] + g[r]
        BY <3>3, <4>1
      <4> QED BY <3>3, <4>2
    <3> QED BY <3>1, <3>2, <3>3
  <2> HIDE DEF h
  <2>3. h = [s \in SUBSET S |-> h[s]]
    BY DEF h
  <2>4. UpTo(h, n + 1)
    BY <2>2, <2>3
  <2>5. n + 1 \in Nat
    BY SMT
  <2> QED BY <2>4, <2>5
<1> HIDE DEF P
<1>5. Cardinality(S) \in P
  BY <1>1, <1>3, <1>4, EveryNat
<1>6. PICK g : UpTo(g, Cardinality(S))
  BY <1>5 DEF P
<1>7. \A s \in SUBSET S : Good(g, s)
  BY <1>6, FS_Subset
<1>8. Sums(g, f, S)
  BY <1>6, <1>7 DEF Sums
<1> QED BY <1>8

LEMMA SumsUnfold ==
    ASSUME NEW S, IsFiniteSet(S), NEW f
    PROVE  Sums(CHOOSE iter : Sums(iter, f, S), f, S)
BY SumsExists

\* Two solutions agree where both are defined.
LEMMA SumsAgree ==
    ASSUME NEW S, IsFiniteSet(S), NEW T \in SUBSET S, NEW f, NEW g, NEW h,
           Sums(g, f, S), Sums(h, f, T)
    PROVE  \A s \in SUBSET T : g[s] = h[s]
<1> DEFINE C == {s \in SUBSET T : g[s] # h[s]}
<1> SUFFICES ASSUME C # {} PROVE FALSE
  OBVIOUS
<1>1. IsFiniteSet(T) /\ C \in SUBSET SUBSET T
  BY FS_Subset
<1> HIDE DEF C
<1>2. PICK s \in C : \A r \in C : r \subseteq s => r = s
  BY <1>1, MinimalSubset
<1>3. s \in SUBSET T /\ s \in SUBSET S /\ g[s] # h[s]
  BY <1>2 DEF C
<1>4. /\ g[s] = IF s = {} THEN 0 ELSE f[Chosen(s)] + g[s \ {Chosen(s)}]
      /\ h[s] = IF s = {} THEN 0 ELSE f[Chosen(s)] + h[s \ {Chosen(s)}]
  BY <1>3 DEF Sums
<1>5. s # {}
  BY <1>3, <1>4
<1> DEFINE r == s \ {Chosen(s)}
<1>6. r \in SUBSET T /\ r \subseteq s /\ r # s
  BY <1>3, <1>5, ChosenFrom
<1>7. g[r] = h[r]
  BY <1>2, <1>6 DEF C
<1> QED BY <1>3, <1>4, <1>5, <1>7

\* What SumOver computes: nothing of the empty set, otherwise one element and the others.
LEMMA SumOfChosen ==
    ASSUME NEW S, IsFiniteSet(S), NEW f
    PROVE  SumOver(f, S) = IF S = {} THEN 0
                           ELSE f[Chosen(S)] + SumOver(f, S \ {Chosen(S)})
<1> DEFINE R == S \ {Chosen(S)}
           g == CHOOSE iter : Sums(iter, f, S)
           h == CHOOSE iter : Sums(iter, f, R)
<1>1. IsFiniteSet(R) /\ R \in SUBSET S
  BY FS_Subset
<1> HIDE DEF g, h
<1>2. Sums(g, f, S) /\ Sums(h, f, R)
  BY <1>1, SumsUnfold DEF g, h
<1>3. SumOver(f, S) = g[S] /\ SumOver(f, R) = h[R]
  BY SumIsIter DEF g, h
<1>4. g[R] = h[R]
  BY <1>1, <1>2, SumsAgree
<1>5. g[S] = IF S = {} THEN 0 ELSE f[Chosen(S)] + g[R]
  BY <1>2 DEF Sums
<1> QED BY <1>3, <1>4, <1>5

\* A sum of integers is one, and does not depend on which element is taken first.
LEMMA SumOfElement ==
    ASSUME NEW S, IsFiniteSet(S), NEW f, \A a \in S : f[a] \in Int
    PROVE  /\ SumOver(f, S) \in Int
           /\ S = {} => SumOver(f, S) = 0
           /\ \A x \in S : SumOver(f, S) = f[x] + SumOver(f, S \ {x})
<1> DEFINE Good(s) == /\ SumOver(f, s) \in Int
                      /\ \A x \in s : SumOver(f, s) = f[x] + SumOver(f, s \ {x})
           C == {s \in SUBSET S : ~Good(s)}
<1>1. SUFFICES ASSUME C # {} PROVE FALSE
  <2>1. C = {} => Good(S)
    OBVIOUS
  <2> QED BY <1>1, <2>1, SumOfChosen
<1>2. C \in SUBSET SUBSET S
  OBVIOUS
<1> HIDE DEF C
<1>3. PICK s \in C : \A r \in C : r \subseteq s => r = s
  BY <1>1, <1>2, MinimalSubset
<1>4. s \in SUBSET S /\ ~Good(s)
  BY <1>3 DEF C
<1>5. \A r \in SUBSET s : r # s => Good(r)
  BY <1>3, <1>4 DEF C
<1>6. \A r \in SUBSET s : IsFiniteSet(r)
  BY <1>4, FS_Subset
<1>7. s # {}
  <2> SUFFICES ASSUME s = {} PROVE Good(s)
    BY <1>4
  <2>1. SumOver(f, s) = 0
    BY <1>6, SumOfChosen
  <2> QED BY <2>1
<1> DEFINE c == Chosen(s)
<1>8. c \in s /\ SumOver(f, s) = f[c] + SumOver(f, s \ {c})
  BY <1>6, <1>7, ChosenFrom, SumOfChosen
<1> HIDE DEF c
<1>9. \A y \in s : f[y] \in Int /\ SumOver(f, s \ {y}) \in Int
  BY <1>4, <1>5
<1>10. SumOver(f, s) \in Int
  BY <1>8, <1>9
<1>11. ASSUME NEW x \in s, x # c PROVE SumOver(f, s) = f[x] + SumOver(f, s \ {x})
  <2>1. SumOver(f, s \ {c}) = f[x] + SumOver(f, (s \ {c}) \ {x})
    BY <1>5, <1>8, <1>11
  <2>2. SumOver(f, s \ {x}) = f[c] + SumOver(f, (s \ {x}) \ {c})
    BY <1>5, <1>8, <1>11
  <2>3. (s \ {c}) \ {x} = (s \ {x}) \ {c}
    OBVIOUS
  <2>4. SumOver(f, (s \ {x}) \ {c}) \in Int
    <3>1. (s \ {x}) \ {c} \in SUBSET s /\ (s \ {x}) \ {c} # s
      BY <1>8
    <3> QED BY <1>5, <3>1
  <2> DEFINE rest == SumOver(f, (s \ {x}) \ {c})
             whole == SumOver(f, s)  withoutC == SumOver(f, s \ {c})
             withoutX == SumOver(f, s \ {x})
  <2>5. /\ withoutC = f[x] + rest /\ withoutX = f[c] + rest /\ whole = f[c] + withoutC
        /\ rest \in Int /\ f[x] \in Int /\ f[c] \in Int
    BY <1>8, <1>9, <2>1, <2>2, <2>3, <2>4
  <2> HIDE DEF rest, whole, withoutC, withoutX
  <2>6. whole = f[x] + withoutX
    BY <2>5, SMT
  <2> QED BY <2>6 DEF whole, withoutX
<1>12. Good(s)
  BY <1>8, <1>10, <1>11
<1> QED BY <1>4, <1>12

\* A sum of natural numbers is one, and no smaller than any of them.
LEMMA SumOfNats ==
    ASSUME NEW S, IsFiniteSet(S), NEW f, \A a \in S : f[a] \in Nat
    PROVE  SumOver(f, S) \in Nat /\ \A x \in S : f[x] <= SumOver(f, S)
<1> DEFINE C == {s \in SUBSET S : SumOver(f, s) \notin Nat}
<1>1. \A s \in SUBSET S : IsFiniteSet(s)
  BY FS_Subset
<1>2. C = {}
  <2> SUFFICES ASSUME C # {} PROVE FALSE
    OBVIOUS
  <2>1. C \in SUBSET SUBSET S
    OBVIOUS
  <2> HIDE DEF C
  <2>2. PICK s \in C : \A r \in C : r \subseteq s => r = s
    BY <2>1, MinimalSubset
  <2>3. s \in SUBSET S /\ SumOver(f, s) \notin Nat
    BY <2>2 DEF C
  <2>4. s # {}
    <3>1. s = {} => SumOver(f, s) = 0
      BY <1>1, <2>3, SumOfChosen
    <3>2. 0 \in Nat
      BY SMT
    <3> QED BY <2>3, <3>1, <3>2
  <2> DEFINE c == Chosen(s)
             rest == SumOver(f, s \ {c})
  <2>5. c \in s /\ SumOver(f, s) = f[c] + rest
    BY <1>1, <2>3, <2>4, ChosenFrom, SumOfChosen
  <2>6. rest \in Nat
    BY <2>2, <2>3, <2>5 DEF C
  <2> HIDE DEF rest, c
  <2>7. f[c] \in Nat
    BY <2>3, <2>5
  <2> QED BY <2>3, <2>5, <2>6, <2>7, SMT
<1>3. \A s \in SUBSET S : SumOver(f, s) \in Nat
  BY <1>2
<1>4. ASSUME NEW x \in S PROVE f[x] <= SumOver(f, S)
  <2> DEFINE rest == SumOver(f, S \ {x})
  <2>1. SumOver(f, S) = f[x] + rest
    <3>1. \A a \in S : f[a] \in Int
      BY SMT
    <3> QED BY <3>1, SumOfElement
  <2>2. rest \in Nat /\ f[x] \in Nat
    BY <1>3
  <2> HIDE DEF rest
  <2> QED BY <2>1, <2>2, SMT
<1> QED BY <1>3, <1>4

\* Functions that agree on a set have the same sum.
LEMMA SumOfSame ==
    ASSUME NEW S, IsFiniteSet(S), NEW f, NEW g,
           \A a \in S : f[a] \in Int /\ g[a] = f[a]
    PROVE  SumOver(g, S) = SumOver(f, S)
<1> DEFINE C == {s \in SUBSET S : SumOver(g, s) # SumOver(f, s)}
<1>1. SUFFICES ASSUME C # {} PROVE FALSE
  BY <1>1
<1>2. C \in SUBSET SUBSET S
  OBVIOUS
<1> HIDE DEF C
<1>3. PICK s \in C : \A r \in C : r \subseteq s => r = s
  BY <1>1, <1>2, MinimalSubset
<1>4. s \in SUBSET S /\ SumOver(g, s) # SumOver(f, s)
  BY <1>3 DEF C
<1>5. IsFiniteSet(s)
  BY <1>4, FS_Subset
<1>6. s # {}
  BY <1>4, <1>5, SumOfChosen
<1> DEFINE c == Chosen(s)
<1>7. /\ c \in s /\ SumOver(f, s) = f[c] + SumOver(f, s \ {c})
      /\ SumOver(g, s) = g[c] + SumOver(g, s \ {c})
  BY <1>5, <1>6, ChosenFrom, SumOfChosen
<1>8. SumOver(g, s \ {c}) = SumOver(f, s \ {c})
  BY <1>3, <1>4, <1>7 DEF C
<1> QED BY <1>4, <1>7, <1>8

\* The sum moves by what one element moves.
LEMMA SumAfterChange ==
    ASSUME NEW S, IsFiniteSet(S), NEW f, NEW g, NEW x \in S,
           \A a \in S : f[a] \in Int /\ g[a] \in Int,
           \A a \in S \ {x} : g[a] = f[a]
    PROVE  SumOver(g, S) = SumOver(f, S) + (g[x] - f[x])
<1> DEFINE R == S \ {x}
<1>1. IsFiniteSet(R) /\ R \in SUBSET S
  BY FS_Subset
<1>2. SumOver(g, R) = SumOver(f, R) /\ SumOver(f, R) \in Int
  BY <1>1, SumOfSame, SumOfElement
<1>3. SumOver(f, S) = f[x] + SumOver(f, R) /\ SumOver(g, S) = g[x] + SumOver(g, R)
  BY SumOfElement
<1> DEFINE rest == SumOver(f, R)
<1> HIDE DEF rest
<1>4. /\ SumOver(f, S) = f[x] + rest /\ SumOver(g, S) = g[x] + rest
      /\ rest \in Int /\ f[x] \in Int /\ g[x] \in Int
  BY <1>2, <1>3 DEF rest
<1> QED BY <1>4, SMT

--------------------------------------------------------------------------------
(* Transfers. *)

\* A transfer the payer can make keeps a ledger a ledger and moves the amount, no more.
LEMMA TransferEffect ==
    ASSUME NEW T, NEW A, NEW b \in Ledgers(T, A), NEW token \in T,
           NEW from \in A, NEW to \in A, NEW amount \in Nat, CanPay(b, token, from, amount)
    PROVE  LET after == Transfer(b, token, from, to, amount)
           IN  /\ after \in Ledgers(T, A)
               /\ \A t \in T, a \in A :
                      /\ t # token \/ a \notin {from, to} => after[t][a] = b[t][a]
                      /\ from = to => after[t][a] = b[t][a]
               /\ from # to => /\ after[token][from] = b[token][from] - amount
                               /\ after[token][to] = b[token][to] + amount
<1> DEFINE mid   == [b EXCEPT ![token][from] = @ - amount]
           after == Transfer(b, token, from, to, amount)
<1>1. b \in [T -> [A -> Nat]] /\ b[token][from] >= amount
  BY SMT DEF Ledgers, CanPay
<1>2. /\ mid \in [T -> [A -> Nat]]
      /\ mid[token][from] = b[token][from] - amount
      /\ \A t \in T, a \in A : t # token \/ a # from => mid[t][a] = b[t][a]
  BY <1>1, SMT
<1>3. after = [mid EXCEPT ![token][to] = @ + amount]
  BY DEF Transfer
<1> HIDE DEF mid, after
<1>4. /\ after \in [T -> [A -> Nat]]
      /\ after[token][to] = mid[token][to] + amount
      /\ \A t \in T, a \in A : t # token \/ a # to => after[t][a] = mid[t][a]
  BY <1>2, <1>3, SMT
<1>5. \A t \in T, a \in A :
          /\ t # token \/ a \notin {from, to} => after[t][a] = b[t][a]
          /\ from = to => after[t][a] = b[t][a]
  BY <1>1, <1>2, <1>4, SMT
<1>6. from # to => /\ after[token][from] = b[token][from] - amount
                   /\ after[token][to] = b[token][to] + amount
  BY <1>2, <1>4, SMT
<1> QED BY <1>4, <1>5, <1>6 DEF after, Ledgers

\* The same transfer account by account: the payer loses the amount and the payee, where it is
\* an account of the ledger, gains it. Payer and payee may be the same.
LEMMA TransferMoves ==
    ASSUME NEW T, NEW A, NEW b \in Ledgers(T, A), NEW token \in T,
           NEW from \in A, NEW to, NEW amount \in Nat, CanPay(b, token, from, amount)
    PROVE  LET after == Transfer(b, token, from, to, amount)
           IN  /\ after \in Ledgers(T, A)
               /\ \A t \in T, a \in A :
                      after[t][a] = b[t][a] - (IF t = token /\ a = from THEN amount ELSE 0)
                                            + (IF t = token /\ a = to THEN amount ELSE 0)
<1> DEFINE mid   == [b EXCEPT ![token][from] = @ - amount]
           after == Transfer(b, token, from, to, amount)
<1>1. b \in [T -> [A -> Nat]] /\ b[token][from] >= amount
  BY SMT DEF Ledgers, CanPay
<1>2. /\ mid \in [T -> [A -> Nat]]
      /\ \A t \in T, a \in A :
             mid[t][a] = b[t][a] - (IF t = token /\ a = from THEN amount ELSE 0)
  BY <1>1, SMT
<1>3. after = [mid EXCEPT ![token][to] = @ + amount]
  BY DEF Transfer
<1> HIDE DEF mid, after
<1>4. /\ after \in [T -> [A -> Nat]]
      /\ \A t \in T, a \in A :
             after[t][a] = mid[t][a] + (IF t = token /\ a = to THEN amount ELSE 0)
  <2>1. CASE to \in A
    BY <1>2, <1>3, <2>1, SMT
  <2>2. CASE to \notin A
    <3>1. [mid[token] EXCEPT ![to] = @ + amount] = mid[token]
      BY <1>2, <2>2, Zenon
    <3>2. after = mid
      BY <1>2, <1>3, <3>1, Zenon
    <3> QED BY <1>2, <2>2, <3>2, SMT
  <2> QED BY <2>1, <2>2
<1> QED BY <1>2, <1>4, SMT DEF after, Ledgers

LEMMA BalancesAreInt ==
    ASSUME NEW T, NEW A, NEW b \in Ledgers(T, A), NEW t \in T, NEW S \in SUBSET A
    PROVE  \A a \in S : b[t][a] \in Int
BY SMT DEF Ledgers

\* What the accounts of a set hold together, after a transfer the payer can make: the set loses
\* the amount where the payer is of it, and gains it where the payee is.
LEMMA TransferSum ==
    ASSUME NEW T, NEW A, NEW b \in Ledgers(T, A), NEW token \in T,
           NEW from \in A, NEW to \in A, NEW amount \in Nat, CanPay(b, token, from, amount),
           NEW t \in T, NEW S \in SUBSET A, IsFiniteSet(S)
    PROVE  /\ SumOver(b[t], S) \in Int
           /\ SumOver(Transfer(b, token, from, to, amount)[t], S) =
                  SumOver(b[t], S) - (IF t = token /\ from \in S THEN amount ELSE 0)
                                   + (IF t = token /\ to \in S THEN amount ELSE 0)
<1> DEFINE after == Transfer(b, token, from, to, amount)
           drop == IF t = token /\ from \in S THEN amount ELSE 0
           rise == IF t = token /\ to \in S THEN amount ELSE 0
           mid  == [a \in A |-> b[t][a] - (IF t = token /\ a = from THEN amount ELSE 0)]
<1>1. /\ after \in Ledgers(T, A)
      /\ \A a \in A : after[t][a] = b[t][a] - (IF t = token /\ a = from THEN amount ELSE 0)
                                            + (IF t = token /\ a = to THEN amount ELSE 0)
  BY TransferMoves
<1> HIDE DEF after
<1>2. \A a \in S : b[t][a] \in Int /\ after[t][a] \in Int
  BY <1>1, BalancesAreInt
<1>3. \A a \in S : mid[a] \in Int
  BY <1>2, SMT
<1>4. SumOver(b[t], S) \in Int
  BY <1>2, SumOfElement
<1>5. SumOver(mid, S) = SumOver(b[t], S) - drop
  <2>1. CASE t = token /\ from \in S
    <3>1. \A a \in S \ {from} : mid[a] = b[t][a]
      BY <1>2, SMT
    <3> DEFINE f == b[t]
    <3> HIDE DEF mid, f
    <3>2. SumOver(mid, S) = SumOver(f, S) + (mid[from] - f[from])
      BY <1>2, <1>3, <2>1, <3>1, SumAfterChange DEF f
    <3>3. mid[from] - f[from] = 0 - amount
      BY <1>2, <2>1, SMT DEF mid, f
    <3> QED BY <1>4, <2>1, <3>2, <3>3, SMT DEF f
  <2>2. CASE ~(t = token /\ from \in S)
    <3>1. \A a \in S : mid[a] = b[t][a]
      BY <1>2, <2>2, SMT
    <3> HIDE DEF mid
    <3>2. SumOver(mid, S) = SumOver(b[t], S)
      BY <1>2, <3>1, SumOfSame
    <3> QED BY <1>4, <2>2, <3>2, SMT
  <2> QED BY <2>1, <2>2
<1>6. \A a \in S : after[t][a] = mid[a] + (IF t = token /\ a = to THEN amount ELSE 0)
  BY <1>1
<1> HIDE DEF mid
<1>7. SumOver(mid, S) \in Int
  BY <1>3, SumOfElement
<1>8. SumOver(after[t], S) = SumOver(mid, S) + rise
  <2>1. CASE t = token /\ to \in S
    <3> DEFINE g == after[t]
    <3>1. /\ \A a \in S \ {to} : g[a] = mid[a]
          /\ \A a \in S : mid[a] \in Int /\ g[a] \in Int
      BY <1>2, <1>3, <1>6, SMT
    <3> HIDE DEF g
    <3>2. SumOver(g, S) = SumOver(mid, S) + (g[to] - mid[to])
      BY <2>1, <3>1, SumAfterChange
    <3>3. g[to] - mid[to] = amount
      BY <1>3, <1>6, <2>1, SMT DEF g
    <3> QED BY <2>1, <3>2, <3>3 DEF g
  <2>2. CASE ~(t = token /\ to \in S)
    <3>1. \A a \in S : after[t][a] = mid[a]
      BY <1>3, <1>6, <2>2, SMT
    <3>2. SumOver(after[t], S) = SumOver(mid, S)
      BY <1>3, <3>1, SumOfSame
    <3> QED BY <1>7, <2>2, <3>2, SMT
  <2> QED BY <2>1, <2>2
<1> QED BY <1>4, <1>5, <1>8 DEF after

================================================================================
