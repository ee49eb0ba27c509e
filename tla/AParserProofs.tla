---------------------------- MODULE AParserProofs ----------------------------
(***************************************************************************)
(* Proofs about the access log parser, for any files, lines, threads and   *)
(* integer sizes: every line of every readable file is counted once,       *)
(* sums are exact as far as an int allows, and the top entries are the     *)
(* heaviest ones.                                                          *)
(***************************************************************************)
EXTENDS AParser, FiniteSetTheorems, WellFoundedInduction, TLAPS

-----------------------------------------------------------------------------
(***************************************************************************)
(* Sums over finite sets                                                   *)
(***************************************************************************)
\* Induction over finite sets: a set of subsets has a smallest member.
LEMMA SetMinimum ==
  ASSUME NEW D, IsFiniteSet(D), NEW C, C \subseteq SUBSET D, C # {}
  PROVE  \E T \in C : \A U \in C : U \subseteq T => U = T
<1>1. IsWellFoundedOn(StrictSubsetOrdering(D), FiniteSubsetsOf(D))
  BY FS_StrictSubsetOrderingWellFounded
<1>2. C \subseteq FiniteSubsetsOf(D)
  BY FS_FiniteSubsetsOfFinite
<1>3. \E T \in C : \A U \in C : ~ (<<U, T>> \in StrictSubsetOrdering(D))
  BY <1>1, <1>2, WFMin
<1> QED BY <1>3, FS_FiniteSubsetsOfFinite DEF StrictSubsetOrdering

\* A fold is the value at S of the function that recurs over the subsets of S.
Pick(s) == CHOOSE x \in s : TRUE
Sums(f, D, g) == g = [s \in SUBSET D |-> IF s = {} THEN 0 ELSE f[Pick(s)] + g[s \ {Pick(s)}]]
TheSum(f, D) == CHOOSE g : Sums(f, D, g)

LEMMA SumIs ==
  ASSUME NEW f, NEW D
  PROVE  SumFunctionOnSet(f, D) = TheSum(f, D)[D]
BY DEF SumFunctionOnSet, FoldFunctionOnSet, MapThenFoldSet, Sums, Pick, TheSum

LEMMA SumsAt ==
  ASSUME NEW f, NEW D, NEW g, Sums(f, D, g), NEW s \in SUBSET D
  PROVE  g[s] = IF s = {} THEN 0 ELSE f[Pick(s)] + g[s \ {Pick(s)}]
BY DEF Sums

LEMMA PickIn == ASSUME NEW s, s # {} PROVE Pick(s) \in s
BY DEF Pick

\* Two such functions agree where both are defined.
LEMMA SumsAgree ==
  ASSUME NEW f, NEW D, IsFiniteSet(D), NEW T, D \subseteq T,
         Sums(f, D, TheSum(f, D)), Sums(f, T, TheSum(f, T))
  PROVE  TheSum(f, D)[D] = TheSum(f, T)[D]
<1> DEFINE g == TheSum(f, D)
           h == TheSum(f, T)
           C == { s \in SUBSET D : g[s] # h[s] }
<1> SUFFICES ASSUME C # {} PROVE FALSE
  OBVIOUS
<1> HIDE DEF g, h
<1>0. Sums(f, D, g) /\ Sums(f, T, h)
  BY DEF g, h
<1>1. PICK s \in C : \A u \in C : u \subseteq s => u = s
  <2>1. C \subseteq SUBSET D OBVIOUS
  <2> HIDE DEF C
  <2> QED BY <2>1, SetMinimum
<1>2. s \in SUBSET D /\ s \in SUBSET T
  OBVIOUS
<1>3. CASE s = {}
  BY <1>0, <1>1, <1>2, <1>3, SumsAt
<1>4. CASE s # {}
  <2>1. g[s \ {Pick(s)}] = h[s \ {Pick(s)}]
    BY <1>1, <1>4, PickIn
  <2>2. g[s] = f[Pick(s)] + g[s \ {Pick(s)}] /\ h[s] = f[Pick(s)] + h[s \ {Pick(s)}]
    <3> HIDE DEF C
    <3> QED BY <1>0, <1>2, <1>4, SumsAt
  <2> QED BY <2>1, <2>2
<1> QED BY <1>3, <1>4

\* There is such a function: a smallest set without one could be given one.
LEMMA SumsExist ==
  ASSUME NEW f, NEW D, IsFiniteSet(D)
  PROVE  Sums(f, D, TheSum(f, D))
<1> DEFINE C == { T \in SUBSET D : ~ Sums(f, T, TheSum(f, T)) }
<1>1. SUFFICES ASSUME C # {} PROVE FALSE
  OBVIOUS
<1>2. PICK T \in C : \A U \in C : U \subseteq T => U = T
  <2>1. C \subseteq SUBSET D OBVIOUS
  <2> HIDE DEF C
  <2> QED BY <1>1, <2>1, SetMinimum
<1>3. ASSUME NEW U \in SUBSET T, U # T PROVE Sums(f, U, TheSum(f, U))
  BY <1>2, <1>3
<1> DEFINE h == [s \in SUBSET T |-> IF s = {} THEN 0 ELSE f[Pick(s)] + TheSum(f, s \ {Pick(s)})[s \ {Pick(s)}]]
<1>4. ASSUME NEW s \in SUBSET T, s # {}
      PROVE  h[s] = f[Pick(s)] + h[s \ {Pick(s)}]
  <2> DEFINE r == s \ {Pick(s)}
  <2>1. r \in SUBSET T /\ r # T
    BY <1>4, PickIn
  <2>2. h[s] = f[Pick(s)] + TheSum(f, r)[r]
    BY <1>4
  <2>3. h[r] = TheSum(f, r)[r]
    <3>1. Sums(f, r, TheSum(f, r))
      BY <2>1, <1>3
    <3>2. CASE r = {}
      <4>1. TheSum(f, r)[r] = 0 BY <3>1, <3>2, SumsAt
      <4> QED BY <2>1, <3>2, <4>1
    <3>3. CASE r # {}
      <4> DEFINE q == r \ {Pick(r)}
      <4>1. q \in SUBSET T /\ q # T /\ q \subseteq r
        BY <2>1
      <4>2. TheSum(f, r)[r] = f[Pick(r)] + TheSum(f, r)[q]
        <5> HIDE DEF r, h, C
        <5>1. r \in SUBSET r OBVIOUS
        <5> QED BY <5>1, <3>1, <3>3, SumsAt
      <4>3. TheSum(f, q)[q] = TheSum(f, r)[q]
        <5>1. Sums(f, q, TheSum(f, q)) BY <4>1, <1>3
        <5>2. q \subseteq D BY <4>1
        <5>3. IsFiniteSet(q) BY <5>2, FS_Subset
        <5> HIDE DEF q, r, h, C
        <5> QED BY <5>1, <5>3, <3>1, <4>1, SumsAgree
      <4>4. h[r] = f[Pick(r)] + TheSum(f, q)[q]
        BY <2>1, <3>3
      <4> QED BY <4>2, <4>3, <4>4
    <3> QED BY <3>2, <3>3
  <2> QED BY <2>2, <2>3
<1>5. Sums(f, T, h)
  <2>1. h = [s \in SUBSET T |-> IF s = {} THEN 0 ELSE f[Pick(s)] + h[s \ {Pick(s)}]]
    <3>1. \A s \in SUBSET T : h[s] = IF s = {} THEN 0 ELSE f[Pick(s)] + h[s \ {Pick(s)}]
      <4> TAKE s \in SUBSET T
      <4>1. CASE s = {} BY <4>1
      <4>2. CASE s # {} BY <4>2, <1>4
      <4> QED BY <4>1, <4>2
    <3>2. h = [s \in SUBSET T |-> h[s]] OBVIOUS
    <3> HIDE DEF h
    <3> QED BY <3>1, <3>2
  <2> HIDE DEF h
  <2> QED BY <2>1 DEF Sums
<1>6. Sums(f, T, TheSum(f, T))
  <2> HIDE DEF h
  <2> QED BY <1>5 DEF TheSum
<1> QED BY <1>2, <1>6

\* The facts about sums that the rest uses
LEMMA SumEmpty ==
  ASSUME NEW f
  PROVE  SumFunctionOnSet(f, {}) = 0
<1>1. IsFiniteSet({}) /\ {} \in SUBSET {} BY FS_EmptySet
<1>2. Sums(f, {}, TheSum(f, {})) BY <1>1, SumsExist
<1>3. TheSum(f, {})[{}] = 0 BY <1>1, <1>2, SumsAt
<1> QED BY <1>3, SumIs

LEMMA SumPick ==
  ASSUME NEW f, NEW D, IsFiniteSet(D), D # {}
  PROVE  SumFunctionOnSet(f, D) = f[Pick(D)] + SumFunctionOnSet(f, D \ {Pick(D)})
<1> DEFINE R == D \ {Pick(D)}
<1>1. IsFiniteSet(R) /\ R \subseteq D BY FS_Subset
<1>2. Sums(f, D, TheSum(f, D)) /\ Sums(f, R, TheSum(f, R)) BY <1>1, SumsExist
<1>3. TheSum(f, R)[R] = TheSum(f, D)[R]
  <2> HIDE DEF R
  <2> QED BY <1>1, <1>2, SumsAgree
<1>4. TheSum(f, D)[D] = f[Pick(D)] + TheSum(f, D)[R] BY <1>2, SumsAt
<1> HIDE DEF R
<1>5. SumFunctionOnSet(f, R) = TheSum(f, R)[R] /\ SumFunctionOnSet(f, D) = TheSum(f, D)[D] BY SumIs
<1> QED BY <1>3, <1>4, <1>5 DEF R

LEMMA SumType ==
  ASSUME NEW D, IsFiniteSet(D), NEW f, \A x \in D : f[x] \in Int
  PROVE  SumFunctionOnSet(f, D) \in Int
<1> DEFINE C == { T \in SUBSET D : SumFunctionOnSet(f, T) \notin Int }
<1>1. SUFFICES ASSUME C # {} PROVE FALSE
  OBVIOUS
<1>2. PICK T \in C : \A U \in C : U \subseteq T => U = T
  <2>1. C \subseteq SUBSET D OBVIOUS
  <2> HIDE DEF C
  <2> QED BY <1>1, <2>1, SetMinimum
<1>3. T # {}
  <2>1. SumFunctionOnSet(f, {}) = 0 BY SumEmpty
  <2>2. SumFunctionOnSet(f, T) \notin Int BY <1>2
  <2> QED BY <2>1, <2>2
<1>4. Pick(T) \in T /\ Pick(T) \in D BY <1>3, PickIn
<1>5. SumFunctionOnSet(f, T \ {Pick(T)}) \in Int BY <1>2, <1>4
<1>6. IsFiniteSet(T) BY FS_Subset
<1>7. SumFunctionOnSet(f, T) = f[Pick(T)] + SumFunctionOnSet(f, T \ {Pick(T)}) BY <1>3, <1>6, SumPick
<1>8. f[Pick(T)] \in Int BY <1>4
<1> QED BY <1>2, <1>5, <1>7, <1>8

\* Any element may be taken out first.
LEMMA SumAny ==
  ASSUME NEW D, IsFiniteSet(D), NEW f, \A x \in D : f[x] \in Int, NEW x \in D
  PROVE SumFunctionOnSet(f, D) = f[x] + SumFunctionOnSet(f, D \ {x})
<1> DEFINE C == { T \in SUBSET D : \E y \in T : SumFunctionOnSet(f, T) # f[y] + SumFunctionOnSet(f, T \ {y}) }
<1>1. SUFFICES ASSUME C # {} PROVE FALSE
  <2>1. D \notin C BY <1>1
  <2> QED BY <2>1
<1>2. PICK T \in C : \A U \in C : U \subseteq T => U = T
  <2>1. C \subseteq SUBSET D OBVIOUS
  <2> HIDE DEF C
  <2> QED BY <1>1, <2>1, SetMinimum
<1>3. PICK y \in T : SumFunctionOnSet(f, T) # f[y] + SumFunctionOnSet(f, T \ {y})
  OBVIOUS
<1> DEFINE p == Pick(T)
           R == T \ {y, p}
<1>4. p \in T /\ T # {} BY PickIn
<1>5. \A U \in SUBSET D : IsFiniteSet(U) /\ SumFunctionOnSet(f, U) \in Int
  BY FS_Subset, SumType
<1>6. SumFunctionOnSet(f, T) = f[p] + SumFunctionOnSet(f, T \ {p}) BY <1>4, <1>5, SumPick
<1>7. p # y BY <1>3, <1>6
<1>8. SumFunctionOnSet(f, T \ {p}) = f[y] + SumFunctionOnSet(f, R)
  <2>1. T \ {p} \notin C BY <1>2, <1>4
  <2>2. y \in T \ {p} /\ T \ {p} \in SUBSET D /\ (T \ {p}) \ {y} = R BY <1>7
  <2> HIDE DEF p, R
  <2> QED BY <2>1, <2>2
<1>9. SumFunctionOnSet(f, T \ {y}) = f[p] + SumFunctionOnSet(f, R)
  <2>1. T \ {y} \notin C BY <1>2, <1>3
  <2>2. p \in T \ {y} /\ T \ {y} \in SUBSET D /\ (T \ {y}) \ {p} = R BY <1>4, <1>7
  <2> HIDE DEF p, R
  <2> QED BY <2>1, <2>2
<1>10. f[p] \in Int /\ f[y] \in Int /\ SumFunctionOnSet(f, R) \in Int BY <1>4, <1>5
<1> HIDE DEF p, R
<1>11. SumFunctionOnSet(f, T) = f[p] + (f[y] + SumFunctionOnSet(f, R)) BY <1>6, <1>8
<1>12. SumFunctionOnSet(f, T) = f[y] + (f[p] + SumFunctionOnSet(f, R)) BY <1>10, <1>11
<1> QED BY <1>3, <1>9, <1>12

LEMMA SumAdd ==
  ASSUME NEW D, IsFiniteSet(D), NEW x, x \notin D, NEW f, \A y \in D \cup {x} : f[y] \in Int
  PROVE  SumFunctionOnSet(f, D \cup {x}) = f[x] + SumFunctionOnSet(f, D)
<1>1. IsFiniteSet(D \cup {x}) BY FS_AddElement
<1>2. (D \cup {x}) \ {x} = D OBVIOUS
<1> QED BY <1>1, <1>2, SumAny

LEMMA SumUnion ==
  ASSUME NEW D, IsFiniteSet(D), NEW T, IsFiniteSet(T), D \cap T = {}, NEW f, \A y \in D \cup T : f[y] \in Int
  PROVE  SumFunctionOnSet(f, D \cup T) = SumFunctionOnSet(f, D) + SumFunctionOnSet(f, T)
<1> DEFINE C == { U \in SUBSET T : SumFunctionOnSet(f, D \cup U) # SumFunctionOnSet(f, D) + SumFunctionOnSet(f, U) }
<1>1. SUFFICES ASSUME C # {} PROVE FALSE
  OBVIOUS
<1>2. PICK U \in C : \A V \in C : V \subseteq U => V = U
  <2>1. C \subseteq SUBSET T OBVIOUS
  <2> HIDE DEF C
  <2> QED BY <1>1, <2>1, SetMinimum
<1>3. SumFunctionOnSet(f, D) \in Int BY SumType
<1>4. U # {}
  <2>1. D \cup {} = D OBVIOUS
  <2>2. SumFunctionOnSet(f, D) = SumFunctionOnSet(f, D) + 0 BY <1>3
  <2> QED BY <1>2, <2>1, <2>2, SumEmpty
<1>5. PICK x \in U : TRUE BY <1>4
<1> DEFINE V == U \ {x}
<1>6. IsFiniteSet(U) /\ IsFiniteSet(V) /\ IsFiniteSet(D \cup V)
  BY FS_Subset, FS_Union
<1>7. SumFunctionOnSet(f, D \cup V) = SumFunctionOnSet(f, D) + SumFunctionOnSet(f, V)
  BY <1>2, <1>5
<1>8. (D \cup V) \cup {x} = D \cup U /\ V \cup {x} = U /\ x \notin D \cup V /\ x \notin V
  BY <1>5
<1>9. SumFunctionOnSet(f, D \cup U) = f[x] + SumFunctionOnSet(f, D \cup V)
  <2> \A y \in (D \cup V) \cup {x} : f[y] \in Int OBVIOUS
  <2> HIDE DEF V, C
  <2>1. SumFunctionOnSet(f, (D \cup V) \cup {x}) = f[x] + SumFunctionOnSet(f, D \cup V) BY <1>6, <1>8, SumAdd
  <2> QED BY <1>8, <2>1
<1>10. SumFunctionOnSet(f, U) = f[x] + SumFunctionOnSet(f, V)
  <2> \A y \in V \cup {x} : f[y] \in Int OBVIOUS
  <2> HIDE DEF V, C
  <2>1. SumFunctionOnSet(f, V \cup {x}) = f[x] + SumFunctionOnSet(f, V) BY <1>6, <1>8, SumAdd
  <2> QED BY <1>8, <2>1
<1>11. f[x] \in Int /\ SumFunctionOnSet(f, V) \in Int
  BY <1>5, <1>6, SumType
<1>12. SumFunctionOnSet(f, D \cup U) # SumFunctionOnSet(f, D) + SumFunctionOnSet(f, U) BY <1>2
<1> HIDE DEF V, C
<1> QED BY <1>3, <1>7, <1>9, <1>10, <1>11, <1>12

-----------------------------------------------------------------------------
(***************************************************************************)
(* Remainders                                                              *)
(***************************************************************************)
Cong(a, b, n) == \E k \in Int : a = b + (n * k)

LEMMA CongMod ==
  ASSUME NEW a \in Int, NEW n \in Nat \ {0}
  PROVE  Cong(a, a % n, n) /\ a % n \in 0 .. n-1
<1>1. a = n * (a \div n) + (a % n) /\ a % n \in 0 .. n-1 /\ a \div n \in Int
  OBVIOUS
<1>2. ASSUME NEW q \in Int, NEW r \in Int, a = n * q + r PROVE Cong(a, r, n)
  <2>1. n * q \in Int OBVIOUS
  <2>2. a = r + (n * q) BY <1>2, <2>1
  <2> QED BY <2>2 DEF Cong
<1>3. a % n \in Int BY <1>1
<1> QED BY <1>1, <1>2, <1>3

LEMMA CongSmall ==
  ASSUME NEW a \in Int, NEW n \in Nat \ {0}, NEW r \in 0 .. n-1, Cong(a, r, n)
  PROVE  a % n = r
BY DEF Cong

LEMMA CongSym ==
  ASSUME NEW a \in Int, NEW b \in Int, NEW n \in Int, Cong(a, b, n)
  PROVE  Cong(b, a, n)
<1>1. PICK k \in Int : a = b + (n * k) BY DEF Cong
<1>2. b = a + (n * (0 - k)) /\ 0 - k \in Int BY <1>1
<1> QED BY <1>2 DEF Cong

LEMMA CongAdd ==
  ASSUME NEW a \in Int, NEW b \in Int, NEW c \in Int, NEW d \in Int, NEW n \in Int, Cong(a, b, n), Cong(c, d, n)
  PROVE  Cong(a + c, b + d, n)
<1>1. PICK k \in Int : a = b + (n * k) BY DEF Cong
<1>2. PICK j \in Int : c = d + (n * j) BY DEF Cong
<1>3. (n * k) + (n * j) = n * (k + j) /\ n * k \in Int /\ n * j \in Int OBVIOUS
<1>4. a + c = (b + d) + (n * (k + j)) /\ k + j \in Int BY <1>1, <1>2, <1>3
<1> QED BY <1>4 DEF Cong

LEMMA CongTrans ==
  ASSUME NEW a \in Int, NEW b \in Int, NEW c \in Int, NEW n \in Int, Cong(a, b, n), Cong(b, c, n)
  PROVE  Cong(a, c, n)
<1>1. PICK k \in Int : a = b + (n * k) BY DEF Cong
<1>2. PICK j \in Int : b = c + (n * j) BY DEF Cong
<1>3. (n * j) + (n * k) = n * (j + k) /\ n * k \in Int /\ n * j \in Int OBVIOUS
<1>4. a = c + (n * (j + k)) /\ j + k \in Int BY <1>1, <1>2, <1>3
<1> QED BY <1>4 DEF Cong

LEMMA CongDiv ==
  ASSUME NEW a \in Int, NEW b \in Int, NEW m \in Int, NEW n \in Int, Cong(a, b, m), Cong(m, 0, n)
  PROVE  Cong(a, b, n)
<1>1. PICK k \in Int : a = b + (m * k) BY DEF Cong
<1>2. PICK j \in Int : m = 0 + (n * j) BY DEF Cong
<1>3. (n * j) * k = n * (j * k) /\ j * k \in Int /\ n * j \in Int OBVIOUS
<1>4. m = n * j BY <1>2, <1>3
<1>5. a = b + (n * (j * k)) BY <1>1, <1>4, <1>3
<1> QED BY <1>5, <1>3 DEF Cong

\* Congruent numbers are those with the same remainder.
LEMMA CongIff ==
  ASSUME NEW a \in Int, NEW b \in Int, NEW n \in Nat \ {0}
  PROVE  Cong(a, b, n) <=> a % n = b % n
<1>1. ASSUME Cong(a, b, n) PROVE a % n = b % n
  <2>1. Cong(b, b % n, n) /\ b % n \in 0 .. n-1 BY CongMod
  <2>2. b % n \in Int BY <2>1
  <2>3. Cong(a, b % n, n) BY <1>1, <2>1, <2>2, CongTrans
  <2> QED BY <2>1, <2>3, CongSmall
<1>2. ASSUME a % n = b % n PROVE Cong(a, b, n)
  <2>1. Cong(a, a % n, n) /\ a % n \in 0 .. n-1 BY CongMod
  <2>2. Cong(b, a % n, n) BY <1>2, CongMod
  <2>3. a % n \in Int BY <2>1
  <2>4. Cong(a % n, b, n) BY <2>2, <2>3, CongSym
  <2> QED BY <2>1, <2>3, <2>4, CongTrans
<1> QED BY <1>1, <1>2

LEMMA CongDiff ==
  ASSUME NEW a \in Int, NEW b \in Int, NEW n \in Nat \ {0}
  PROVE  Cong(a, b, n) <=> (a - b) % n = 0
<1>1. ASSUME Cong(a, b, n) PROVE (a - b) % n = 0
  <2>1. PICK k \in Int : a = b + (n * k) BY <1>1 DEF Cong
  <2>2. n * k \in Int OBVIOUS
  <2>3. a - b = 0 + (n * k) BY <2>1, <2>2
  <2>4. a - b \in Int /\ 0 \in 0 .. n-1 OBVIOUS
  <2>5. Cong(a - b, 0, n) BY <2>3 DEF Cong
  <2> QED BY <2>4, <2>5, CongSmall
<1>2. ASSUME (a - b) % n = 0 PROVE Cong(a, b, n)
  <2>1. a - b \in Int OBVIOUS
  <2>2. Cong(a - b, 0, n) BY <1>2, <2>1, CongMod
  <2>3. PICK k \in Int : a - b = 0 + (n * k) BY <2>2 DEF Cong
  <2>4. n * k \in Int OBVIOUS
  <2>5. a = b + (n * k) BY <2>3, <2>4
  <2> QED BY <2>5 DEF Cong
<1> QED BY <1>1, <1>2

LEMMA ModAdd ==
  ASSUME NEW a \in Int, NEW b \in Int, NEW n \in Nat \ {0}
  PROVE  ((a % n) + b) % n = (a + b) % n
<1>1. Cong(a, a % n, n) /\ a % n \in Int BY CongMod
<1>2. Cong(a % n, a, n) BY <1>1, CongSym
<1>3. b = b + (n * 0) /\ 0 \in Int OBVIOUS
<1>4. Cong(b, b, n) BY <1>3 DEF Cong
<1>5. Cong((a % n) + b, a + b, n) BY <1>1, <1>2, <1>4, CongAdd
<1>6. (a % n) + b \in Int /\ a + b \in Int BY <1>1
<1> QED BY <1>5, <1>6, CongIff

-----------------------------------------------------------------------------
(***************************************************************************)
(* Ranking                                                                 *)
(***************************************************************************)
LEMMA MaxIs ==
  ASSUME NEW n \in Nat, NEW D, D \subseteq 1..n, D # {}
  PROVE  Max(D) \in D /\ \A y \in D : y <= Max(D)
<1> DEFINE Above(m) == { k \in 1..n : k > m }
           C == { Above(m) : m \in D }
<1>1. \E T \in C : \A U \in C : U \subseteq T => U = T
  <2>1. IsFiniteSet(1..n) BY FS_Interval
  <2>2. \A m : Above(m) \subseteq 1..n OBVIOUS
  <2>3. C \subseteq SUBSET (1..n) /\ C # {}
    <3> HIDE DEF Above
    <3> QED BY <2>2
  <2> DEFINE N == 1..n
  <2>4. IsFiniteSet(N) /\ C \subseteq SUBSET N BY <2>1, <2>3
  <2> HIDE DEF C, N
  <2>5. C # {} BY <2>3
  <2> QED BY <2>4, <2>5, SetMinimum
<1>2. PICK m \in D : \A k \in D : Above(k) \subseteq Above(m) => Above(k) = Above(m)
  <2> HIDE DEF Above
  <2> QED BY <1>1
<1>3. \A k \in D : k <= m
  <2> SUFFICES ASSUME NEW k \in D, k > m PROVE FALSE
    OBVIOUS
  <2>1. Above(k) \subseteq Above(m) OBVIOUS
  <2>2. k \in Above(m) /\ k \notin Above(k) OBVIOUS
  <2> HIDE DEF Above
  <2> QED BY <1>2, <2>1, <2>2
<1>4. \E x \in D : \A y \in D : x >= y
  BY <1>3
<1>5. Max(D) \in D /\ \A y \in D : Max(D) >= y
  BY <1>4 DEF Max
<1> QED BY <1>5

\* The entries shown are the heaviest of those of K, in order.
Sorted(shown) == \A m, n \in 1..topsize : m <= n => shown[m].count >= shown[n].count
Used(shown, n) == shown[n].count > 0
Ranked(shown, table, K) ==
  /\ Sorted(shown)
  /\ \A n \in 1..topsize : Used(shown, n) =>
       shown[n].key \in K /\ shown[n].count = table[shown[n].key]
  /\ \A m, n \in 1..topsize :
       Used(shown, m) /\ Used(shown, n) /\ shown[m].key = shown[n].key => m = n
  /\ \A k \in K : (\A n \in 1..topsize : Used(shown, n) => shown[n].key # k)
                    => table[k] <= shown[topsize].count

\* The place where an entry goes in: all before it are as heavy, none behind is heavier.
LEMMA PlaceIs ==
  ASSUME NEW shown, \A n \in 1..topsize : shown[n].count \in Nat, Sorted(shown),
         NEW e, e.count \in Nat, e.count >= shown[topsize].count
  PROVE  \E p \in 1..topsize :
           /\ \A n \in 1 .. p-1 : shown[n].count >= e.count
           /\ \A n \in p..topsize : e.count >= shown[n].count
           /\ Insert(shown, e) = [n \in 1..topsize |-> CASE n < p -> shown[n]
                                                        [] n = p -> e
                                                        [] OTHER -> shown[n-1]]
<1> DEFINE D == {1} \cup { n \in 1..topsize : e.count <= shown[n].count }
           k == Max(D)
           p == IF e.count >= shown[k].count THEN k ELSE k + 1
<1>1. topsize \in Nat \ {0}
  BY AParserAssumption
<1>2. k \in D /\ \A y \in D : y <= k
  <2>1. D \subseteq 1..topsize /\ D # {} BY <1>1
  <2> HIDE DEF D
  <2> QED BY <1>1, <2>1, MaxIs
<1>3. Insert(shown, e) = [n \in 1..topsize |-> CASE n < p -> shown[n]
                                                [] n = p -> e
                                                [] OTHER -> shown[n-1]]
  <2>1. ~ (e.count < shown[topsize].count) BY <1>1
  <2> QED BY <2>1 DEF Insert
<1> HIDE DEF k
<1>4. k \in 1..topsize /\ (k = 1 \/ e.count <= shown[k].count)
  BY <1>1, <1>2
<1>5. \A n \in 1..topsize : n > k => e.count > shown[n].count
  BY <1>2, <1>1
<1>6. CASE e.count >= shown[k].count
  <2>1. p = k BY <1>6
  <2>2. \A n \in 1 .. p-1 : shown[n].count >= e.count
    BY <1>1, <1>4, <2>1 DEF Sorted
  <2>3. \A n \in p..topsize : e.count >= shown[n].count
    BY <1>1, <1>4, <1>6, <2>1 DEF Sorted
  <2> QED BY <1>3, <1>4, <2>1, <2>2, <2>3
<1>7. CASE ~ (e.count >= shown[k].count)
  <2>1. p = k + 1 BY <1>7
  <2>2. k # topsize BY <1>7
  <2>3. \A n \in 1 .. p-1 : shown[n].count >= e.count
    BY <1>1, <1>4, <1>7, <2>1 DEF Sorted
  <2>4. \A n \in p..topsize : e.count >= shown[n].count
    BY <1>1, <1>4, <1>5, <2>1
  <2>5. p \in 1..topsize BY <1>1, <1>4, <2>1, <2>2
  <2> QED BY <1>3, <2>3, <2>4, <2>5
<1> QED BY <1>6, <1>7

\* One round of get_top_urls ranks one entry more.
LEMMA InsertRanks ==
  ASSUME NEW shown, \A n \in 1..topsize : shown[n].count \in Nat,
         NEW table, NEW K, Ranked(shown, table, K),
         NEW k, k \notin K, \A c \in K \cup {k} : table[c] \in Nat
  PROVE  Ranked(Insert(shown, [key |-> k, count |-> table[k]]), table, K \cup {k})
<1> DEFINE e == [key |-> k, count |-> table[k]]
           r == Insert(shown, e)
<1>0. topsize \in Nat \ {0} /\ topsize \in 1..topsize
  BY AParserAssumption
<1>1. e.key = k /\ e.count = table[k]
  OBVIOUS
<1>2. CASE e.count < shown[topsize].count
  <2>1. r = shown BY <1>2 DEF Insert
  <2> QED BY <1>0, <1>1, <1>2, <2>1 DEF Ranked
<1>3. CASE ~ (e.count < shown[topsize].count)
  <2>0. PICK p \in 1..topsize :
          /\ \A n \in 1 .. p-1 : shown[n].count >= e.count
          /\ \A n \in p..topsize : e.count >= shown[n].count
          /\ r = [n \in 1..topsize |-> CASE n < p -> shown[n]
                                        [] n = p -> e
                                        [] OTHER -> shown[n-1]]
    <3>1. e.count \in Nat /\ Sorted(shown) /\ e.count >= shown[topsize].count
      BY <1>0, <1>1, <1>3 DEF Ranked
    <3> HIDE DEF e
    <3> QED BY <3>1, PlaceIs
  <2> HIDE DEF r, e
  <2>1. /\ \A n \in 1..topsize : n < p => r[n] = shown[n]
        /\ r[p] = e
        /\ \A n \in 1..topsize : n > p => r[n] = shown[n-1] /\ n - 1 \in p..topsize /\ n - 1 \in 1..topsize
    BY <2>0, <1>0
  <2>2. Sorted(r)
    <3> SUFFICES ASSUME NEW m \in 1..topsize, NEW n \in 1..topsize, m < n
                 PROVE  r[m].count >= r[n].count
      BY <2>1, <1>1 DEF Sorted, e
    <3>1. CASE n < p BY <3>1, <2>1 DEF Ranked, Sorted
    <3>2. CASE n = p BY <3>2, <2>0, <2>1
    <3>3. CASE n > p /\ m < p
      BY <3>3, <2>1 DEF Ranked, Sorted
    <3>4. CASE n > p /\ m = p BY <3>4, <2>0, <2>1
    <3>5. CASE m > p
      <4>1. r[m] = shown[m-1] /\ r[n] = shown[n-1] /\ m - 1 \in 1..topsize /\ n - 1 \in 1..topsize
        BY <3>5, <2>1
      <4> QED BY <4>1 DEF Ranked, Sorted
    <3> QED BY <3>1, <3>2, <3>3, <3>4, <3>5
  <2>3. ASSUME NEW n \in 1..topsize, Used(r, n)
        PROVE  r[n].key \in K \cup {k} /\ r[n].count = table[r[n].key]
    <3>1. CASE n < p BY <3>1, <2>1, <2>3 DEF Ranked, Used
    <3>2. CASE n = p BY <3>2, <2>1, <1>1
    <3>3. CASE n > p BY <3>3, <2>1, <2>3 DEF Ranked, Used
    <3> QED BY <3>1, <3>2, <3>3
  <2>4. ASSUME NEW n \in 1..topsize, n # p, Used(r, n)
        PROVE  /\ r[n].key # k
               /\ \E m \in 1..topsize : m = (IF n < p THEN n ELSE n - 1) /\ r[n] = shown[m]
    <3>1. CASE n < p BY <3>1, <2>1, <2>4 DEF Ranked, Used
    <3>2. CASE n > p BY <3>2, <2>1, <2>4 DEF Ranked, Used
    <3> QED BY <2>4, <3>1, <3>2
  <2>5. ASSUME NEW m \in 1..topsize, NEW n \in 1..topsize,
               Used(r, m), Used(r, n), r[m].key = r[n].key
        PROVE  m = n
    <3>1. CASE m = p \/ n = p BY <3>1, <2>1, <2>4, <2>5, <1>1
    <3>2. CASE m # p /\ n # p
      <4>1. PICK a \in 1..topsize : a = (IF m < p THEN m ELSE m - 1) /\ r[m] = shown[a]
        BY <2>4, <2>5, <3>2
      <4>2. PICK b \in 1..topsize : b = (IF n < p THEN n ELSE n - 1) /\ r[n] = shown[b]
        BY <2>4, <2>5, <3>2
      <4>3. a = b BY <4>1, <4>2, <2>5 DEF Ranked, Used
      <4> QED BY <3>2, <4>1, <4>2, <4>3
    <3> QED BY <3>1, <3>2
  <2>6. r[topsize].count >= shown[topsize].count
    <3>1. CASE p = topsize BY <3>1, <2>0, <2>1, <1>0
    <3>2. CASE p # topsize BY <3>2, <2>1, <1>0 DEF Ranked, Sorted
    <3> QED BY <3>1, <3>2
  <2>7. ASSUME NEW c \in K \cup {k}, \A n \in 1..topsize : Used(r, n) => r[n].key # c
        PROVE  table[c] <= r[topsize].count
    <3>0. r[topsize].count \in Nat
      BY <1>0, <1>1, <2>1
    <3>1. CASE c = k
      <4>1. ~ Used(r, p) BY <2>1, <2>7, <3>1, <1>1
      <4> QED BY <4>1, <2>1, <1>1, <3>0, <3>1 DEF Used
    <3>2. CASE c \in K /\ \E n \in 1..topsize : Used(shown, n) /\ shown[n].key = c
      <4>1. PICK n \in 1..topsize : Used(shown, n) /\ shown[n].key = c BY <3>2
      <4>2. ~ (n < p) BY <4>1, <2>1, <2>7 DEF Used
      <4>3. n = topsize
        <5> SUFFICES ASSUME n # topsize PROVE FALSE OBVIOUS
        <5>1. n + 1 \in 1..topsize /\ n + 1 > p BY <4>2, <1>0
        <5>2. r[n + 1] = shown[n] BY <5>1, <2>1
        <5> QED BY <5>1, <5>2, <4>1, <2>7 DEF Used
      <4>4. shown[n].count = table[c] BY <4>1 DEF Ranked
      <4> QED BY <4>3, <4>4, <2>6
    <3>3. CASE c \in K /\ \A n \in 1..topsize : Used(shown, n) => shown[n].key # c
      <4>1. table[c] <= shown[topsize].count BY <3>3 DEF Ranked
      <4>2. table[c] \in Nat /\ shown[topsize].count \in Nat BY <1>0
      <4> QED BY <4>1, <4>2, <2>6, <3>0
    <3> QED BY <3>1, <3>2, <3>3
  <2> QED BY <2>2, <2>3, <2>5, <2>7 DEF Ranked, r, e
<1> QED BY <1>2, <1>3

-----------------------------------------------------------------------------
(***************************************************************************)
(* The inductive invariant                                                 *)
(***************************************************************************)
\* Every record that a thread reads is one of a line.
Record == { Parsed[p[1]][p[2]] : p \in Line }

TInv ==
  /\ ParserTypeOK
  /\ lines \in [Thread -> Seq(Record)]
  /\ parser_pc = "merge" => i \in 0..threads_num
  /\ parser_pc = "urls" => rest \subseteq DOMAIN all_stats.url
  /\ parser_pc = "referers" => rest \subseteq DOMAIN all_stats.referer

\* Main starts the threads one by one, and joins them one by one.
Stages ==
  /\ parser_pc = "split" => i \in Nat /\ \A t \in Thread : tpc[t] = "new"
  /\ parser_pc = "create" => i \in 0..threads_num /\ \A t \in Thread : t >= i => tpc[t] = "new"
  /\ parser_pc = "join" => i \in 0..threads_num /\ \A t \in Thread : t < i => tpc[t] = "ended"
  /\ parser_pc = "merge" \/ Merged => \A t \in Thread : tpc[t] = "ended"

\* The way of a file: it is dealt to a thread, opened there or not, and read.
Phase == {"rest", "listed", "open", "done", "skipped"}

\* What a thread has still to read of a file
IsRest(s, f) ==
  /\ Len(s) <= Len(Parsed[f])
  /\ \A m \in 1..Len(s) : s[m] = Parsed[f][(Len(Parsed[f]) - Len(s)) + m]

IsPlaced(phase, by) ==
  /\ skipped = { f \in File : phase[f] = "skipped" }
  /\ parser_pc = "split" => rest = { f \in File : phase[f] = "rest" }
  /\ parser_pc # "split" => \A f \in File : phase[f] # "rest"
  /\ \A f \in File : phase[f] = "listed" => \E n \in DOMAIN logfiles[by[f]] : logfiles[by[f]][n] = f
  /\ \A f \in File : phase[f] \in {"open", "done"} => tpc[by[f]] # "new"
  /\ \A f \in File : phase[f] = "open" =>
       tpc[by[f]] = "lines" /\ IsRest(lines[by[f]], f)

IsListed(phase, by, t) ==
  /\ \A n \in DOMAIN logfiles[t] : phase[logfiles[t][n]] = "listed" /\ by[logfiles[t][n]] = t
  /\ \A m, n \in DOMAIN logfiles[t] : logfiles[t][m] = logfiles[t][n] => m = n
  /\ tpc[t] = "ended" => logfiles[t] = <<>>

IsOpen(phase, by, t) ==
  /\ \A f, g \in File : phase[f] = "open" /\ phase[g] = "open" /\ by[f] = t /\ by[g] = t => f = g
  /\ tpc[t] = "lines" => \E f \in File : phase[f] = "open" /\ by[f] = t

\* The lines that thread t has counted
HasRead(phase, by, t) ==
  { p \in Line : /\ by[p[1]] = t
                 /\ \/ phase[p[1]] = "done"
                    \/ phase[p[1]] = "open" /\ p[2] <= Len(Parsed[p[1]]) - Len(lines[t]) }

Keys(b, P) == { LineKey[b][p] : p \in P }

\* The tables of a thread are exact, up to the width of a size_t.
IsSum(table, k, b, P) == table[k] = SumOf(b, k, P) % SIZE
IsExact(table, b, P) == DOMAIN table = Keys(b, P) /\ \A k \in DOMAIN table : IsSum(table, k, b, P)
Exact(s, P) == s.total = Sum("url", P) % SIZE /\ \A b \in Table : IsExact(s[b], b, P)

\* Merged tables are so up to the width of an int, or if all shares fit in.
IsClose(table, b, P) ==
  /\ DOMAIN table = Keys(b, P)
  /\ \A k \in DOMAIN table : (table[k] - SumOf(b, k, P)) % INT = 0
FitsIn(table, k) == k \in DOMAIN table => 2 * table[k] < INT
Fits(b, k, n) == \A t \in 0 .. n-1 : FitsIn(stats[t][b], k)
Close(s, P, n) ==
  /\ s.total = Sum("url", P) % SIZE
  /\ \A b \in Table :
       /\ IsClose(s[b], b, P)
       /\ \A k \in DOMAIN s[b] : Fits(b, k, n) => IsSum(s[b], k, b, P)

joined == IF Merged THEN threads_num ELSE IF parser_pc = "merge" THEN i ELSE 0
ReadBy(phase, by, n) == UNION { HasRead(phase, by, t) : t \in 0 .. n-1 }

Ledger(phase, by) ==
  /\ IsPlaced(phase, by)
  /\ \A t \in Thread : IsListed(phase, by, t) /\ IsOpen(phase, by, t)
  /\ \A t \in Thread : Exact(stats[t], HasRead(phase, by, t))
  /\ Close(all_stats, ReadBy(phase, by, joined), joined)

LInv == Stages /\ \E phase \in [File -> Phase], by \in [File -> Thread] : Ledger(phase, by)
IInv == TInv /\ (Alive => LInv)

\* Every entry taken out of a table so far has been ranked.
IsRanked(b, K) == Ranked(top[b], all_stats[b], K)
Ranking ==
  /\ parser_pc \in {"split", "create", "join", "merge"} => \A b \in Table : IsRanked(b, {})
  /\ parser_pc = "urls" => IsRanked("url", DOMAIN all_stats.url \ rest) /\ IsRanked("referer", {})
  /\ parser_pc = "referers" =>
       /\ IsRanked("url", DOMAIN all_stats.url)
       /\ IsRanked("referer", DOMAIN all_stats.referer \ rest)
  /\ parser_pc = "done" => \A b \in Table : IsRanked(b, DOMAIN all_stats[b])

-----------------------------------------------------------------------------
(***************************************************************************)
(* Types                                                                   *)
(***************************************************************************)
LEMMA Sizes ==
  /\ threads_num \in Nat \ {0} /\ topsize \in Nat \ {0}
  /\ INT \in Nat \ {0} /\ SIZE \in Nat \ {0}
BY AParserAssumption

LEMMA LinesOfFile ==
  ASSUME NEW f \in File
  PROVE  /\ Len(Parsed[f]) \in Nat /\ DOMAIN Parsed[f] = 1..Len(Parsed[f])
         /\ Parsed[f] \in Seq(Record)
         /\ \A n \in 1..Len(Parsed[f]) : <<f, n>> \in Line
<1>1. Content[f] \in Seq(Range(Content[f])) BY AParserAssumption
<1>2. PICK m \in Nat : DOMAIN Content[f] = 1..m BY <1>1
<1>3. DOMAIN Parsed[f] = 1..m BY <1>2 DEF Parsed
<1>4. \A n \in 1..m : <<f, n>> \in Line BY <1>3 DEF Line
<1>5. ASSUME NEW n \in 1..m PROVE Parsed[f][n] \in Record
  <2>1. PICK p \in Line : p = <<f, n>> BY <1>4
  <2>2. p[1] = f /\ p[2] = n BY <2>1
  <2>3. Parsed[p[1]][p[2]] \in Record BY DEF Record
  <2> QED BY <2>2, <2>3
<1>6. Parsed[f] = [n \in 1..m |-> Parsed[f][n]] BY <1>2 DEF Parsed
<1>7. Parsed[f] \in [1..m -> Record] BY <1>5, <1>6
<1>8. Parsed[f] \in Seq(Record) BY <1>7
<1>9. Len(Parsed[f]) = m BY <1>3, <1>8
<1> QED BY <1>3, <1>4, <1>8, <1>9

LEMMA LineIs ==
  ASSUME NEW p \in Line
  PROVE  p[1] \in File /\ p[2] \in 1..Len(Parsed[p[1]]) /\ p = <<p[1], p[2]>>
<1>1. \E f \in File : \E n \in DOMAIN Parsed[f] : p = <<f, n>> BY DEF Line
<1> QED BY <1>1, LinesOfFile

LEMMA LineFinite == IsFiniteSet(Line)
<1> DEFINE C == { {f} \X DOMAIN Parsed[f] : f \in File }
<1>1. IsFiniteSet(C)
  <2> DEFINE g == [f \in File |-> {f} \X DOMAIN Parsed[f]]
  <2>1. IsFiniteSet(File) BY AParserAssumption
  <2>2. g \in Surjection(File, C) BY DEF Surjection
  <2> HIDE DEF g, C
  <2> QED BY <2>1, <2>2, FS_Surjection
<1>2. \A f \in File : IsFiniteSet({f} \X DOMAIN Parsed[f])
  <2> SUFFICES ASSUME NEW f \in File PROVE IsFiniteSet({f} \X DOMAIN Parsed[f])
    OBVIOUS
  <2>1. IsFiniteSet({f}) BY FS_Singleton
  <2>2. IsFiniteSet(1..Len(Parsed[f])) BY LinesOfFile, FS_Interval
  <2>3. IsFiniteSet(DOMAIN Parsed[f]) BY <2>2, LinesOfFile
  <2> QED BY <2>1, <2>3, FS_Product
<1>3. \A c \in C : IsFiniteSet(c) BY <1>2
<1> HIDE DEF C
<1>4. IsFiniteSet(UNION C) BY <1>1, <1>3, FS_UNION
<1> QED BY <1>4 DEF C, Line

LEMMA BytesIsNat == \A r \in Record : r.bytes \in Nat
<1> SUFFICES ASSUME NEW p \in Line PROVE Parsed[p[1]][p[2]].bytes \in Nat
  BY DEF Record
<1>1. PICK w : Parsed[p[1]][p[2]] = parse_string(w)
  <2>1. p[1] \in File /\ p[2] \in DOMAIN Parsed[p[1]] BY LineIs, LinesOfFile
  <2> QED BY <2>1 DEF Parsed
<1>2. IsSize(Tokens(w)[6]) => Tokens(w)[6][1] \in DOMAIN Number BY DEF IsSize
<1> QED BY <1>1, <1>2, LineAssumption DEF parse_string

LEMMA AddType ==
  ASSUME NEW table, \A k \in DOMAIN table : table[k] \in 0 .. SIZE-1, NEW key, NEW n \in Nat
  PROVE  \A k \in DOMAIN Add(table, key, n) : Add(table, key, n)[k] \in 0 .. SIZE-1
<1> SUFFICES ASSUME NEW k \in DOMAIN table \cup {key} PROVE Add(table, key, n)[k] \in 0 .. SIZE-1
  BY DEF Add
<1>1. (IF k \in DOMAIN table THEN table[k] ELSE 0) \in Int BY Sizes
<1>2. (IF k = key THEN n ELSE 0) \in Int OBVIOUS
<1> DEFINE a == IF k \in DOMAIN table THEN table[k] ELSE 0
           c == IF k = key THEN n ELSE 0
<1>3. Add(table, key, n)[k] = (a + c) % SIZE BY DEF Add
<1> HIDE DEF a, c
<1>4. (a + c) % SIZE \in 0 .. SIZE-1 BY <1>1, <1>2, Sizes DEF a, c
<1> QED BY <1>3, <1>4

LEMMA AsIntType ==
  ASSUME NEW n \in Nat
  PROVE  AsInt(n) \in Int
BY Sizes DEF AsInt

LEMMA MergeType ==
  ASSUME NEW table, \A k \in DOMAIN table : table[k] \in 0 .. SIZE-1,
         NEW from, \A k \in DOMAIN from : from[k] \in 0 .. SIZE-1
  PROVE  \A k \in DOMAIN Merge(table, from) : Merge(table, from)[k] \in 0 .. SIZE-1
<1> SUFFICES ASSUME NEW k \in DOMAIN table \cup DOMAIN from PROVE Merge(table, from)[k] \in 0 .. SIZE-1
  BY DEF Merge
<1> DEFINE a == IF k \in DOMAIN table THEN table[k] ELSE 0
           c == IF k \in DOMAIN from THEN AsInt(from[k]) ELSE 0
<1>1. a \in Int BY Sizes
<1>2. c \in Int BY Sizes, AsIntType
<1>3. Merge(table, from)[k] = (a + c) % SIZE BY DEF Merge
<1> HIDE DEF a, c
<1>4. (a + c) % SIZE \in 0 .. SIZE-1 BY <1>1, <1>2, Sizes
<1> QED BY <1>3, <1>4

LEMMA InsertType ==
  ASSUME NEW E, NEW shown \in [1..topsize -> E], NEW e \in E, e.count \in Nat,
         \A n \in 1..topsize : shown[n].count \in Nat
  PROVE  Insert(shown, e) \in [1..topsize -> E]
<1> DEFINE D == {1} \cup { n \in 1..topsize : e.count <= shown[n].count }
           k == Max(D)
           p == IF e.count >= shown[k].count THEN k ELSE k + 1
<1>1. k \in D
  <2>1. D \subseteq 1..topsize /\ D # {} /\ topsize \in Nat BY Sizes
  <2> HIDE DEF D
  <2> QED BY <2>1, MaxIs
<1>2. p \in Nat \ {0} BY <1>1, Sizes
<1>3. Insert(shown, e) = IF e.count < shown[topsize].count THEN shown
                         ELSE [n \in 1..topsize |-> CASE n < p -> shown[n] [] n = p -> e [] OTHER -> shown[n-1]]
  BY DEF Insert
<1> HIDE DEF p
<1>4. \A n \in 1..topsize : (CASE n < p -> shown[n] [] n = p -> e [] OTHER -> shown[n-1]) \in E
  BY <1>2, Sizes
<1> QED BY <1>3, <1>4

LEMMA NoStatsType == IsStats(NoStats)
BY Sizes DEF IsStats, NoStats, Empty, Table

LEMMA ParseType ==
  ASSUME NEW s, IsStats(s), NEW r \in Record
  PROVE  IsStats([total |-> (s.total + r.bytes) % SIZE,
                  url |-> Add(s.url, r.url, r.bytes),
                  referer |-> Add(s.referer, r.referer, 1)])
<1> DEFINE u == [total |-> (s.total + r.bytes) % SIZE,
                 url |-> Add(s.url, r.url, r.bytes),
                 referer |-> Add(s.referer, r.referer, 1)]
<1>1. r.bytes \in Nat BY BytesIsNat
<1>2. s.total \in Nat BY Sizes DEF IsStats
<1>3. (s.total + r.bytes) % SIZE \in 0 .. SIZE-1 BY <1>1, <1>2, Sizes
<1>4. \A k \in DOMAIN Add(s.url, r.url, r.bytes) : Add(s.url, r.url, r.bytes)[k] \in 0 .. SIZE-1
  <2>1. \A k \in DOMAIN s.url : s.url[k] \in 0 .. SIZE-1 BY DEF IsStats, Table
  <2> QED BY <1>1, <2>1, AddType
<1>5. \A k \in DOMAIN Add(s.referer, r.referer, 1) : Add(s.referer, r.referer, 1)[k] \in 0 .. SIZE-1
  <2>1. \A k \in DOMAIN s.referer : s.referer[k] \in 0 .. SIZE-1 BY DEF IsStats, Table
  <2> QED BY <2>1, AddType
<1> QED BY <1>3, <1>4, <1>5 DEF IsStats, Table

LEMMA MergeStatsType ==
  ASSUME NEW s, IsStats(s), NEW r, IsStats(r)
  PROVE  IsStats([total |-> (s.total + r.total) % SIZE,
                  url |-> Merge(s.url, r.url),
                  referer |-> Merge(s.referer, r.referer)])
<1>1. s.total \in Nat /\ r.total \in Nat BY Sizes DEF IsStats
<1>2. (s.total + r.total) % SIZE \in 0 .. SIZE-1 BY <1>1, Sizes
<1>3. \A k \in DOMAIN Merge(s.url, r.url) : Merge(s.url, r.url)[k] \in 0 .. SIZE-1
  <2>1. /\ \A k \in DOMAIN s.url : s.url[k] \in 0 .. SIZE-1
        /\ \A k \in DOMAIN r.url : r.url[k] \in 0 .. SIZE-1
    BY DEF IsStats, Table
  <2> QED BY <2>1, MergeType
<1>4. \A k \in DOMAIN Merge(s.referer, r.referer) : Merge(s.referer, r.referer)[k] \in 0 .. SIZE-1
  <2>1. /\ \A k \in DOMAIN s.referer : s.referer[k] \in 0 .. SIZE-1
        /\ \A k \in DOMAIN r.referer : r.referer[k] \in 0 .. SIZE-1
    BY DEF IsStats, Table
  <2> QED BY <2>1, MergeType
<1> QED BY <1>2, <1>3, <1>4 DEF IsStats, Table

LEMMA TypeInit == ParserInit => TInv
<1> SUFFICES ASSUME ParserInit PROVE TInv
  OBVIOUS
<1>1. top \in [Table -> [1..topsize -> {NoEntry}]] BY DEF ParserInit
<1>2. ASSUME NEW b \in Table
      PROVE top[b] \in [1..topsize -> [key : UNION {DOMAIN all_stats[b], {<<>>}}, count : 0 .. SIZE-1]]
  <2>1. NoEntry \in [key : UNION {DOMAIN all_stats[b], {<<>>}}, count : 0 .. SIZE-1]
    BY Sizes DEF NoEntry
  <2> QED BY <1>1, <2>1
<1>3. \A t \in Thread : lines[t] \in Seq(Record) BY DEF ParserInit
<1>4. \A t \in Thread : logfiles[t] \in Seq(File) BY DEF ParserInit
<1> QED BY <1>1, <1>2, <1>3, <1>4, NoStatsType DEF ParserInit, TInv, ParserTypeOK

LEMMA TypeMain == TInv /\ Main => TInv'
<1> SUFFICES ASSUME TInv, Main PROVE TInv'
  OBVIOUS
<1> USE DEF TInv, ParserTypeOK
<1>1. CASE Deal
  <2>1. rest = {} \/ \E f \in rest : f \in File /\ logfiles' = [logfiles EXCEPT ![(i + 1) % threads_num] = <<f>> \o @]
    BY <1>1 DEF Deal
  <2>2. logfiles' \in [Thread -> Seq(File)]
    <3>1. CASE rest = {} BY <3>1, <1>1 DEF Deal
    <3>2. ASSUME NEW f \in File, logfiles' = [logfiles EXCEPT ![(i + 1) % threads_num] = <<f>> \o @]
          PROVE  logfiles' \in [Thread -> Seq(File)]
      <4>1. (i + 1) % threads_num \in Thread BY Sizes DEF Thread
      <4>2. <<f>> \o logfiles[(i + 1) % threads_num] \in Seq(File) BY <4>1
      <4> QED BY <3>2, <4>1, <4>2
    <3> QED BY <2>1, <3>1, <3>2
  <2>3. CASE rest = {} /\ GoTo("create")
    BY <1>1, <2>2, <2>3 DEF Deal, GoTo
  <2>4. CASE \E f \in rest : i' = i + 1 /\ rest' = rest \ {f} /\ UNCHANGED parser_pc
    BY <1>1, <2>2, <2>4 DEF Deal
  <2> QED BY <1>1, <2>3, <2>4 DEF Deal
<1>2. CASE Create
  <2>1. CASE i = threads_num BY <1>2, <2>1 DEF Create, GoTo
  <2>2. CASE i # threads_num
    <3>1. /\ tpc' = [tpc EXCEPT ![i] = "files"] /\ stats' = [stats EXCEPT ![i] = NoStats]
          /\ i' = i + 1 /\ UNCHANGED parser_pc
      BY <1>2, <2>2 DEF Create
    <3>2. DOMAIN stats' = Thread /\ \A t \in Thread : IsStats(stats'[t])
      BY <3>1, NoStatsType
    <3>3. tpc' \in [Thread -> {"new", "files", "lines", "ended"}] BY <3>1
    <3>4. i' \in Nat BY <3>1
    <3>5. parser_pc = "create" /\ UNCHANGED <<rest, logfiles, dirty, lines, skipped, all_stats, top>>
      BY <1>2 DEF Create
    <3> QED BY <3>1, <3>2, <3>3, <3>4, <3>5
  <2> QED BY <2>1, <2>2
<1>3. CASE Join
  <2>1. CASE i = threads_num BY <1>3, <2>1, Sizes DEF Join, GoTo, threadVars
  <2>2. CASE i # threads_num BY <1>3, <2>2 DEF Join, threadVars
  <2> QED BY <2>1, <2>2
<1>4. CASE MergeStats
  <2>1. CASE i = threads_num
    BY <1>4, <2>1 DEF MergeStats, GoTo, threadVars
  <2>2. CASE i # threads_num
    <3>1. /\ parser_pc' = "merge" /\ i' \in Nat /\ UNCHANGED <<top, threadVars, dirty>>
          /\ all_stats' = [total |-> (all_stats.total + stats[i].total) % SIZE,
                           url |-> Merge(all_stats.url, stats[i].url),
                           referer |-> Merge(all_stats.referer, stats[i].referer)]
      BY <1>4, <2>2 DEF MergeStats
    <3>2. i \in Thread /\ i' \in 0..threads_num BY <1>4, <2>2, <3>1, Sizes DEF MergeStats, Thread
    <3>5. IsStats(all_stats') BY <3>1, <3>2, MergeStatsType
    <3>3. \A b \in Table : DOMAIN all_stats[b] \subseteq DOMAIN all_stats'[b]
      BY <3>1 DEF Table, Merge
    <3>4. ASSUME NEW b \in Table
          PROVE  top[b] \in [1..topsize -> [key : UNION {DOMAIN all_stats'[b], {<<>>}}, count : 0 .. SIZE-1]]
      BY <3>3
    <3> QED BY <3>1, <3>2, <3>4, <3>5 DEF threadVars
  <2> QED BY <2>1, <2>2
<1>5. ASSUME NEW b \in Table, NEW at, NEW next, NEW after, Rank(b, at, next, after),
             <<b, at, next, after>> \in
               {<<"url", "urls", "referers", DOMAIN all_stats.referer>>, <<"referer", "referers", "done", {}>>}
      PROVE TInv'
  <2>1. CASE rest = {} /\ GoTo(next) /\ rest' = after /\ UNCHANGED top
    BY <1>5, <2>1 DEF Rank, GoTo, threadVars
  <2>2. ASSUME NEW k \in rest,
               top' = [top EXCEPT ![b] = Insert(@, [key |-> k, count |-> all_stats[b][k]])],
               rest' = rest \ {k}, UNCHANGED <<parser_pc, i>>
        PROVE  TInv'
    <3> DEFINE e == [key |-> k, count |-> all_stats[b][k]]
               E == [key : UNION {DOMAIN all_stats[b], {<<>>}}, count : 0 .. SIZE-1]
    <3>1. k \in DOMAIN all_stats[b] BY <1>5, <2>2 DEF Rank
    <3>2. e \in E /\ e.count \in Nat BY <3>1, Sizes DEF IsStats
    <3>3. top[b] \in [1..topsize -> E] /\ \A n \in 1..topsize : top[b][n].count \in Nat
      BY Sizes
    <3>4. Insert(top[b], e) \in [1..topsize -> E]
      <4> HIDE DEF e, E
      <4> QED BY <3>2, <3>3, InsertType
    <3>5. top' = [top EXCEPT ![b] = Insert(top[b], e)] BY <2>2
    <3> HIDE DEF e
    <3>6. UNCHANGED <<parser_pc, i, all_stats, dirty, threadVars>> BY <1>5, <2>2 DEF Rank
    <3> QED BY <2>2, <3>4, <3>5, <3>6 DEF threadVars
  <2> QED BY <1>5, <2>1, <2>2 DEF Rank
<1>6. CASE get_top_urls BY <1>5, <1>6 DEF get_top_urls, Table
<1>7. CASE get_top_referers BY <1>5, <1>7 DEF get_top_referers, Table
<1> QED BY <1>1, <1>2, <1>3, <1>4, <1>6, <1>7 DEF Main

LEMMA TypeTask == TInv /\ (\E t \in Thread : Task(t)) => TInv'
<1> SUFFICES ASSUME TInv, NEW t \in Thread, Task(t) PROVE TInv'
  OBVIOUS
<1> USE DEF TInv, ParserTypeOK
<1>1. CASE OpenFile(t)
  <2>1. Tail(logfiles[t]) \in Seq(File) /\ Head(logfiles[t]) \in File BY <1>1 DEF OpenFile
  <2>2. Parsed[Head(logfiles[t])] \in Seq(Record) BY <2>1, LinesOfFile
  <2>3. logfiles' \in [Thread -> Seq(File)] BY <1>1, <2>1 DEF OpenFile
  <2>4. lines' \in [Thread -> Seq(Record)] BY <1>1, <2>2 DEF OpenFile
  <2>5. tpc' \in [Thread -> {"new", "files", "lines", "ended"}] /\ skipped' \subseteq File
    BY <1>1, <2>1 DEF OpenFile
  <2> QED BY <1>1, <2>3, <2>4, <2>5 DEF OpenFile, mainVars
<1>2. CASE ParseLine(t)
  <2>1. lines[t] \in Seq(Record) /\ lines[t] # <<>> BY <1>2 DEF ParseLine
  <2>2. Head(lines[t]) \in Record /\ Tail(lines[t]) \in Seq(Record) BY <2>1
  <2>3. lines' \in [Thread -> Seq(Record)] BY <1>2, <2>2 DEF ParseLine
  <2> DEFINE r == Head(lines[t])
             s == [total |-> (stats[t].total + r.bytes) % SIZE,
                   url |-> Add(stats[t].url, r.url, r.bytes),
                   referer |-> Add(stats[t].referer, r.referer, 1)]
  <2>4. stats' = [stats EXCEPT ![t] = s] BY <1>2 DEF ParseLine
  <2>5. IsStats(s) BY <2>2, ParseType
  <2> HIDE DEF s
  <2>6. DOMAIN stats' = Thread /\ \A u \in Thread : IsStats(stats'[u]) BY <2>4, <2>5
  <2> QED BY <1>2, <2>3, <2>6 DEF ParseLine, mainVars
<1>3. CASE CloseFile(t)
  <2>1. tpc' \in [Thread -> {"new", "files", "lines", "ended"}] BY <1>3 DEF CloseFile
  <2> QED BY <1>3, <2>1 DEF CloseFile, mainVars
<1>4. CASE EndTask(t)
  <2>1. /\ tpc' \in [Thread -> {"new", "files", "lines", "ended"}]
        /\ parser_pc' = parser_pc \/ parser_pc' = "crashed"
    BY <1>4 DEF EndTask
  <2> QED BY <1>4, <2>1 DEF EndTask
<1> QED BY <1>1, <1>2, <1>3, <1>4 DEF Task

LEMMA TypeStep == TInv /\ [ParserNext]_parserVars => TInv'
<1>1. ASSUME TInv, UNCHANGED parserVars PROVE TInv'
  BY <1>1 DEF TInv, ParserTypeOK, parserVars
<1> QED BY <1>1, TypeMain, TypeTask DEF ParserNext

\* Every variable keeps its type: no total or count leaves the range of a
\* size_t, every list and every ranked entry is one of the files and keys that
\* add_url_stats and copy_url_table have put there.
THEOREM TypeCorrect == ParserSpec => []ParserTypeOK
<1>1. TInv => ParserTypeOK BY DEF TInv
<1> QED BY <1>1, TypeInit, TypeStep, PTL DEF ParserSpec
-----------------------------------------------------------------------------
(***************************************************************************)
(* What lines add up to                                                    *)
(***************************************************************************)
LEMMA WeightIs ==
  ASSUME NEW b \in Table, NEW p \in Line
  PROVE  Weight[b][p] \in Nat
<1>1. Parsed[p[1]][p[2]] \in Record BY DEF Record
<1> QED BY <1>1, BytesIsNat DEF Weight, Table

LEMMA SumTypes ==
  ASSUME NEW b \in Table, NEW P, P \subseteq Line
  PROVE  /\ IsFiniteSet(P) /\ Sum(b, P) \in Int
         /\ \A k : SumOf(b, k, P) \in Int
<1>1. \A R : R \subseteq P => IsFiniteSet(R) BY LineFinite, FS_Subset
<1>2. \A R : R \subseteq P => Sum(b, R) \in Int
  <2> SUFFICES ASSUME NEW R, R \subseteq P PROVE Sum(b, R) \in Int
    OBVIOUS
  <2>1. IsFiniteSet(R) BY <1>1
  <2>2. \A p \in R : Weight[b][p] \in Int BY WeightIs
  <2> QED BY <2>1, <2>2, SumType DEF Sum
<1> QED BY <1>1, <1>2 DEF SumOf

LEMMA SumJoin ==
  ASSUME NEW b \in Table, NEW P, P \subseteq Line, NEW R, R \subseteq Line, P \cap R = {}
  PROVE  Sum(b, P \cup R) = Sum(b, P) + Sum(b, R)
<1>1. IsFiniteSet(P) /\ IsFiniteSet(R) BY SumTypes
<1>2. \A p \in P \cup R : Weight[b][p] \in Int BY WeightIs
<1> QED BY <1>1, <1>2, SumUnion DEF Sum

LEMMA SumOfJoin ==
  ASSUME NEW b \in Table, NEW P, P \subseteq Line, NEW R, R \subseteq Line, P \cap R = {}, NEW k
  PROVE  SumOf(b, k, P \cup R) = SumOf(b, k, P) + SumOf(b, k, R)
<1> DEFINE A == { p \in P : LineKey[b][p] = k }
           B == { p \in R : LineKey[b][p] = k }
<1>1. { p \in P \cup R : LineKey[b][p] = k } = A \cup B OBVIOUS
<1>2. A \subseteq Line /\ B \subseteq Line /\ A \cap B = {} OBVIOUS
<1>3. Sum(b, A \cup B) = Sum(b, A) + Sum(b, B)
  <2> HIDE DEF A, B
  <2> QED BY <1>2, SumJoin
<1> QED BY <1>1, <1>3 DEF SumOf

LEMMA SumOne ==
  ASSUME NEW b \in Table, NEW p \in Line
  PROVE  /\ Sum(b, {p}) = Weight[b][p]
         /\ \A k : SumOf(b, k, {p}) = IF LineKey[b][p] = k THEN Weight[b][p] ELSE 0
<1>1. Sum(b, {}) = 0 BY SumEmpty DEF Sum
<1>2. Sum(b, {p}) = Weight[b][p]
  <2>1. IsFiniteSet({}) /\ {} \cup {p} = {p} BY FS_EmptySet
  <2>2. \A q \in {} \cup {p} : Weight[b][q] \in Int BY WeightIs
  <2>3. SumFunctionOnSet(Weight[b], {} \cup {p}) = Weight[b][p] + SumFunctionOnSet(Weight[b], {})
    BY <2>1, <2>2, SumAdd
  <2>4. SumFunctionOnSet(Weight[b], {p}) = Weight[b][p] + 0 BY <2>1, <2>3, <1>1 DEF Sum
  <2> QED BY <2>4, WeightIs DEF Sum
<1>3. ASSUME NEW k PROVE SumOf(b, k, {p}) = IF LineKey[b][p] = k THEN Weight[b][p] ELSE 0
  <2>1. { q \in {p} : LineKey[b][q] = k } = IF LineKey[b][p] = k THEN {p} ELSE {} OBVIOUS
  <2> QED BY <1>1, <1>2, <2>1 DEF SumOf
<1> QED BY <1>2, <1>3

LEMMA SumOfNone ==
  ASSUME NEW b \in Table, NEW P, NEW k, k \notin Keys(b, P)
  PROVE  SumOf(b, k, P) = 0
<1>1. { p \in P : LineKey[b][p] = k } = {} BY DEF Keys
<1> QED BY <1>1, SumEmpty DEF SumOf, Sum

LEMMA KeysJoin ==
  ASSUME NEW b, NEW P, NEW R
  PROVE  Keys(b, P \cup R) = Keys(b, P) \cup Keys(b, R)
BY DEF Keys

LEMMA ZeroMod == 0 % SIZE = 0 /\ 0 \in 0 .. SIZE-1
BY Sizes

\* add_url_stats and add_referer_stats count one line more.
LEMMA AddTable ==
  ASSUME NEW b \in Table, NEW P, P \subseteq Line, NEW p \in Line, p \notin P,
         NEW table, IsExact(table, b, P)
  PROVE  IsExact(Add(table, LineKey[b][p], Weight[b][p]), b, P \cup {p})
<1> DEFINE new == Add(table, LineKey[b][p], Weight[b][p])
<1>1. DOMAIN new = DOMAIN table \cup {LineKey[b][p]} BY DEF Add
<1>2. ASSUME NEW k \in DOMAIN new PROVE new[k] = SumOf(b, k, P \cup {p}) % SIZE
  <2> DEFINE a == IF k \in DOMAIN table THEN table[k] ELSE 0
             c == IF k = LineKey[b][p] THEN Weight[b][p] ELSE 0
             x == SumOf(b, k, P)
             y == SumOf(b, k, {p})
  <2>1. new[k] = (a + c) % SIZE BY <1>1 DEF Add
  <2>2. a = x % SIZE BY SumOfNone, ZeroMod DEF IsExact, IsSum
  <2>3. c = y BY SumOne
  <2>4. x \in Int /\ y \in Int BY SumTypes
  <2>5. SumOf(b, k, P \cup {p}) = x + y
    <3>1. {p} \subseteq Line /\ P \cap {p} = {} OBVIOUS
    <3> QED BY <3>1, SumOfJoin
  <2> HIDE DEF a, c, x, y, new
  <2>6. ((x % SIZE) + y) % SIZE = (x + y) % SIZE BY <2>4, Sizes, ModAdd
  <2> QED BY <2>1, <2>2, <2>3, <2>5, <2>6
<1>3. Keys(b, P \cup {p}) = Keys(b, P) \cup {LineKey[b][p]} BY KeysJoin DEF Keys
<1> HIDE DEF new
<1>4. IsExact(new, b, P \cup {p}) BY <1>1, <1>2, <1>3 DEF IsExact, IsSum
<1> QED BY <1>4 DEF new

LEMMA AddExact ==
  ASSUME NEW s, NEW P, P \subseteq Line, Exact(s, P), NEW p \in Line, p \notin P,
         NEW r, r = Parsed[p[1]][p[2]]
  PROVE  Exact([total |-> (s.total + r.bytes) % SIZE,
                url |-> Add(s.url, r.url, r.bytes),
                referer |-> Add(s.referer, r.referer, 1)], P \cup {p})
<1> DEFINE u == [total |-> (s.total + r.bytes) % SIZE,
                 url |-> Add(s.url, r.url, r.bytes),
                 referer |-> Add(s.referer, r.referer, 1)]
<1>0. "url" \in Table /\ "referer" \in Table BY DEF Table
<1>1. r.url = LineKey["url"][p] /\ r.bytes = Weight["url"][p] /\ r.referer = LineKey["referer"][p] /\ 1 = Weight["referer"][p]
  BY DEF LineKey, Weight
<1>2. \A b \in Table : u[b] = Add(s[b], LineKey[b][p], Weight[b][p]) BY <1>1 DEF Table
<1>3. u.total = Sum("url", P \cup {p}) % SIZE
  <2> DEFINE x == Sum("url", P)
             y == Sum("url", {p})
  <2>1. s.total = x % SIZE BY DEF Exact
  <2>2. y = r.bytes BY <1>0, <1>1, SumOne
  <2>3. Sum("url", P \cup {p}) = x + y
    <3>1. {p} \subseteq Line /\ P \cap {p} = {} OBVIOUS
    <3> QED BY <1>0, <3>1, SumJoin
  <2>4. x \in Int /\ y \in Int BY <1>0, SumTypes
  <2>5. u.total = (s.total + r.bytes) % SIZE OBVIOUS
  <2> HIDE DEF x, y, u
  <2>6. ((x % SIZE) + y) % SIZE = (x + y) % SIZE BY <2>4, Sizes, ModAdd
  <2> QED BY <2>1, <2>2, <2>3, <2>5, <2>6
<1> HIDE DEF u
<1>4. ASSUME NEW b \in Table PROVE IsExact(u[b], b, P \cup {p})
  <2>1. IsExact(s[b], b, P) BY DEF Exact
  <2> QED BY <1>2, <2>1, AddTable
<1>5. Exact(u, P \cup {p}) BY <1>3, <1>4 DEF Exact
<1> QED BY <1>5 DEF u

LEMMA IntDividesSize ==
  ASSUME NEW a \in Int, NEW b \in Int, Cong(a, b, SIZE)
  PROVE  Cong(a, b, INT)
<1>1. SIZE % INT = 0 BY AParserAssumption
<1>2. Cong(SIZE, 0, INT) BY <1>1, Sizes, CongMod
<1> QED BY <1>2, Sizes, CongDiv

LEMMA AsIntIs ==
  ASSUME NEW n \in Nat
  PROVE  /\ AsInt(n) \in Int /\ Cong(AsInt(n), n, INT)
         /\ 2 * n < INT => AsInt(n) = n
<1> DEFINE low == n % INT
<1>1. Cong(n, low, INT) /\ low \in 0 .. INT-1 BY Sizes, CongMod
<1>2. AsInt(n) = low \/ AsInt(n) = low - INT BY DEF AsInt
<1>3. Cong(AsInt(n), low, INT)
  <2> HIDE DEF low
  <2>1. low = low + (INT * 0) /\ low - INT = low + (INT * (0 - 1)) /\ 0 - 1 \in Int BY <1>1, Sizes
  <2> QED BY <1>2, <2>1 DEF Cong
<1>4. Cong(low, n, INT)
  <2> HIDE DEF low
  <2> QED BY <1>1, Sizes, CongSym
<1>5. 2 * n < INT => AsInt(n) = n
  <2> SUFFICES ASSUME 2 * n < INT PROVE AsInt(n) = n
    OBVIOUS
  <2>1. n \in 0 .. INT-1 BY Sizes
  <2>2. n % INT = n BY <2>1, Sizes
  <2> QED BY <2>2, Sizes DEF AsInt
<1>6. low \in Int BY <1>1, Sizes
<1> HIDE DEF low
<1>7. AsInt(n) \in Int BY <1>2, <1>6, Sizes
<1> QED BY <1>3, <1>4, <1>5, <1>6, <1>7, Sizes, CongTrans

\* copy_url_table and copy_referer_table add the table of one thread more.
LEMMA MergeTable ==
  ASSUME NEW b \in Table, NEW P, P \subseteq Line, NEW R, R \subseteq Line, P \cap R = {},
         NEW table, IsClose(table, b, P), \A k \in DOMAIN table : table[k] \in 0 .. SIZE-1,
         NEW from, IsExact(from, b, R), NEW new, new = Merge(table, from)
  PROVE  /\ IsClose(new, b, P \cup R)
         /\ \A k \in DOMAIN new :
              (k \in DOMAIN table => IsSum(table, k, b, P)) /\ FitsIn(from, k) => IsSum(new, k, b, P \cup R)
<1>1. DOMAIN new = DOMAIN table \cup DOMAIN from BY DEF Merge
<1> USE DEF IsClose, IsExact, IsSum, FitsIn
<1>2. ASSUME NEW k \in DOMAIN new
      PROVE  /\ (new[k] - SumOf(b, k, P \cup R)) % INT = 0
             /\ (k \in DOMAIN table => table[k] = SumOf(b, k, P) % SIZE) /\ (k \in DOMAIN from => 2 * from[k] < INT)
                  => new[k] = SumOf(b, k, P \cup R) % SIZE
  <2> DEFINE a == IF k \in DOMAIN table THEN table[k] ELSE 0
             c == IF k \in DOMAIN from THEN AsInt(from[k]) ELSE 0
             x == SumOf(b, k, P)
             y == SumOf(b, k, R)
  <2>1. new[k] = (a + c) % SIZE BY <1>1 DEF Merge
  <2>2. x \in Int /\ y \in Int /\ SumOf(b, k, P \cup R) = x + y
    <3>1. P \cup R \subseteq Line OBVIOUS
    <3>2. x \in Int /\ y \in Int BY SumTypes
    <3>3. SumOf(b, k, P \cup R) = SumOf(b, k, P) + SumOf(b, k, R) BY SumOfJoin
    <3> QED BY <3>2, <3>3
  <2>3. a \in Int /\ Cong(a, x, INT)
    <3>1. CASE k \in DOMAIN table
      <4>1. a \in Int /\ (a - x) % INT = 0 BY <3>1, Sizes
      <4> HIDE DEF a, x
      <4> QED BY <2>2, <4>1, Sizes, CongDiff
    <3>2. CASE k \notin DOMAIN table
      <4>1. a = 0 /\ x = 0 BY <3>2, SumOfNone
      <4>2. 0 = 0 + (INT * 0) /\ 0 \in Int BY Sizes
      <4> QED BY <4>1, <4>2 DEF Cong
    <3> QED BY <3>1, <3>2
  <2>4. c \in Int /\ Cong(c, y, INT) /\ ((k \in DOMAIN from => 2 * from[k] < INT) => c = y % SIZE)
    <3>1. CASE k \in DOMAIN from
      <4>1. from[k] = y % SIZE /\ c = AsInt(from[k]) BY <3>1
      <4> HIDE DEF c, y
      <4>7. Cong(y, y % SIZE, SIZE) /\ y % SIZE \in 0 .. SIZE-1 BY <2>2, Sizes, CongMod
      <4>2. Cong(y, from[k], SIZE) /\ from[k] \in Nat BY <4>1, <4>7, Sizes
      <4>3. Cong(y, from[k], INT) BY <2>2, <4>2, IntDividesSize
      <4>4. Cong(from[k], y, INT) BY <2>2, <4>2, <4>3, Sizes, CongSym
      <4>5. c \in Int /\ Cong(c, from[k], INT) /\ (2 * from[k] < INT => c = from[k]) BY <4>1, <4>2, AsIntIs
      <4>6. Cong(c, y, INT) BY <2>2, <4>2, <4>4, <4>5, Sizes, CongTrans
      <4> QED BY <3>1, <4>1, <4>5, <4>6
    <3>2. CASE k \notin DOMAIN from
      <4>1. c = 0 /\ y = 0 BY <3>2, SumOfNone
      <4>2. 0 = 0 + (INT * 0) /\ 0 \in Int BY Sizes
      <4>3. Cong(c, y, INT) BY <4>1, <4>2 DEF Cong
      <4> QED BY <4>1, <4>3, ZeroMod
    <3> QED BY <3>1, <3>2
  <2>5. (k \in DOMAIN table => table[k] = SumOf(b, k, P) % SIZE) => a = x % SIZE
    BY SumOfNone, ZeroMod
  <2> HIDE DEF a, c, x, y
  <2>6. Cong(a + c, x + y, INT) BY <2>2, <2>3, <2>4, Sizes, CongAdd
  <2>7. Cong(new[k], a + c, INT)
    <3>1. a + c \in Int BY <2>3, <2>4
    <3>2. Cong(a + c, new[k], SIZE) /\ new[k] \in Int BY <2>1, <3>1, Sizes, CongMod
    <3>3. Cong(a + c, new[k], INT) BY <3>1, <3>2, IntDividesSize
    <3> QED BY <3>1, <3>2, <3>3, Sizes, CongSym
  <2>8. new[k] \in Int /\ a + c \in Int /\ x + y \in Int BY <2>1, <2>2, <2>3, <2>4, Sizes
  <2>9. Cong(new[k], x + y, INT) BY <2>6, <2>7, <2>8, Sizes, CongTrans
  <2>10. (new[k] - (x + y)) % INT = 0 BY <2>8, <2>9, Sizes, CongDiff
  <2>11. ASSUME a = x % SIZE, c = y % SIZE PROVE new[k] = (x + y) % SIZE
    <3>1. y % SIZE \in Int BY <2>2, Sizes
    <3>2. ((x % SIZE) + (y % SIZE)) % SIZE = (x + (y % SIZE)) % SIZE BY <2>2, <3>1, Sizes, ModAdd
    <3>3. ((y % SIZE) + x) % SIZE = (y + x) % SIZE BY <2>2, Sizes, ModAdd
    <3>4. (y % SIZE) + x = x + (y % SIZE) /\ y + x = x + y BY <2>2, <3>1
    <3>5. (x + (y % SIZE)) % SIZE = (x + y) % SIZE BY <3>3, <3>4
    <3> QED BY <2>1, <2>11, <3>2, <3>5
  <2>12. (new[k] - SumOf(b, k, P \cup R)) % INT = 0 BY <2>2, <2>10
  <2>13. (k \in DOMAIN table => table[k] = x % SIZE) /\ (k \in DOMAIN from => 2 * from[k] < INT)
           => new[k] = SumOf(b, k, P \cup R) % SIZE
    BY <2>2, <2>4, <2>5, <2>11 DEF x
  <2> QED BY <2>12, <2>13 DEF x
<1>3. Keys(b, P \cup R) = Keys(b, P) \cup Keys(b, R) BY KeysJoin
<1> QED BY <1>1, <1>2, <1>3

\* Merging keeps merged tables close to the sums.
LEMMA MergeClose ==
  ASSUME NEW n \in Thread, NEW P, P \subseteq Line, NEW R, R \subseteq Line, P \cap R = {},
         IsStats(all_stats), Close(all_stats, P, n), Exact(stats[n], R)
  PROVE  Close([total |-> (all_stats.total + stats[n].total) % SIZE,
                url |-> Merge(all_stats.url, stats[n].url),
                referer |-> Merge(all_stats.referer, stats[n].referer)], P \cup R, n + 1)
<1> DEFINE u == [total |-> (all_stats.total + stats[n].total) % SIZE,
                 url |-> Merge(all_stats.url, stats[n].url),
                 referer |-> Merge(all_stats.referer, stats[n].referer)]
<1>0. "url" \in Table /\ "referer" \in Table BY DEF Table
<1>1. \A b \in Table : u[b] = Merge(all_stats[b], stats[n][b]) BY DEF Table
<1>2. u.total = Sum("url", P \cup R) % SIZE
  <2> DEFINE x == Sum("url", P)
             y == Sum("url", R)
  <2>1. u.total = (all_stats.total + stats[n].total) % SIZE OBVIOUS
  <2>2. all_stats.total = x % SIZE /\ stats[n].total = y % SIZE BY DEF Close, Exact
  <2>3. x \in Int /\ y \in Int /\ Sum("url", P \cup R) = x + y BY <1>0, SumTypes, SumJoin
  <2> HIDE DEF u, x, y
  <2>4. y % SIZE \in Int BY <2>3, Sizes
  <2>5. ((x % SIZE) + (y % SIZE)) % SIZE = (x + (y % SIZE)) % SIZE BY <2>3, <2>4, Sizes, ModAdd
  <2>6. ((y % SIZE) + x) % SIZE = (y + x) % SIZE BY <2>3, Sizes, ModAdd
  <2>7. (y % SIZE) + x = x + (y % SIZE) /\ y + x = x + y BY <2>3, <2>4
  <2>8. (x + (y % SIZE)) % SIZE = (x + y) % SIZE BY <2>6, <2>7
  <2> QED BY <2>1, <2>2, <2>3, <2>5, <2>8
<1> HIDE DEF u
<1>3. ASSUME NEW b \in Table
      PROVE  /\ IsClose(u[b], b, P \cup R)
             /\ \A k \in DOMAIN u[b] : Fits(b, k, n + 1) => IsSum(u[b], k, b, P \cup R)
  <2>1. IsClose(all_stats[b], b, P) /\ \A k \in DOMAIN all_stats[b] : all_stats[b][k] \in 0 .. SIZE-1
    BY DEF Close, IsStats
  <2>2. IsExact(stats[n][b], b, R) BY DEF Exact
  <2>3. u[b] = Merge(all_stats[b], stats[n][b]) BY <1>1
  <2>4. /\ IsClose(u[b], b, P \cup R)
        /\ \A k \in DOMAIN u[b] :
             (k \in DOMAIN all_stats[b] => IsSum(all_stats[b], k, b, P)) /\ FitsIn(stats[n][b], k)
               => IsSum(u[b], k, b, P \cup R)
    BY <2>1, <2>2, <2>3, MergeTable
  <2>5. ASSUME NEW k, Fits(b, k, n + 1)
        PROVE  Fits(b, k, n) /\ FitsIn(stats[n][b], k)
    <3>1. n \in Nat /\ n \in 0 .. (n+1)-1 /\ \A t \in 0 .. n-1 : t \in 0 .. (n+1)-1 BY Sizes DEF Thread
    <3> QED BY <2>5, <3>1 DEF Fits
  <2>6. \A k \in DOMAIN all_stats[b] : Fits(b, k, n) => IsSum(all_stats[b], k, b, P)
    BY DEF Close
  <2> QED BY <2>4, <2>5, <2>6
<1>4. Close(u, P \cup R, n + 1) BY <1>2, <1>3 DEF Close
<1> QED BY <1>4 DEF u
-----------------------------------------------------------------------------
(***************************************************************************)
(* What the threads have read                                              *)
(***************************************************************************)
LEMMA ReadIsLines ==
  ASSUME NEW phase, NEW by, NEW n
  PROVE  /\ \A t : HasRead(phase, by, t) \subseteq Line
         /\ ReadBy(phase, by, n) \subseteq Line
BY DEF HasRead, ReadBy

LEMMA ReadByNone ==
  ASSUME NEW phase, NEW by
  PROVE  ReadBy(phase, by, 0) = {}
BY DEF ReadBy

LEMMA ReadByMore ==
  ASSUME NEW phase, NEW by, NEW n \in Nat
  PROVE  /\ ReadBy(phase, by, n + 1) = ReadBy(phase, by, n) \cup HasRead(phase, by, n)
         /\ ReadBy(phase, by, n) \cap HasRead(phase, by, n) = {}
<1>1. 0 .. (n+1)-1 = (0 .. n-1) \cup {n} /\ n \notin 0 .. n-1 OBVIOUS
<1>2. \A t \in 0 .. n-1 : HasRead(phase, by, t) \cap HasRead(phase, by, n) = {}
  BY <1>1 DEF HasRead
<1> QED BY <1>1, <1>2 DEF ReadBy

LEMMA ExactNone == Exact(NoStats, {}) /\ Close(NoStats, {}, 0)
<1>1. Sum("url", {}) = 0 BY SumEmpty DEF Sum
<1>2. 0 % SIZE = 0 BY ZeroMod
<1>3. \A b \in Table : DOMAIN NoStats[b] = {} BY DEF NoStats, Empty, Table
<1>4. \A b : Keys(b, {}) = {} BY DEF Keys
<1>5. NoStats.total = 0 BY DEF NoStats
<1>6. \A b \in Table : IsExact(NoStats[b], b, {}) /\ IsClose(NoStats[b], b, {})
  BY <1>3, <1>4 DEF IsExact, IsClose
<1>7. NoStats.total = Sum("url", {}) % SIZE BY <1>1, <1>2, <1>5
<1> QED BY <1>3, <1>6, <1>7 DEF Exact, Close

\* A step that opens and closes no file, and reads no line
LEMMA ReadSame ==
  ASSUME NEW phase, NEW by, NEW to, NEW at,
         \A f \in File : phase[f] \in {"open", "done"} \/ to[f] \in {"open", "done"} =>
           /\ to[f] = phase[f] /\ at[f] = by[f]
           /\ phase[f] = "open" => lines'[by[f]] = lines[by[f]]
  PROVE  \A t : HasRead(to, at, t)' = HasRead(phase, by, t)
<1> SUFFICES ASSUME NEW t PROVE HasRead(to, at, t)' = HasRead(phase, by, t)
  OBVIOUS
<1>1. HasRead(to, at, t)' = { p \in Line : /\ at[p[1]] = t
                                           /\ \/ to[p[1]] = "done"
                                              \/ to[p[1]] = "open" /\ p[2] <= Len(Parsed[p[1]]) - Len(lines'[t]) }
  BY DEF HasRead
<1>2. ASSUME NEW p \in Line
      PROVE  (/\ at[p[1]] = t
              /\ \/ to[p[1]] = "done"
                 \/ to[p[1]] = "open" /\ p[2] <= Len(Parsed[p[1]]) - Len(lines'[t]))
             <=> (/\ by[p[1]] = t
                  /\ \/ phase[p[1]] = "done"
                     \/ phase[p[1]] = "open" /\ p[2] <= Len(Parsed[p[1]]) - Len(lines[t]))
  <2>1. PICK f \in File : p[1] = f BY LineIs
  <2>2. CASE phase[f] = "open"
    <3>1. to[f] = "open" /\ at[f] = by[f] /\ lines'[by[f]] = lines[by[f]] BY <2>2
    <3> QED BY <2>1, <2>2, <3>1
  <2>3. CASE phase[f] = "done" BY <2>1, <2>3
  <2>4. CASE phase[f] \notin {"open", "done"}
    <3>1. to[f] \notin {"open", "done"} BY <2>4
    <3> QED BY <2>1, <2>4, <3>1
  <2> QED BY <2>2, <2>3, <2>4
<1> QED BY <1>1, <1>2 DEF HasRead

\* While no thread has been joined, nothing has been merged.
LEMMA CloseNone ==
  ASSUME NEW phase, NEW by, NEW to, NEW at, joined = 0, joined' = 0, UNCHANGED all_stats,
         Close(all_stats, ReadBy(phase, by, joined), joined)
  PROVE  Close(all_stats, ReadBy(to, at, joined), joined)'
<1>1. ReadBy(phase, by, joined) = {} BY ReadByNone
<1>2. ReadBy(to, at, joined)' = {} BY DEF ReadBy
<1>3. \A b, k : Fits(b, k, joined) BY DEF Fits
<1>4. \A b, k : Fits(b, k, joined)' BY DEF Fits
<1>5. Close(all_stats, {}, 0) BY <1>1
<1>6. /\ all_stats.total = Sum("url", {}) % SIZE
      /\ \A b \in Table : IsClose(all_stats[b], b, {}) /\ \A k \in DOMAIN all_stats[b] : IsSum(all_stats[b], k, b, {})
  BY <1>3, <1>5 DEF Close
<1>7. Close(all_stats, {}, joined)' BY <1>4, <1>6 DEF Close
<1> QED BY <1>2, <1>7
-----------------------------------------------------------------------------
(***************************************************************************)
(* The invariant holds                                                     *)
(***************************************************************************)
LEMMA LedgerInit == ParserInit => LInv
<1> SUFFICES ASSUME ParserInit PROVE LInv
  OBVIOUS
<1> DEFINE phase == [f \in File |-> "rest"]
           by == [f \in File |-> 0]
<1>1. phase \in [File -> Phase] /\ by \in [File -> Thread] BY Sizes DEF Phase, Thread
<1>2. Stages BY DEF ParserInit, Stages, Merged
<1>3. IsPlaced(phase, by) BY DEF ParserInit, IsPlaced
<1>4. \A t \in Thread : IsListed(phase, by, t) /\ IsOpen(phase, by, t)
  BY DEF ParserInit, IsListed, IsOpen
<1>5. \A t : HasRead(phase, by, t) = {}
  <2> SUFFICES ASSUME NEW t, NEW p \in Line PROVE phase[p[1]] = "rest"
    BY DEF HasRead
  <2> QED BY LineIs
<1>6. joined = 0 BY DEF ParserInit, joined, Merged
<1>7. ReadBy(phase, by, 0) = {} BY ReadByNone
<1> HIDE DEF phase, by
<1>8. \A t \in Thread : Exact(stats[t], HasRead(phase, by, t)) BY <1>5, ExactNone DEF ParserInit
<1>9. Close(all_stats, ReadBy(phase, by, joined), joined) BY <1>6, <1>7, ExactNone DEF ParserInit
<1> QED BY <1>1, <1>2, <1>3, <1>4, <1>8, <1>9 DEF LInv, Ledger

\* Before any thread is joined, the merged tables play no part.
LEMMA JoinedNone ==
  ASSUME parser_pc \in {"split", "create", "join"}
  PROVE  joined = 0
BY DEF joined, Merged

LEMMA DealStep == TInv /\ LInv /\ Deal => LInv'
<1> SUFFICES ASSUME TInv, Stages, Deal,
                    NEW phase \in [File -> Phase], NEW by \in [File -> Thread], Ledger(phase, by)
             PROVE  LInv'
  BY DEF LInv
<1>1. Stages'
  <2>1. CASE rest = {} /\ GoTo("create") BY <2>1, Sizes DEF Deal, GoTo, Stages, Merged
  <2>2. CASE i' = i + 1 /\ UNCHANGED parser_pc BY <2>2 DEF Deal, Stages, Merged
  <2> QED BY <2>1, <2>2 DEF Deal
<1>2. parser_pc = "split" /\ joined = 0 /\ parser_pc' \in {"split", "create"}
  BY JoinedNone DEF Deal, GoTo
<1>3. joined' = 0 BY <1>2 DEF joined, Merged
<1>4. /\ rest = { f \in File : phase[f] = "rest" }
      /\ UNCHANGED <<dirty, tpc, lines, stats, skipped, all_stats, top>>
      /\ \A t \in Thread : tpc[t] = "new"
  BY <1>2 DEF Ledger, IsPlaced, Deal, Stages
<1>5. CASE rest = {} /\ GoTo("create") /\ UNCHANGED <<rest, logfiles>>
  <2>1. IsPlaced(phase, by)' BY <1>4, <1>5 DEF Ledger, IsPlaced, GoTo
  <2>2. \A t \in Thread : IsListed(phase, by, t)' /\ IsOpen(phase, by, t)'
    BY <1>4, <1>5 DEF Ledger, IsListed, IsOpen
  <2>3. \A t : HasRead(phase, by, t)' = HasRead(phase, by, t) BY <1>4 DEF HasRead
  <2>4. \A t \in Thread : Exact(stats[t], HasRead(phase, by, t))' BY <1>4, <2>3 DEF Ledger, Exact
  <2>5. Close(all_stats, ReadBy(phase, by, joined), joined)' BY <1>2, <1>3, <1>4, CloseNone DEF Ledger
  <2> QED BY <1>1, <2>1, <2>2, <2>4, <2>5 DEF LInv, Ledger
<1>6. ASSUME NEW f \in rest,
             i' = i + 1, logfiles' = [logfiles EXCEPT ![(i + 1) % threads_num] = <<f>> \o @],
             rest' = rest \ {f}, UNCHANGED parser_pc
      PROVE  LInv'
  <2>0. f \in File /\ phase[f] = "rest"
    BY <1>4 DEF TInv, ParserTypeOK
  <2>10. PICK t \in Thread : t = (i + 1) % threads_num
    <3>1. i \in Nat BY DEF TInv, ParserTypeOK
    <3>2. (i + 1) % threads_num \in 0 .. threads_num-1 BY <3>1, Sizes
    <3> QED BY <3>2 DEF Thread
  <2>1. PICK to \in [File -> Phase], at \in [File -> Thread] :
          to = [phase EXCEPT ![f] = "listed"] /\ at = [by EXCEPT ![f] = t]
    BY <2>0 DEF Phase
  <2>2. /\ \A g \in File : to[g] = IF g = f THEN "listed" ELSE phase[g]
        /\ \A g \in File : at[g] = IF g = f THEN t ELSE by[g]
    BY <2>0, <2>1
  <2>3. \A u \in Thread : logfiles[u] \in Seq(File) BY DEF TInv, ParserTypeOK
  <2>4. /\ Len(logfiles'[t]) = Len(logfiles[t]) + 1 /\ DOMAIN logfiles'[t] = 1 .. Len(logfiles[t]) + 1
        /\ logfiles'[t][1] = f
        /\ \A n \in 2 .. Len(logfiles[t]) + 1 : logfiles'[t][n] = logfiles[t][n-1]
        /\ \A u \in Thread \ {t} : logfiles'[u] = logfiles[u]
    <3>1. logfiles'[t] = <<f>> \o logfiles[t] /\ \A u \in Thread \ {t} : logfiles'[u] = logfiles[u]
      BY <1>6, <2>10 DEF TInv, ParserTypeOK
    <3> QED BY <2>0, <2>3, <3>1
  <2>5. IsPlaced(to, at)'
    <3>1. ASSUME NEW g \in File, to[g] = "listed"
          PROVE \E n \in DOMAIN logfiles'[at[g]] : logfiles'[at[g]][n] = g
      <4>1. CASE g = f BY <4>1, <2>2, <2>4
      <4>2. CASE g # f
        <5>1. PICK n \in DOMAIN logfiles[by[g]] : logfiles[by[g]][n] = g
          BY <3>1, <4>2, <2>2 DEF Ledger, IsPlaced
        <5>2. CASE by[g] = t
          <6>1. n \in 1 .. Len(logfiles[t]) BY <5>1, <5>2, <2>0, <2>3
          <6>2. n + 1 \in 2 .. Len(logfiles[t]) + 1 /\ (n + 1) - 1 = n /\ n + 1 \in DOMAIN logfiles'[t]
            BY <6>1, <2>0, <2>3, <2>4
          <6> QED BY <5>1, <5>2, <6>2, <4>2, <2>2, <2>4
        <5>3. CASE by[g] # t BY <5>1, <5>3, <4>2, <2>2, <2>4
        <5> QED BY <5>2, <5>3
      <4> QED BY <4>1, <4>2
    <3>2. skipped' = { g \in File : to[g] = "skipped" }
      BY <1>4, <2>0, <2>2 DEF Ledger, IsPlaced
    <3>3. rest' = { g \in File : to[g] = "rest" } BY <1>4, <1>6, <2>2
    <3>4. \A g \in File : to[g] \in {"open", "done"} => phase[g] = to[g] /\ at[g] = by[g] BY <2>2
    <3> QED BY <1>2, <1>4, <1>6, <3>1, <3>2, <3>3, <3>4 DEF Ledger, IsPlaced
  <2>6. ASSUME NEW u \in Thread PROVE IsListed(to, at, u)' /\ IsOpen(to, at, u)'
    <3>1. \A n \in DOMAIN logfiles[u] : logfiles[u][n] \in File \ {f} /\ to[logfiles[u][n]] = "listed" /\ at[logfiles[u][n]] = u
      BY <2>0, <2>2, <2>3 DEF Ledger, IsListed
    <3>2. \A m, n \in DOMAIN logfiles[u] : logfiles[u][m] = logfiles[u][n] => m = n
      BY DEF Ledger, IsListed
    <3>5. IsOpen(to, at, u)'
      BY <1>4, <2>2 DEF Ledger, IsOpen
    <3>3. CASE u # t
      <4>1. IsListed(to, at, u)' BY <1>4, <3>1, <3>2, <3>3, <2>4 DEF IsListed
      <4> QED BY <3>5, <4>1
    <3>4. CASE u = t
      <4>0. Len(logfiles[t]) \in Nat /\ DOMAIN logfiles[t] = 1 .. Len(logfiles[t]) BY <2>3
      <4>1. \A n \in DOMAIN logfiles'[t] : n = 1 \/ (n \in 2 .. Len(logfiles[t]) + 1 /\ n - 1 \in DOMAIN logfiles[t])
        <5> DEFINE l == Len(logfiles[t])
        <5>1. l \in Nat /\ DOMAIN logfiles[t] = 1 .. l /\ DOMAIN logfiles'[t] = 1 .. l+1 BY <2>4, <4>0
        <5> HIDE DEF l
        <5>2. \A n \in 1 .. l+1 : n = 1 \/ (n \in 2 .. l+1 /\ n - 1 \in 1 .. l) BY <5>1
        <5> QED BY <5>1, <5>2 DEF l
      <4>2. \A n \in DOMAIN logfiles'[t] : to[logfiles'[t][n]] = "listed" /\ at[logfiles'[t][n]] = t
        BY <3>1, <3>4, <4>1, <2>0, <2>2, <2>4
      <4>3. \A m, n \in DOMAIN logfiles'[t] : logfiles'[t][m] = logfiles'[t][n] => m = n
        <5> SUFFICES ASSUME NEW m \in DOMAIN logfiles'[t], NEW n \in DOMAIN logfiles'[t],
                            logfiles'[t][m] = logfiles'[t][n]
                     PROVE  m = n
          OBVIOUS
        <5>1. CASE m = 1 \/ n = 1 BY <5>1, <3>1, <3>4, <4>1, <2>4
        <5>2. CASE m # 1 /\ n # 1
          <6>1. logfiles'[t][m] = logfiles[t][m-1] /\ logfiles'[t][n] = logfiles[t][n-1] BY <5>2, <4>1, <2>4
          <6>2. m - 1 \in DOMAIN logfiles[t] /\ n - 1 \in DOMAIN logfiles[t] BY <5>2, <4>1
          <6>3. m - 1 = n - 1 BY <3>2, <3>4, <6>1, <6>2
          <6>4. m \in Int /\ n \in Int BY <4>0, <2>4
          <6> QED BY <6>3, <6>4
        <5> QED BY <5>1, <5>2
      <4>4. tpc'[t] # "ended" BY <1>4
      <4>5. IsListed(to, at, u)' BY <3>4, <4>2, <4>3, <4>4 DEF IsListed
      <4> QED BY <3>5, <4>5
    <3> QED BY <3>3, <3>4
  <2>7. \A u : HasRead(to, at, u)' = HasRead(phase, by, u)
    BY <1>4, <2>0, <2>2, ReadSame
  <2>8. \A u \in Thread : Exact(stats[u], HasRead(to, at, u))' BY <1>4, <2>7 DEF Ledger, Exact
  <2>9. Close(all_stats, ReadBy(to, at, joined), joined)' BY <1>2, <1>3, <1>4, CloseNone DEF Ledger
  <2> QED BY <1>1, <2>1, <2>5, <2>6, <2>8, <2>9 DEF LInv, Ledger
<1> QED BY <1>5, <1>6 DEF Deal

LEMMA CreateStep == TInv /\ LInv /\ Create => LInv'
<1> SUFFICES ASSUME TInv, Stages, Create,
                    NEW phase \in [File -> Phase], NEW by \in [File -> Thread], Ledger(phase, by)
             PROVE  LInv'
  BY DEF LInv
<1>1. /\ parser_pc = "create" /\ joined = 0 /\ parser_pc' \in {"create", "join"}
      /\ UNCHANGED <<rest, logfiles, dirty, lines, skipped, all_stats, top>>
  BY JoinedNone DEF Create, GoTo
<1>2. joined' = 0 BY <1>1 DEF joined, Merged
<1>3. i \in 0..threads_num /\ \A t \in Thread : t >= i => tpc[t] = "new" BY <1>1 DEF Stages
<1>4. Close(all_stats, ReadBy(phase, by, joined), joined)' BY <1>1, <1>2, CloseNone DEF Ledger
<1>5. \A t : HasRead(phase, by, t)' = HasRead(phase, by, t) BY <1>1 DEF HasRead
<1>6. CASE i = threads_num
  <2>1. parser_pc' = "join" /\ i' = 0 /\ UNCHANGED <<tpc, stats>> BY <1>6 DEF Create, GoTo
  <2>2. Stages' BY <2>1, Sizes DEF Stages, Merged, Thread
  <2>3. IsPlaced(phase, by)' BY <1>1, <2>1 DEF Ledger, IsPlaced
  <2>4. \A t \in Thread : IsListed(phase, by, t)' /\ IsOpen(phase, by, t)'
    BY <1>1, <2>1 DEF Ledger, IsListed, IsOpen
  <2>5. \A t \in Thread : Exact(stats[t], HasRead(phase, by, t))' BY <1>5, <2>1 DEF Ledger, Exact
  <2> QED BY <1>4, <2>2, <2>3, <2>4, <2>5 DEF LInv, Ledger
<1>7. CASE i # threads_num
  <2>1. /\ parser_pc' = "create" /\ i' = i + 1
        /\ tpc' = [tpc EXCEPT ![i] = "files"] /\ stats' = [stats EXCEPT ![i] = NoStats]
    BY <1>1, <1>7 DEF Create
  <2>2. i \in Thread /\ tpc[i] = "new" BY <1>3, <1>7, Sizes DEF Thread
  <2>3. /\ \A t \in Thread : tpc'[t] = IF t = i THEN "files" ELSE tpc[t]
        /\ \A t \in Thread : stats'[t] = IF t = i THEN NoStats ELSE stats[t]
    BY <2>1, <2>2 DEF TInv, ParserTypeOK
  <2>4. Stages' BY <1>3, <2>1, <2>2, <2>3, Sizes DEF Stages, Merged, Thread
  <2>5. \A f \in File : by[f] = i => phase[f] \notin {"open", "done"}
    BY <2>2 DEF Ledger, IsPlaced
  <2>6. IsPlaced(phase, by)' BY <1>1, <2>1, <2>3, <2>5 DEF Ledger, IsPlaced
  <2>7. \A t \in Thread : IsListed(phase, by, t)' /\ IsOpen(phase, by, t)'
    BY <1>1, <2>3 DEF Ledger, IsListed, IsOpen
  <2>8. ASSUME NEW t \in Thread PROVE Exact(stats[t], HasRead(phase, by, t))'
    <3>1. CASE t = i
      <4>1. HasRead(phase, by, t) = {} BY <2>5, <3>1, LineIs DEF HasRead
      <4> QED BY <1>5, <2>3, <3>1, <4>1, ExactNone DEF Exact
    <3>2. CASE t # i BY <1>5, <2>3, <3>2 DEF Ledger, Exact
    <3> QED BY <3>1, <3>2
  <2> QED BY <1>4, <2>4, <2>6, <2>7, <2>8 DEF LInv, Ledger
<1> QED BY <1>6, <1>7

\* A step of main that leaves the threads alone
LEMMA ThreadsSame ==
  ASSUME NEW phase, NEW by, Ledger(phase, by), UNCHANGED <<threadVars, all_stats>>, joined' = joined,
         UNCHANGED <<parser_pc, rest>> \/ (parser_pc # "split" /\ parser_pc' # "split")
  PROVE  Ledger(phase, by)'
<1> USE DEF threadVars
<1>1. IsPlaced(phase, by)' BY DEF Ledger, IsPlaced
<1>2. \A t \in Thread : IsListed(phase, by, t)' /\ IsOpen(phase, by, t)'
  BY DEF Ledger, IsListed, IsOpen
<1>3. \A t : HasRead(phase, by, t)' = HasRead(phase, by, t) BY DEF HasRead
<1>4. \A t \in Thread : Exact(stats[t], HasRead(phase, by, t))' BY <1>3 DEF Ledger, Exact
<1>5. ReadBy(phase, by, joined)' = ReadBy(phase, by, joined) BY <1>3 DEF ReadBy
<1>6. \A b, k : Fits(b, k, joined)' = Fits(b, k, joined) BY DEF Fits
<1>7. Close(all_stats, ReadBy(phase, by, joined), joined)' BY <1>5, <1>6 DEF Ledger, Close
<1> QED BY <1>1, <1>2, <1>4, <1>7 DEF Ledger

LEMMA JoinStep == TInv /\ LInv /\ Join => LInv'
<1> SUFFICES ASSUME TInv, Stages, Join,
                    NEW phase \in [File -> Phase], NEW by \in [File -> Thread], Ledger(phase, by)
             PROVE  LInv'
  BY DEF LInv
<1>1. /\ parser_pc = "join" /\ joined = 0 /\ UNCHANGED threadVars /\ UNCHANGED all_stats
      /\ i \in 0..threads_num /\ \A t \in Thread : t < i => tpc[t] = "ended"
  BY JoinedNone DEF Join, Stages
<1>2. CASE i = threads_num
  <2>1. parser_pc' = "merge" /\ i' = 0 BY <1>2 DEF Join, GoTo
  <2>2. joined' = 0 BY <2>1 DEF joined, Merged
  <2>3. Stages' BY <1>1, <1>2, <2>1, Sizes DEF Stages, Merged, Thread, threadVars
  <2>4. Ledger(phase, by)' BY <1>1, <2>1, <2>2, ThreadsSame
  <2> QED BY <2>3, <2>4 DEF LInv
<1>3. CASE i # threads_num
  <2>1. parser_pc' = "join" /\ i' = i + 1 /\ tpc[i] = "ended" BY <1>1, <1>3 DEF Join
  <2>2. joined' = 0 BY <2>1 DEF joined, Merged
  <2>3. Stages' BY <1>1, <1>3, <2>1, Sizes DEF Stages, Merged, Thread, threadVars
  <2>4. Ledger(phase, by)' BY <1>1, <2>1, <2>2, ThreadsSame
  <2> QED BY <2>3, <2>4 DEF LInv
<1> QED BY <1>2, <1>3

LEMMA MergeStep == TInv /\ LInv /\ MergeStats => LInv'
<1> SUFFICES ASSUME TInv, Stages, MergeStats,
                    NEW phase \in [File -> Phase], NEW by \in [File -> Thread], Ledger(phase, by)
             PROVE  LInv'
  BY DEF LInv
<1>1. /\ parser_pc = "merge" /\ joined = i /\ UNCHANGED threadVars
      /\ i \in 0..threads_num /\ \A t \in Thread : tpc[t] = "ended"
  BY DEF MergeStats, joined, Merged, Stages, TInv
<1>2. CASE i = threads_num
  <2>1. parser_pc' = "urls" /\ UNCHANGED all_stats BY <1>2 DEF MergeStats, GoTo
  <2>2. joined' = joined BY <1>1, <1>2, <2>1 DEF joined, Merged
  <2>3. Stages' BY <1>1, <2>1 DEF Stages, Merged, threadVars
  <2>4. Ledger(phase, by)' BY <1>1, <2>1, <2>2, ThreadsSame
  <2> QED BY <2>3, <2>4 DEF LInv
<1>3. CASE i # threads_num
  <2>1. /\ parser_pc' = "merge" /\ i' = i + 1
        /\ all_stats' = [total |-> (all_stats.total + stats[i].total) % SIZE,
                         url |-> Merge(all_stats.url, stats[i].url),
                         referer |-> Merge(all_stats.referer, stats[i].referer)]
    BY <1>1, <1>3 DEF MergeStats
  <2>2. joined' = i + 1 BY <2>1 DEF joined, Merged
  <2>3. Stages' BY <1>1, <2>1 DEF Stages, Merged, threadVars
  <2> DEFINE P == ReadBy(phase, by, i)
             R == HasRead(phase, by, i)
  <2>4. i \in Thread /\ i \in Nat BY <1>1, <1>3, Sizes DEF Thread
  <2>5. P \subseteq Line /\ R \subseteq Line /\ P \cap R = {} /\ ReadBy(phase, by, i + 1) = P \cup R
    BY <2>4, ReadIsLines, ReadByMore
  <2>6. IsStats(all_stats) /\ Close(all_stats, P, i) /\ Exact(stats[i], R)
    BY <1>1, <2>4 DEF TInv, ParserTypeOK, Ledger
  <2> HIDE DEF P, R
  <2>7. Close(all_stats', P \cup R, i + 1) BY <2>1, <2>4, <2>5, <2>6, MergeClose
  <2>8. \A t : HasRead(phase, by, t)' = HasRead(phase, by, t) BY <1>1 DEF HasRead, threadVars
  <2>9. ReadBy(phase, by, joined)' = P \cup R BY <2>2, <2>5, <2>8 DEF ReadBy
  <2>10. \A b, k : Fits(b, k, joined)' = Fits(b, k, i + 1) BY <1>1, <2>2 DEF Fits, threadVars
  <2>11. Close(all_stats, ReadBy(phase, by, joined), joined)' BY <2>7, <2>9, <2>10 DEF Close
  <2>12. IsPlaced(phase, by)' BY <1>1, <2>1 DEF Ledger, IsPlaced, threadVars
  <2>13. \A t \in Thread : IsListed(phase, by, t)' /\ IsOpen(phase, by, t)'
    BY <1>1 DEF Ledger, IsListed, IsOpen, threadVars
  <2>14. \A t \in Thread : Exact(stats[t], HasRead(phase, by, t))' BY <1>1, <2>8 DEF Ledger, Exact, threadVars
  <2> QED BY <2>3, <2>11, <2>12, <2>13, <2>14 DEF LInv, Ledger
<1> QED BY <1>2, <1>3

LEMMA RankStep == TInv /\ LInv /\ (get_top_urls \/ get_top_referers) => LInv'
<1> SUFFICES ASSUME TInv, Stages, get_top_urls \/ get_top_referers,
                    NEW phase \in [File -> Phase], NEW by \in [File -> Thread], Ledger(phase, by)
             PROVE  LInv'
  BY DEF LInv
<1>1. Merged /\ Merged' /\ parser_pc # "merge" /\ parser_pc' # "merge" /\ parser_pc # "split" /\ parser_pc' # "split"
  BY DEF get_top_urls, get_top_referers, Rank, GoTo, Merged
<1>2. UNCHANGED threadVars /\ UNCHANGED all_stats BY DEF get_top_urls, get_top_referers, Rank
<1>3. joined' = joined BY <1>1 DEF joined
<1>4. Ledger(phase, by)' BY <1>1, <1>2, <1>3, ThreadsSame
<1>5. Stages' BY <1>1, <1>2 DEF Stages, Merged, threadVars
<1> QED BY <1>4, <1>5 DEF LInv

\* A thread that has started and not ended runs while main creates or joins.
LEMMA ThreadRuns ==
  ASSUME TInv, Stages, Alive, NEW t \in Thread, tpc[t] \in {"files", "lines"}
  PROVE  parser_pc \in {"create", "join"} /\ joined = 0
<1>1. parser_pc \notin {"split", "merge"} /\ ~Merged BY DEF Stages
<1>2. parser_pc \in {"create", "join"} BY <1>1 DEF TInv, ParserTypeOK, Alive, Merged
<1> QED BY <1>2, JoinedNone

\* A step of a running thread keeps the stages, and what is merged.
LEMMA TaskSame ==
  ASSUME TInv, Stages, Alive, NEW t \in Thread, tpc[t] \in {"files", "lines"},
         UNCHANGED mainVars, NEW next \in {"files", "lines", "ended"}, tpc' = [tpc EXCEPT ![t] = next],
         NEW phase, NEW by, Close(all_stats, ReadBy(phase, by, joined), joined), NEW to, NEW at
  PROVE  Stages' /\ Close(all_stats, ReadBy(to, at, joined), joined)'
<1>1. parser_pc \in {"create", "join"} /\ joined = 0 BY ThreadRuns
<1>2. joined' = 0 BY <1>1 DEF joined, Merged, mainVars
<1>3. Close(all_stats, ReadBy(to, at, joined), joined)' BY <1>1, <1>2, CloseNone DEF mainVars
<1>4. \A u \in Thread : tpc'[u] = IF u = t THEN next ELSE tpc[u] BY DEF TInv, ParserTypeOK
<1>5. Stages' BY <1>1, <1>4 DEF Stages, Merged, mainVars
<1> QED BY <1>3, <1>5

LEMMA OpenStep ==
  ASSUME TInv, LInv, NEW t \in Thread, OpenFile(t)
  PROVE  LInv'
<1> SUFFICES ASSUME Stages, NEW phase \in [File -> Phase], NEW by \in [File -> Thread], Ledger(phase, by)
             PROVE  LInv'
  BY DEF LInv
<1> DEFINE log == logfiles[t]
<1>1. /\ Alive /\ tpc[t] = "files" /\ log # <<>> /\ logfiles' = [logfiles EXCEPT ![t] = Tail(log)]
      /\ UNCHANGED <<mainVars, dirty, stats>>
  BY DEF OpenFile
<1>2. parser_pc \in {"create", "join"} BY <1>1, ThreadRuns
<1>3. log \in Seq(File) /\ Len(log) \in Nat \ {0} /\ DOMAIN log = 1..Len(log) BY <1>1 DEF TInv, ParserTypeOK
<1>4. PICK f \in File : f = Head(log) /\ f = log[1] BY <1>1, <1>3
<1>5. /\ logfiles'[t] = Tail(log) /\ \A u \in Thread \ {t} : logfiles'[u] = logfiles[u]
      /\ DOMAIN Tail(log) = 1 .. Len(log)-1
      /\ \A n \in 1 .. Len(log)-1 : Tail(log)[n] = log[n+1]
  BY <1>1, <1>3 DEF TInv, ParserTypeOK
<1>6. phase[f] = "listed" /\ by[f] = t
  <2>1. 1 \in DOMAIN log BY <1>3
  <2> QED BY <1>4, <2>1 DEF Ledger, IsListed
<1>7. ASSUME NEW to \in [File -> Phase], \A g \in File : to[g] = IF g = f THEN to[f] ELSE phase[g], to[f] # "listed"
      PROVE  /\ \A u \in Thread : \A n \in DOMAIN logfiles'[u] : to[logfiles'[u][n]] = "listed" /\ by[logfiles'[u][n]] = u
             /\ \A u \in Thread : \A m, n \in DOMAIN logfiles'[u] : logfiles'[u][m] = logfiles'[u][n] => m = n
             /\ \A g \in File : to[g] = "listed" => \E n \in DOMAIN logfiles'[by[g]] : logfiles'[by[g]][n] = g
  <2> HIDE DEF log
  <2>0. \A m, n \in DOMAIN log : log[m] = log[n] => m = n BY DEF Ledger, IsListed, log
  <2>1. \A n \in DOMAIN log : log[n] \in File /\ phase[log[n]] = "listed" /\ by[log[n]] = t
    BY <1>3 DEF Ledger, IsListed, log
  <2>2. ASSUME NEW n \in 1 .. Len(log)-1
        PROVE  n + 1 \in DOMAIN log /\ log[n+1] # f /\ logfiles'[t][n] = log[n+1]
    <3>1. n + 1 \in DOMAIN log /\ 1 \in DOMAIN log /\ n + 1 # 1 BY <1>3
    <3> QED BY <3>1, <1>4, <1>5, <2>0
  <2>3. ASSUME NEW u \in Thread, NEW n \in DOMAIN logfiles'[u]
        PROVE  to[logfiles'[u][n]] = "listed" /\ by[logfiles'[u][n]] = u
    <3>1. CASE u = t BY <3>1, <1>7, <1>5, <2>1, <2>2, <2>3
    <3>2. CASE u # t
      <4>1. logfiles'[u] = logfiles[u] /\ logfiles[u] \in Seq(File) BY <3>2, <1>5 DEF TInv, ParserTypeOK
      <4>2. n \in DOMAIN logfiles[u] /\ logfiles[u][n] \in File BY <4>1, <2>3
      <4>3. phase[logfiles[u][n]] = "listed" /\ by[logfiles[u][n]] = u BY <4>2 DEF Ledger, IsListed
      <4>4. logfiles[u][n] # f BY <4>3, <3>2, <1>6
      <4> QED BY <4>1, <4>2, <4>3, <4>4, <1>7
    <3> QED BY <3>1, <3>2
  <2>4. ASSUME NEW u \in Thread, NEW m \in DOMAIN logfiles'[u], NEW n \in DOMAIN logfiles'[u],
               logfiles'[u][m] = logfiles'[u][n]
        PROVE  m = n
    <3>1. CASE u = t
      <4>1. m \in 1 .. Len(log)-1 /\ n \in 1 .. Len(log)-1 BY <3>1, <1>5, <2>4
      <4>2. m + 1 = n + 1 BY <3>1, <4>1, <2>0, <2>2, <2>4
      <4> QED BY <4>1, <4>2, <1>3
    <3>2. CASE u # t BY <3>2, <1>5, <2>4 DEF Ledger, IsListed
    <3> QED BY <3>1, <3>2
  <2>5. ASSUME NEW g \in File, to[g] = "listed"
        PROVE  \E n \in DOMAIN logfiles'[by[g]] : logfiles'[by[g]][n] = g
    <3>1. g # f /\ phase[g] = "listed" BY <1>7, <2>5
    <3>2. PICK n \in DOMAIN logfiles[by[g]] : logfiles[by[g]][n] = g BY <3>1 DEF Ledger, IsPlaced
    <3>3. CASE by[g] = t
      <4>1. n \in DOMAIN log /\ log[n] = g BY <3>2, <3>3 DEF log
      <4>2. n # 1 BY <4>1, <3>1, <1>4
      <4>3. n - 1 \in 1 .. Len(log)-1 /\ (n - 1) + 1 = n BY <4>1, <4>2, <1>3
      <4> QED BY <3>3, <4>1, <4>3, <1>5
    <3>4. CASE by[g] # t BY <3>2, <3>4, <1>5
    <3> QED BY <3>3, <3>4
  <2> QED BY <2>3, <2>4, <2>5
<1>8. CASE /\ lines' = [lines EXCEPT ![t] = Parsed[f]] /\ tpc' = [tpc EXCEPT ![t] = "lines"] /\ UNCHANGED skipped
  <2>1. PICK to \in [File -> Phase] : to = [phase EXCEPT ![f] = "open"] BY DEF Phase
  <2>2. \A g \in File : to[g] = IF g = f THEN "open" ELSE phase[g] BY <2>1
  <2>3. /\ \A u \in Thread : lines'[u] = IF u = t THEN Parsed[f] ELSE lines[u]
        /\ \A u \in Thread : tpc'[u] = IF u = t THEN "lines" ELSE tpc[u]
    BY <1>8 DEF TInv, ParserTypeOK
  <2>4. Stages' /\ Close(all_stats, ReadBy(to, by, joined), joined)'
    BY <1>1, <1>8, TaskSame DEF Ledger
  <2>5. \A g \in File : phase[g] = "open" => by[g] # t BY <1>1 DEF Ledger, IsPlaced
  <2>6. IsRest(Parsed[f], f) BY LinesOfFile DEF IsRest
  <2>7. IsPlaced(to, by)'
    <3>1. /\ skipped' = { g \in File : to[g] = "skipped" }
          /\ parser_pc' # "split" /\ \A g \in File : to[g] # "rest"
      BY <1>1, <1>2, <1>6, <1>8, <2>2 DEF Ledger, IsPlaced, mainVars
    <3>2. \A g \in File : to[g] = "listed" => \E n \in DOMAIN logfiles'[by[g]] : logfiles'[by[g]][n] = g
      BY <1>7, <2>2
    <3>3. \A g \in File : to[g] \in {"open", "done"} => tpc'[by[g]] # "new"
      BY <1>6, <2>2, <2>3 DEF Ledger, IsPlaced
    <3>4. ASSUME NEW g \in File, to[g] = "open" PROVE tpc'[by[g]] = "lines" /\ IsRest(lines'[by[g]], g)
      <4>1. CASE g = f BY <4>1, <1>6, <2>3, <2>6
      <4>2. CASE g # f
        <5>1. phase[g] = "open" /\ by[g] # t /\ by[g] \in Thread BY <3>4, <4>2, <2>2, <2>5
        <5> QED BY <5>1, <2>3 DEF Ledger, IsPlaced
      <4> QED BY <4>1, <4>2
    <3> QED BY <3>1, <3>2, <3>3, <3>4 DEF IsPlaced, IsRest
  <2>8. \A u \in Thread : IsListed(to, by, u)'
    <3>1. \A u \in Thread : tpc'[u] = "ended" => logfiles'[u] = <<>>
      BY <1>5, <2>3 DEF Ledger, IsListed
    <3> QED BY <1>7, <2>2, <3>1 DEF IsListed
  <2>9. \A u \in Thread : IsOpen(to, by, u)'
    BY <1>6, <2>2, <2>3, <2>5 DEF Ledger, IsOpen
  <2>10. ASSUME NEW u \in Thread PROVE HasRead(to, by, u)' = HasRead(phase, by, u)
    <3>1. HasRead(to, by, u)' = { p \in Line : /\ by[p[1]] = u
                                               /\ \/ to[p[1]] = "done"
                                                  \/ to[p[1]] = "open" /\ p[2] <= Len(Parsed[p[1]]) - Len(lines'[u]) }
      BY DEF HasRead
    <3>2. ASSUME NEW p \in Line, by[p[1]] = u
          PROVE  (to[p[1]] = "done" \/ (to[p[1]] = "open" /\ p[2] <= Len(Parsed[p[1]]) - Len(lines'[u])))
             <=> (phase[p[1]] = "done" \/ (phase[p[1]] = "open" /\ p[2] <= Len(Parsed[p[1]]) - Len(lines[u])))
      <4>1. PICK g \in File : p[1] = g /\ p[2] \in 1..Len(Parsed[g]) BY LineIs
      <4>2. CASE g = f
        <5>1. u = t /\ lines'[u] = Parsed[f] BY <4>1, <4>2, <3>2, <1>6, <2>3
        <5>2. ~(p[2] <= Len(Parsed[g]) - Len(lines'[u])) BY <4>1, <4>2, <5>1, LinesOfFile
        <5> QED BY <4>1, <4>2, <5>2, <1>6, <2>2
      <4>3. CASE g # f BY <4>1, <4>3, <3>2, <2>2, <2>3, <2>5
      <4> QED BY <4>2, <4>3
    <3> QED BY <3>1, <3>2 DEF HasRead
  <2>11. \A u \in Thread : Exact(stats[u], HasRead(to, by, u))' BY <1>1, <2>10 DEF Ledger, Exact
  <2> QED BY <2>4, <2>7, <2>8, <2>9, <2>11 DEF LInv, Ledger
<1>9. CASE skipped' = skipped \cup {f} /\ UNCHANGED <<lines, tpc>>
  <2>1. PICK to \in [File -> Phase] : to = [phase EXCEPT ![f] = "skipped"] BY DEF Phase
  <2>2. \A g \in File : to[g] = IF g = f THEN "skipped" ELSE phase[g] BY <2>1
  <2>3. tpc' = [tpc EXCEPT ![t] = "files"] BY <1>1, <1>9 DEF TInv, ParserTypeOK
  <2>4. Stages' /\ Close(all_stats, ReadBy(to, by, joined), joined)'
    BY <1>1, <2>3, TaskSame DEF Ledger
  <2>7. IsPlaced(to, by)'
    <3>1. /\ skipped' = { g \in File : to[g] = "skipped" }
          /\ parser_pc' # "split" /\ \A g \in File : to[g] # "rest"
      BY <1>1, <1>2, <1>6, <1>9, <2>2 DEF Ledger, IsPlaced, mainVars
    <3>2. \A g \in File : to[g] = "listed" => \E n \in DOMAIN logfiles'[by[g]] : logfiles'[by[g]][n] = g
      BY <1>7, <2>2
    <3>3. \A g \in File : to[g] \in {"open", "done"} => phase[g] = to[g] BY <2>2
    <3>4. \A g \in File : to[g] \in {"open", "done"} => tpc'[by[g]] # "new"
      BY <1>9, <3>3 DEF Ledger, IsPlaced
    <3>5. \A g \in File : to[g] = "open" => tpc'[by[g]] = "lines" /\ IsRest(lines'[by[g]], g)
      BY <1>9, <3>3 DEF Ledger, IsPlaced
    <3> QED BY <3>1, <3>2, <3>4, <3>5 DEF IsPlaced, IsRest
  <2>8. \A u \in Thread : IsListed(to, by, u)'
    <3>1. \A u \in Thread : tpc'[u] = "ended" => logfiles'[u] = <<>>
      BY <1>1, <1>5, <1>9 DEF Ledger, IsListed
    <3> QED BY <1>7, <2>2, <3>1 DEF IsListed
  <2>9. \A u \in Thread : IsOpen(to, by, u)'
    BY <1>6, <1>9, <2>2 DEF Ledger, IsOpen
  <2>10. \A u : HasRead(to, by, u)' = HasRead(phase, by, u) BY <1>6, <1>9, <2>2, ReadSame
  <2>11. \A u \in Thread : Exact(stats[u], HasRead(to, by, u))' BY <1>1, <2>10 DEF Ledger, Exact
  <2> QED BY <2>4, <2>7, <2>8, <2>9, <2>11 DEF LInv, Ledger
<1> QED BY <1>4, <1>8, <1>9 DEF OpenFile

LEMMA ParseStep ==
  ASSUME TInv, LInv, NEW t \in Thread, ParseLine(t)
  PROVE  LInv'
<1> SUFFICES ASSUME Stages, NEW phase \in [File -> Phase], NEW by \in [File -> Thread], Ledger(phase, by)
             PROVE  LInv'
  BY DEF LInv
<1>1. /\ Alive /\ tpc[t] = "lines" /\ lines[t] # <<>> /\ lines' = [lines EXCEPT ![t] = Tail(@)]
      /\ UNCHANGED <<mainVars, dirty, logfiles, tpc, skipped>>
  BY DEF ParseLine
<1>2. PICK f \in File : phase[f] = "open" /\ by[f] = t BY <1>1 DEF Ledger, IsOpen
<1>3. \A g \in File : phase[g] = "open" /\ by[g] = t => g = f BY <1>2 DEF Ledger, IsOpen
<1>4. PICK old : old = lines[t] OBVIOUS
<1>5. old \in Seq(Record) /\ old # <<>> /\ Len(old) \in Nat \ {0} BY <1>1, <1>4 DEF TInv
<1>6. PICK new : new = Tail(old) OBVIOUS
<1>7. /\ Len(new) = Len(old) - 1 /\ \A m \in 1 .. Len(old)-1 : new[m] = old[m+1]
      /\ Head(old) = old[1]
  BY <1>5, <1>6
<1>8. \A u \in Thread : lines'[u] = IF u = t THEN new ELSE lines[u]
  BY <1>1, <1>4, <1>6 DEF TInv, ParserTypeOK
<1>9. PICK size \in Nat : size = Len(Parsed[f]) /\ DOMAIN Parsed[f] = 1..size BY LinesOfFile
<1>10. Len(old) <= size /\ \A m \in 1..Len(old) : old[m] = Parsed[f][(size - Len(old)) + m]
  BY <1>2, <1>4, <1>9 DEF Ledger, IsPlaced, IsRest
<1>11. PICK n \in 1..size : n = (size - Len(old)) + 1 BY <1>5, <1>9, <1>10
<1>12. PICK p \in Line : p = <<f, n>> BY <1>9, <1>11, LinesOfFile
<1>13. Head(old) = Parsed[p[1]][p[2]]
  <2>1. 1 \in 1..Len(old) BY <1>5
  <2> QED BY <2>1, <1>7, <1>10, <1>11, <1>12
<1>14. IsRest(new, f)
  <2>1. Len(new) <= size BY <1>5, <1>7, <1>10
  <2>2. ASSUME NEW m \in 1..Len(new) PROVE new[m] = Parsed[f][(size - Len(new)) + m]
    <3>0. PICK l \in Nat : l = Len(old) /\ Len(new) = l - 1 /\ m \in 1 .. l-1 BY <1>5, <1>7
    <3>3. m \in Int /\ m + 1 \in 1..l BY <3>0
    <3>2. (size - l) + (m + 1) = (size - (l - 1)) + m BY <3>3
    <3>1. m \in 1 .. Len(old)-1 /\ m + 1 \in 1..Len(old) /\ (size - Len(old)) + (m + 1) = (size - Len(new)) + m
      BY <3>0, <3>2, <3>3
    <3> QED BY <3>1, <1>7, <1>10
  <2> QED BY <2>1, <2>2, <1>9 DEF IsRest
<1>15. Stages' /\ Close(all_stats, ReadBy(phase, by, joined), joined)'
  <2>1. tpc' = [tpc EXCEPT ![t] = "lines"] BY <1>1 DEF TInv, ParserTypeOK
  <2> QED BY <1>1, <2>1, TaskSame DEF Ledger
<1>16. IsPlaced(phase, by)'
  <2>1. ASSUME NEW g \in File, phase[g] = "open" PROVE tpc'[by[g]] = "lines" /\ IsRest(lines'[by[g]], g)
    <3>1. CASE by[g] = t BY <2>1, <3>1, <1>1, <1>3, <1>8, <1>14
    <3>2. CASE by[g] # t BY <2>1, <3>2, <1>1, <1>8 DEF Ledger, IsPlaced
    <3> QED BY <3>1, <3>2
  <2> QED BY <1>1, <2>1 DEF Ledger, IsPlaced, IsRest, mainVars
<1>17. \A u \in Thread : IsListed(phase, by, u)' /\ IsOpen(phase, by, u)'
  BY <1>1 DEF Ledger, IsListed, IsOpen
<1>18. ASSUME NEW u \in Thread
       PROVE  HasRead(phase, by, u)' = { q \in Line : /\ by[q[1]] = u
                                                      /\ \/ phase[q[1]] = "done"
                                                         \/ phase[q[1]] = "open" /\ q[2] <= Len(Parsed[q[1]]) - Len(lines'[u]) }
  BY DEF HasRead
<1>19. \A u \in Thread \ {t} : HasRead(phase, by, u)' = HasRead(phase, by, u)
  BY <1>8, <1>18 DEF HasRead
<1>20. HasRead(phase, by, t)' = HasRead(phase, by, t) \cup {p} /\ p \notin HasRead(phase, by, t)
  <2>1. p[1] = f /\ p[2] = n BY <1>12
  <2>2. ASSUME NEW q \in Line, by[q[1]] = t, phase[q[1]] = "open"
        PROVE  (q[2] <= Len(Parsed[q[1]]) - Len(lines'[t])) <=> (q = p \/ q[2] <= Len(Parsed[q[1]]) - Len(lines[t]))
    <3>1. q[1] \in File /\ q[2] \in 1..Len(Parsed[q[1]]) /\ q = <<q[1], q[2]>> BY LineIs
    <3>2. q[1] = f BY <2>2, <3>1, <1>3
    <3>3. q = p <=> q[2] = n BY <3>1, <3>2, <1>12
    <3>4. Len(Parsed[q[1]]) = size /\ Len(lines[t]) = Len(old) /\ Len(lines'[t]) = Len(old) - 1
      BY <3>2, <1>4, <1>7, <1>8, <1>9
    <3>5. Len(Parsed[q[1]]) - Len(lines[t]) = n - 1 /\ Len(Parsed[q[1]]) - Len(lines'[t]) = n
      BY <3>4, <1>5, <1>9, <1>11
    <3>6. q[2] \in Int /\ n \in Int BY <3>1, <3>4, <1>9
    <3>7. q[2] <= n <=> (q[2] = n \/ q[2] <= n - 1) BY <3>6
    <3> QED BY <3>3, <3>5, <3>7
  <2>3. ~(p[2] <= Len(Parsed[p[1]]) - Len(lines[t]))
    BY <2>1, <1>4, <1>5, <1>9, <1>11
  <2>4. phase[p[1]] = "open" /\ by[p[1]] = t BY <2>1, <1>2
  <2>5. \A q \in Line : (/\ by[q[1]] = t
                          /\ \/ phase[q[1]] = "done"
                             \/ phase[q[1]] = "open" /\ q[2] <= Len(Parsed[q[1]]) - Len(lines'[t]))
                      <=> (q \in HasRead(phase, by, t) \/ q = p)
    <3> SUFFICES ASSUME NEW q \in Line
                 PROVE  (/\ by[q[1]] = t
                         /\ \/ phase[q[1]] = "done"
                            \/ phase[q[1]] = "open" /\ q[2] <= Len(Parsed[q[1]]) - Len(lines'[t]))
                        <=> (q \in HasRead(phase, by, t) \/ q = p)
      OBVIOUS
    <3>1. CASE by[q[1]] = t /\ phase[q[1]] = "open" BY <3>1, <2>2 DEF HasRead
    <3>2. CASE ~(by[q[1]] = t /\ phase[q[1]] = "open")
      <4>1. q # p BY <3>2, <2>4
      <4> QED BY <3>2, <4>1 DEF HasRead
    <3> QED BY <3>1, <3>2
  <2>6. p \notin HasRead(phase, by, t) BY <2>3, <2>4 DEF HasRead
  <2>7. HasRead(phase, by, t)' = HasRead(phase, by, t) \cup {p}
    <3>1. HasRead(phase, by, t) \subseteq Line BY ReadIsLines
    <3>2. HasRead(phase, by, t)' = { q \in Line : q \in HasRead(phase, by, t) \/ q = p } BY <1>18, <2>5
    <3> QED BY <3>1, <3>2
  <2> QED BY <2>6, <2>7
<1>21. Exact(stats'[t], HasRead(phase, by, t) \cup {p})
  <2> DEFINE P == HasRead(phase, by, t)
             s == stats[t]
             r == Head(old)
             s2 == [total |-> (s.total + r.bytes) % SIZE, url |-> Add(s.url, r.url, r.bytes),
                    referer |-> Add(s.referer, r.referer, 1)]
  <2>1. Exact(s, P) /\ P \subseteq Line /\ p \notin P BY <1>20, ReadIsLines DEF Ledger
  <2>2. stats'[t] = s2 BY <1>4 DEF ParseLine, TInv, ParserTypeOK
  <2> HIDE DEF P, s
  <2>3. Exact(s2, P \cup {p}) BY <1>13, <2>1, AddExact
  <2> HIDE DEF s2
  <2> QED BY <2>2, <2>3 DEF P
<1>22. \A u \in Thread : Exact(stats[u], HasRead(phase, by, u))'
  <2>1. \A u \in Thread \ {t} : stats'[u] = stats[u] BY DEF ParseLine, TInv, ParserTypeOK
  <2>2. \A u \in Thread \ {t} : Exact(stats[u], HasRead(phase, by, u))' BY <1>19, <2>1 DEF Ledger, Exact
  <2>3. Exact(stats[t], HasRead(phase, by, t))' BY <1>20, <1>21 DEF Exact
  <2> QED BY <2>2, <2>3
<1> QED BY <1>15, <1>16, <1>17, <1>22 DEF LInv, Ledger

LEMMA CloseStep ==
  ASSUME TInv, LInv, NEW t \in Thread, CloseFile(t)
  PROVE  LInv'
<1> SUFFICES ASSUME Stages, NEW phase \in [File -> Phase], NEW by \in [File -> Thread], Ledger(phase, by)
             PROVE  LInv'
  BY DEF LInv
<1>1. /\ Alive /\ tpc[t] = "lines" /\ lines[t] = <<>> /\ tpc' = [tpc EXCEPT ![t] = "files"]
      /\ UNCHANGED <<mainVars, dirty, logfiles, lines, stats, skipped>>
  BY DEF CloseFile
<1>2. PICK f \in File : phase[f] = "open" /\ by[f] = t BY <1>1 DEF Ledger, IsOpen
<1>3. \A g \in File : phase[g] = "open" /\ by[g] = t => g = f BY <1>2 DEF Ledger, IsOpen
<1>4. PICK to \in [File -> Phase] : to = [phase EXCEPT ![f] = "done"] BY DEF Phase
<1>5. \A g \in File : to[g] = IF g = f THEN "done" ELSE phase[g] BY <1>4
<1>6. \A u \in Thread : tpc'[u] = IF u = t THEN "files" ELSE tpc[u] BY <1>1 DEF TInv, ParserTypeOK
<1>7. Stages' /\ Close(all_stats, ReadBy(to, by, joined), joined)'
  BY <1>1, TaskSame DEF Ledger
<1>8. IsPlaced(to, by)'
  <2>1. /\ skipped' = { g \in File : to[g] = "skipped" }
        /\ (parser_pc' = "split" => rest' = { g \in File : to[g] = "rest" })
        /\ (parser_pc' # "split" => \A g \in File : to[g] # "rest")
    BY <1>1, <1>2, <1>5 DEF Ledger, IsPlaced, mainVars
  <2>2. \A g \in File : to[g] = "listed" => \E n \in DOMAIN logfiles'[by[g]] : logfiles'[by[g]][n] = g
    BY <1>1, <1>5 DEF Ledger, IsPlaced
  <2>3. \A g \in File : to[g] \in {"open", "done"} => tpc'[by[g]] # "new"
    BY <1>2, <1>5, <1>6 DEF Ledger, IsPlaced
  <2>4. \A g \in File : to[g] = "open" => phase[g] = "open" /\ by[g] # t BY <1>3, <1>5
  <2>5. \A g \in File : to[g] = "open" => tpc'[by[g]] = "lines" /\ IsRest(lines'[by[g]], g)
    BY <1>1, <1>6, <2>4 DEF Ledger, IsPlaced
  <2> QED BY <2>1, <2>2, <2>3, <2>5 DEF IsPlaced, IsRest
<1>9. \A u \in Thread : IsListed(to, by, u)'
  <2>1. ASSUME NEW u \in Thread, NEW n \in DOMAIN logfiles[u]
        PROVE  to[logfiles[u][n]] = "listed" /\ by[logfiles[u][n]] = u
    <3>1. logfiles[u][n] \in File BY DEF TInv, ParserTypeOK
    <3>2. phase[logfiles[u][n]] = "listed" /\ by[logfiles[u][n]] = u BY DEF Ledger, IsListed
    <3> QED BY <3>1, <3>2, <1>2, <1>5
  <2> QED BY <1>1, <1>6, <2>1 DEF Ledger, IsListed
<1>10. \A u \in Thread : IsOpen(to, by, u)'
  BY <1>2, <1>3, <1>5, <1>6 DEF Ledger, IsOpen
<1>11. ASSUME NEW u \in Thread PROVE HasRead(to, by, u)' = HasRead(phase, by, u)
  <2>1. HasRead(to, by, u)' = { p \in Line : /\ by[p[1]] = u
                                             /\ \/ to[p[1]] = "done"
                                                \/ to[p[1]] = "open" /\ p[2] <= Len(Parsed[p[1]]) - Len(lines[u]) }
    BY <1>1 DEF HasRead
  <2>2. ASSUME NEW p \in Line, by[p[1]] = u
        PROVE  (to[p[1]] = "done" \/ (to[p[1]] = "open" /\ p[2] <= Len(Parsed[p[1]]) - Len(lines[u])))
           <=> (phase[p[1]] = "done" \/ (phase[p[1]] = "open" /\ p[2] <= Len(Parsed[p[1]]) - Len(lines[u])))
    <3>1. PICK g \in File : p[1] = g /\ p[2] \in 1..Len(Parsed[g]) BY LineIs
    <3>2. CASE g = f
      <4>1. u = t /\ Len(lines[u]) = 0 BY <3>1, <3>2, <2>2, <1>1, <1>2
      <4>2. p[2] <= Len(Parsed[g]) - Len(lines[u]) BY <3>1, <4>1, LinesOfFile
      <4> QED BY <3>1, <3>2, <4>2, <1>2, <1>5
    <3>3. CASE g # f BY <3>1, <3>3, <1>5
    <3> QED BY <3>2, <3>3
  <2> QED BY <2>1, <2>2 DEF HasRead
<1>12. \A u \in Thread : Exact(stats[u], HasRead(to, by, u))' BY <1>1, <1>11 DEF Ledger, Exact
<1> QED BY <1>7, <1>8, <1>9, <1>10, <1>12 DEF LInv, Ledger

LEMMA EndStep ==
  ASSUME TInv, LInv, NEW t \in Thread, EndTask(t), Alive'
  PROVE  LInv'
<1> SUFFICES ASSUME Stages, NEW phase \in [File -> Phase], NEW by \in [File -> Thread], Ledger(phase, by)
             PROVE  LInv'
  BY DEF LInv
<1>1. /\ Alive /\ tpc[t] = "files" /\ logfiles[t] = <<>> /\ tpc' = [tpc EXCEPT ![t] = "ended"]
      /\ UNCHANGED <<mainVars, dirty, logfiles, lines, stats, skipped>>
  BY DEF EndTask, Alive, mainVars
<1>2. \A u \in Thread : tpc'[u] = IF u = t THEN "ended" ELSE tpc[u] BY <1>1 DEF TInv, ParserTypeOK
<1>3. Stages' /\ Close(all_stats, ReadBy(phase, by, joined), joined)'
  BY <1>1, TaskSame DEF Ledger
<1>4. \A f \in File : phase[f] = "open" => by[f] # t BY <1>1 DEF Ledger, IsPlaced
<1>5. IsPlaced(phase, by)'
  <2>1. \A g \in File : phase[g] \in {"open", "done"} => tpc'[by[g]] # "new"
    BY <1>2 DEF Ledger, IsPlaced
  <2>2. \A g \in File : phase[g] = "open" => tpc'[by[g]] = "lines" /\ IsRest(lines'[by[g]], g)
    BY <1>1, <1>2, <1>4 DEF Ledger, IsPlaced
  <2> QED BY <1>1, <2>1, <2>2 DEF Ledger, IsPlaced, IsRest, mainVars
<1>6. \A u \in Thread : IsListed(phase, by, u)' BY <1>1, <1>2 DEF Ledger, IsListed
<1>7. \A u \in Thread : IsOpen(phase, by, u)' BY <1>2 DEF Ledger, IsOpen
<1>8. \A u : HasRead(phase, by, u)' = HasRead(phase, by, u) BY <1>1 DEF HasRead
<1>9. \A u \in Thread : Exact(stats[u], HasRead(phase, by, u))' BY <1>1, <1>8 DEF Ledger, Exact
<1> QED BY <1>3, <1>5, <1>6, <1>7, <1>9 DEF LInv, Ledger

LEMMA IInvInit == ParserInit => IInv
BY TypeInit, LedgerInit DEF IInv

LEMMA IInvStep == IInv /\ [ParserNext]_parserVars => IInv'
<1> SUFFICES ASSUME IInv, [ParserNext]_parserVars PROVE IInv'
  OBVIOUS
<1>1. TInv' BY TypeStep DEF IInv
<1>2. CASE UNCHANGED parserVars
  <2> SUFFICES ASSUME Alive PROVE LInv'
    BY <1>1, <1>2 DEF IInv, Alive, parserVars
  <2>1. PICK phase \in [File -> Phase], by \in [File -> Thread] : Ledger(phase, by)
    BY DEF IInv, LInv
  <2>2. joined' = joined BY <1>2 DEF parserVars, joined, Merged
  <2>3. Ledger(phase, by)' BY <1>2, <2>1, <2>2, ThreadsSame DEF parserVars, threadVars
  <2>4. Stages' BY <1>2 DEF IInv, LInv, Stages, Merged, parserVars
  <2> QED BY <2>3, <2>4 DEF LInv
<1>3. CASE Main
  <2>1. Alive BY <1>3 DEF Main, Deal, Create, Join, MergeStats, get_top_urls, get_top_referers, Rank, Alive
  <2>2. TInv /\ LInv BY <2>1 DEF IInv
  <2>3. LInv'
    BY <1>3, <2>2, DealStep, CreateStep, JoinStep, MergeStep, RankStep DEF Main
  <2> QED BY <1>1, <2>3 DEF IInv
<1>4. ASSUME NEW t \in Thread, Task(t) PROVE IInv'
  <2>1. Alive BY <1>4 DEF Task, OpenFile, ParseLine, CloseFile, EndTask
  <2>2. TInv /\ LInv BY <2>1 DEF IInv
  <2>3. Alive' => LInv'
    BY <1>4, <2>2, OpenStep, ParseStep, CloseStep, EndStep DEF Task
  <2> QED BY <1>1, <2>3 DEF IInv
<1> QED BY <1>2, <1>3, <1>4 DEF ParserNext

\* When all threads have ended, they have read all there is.
LEMMA ReadAll ==
  ASSUME IInv, Merged, NEW phase \in [File -> Phase], NEW by \in [File -> Thread], Ledger(phase, by)
  PROVE  joined = threads_num /\ ReadBy(phase, by, threads_num) = LinesRead
<1>1. Alive /\ parser_pc # "split" BY DEF Alive, Merged
<1>2. \A t \in Thread : tpc[t] = "ended" BY <1>1 DEF IInv, LInv, Stages
<1>3. \A f \in File : phase[f] \in {"done", "skipped"}
  <2> SUFFICES ASSUME NEW f \in File PROVE phase[f] \notin {"rest", "listed", "open"}
    BY DEF Phase
  <2>1. by[f] \in Thread /\ tpc[by[f]] = "ended" BY <1>2
  <2>2. phase[f] # "rest" BY <1>1 DEF Ledger, IsPlaced
  <2>3. phase[f] # "open" BY <2>1 DEF Ledger, IsPlaced
  <2>4. phase[f] # "listed"
    <3>1. logfiles[by[f]] = <<>> BY <2>1 DEF Ledger, IsListed
    <3>2. DOMAIN logfiles[by[f]] = {} BY <3>1
    <3> QED BY <3>2 DEF Ledger, IsPlaced
  <2> QED BY <2>2, <2>3, <2>4
<1>4. ASSUME NEW p \in Line
      PROVE  p \in ReadBy(phase, by, threads_num) <=> p[1] \notin skipped
  <2>1. PICK f \in File : p[1] = f BY LineIs
  <2>2. by[f] \in 0 .. threads_num-1 BY DEF Thread
  <2>3. f \in skipped <=> phase[f] = "skipped" BY DEF Ledger, IsPlaced
  <2>4. p \in ReadBy(phase, by, threads_num) <=> phase[f] = "done"
    <3>1. phase[f] # "open" BY <1>3
    <3>2. \A u : p \in HasRead(phase, by, u) <=> by[f] = u /\ phase[f] = "done"
      BY <2>1, <3>1 DEF HasRead
    <3>3. p \in ReadBy(phase, by, threads_num) <=> \E u \in 0 .. threads_num-1 : p \in HasRead(phase, by, u)
      BY DEF ReadBy
    <3> QED BY <2>2, <3>2, <3>3
  <2> QED BY <1>3, <2>1, <2>3, <2>4
<1>5. ReadBy(phase, by, threads_num) \subseteq Line BY ReadIsLines
<1> QED BY <1>4, <1>5 DEF joined, LinesRead

LEMMA MergedIs ==
  ASSUME IInv, Merged
  PROVE  Close(all_stats, LinesRead, threads_num)
<1>1. Alive BY DEF Alive, Merged
<1>2. PICK phase \in [File -> Phase], by \in [File -> Thread] : Ledger(phase, by)
  BY <1>1 DEF IInv, LInv
<1>3. joined = threads_num /\ ReadBy(phase, by, threads_num) = LinesRead BY <1>2, ReadAll
<1>4. Close(all_stats, ReadBy(phase, by, joined), joined) BY <1>2 DEF Ledger
<1> QED BY <1>3, <1>4

\* However the files are dealt out and the threads interleave, the merged
\* tables are those of one thread that reads every line of every readable file
\* once, up to what an int leaves of a thread's share.
THEOREM LinesCorrect == ParserSpec => []EveryLineCountedOnce
<1>1. IInv => EveryLineCountedOnce
  <2> SUFFICES ASSUME IInv, Merged
               PROVE  /\ all_stats.total = Sum("url", LinesRead) % SIZE
                      /\ \A b \in Table :
                           /\ DOMAIN all_stats[b] = { LineKey[b][p] : p \in LinesRead }
                           /\ \A k \in DOMAIN all_stats[b] : (all_stats[b][k] - SumOf(b, k, LinesRead)) % INT = 0
    BY DEF EveryLineCountedOnce
  <2> QED BY MergedIs DEF Close, IsClose, Keys
<1> QED BY <1>1, IInvInit, IInvStep, PTL DEF ParserSpec

\* The cast of copy_url_table to an int does no harm to a sum that no thread
\* has driven out of the range of an int.
THEOREM SharesCorrect == ParserSpec => []SharesThatFitAreExact
<1>1. IInv => SharesThatFitAreExact
  <2> SUFFICES ASSUME IInv, Merged, NEW b \in Table, NEW k \in DOMAIN all_stats[b],
                      \A t \in Thread : k \in DOMAIN stats[t][b] => 2 * stats[t][b][k] < INT
               PROVE  all_stats[b][k] = SumOf(b, k, LinesRead) % SIZE
    BY DEF SharesThatFitAreExact
  <2>1. Fits(b, k, threads_num) BY DEF Fits, FitsIn, Thread
  <2>2. IsSum(all_stats[b], k, b, LinesRead) BY <2>1, MergedIs DEF Close
  <2> QED BY <2>2 DEF IsSum
<1> QED BY <1>1, IInvInit, IInvStep, PTL DEF ParserSpec

-----------------------------------------------------------------------------
(***************************************************************************)
(* The ranking                                                             *)
(***************************************************************************)
LEMMA RankedNone ==
  ASSUME NEW shown, NEW table, NEW other
  PROVE  Ranked(shown, table, {}) => Ranked(shown, other, {})
BY DEF Ranked

LEMMA RankingInit == ParserInit => Ranking
<1> SUFFICES ASSUME ParserInit PROVE Ranking
  OBVIOUS
<1>1. ASSUME NEW b \in Table PROVE IsRanked(b, {})
  <2>1. \A n \in 1..topsize : top[b][n].count = 0 BY DEF ParserInit, NoEntry
  <2>2. 0 >= 0 /\ ~(0 > 0) /\ topsize \in 1..topsize BY Sizes
  <2> QED BY <2>1, <2>2 DEF IsRanked, Ranked, Sorted, Used
<1> QED BY <1>1 DEF ParserInit, Ranking

\* One round of get_top_urls or get_top_referers
LEMMA RankRound ==
  ASSUME TInv, NEW b \in Table, rest \subseteq DOMAIN all_stats[b], IsRanked(b, DOMAIN all_stats[b] \ rest),
         NEW k \in rest, rest' = rest \ {k}, UNCHANGED all_stats,
         top' = [top EXCEPT ![b] = Insert(@, [key |-> k, count |-> all_stats[b][k]])]
  PROVE  /\ IsRanked(b, DOMAIN all_stats[b] \ rest)'
         /\ \A c \in Table \ {b} : top'[c] = top[c]
<1> DEFINE K == DOMAIN all_stats[b] \ rest
           table == all_stats[b]
           shown == top[b]
<1>1. \A n \in 1..topsize : shown[n].count \in Nat BY Sizes DEF TInv, ParserTypeOK
<1>2. k \notin K /\ \A c \in K \cup {k} : table[c] \in Nat BY Sizes DEF TInv, ParserTypeOK, IsStats
<1>3. Ranked(shown, table, K) BY DEF IsRanked
<1>4. top'[b] = Insert(shown, [key |-> k, count |-> table[k]]) /\ \A c \in Table \ {b} : top'[c] = top[c]
  BY DEF TInv, ParserTypeOK
<1>5. DOMAIN all_stats[b] \ rest' = K \cup {k} OBVIOUS
<1> HIDE DEF K, table, shown
<1>6. Ranked(Insert(shown, [key |-> k, count |-> table[k]]), table, K \cup {k})
  BY <1>1, <1>2, <1>3, InsertRanks
<1>7. all_stats'[b] = table BY DEF table
<1> QED BY <1>4, <1>5, <1>6, <1>7 DEF IsRanked

LEMMA RankingStep == TInv /\ Ranking /\ [ParserNext]_parserVars => Ranking'
<1> SUFFICES ASSUME TInv, Ranking, [ParserNext]_parserVars PROVE Ranking'
  OBVIOUS
<1>0. "url" \in Table /\ "referer" \in Table /\ \A b \in Table : b = "url" \/ b = "referer" BY DEF Table
<1>1. ASSUME UNCHANGED <<rest, all_stats, top>>, UNCHANGED parser_pc \/ parser_pc' = "crashed" PROVE Ranking'
  BY <1>1 DEF Ranking, IsRanked
<1>2. CASE Deal \/ Create \/ Join
  <2>1. parser_pc \in {"split", "create", "join"} /\ parser_pc' \in {"split", "create", "join", "merge"} /\ UNCHANGED <<all_stats, top>>
    BY <1>2 DEF Deal, Create, Join, GoTo
  <2> QED BY <2>1 DEF Ranking, IsRanked
<1>3. CASE MergeStats
  <2>1. parser_pc = "merge" /\ UNCHANGED top /\ \A b \in Table : IsRanked(b, {})
    BY <1>3 DEF MergeStats, Ranking
  <2>2. \A b \in Table : IsRanked(b, {})'
    <3> SUFFICES ASSUME NEW b \in Table PROVE IsRanked(b, {})'
      OBVIOUS
    <3>1. Ranked(top[b], all_stats[b], {}) BY <2>1 DEF IsRanked
    <3>2. Ranked(top[b], all_stats'[b], {}) BY <3>1, RankedNone
    <3> QED BY <2>1, <3>2 DEF IsRanked
  <2>3. CASE i = threads_num
    <3>1. parser_pc' = "urls" /\ rest' = DOMAIN all_stats'.url BY <1>3, <2>3 DEF MergeStats, GoTo
    <3>2. (DOMAIN all_stats.url \ rest)' = {} BY <3>1
    <3>3. IsRanked("url", {})' /\ IsRanked("referer", {})' BY <1>0, <2>2
    <3>4. IsRanked("url", DOMAIN all_stats.url \ rest)' BY <3>2, <3>3 DEF IsRanked
    <3> QED BY <3>1, <3>3, <3>4 DEF Ranking
  <2>4. CASE i # threads_num
    <3>1. parser_pc' = "merge" BY <1>3, <2>1, <2>4 DEF MergeStats
    <3> QED BY <3>1, <2>2 DEF Ranking
  <2> QED BY <2>3, <2>4
<1>4. CASE get_top_urls
  <2>1. /\ parser_pc = "urls" /\ rest \subseteq DOMAIN all_stats["url"] /\ UNCHANGED all_stats
        /\ IsRanked("url", DOMAIN all_stats["url"] \ rest) /\ IsRanked("referer", {})
    BY <1>4 DEF get_top_urls, Rank, Ranking, TInv
  <2>2. CASE rest = {} /\ GoTo("referers") /\ rest' = DOMAIN all_stats.referer /\ UNCHANGED top
    <3>1. DOMAIN all_stats["url"] \ rest = DOMAIN all_stats["url"] /\ (DOMAIN all_stats.referer \ rest)' = {}
      BY <2>1, <2>2
    <3>2. IsRanked("url", DOMAIN all_stats.url)' /\ IsRanked("referer", DOMAIN all_stats.referer \ rest)'
      BY <2>1, <2>2, <3>1 DEF IsRanked
    <3> QED BY <2>2, <3>2 DEF Ranking, GoTo
  <2>3. ASSUME NEW k \in rest, top' = [top EXCEPT !["url"] = Insert(@, [key |-> k, count |-> all_stats["url"][k]])],
               rest' = rest \ {k}, UNCHANGED <<parser_pc, i>>
        PROVE  Ranking'
    <3>1. IsRanked("url", DOMAIN all_stats["url"] \ rest)' /\ \A c \in Table \ {"url"} : top'[c] = top[c]
      BY <1>0, <2>1, <2>3, RankRound
    <3>2. IsRanked("referer", {})' BY <1>0, <2>1, <3>1 DEF IsRanked
    <3> QED BY <2>1, <2>3, <3>1, <3>2 DEF Ranking
  <2> QED BY <1>4, <2>2, <2>3 DEF get_top_urls, Rank
<1>5. CASE get_top_referers
  <2>1. /\ parser_pc = "referers" /\ rest \subseteq DOMAIN all_stats["referer"] /\ UNCHANGED all_stats
        /\ IsRanked("referer", DOMAIN all_stats["referer"] \ rest) /\ IsRanked("url", DOMAIN all_stats["url"])
    BY <1>5 DEF get_top_referers, Rank, Ranking, TInv
  <2>2. CASE rest = {} /\ GoTo("done") /\ rest' = {} /\ UNCHANGED top
    <3>1. DOMAIN all_stats["referer"] \ rest = DOMAIN all_stats["referer"] BY <2>1, <2>2
    <3>2. IsRanked("url", DOMAIN all_stats["url"])' /\ IsRanked("referer", DOMAIN all_stats["referer"])'
      BY <2>1, <2>2, <3>1 DEF IsRanked
    <3> QED BY <1>0, <2>2, <3>2 DEF Ranking, GoTo
  <2>3. ASSUME NEW k \in rest, top' = [top EXCEPT !["referer"] = Insert(@, [key |-> k, count |-> all_stats["referer"][k]])],
               rest' = rest \ {k}, UNCHANGED <<parser_pc, i>>
        PROVE  Ranking'
    <3>1. IsRanked("referer", DOMAIN all_stats["referer"] \ rest)' /\ \A c \in Table \ {"referer"} : top'[c] = top[c]
      BY <1>0, <2>1, <2>3, RankRound
    <3>2. IsRanked("url", DOMAIN all_stats["url"])' BY <1>0, <2>1, <3>1 DEF IsRanked
    <3> QED BY <2>1, <2>3, <3>1, <3>2 DEF Ranking
  <2> QED BY <1>5, <2>2, <2>3 DEF get_top_referers, Rank
<1>6. ASSUME NEW t \in Thread, Task(t) PROVE Ranking'
  BY <1>1, <1>6 DEF Task, OpenFile, ParseLine, CloseFile, EndTask, mainVars
<1>7. CASE UNCHANGED parserVars BY <1>1, <1>7 DEF parserVars
<1> QED BY <1>2, <1>3, <1>4, <1>5, <1>6, <1>7 DEF ParserNext, Main

\* In whatever order a hash table gives its entries, get_top_urls and
\* get_top_referers leave the heaviest of them, in order and none twice.
THEOREM TopCorrect == ParserSpec => []TopIsHeaviest
<1>1. TInv /\ Ranking => TopIsHeaviest
  <2> SUFFICES ASSUME TInv, Ranking, parser_pc = "done", NEW b \in Table
               PROVE  LET shown == top[b]
                          table == all_stats[b]
                          used == { n \in 1..topsize : shown[n].count > 0 } IN
                      /\ \A n \in 1 .. topsize-1 : shown[n].count >= shown[n+1].count
                      /\ \A n \in used : /\ shown[n].key \in DOMAIN table
                                         /\ shown[n].count = table[shown[n].key]
                                         /\ \A m \in used \ {n} : shown[m].key # shown[n].key
                      /\ \A k \in DOMAIN table :
                           (\A n \in used : shown[n].key # k) => table[k] <= shown[topsize].count
    BY DEF TopIsHeaviest
  <2>1. Ranked(top[b], all_stats[b], DOMAIN all_stats[b]) BY DEF Ranking, IsRanked
  <2>2. \A n \in 1 .. topsize-1 : n \in 1..topsize /\ n + 1 \in 1..topsize /\ n <= n + 1 BY Sizes
  <2>3. \A n \in 1 .. topsize-1 : top[b][n].count >= top[b][n+1].count BY <2>1, <2>2 DEF Ranked, Sorted
  <2> QED BY <2>1, <2>3 DEF Ranked, Used
<1> QED BY <1>1, TypeInit, TypeStep, RankingInit, RankingStep, PTL DEF ParserSpec
=============================================================================
