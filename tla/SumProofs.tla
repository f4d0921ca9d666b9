----------------------------- MODULE SumProofs -----------------------------
(***************************************************************************)
(* What the other proofs need to know of numbers and of sums over finite   *)
(* sets: that a fold over a set is a function, that a sum does not depend  *)
(* on the order in which it is added up, and how sums over parts of a set  *)
(* relate.  Induction over the subsets of a finite set is done by taking   *)
(* a smallest set at which a statement would fail; a recursive function is *)
(* shown to exist by taking a least length at which there would be none.   *)
(***************************************************************************)
EXTENDS Sums, Sequences, FiniteSetTheorems, NaturalsInduction, WellFoundedInduction, TLAPS

LEMMA LeastElement ==
  ASSUME NEW T \in SUBSET Nat, T # {}
  PROVE  \E x \in T : \A y \in T : x <= y
<1> DEFINE R == OpToRel(<, Nat)
<1>1. IsWellFoundedOn(R, Nat)
  BY NatLessThanWellFounded
<1>2. R = {ss \in Nat \X Nat : ss[1] < ss[2]}
  BY DEF OpToRel
<1> HIDE DEF R
<1>3. PICK x \in T : \A y \in T : ~ (<<y, x>> \in R)
  BY <1>1, WFMin
<1>4. ASSUME NEW y \in T PROVE x <= y
  <2>1. y \in Nat /\ x \in Nat
    OBVIOUS
  <2>2. y < x => <<y, x>> \in R
    BY <1>2, <2>1
  <2>3. QED
    BY <1>3, <2>1, <2>2
<1>5. QED
  BY <1>4

\* A property of 0 that is passed on from each number to the next.
LEMMA UptoInduction ==
  ASSUME NEW n \in Nat, NEW B, 0 \in B, \A i \in 1..n : i - 1 \in B => i \in B
  PROVE  \A i \in 0..n : i \in B
<1> DEFINE Bad == {i \in 0..n : i \notin B}
<1> SUFFICES ASSUME Bad # {} PROVE FALSE
  OBVIOUS
<1>1. PICK i \in Bad : \A j \in Bad : i <= j
  <2>1. Bad \in SUBSET Nat
    OBVIOUS
  <2> HIDE DEF Bad
  <2>2. QED
    BY <2>1, LeastElement
<1>2. i \in 1..n /\ i - 1 \in 0..n
  OBVIOUS
<1>3. i - 1 \in B
  BY <1>1, <1>2
<1>4. QED
  BY <1>1, <1>2, <1>3

\* The recursive function that joins sequences one by one.
LEMMA FlattenDefined ==
  ASSUME NEW n \in Nat, NEW s
  PROVE  \E f : f = [i \in 1..n |-> IF i = 1 THEN s[i] ELSE f[i - 1] \o s[i]]
<1> DEFINE Solves(f, k) == f = [i \in 1..k |-> IF i = 1 THEN s[i] ELSE f[i - 1] \o s[i]]
<1> DEFINE Bad == {k \in Nat : ~ \E f : Solves(f, k)}
<1> SUFFICES ASSUME Bad # {} PROVE FALSE
  OBVIOUS
<1>1. /\ Bad \in SUBSET Nat
      /\ \A k \in Nat : k \notin Bad <=> \E f : Solves(f, k)
  OBVIOUS
<1> HIDE DEF Bad
<1>2. PICK k \in Bad : \A j \in Bad : k <= j
  BY <1>1, LeastElement
<1>3. k \in Nat
  BY <1>1
<1>4. CASE k = 0
  <2>1. Solves(<<>>, 0)
    OBVIOUS
  <2>2. QED
    BY <1>1, <1>2, <1>4, <2>1
<1>5. CASE k # 0
  <2>1. k - 1 \in Nat /\ k - 1 \notin Bad
    BY <1>2, <1>3, <1>5
  <2>2. PICK f : Solves(f, k - 1)
    BY <1>1, <2>1
  <2> DEFINE g == [i \in 1..k |-> IF i # k THEN f[i]
                                 ELSE IF k = 1 THEN s[k] ELSE f[k - 1] \o s[k]]
  <2>3. ASSUME NEW i \in 1..k
        PROVE  g[i] = IF i = 1 THEN s[i] ELSE g[i - 1] \o s[i]
    <3>1. CASE i = k
      <4>1. k # 1 => g[k - 1] = f[k - 1]
        BY <1>3, <1>5
      <4>2. QED
        BY <3>1, <4>1
    <3>2. CASE i # k
      <4>1. i \in 1..(k - 1) /\ g[i] = f[i]
        BY <1>3, <3>2
      <4>2. f[i] = IF i = 1 THEN s[i] ELSE f[i - 1] \o s[i]
        BY <2>2, <4>1
      <4>3. i # 1 => i - 1 \in 1..k /\ i - 1 # k /\ g[i - 1] = f[i - 1]
        BY <1>3, <4>1
      <4>4. QED
        BY <4>1, <4>2, <4>3
    <3>3. QED
      BY <3>1, <3>2
  <2>4. Solves(g, k)
    BY <2>3
  <2>5. QED
    BY <1>1, <1>2, <2>4
<1>6. QED
  BY <1>4, <1>5

\* Among the sets of a family of finite sets, one with the fewest elements.
LEMMA SmallestSet ==
  ASSUME NEW S, IsFiniteSet(S), NEW B \in SUBSET (SUBSET S), B # {}
  PROVE  \E T \in B : \A U \in B : Cardinality(T) <= Cardinality(U)
<1> DEFINE N == {Cardinality(U) : U \in B}
<1>1. \A U \in B : IsFiniteSet(U) /\ Cardinality(U) \in Nat
  BY FS_Subset, FS_CardinalityType
<1>2. N \in SUBSET Nat /\ N # {}
  BY <1>1
<1>3. PICK n \in N : \A m \in N : n <= m
  BY <1>2, LeastElement
<1>4. QED
  BY <1>3

\* c picks the element that is taken from a set of S next, op combines it with
\* the value of the rest, which is in V.
Foldable(S, V, base, c, op) ==
  /\ IsFiniteSet(S)
  /\ base \in V
  /\ \A T \in SUBSET S : T # {} => c[T] \in T
  /\ \A x \in S : \A v \in V : op[<<x, v>>] \in V

FoldsTo(f, S, base, c, op) ==
  \A T \in SUBSET S :
     f[T] = IF T = {} THEN base ELSE op[<<c[T], f[T \ {c[T]}]>>]

\* A fold over the subsets of a finite set is a function.
LEMMA FoldDefined ==
  ASSUME NEW S, NEW V, NEW base, NEW c, NEW op, Foldable(S, V, base, c, op)
  PROVE  \E f \in [SUBSET S -> V] : FoldsTo(f, S, base, c, op)
<1> USE DEF Foldable
<1> DEFINE Small(n) == {T \in SUBSET S : Cardinality(T) <= n}
<1> DEFINE Solves(f, n) ==
             /\ f \in [Small(n) -> V]
             /\ \A T \in Small(n) :
                  f[T] = IF T = {} THEN base ELSE op[<<c[T], f[T \ {c[T]}]>>]
<1>1. \A T \in SUBSET S : /\ IsFiniteSet(T) /\ Cardinality(T) \in Nat
                          /\ Cardinality(T) <= Cardinality(S)
                          /\ Cardinality(T) = 0 <=> T = {}
  BY FS_Subset, FS_CardinalityType, FS_EmptySet
<1>2. \A T \in SUBSET S : T # {} =>
        /\ T \ {c[T]} \in SUBSET S
        /\ Cardinality(T \ {c[T]}) = Cardinality(T) - 1
  BY <1>1, FS_RemoveElement
<1> DEFINE Bad == {n \in Nat : ~ \E f : Solves(f, n)}
<1>3. Bad = {}
  <2> SUFFICES ASSUME Bad # {} PROVE FALSE
    OBVIOUS
  <2>1. /\ Bad \in SUBSET Nat
        /\ \A n \in Nat : n \notin Bad <=> \E f : Solves(f, n)
    OBVIOUS
  <2> HIDE DEF Bad
  <2>2. PICK n \in Bad : \A m \in Bad : n <= m
    BY <2>1, LeastElement
  <2>3. n \in Nat
    BY <2>1
  <2>4. CASE n = 0
    <3>1. Small(n) = {{}}
      BY <1>1, <2>4
    <3>2. Solves([T \in Small(n) |-> base], n)
      BY <3>1
    <3>3. QED
      BY <2>1, <2>2, <3>2
  <2>5. CASE n # 0
    <3>1. n - 1 \in Nat /\ n - 1 \notin Bad
      BY <2>2, <2>3, <2>5
    <3>2. PICK f : Solves(f, n - 1)
      BY <2>1, <3>1
    <3> DEFINE g == [T \in Small(n) |->
                       IF T = {} THEN base ELSE op[<<c[T], f[T \ {c[T]}]>>]]
    <3>3. \A T \in Small(n) : T # {} => T \ {c[T]} \in Small(n - 1)
      BY <1>1, <1>2, <2>3
    <3>4. g \in [Small(n) -> V]
      BY <3>2, <3>3
    <3>5. \A T \in Small(n - 1) : T \in Small(n) /\ g[T] = f[T]
      BY <1>1, <2>3, <3>2
    <3>6. Solves(g, n)
      BY <3>3, <3>4, <3>5
    <3>7. QED
      BY <2>1, <2>2, <3>6
  <2>6. QED
    BY <2>4, <2>5
<1>4. Cardinality(S) \in Nat
  BY <1>1
<1>5. PICK f : Solves(f, Cardinality(S))
  BY <1>3, <1>4
<1>6. Small(Cardinality(S)) = SUBSET S
  BY <1>1
<1>7. QED
  BY <1>5, <1>6 DEF FoldsTo

AnyOf(T) == CHOOSE x \in T : TRUE

LEMMA SumUnfolds ==
  ASSUME NEW T, IsFiniteSet(T), NEW u \in [T -> Int]
  PROVE  \E f \in [SUBSET T -> Int] :
           /\ \A U \in SUBSET T :
                f[U] = IF U = {} THEN 0 ELSE u[AnyOf(U)] + f[U \ {AnyOf(U)}]
           /\ SumOver(u) = f[T]
<1> DEFINE Eq(f) == f = [s \in SUBSET T |-> IF s = {} THEN 0
                            ELSE u[CHOOSE x \in s : TRUE]
                                   + f[s \ {CHOOSE x \in s : TRUE}]]
<1> DEFINE F == CHOOSE f : Eq(f)
<1>1. \A U \in SUBSET T : U # {} => AnyOf(U) \in U
  BY DEF AnyOf
<1>2. \E f : Eq(f)
  <2> DEFINE c == [U \in SUBSET T |-> AnyOf(U)]
             op == [w \in T \X Int |-> u[w[1]] + w[2]]
  <2>1. \A U \in SUBSET T : U # {} => c[U] \in U
    BY <1>1
  <2>2. \A x \in T : \A n \in Int : op[<<x, n>>] = u[x] + n /\ op[<<x, n>>] \in Int
    OBVIOUS
  <2>a. \A U \in SUBSET T : c[U] = AnyOf(U)
    OBVIOUS
  <2>b. \A x \in T : \A v \in Int : op[<<x, v>>] \in Int
    BY <2>2
  <2> HIDE DEF op, c
  <2>c. Foldable(T, Int, 0, c, op)
    BY <2>1, <2>b DEF Foldable
  <2>d. PICK f \in [SUBSET T -> Int] : FoldsTo(f, T, 0, c, op)
    BY <2>c, FoldDefined
  <2>3. \A U \in SUBSET T :
             f[U] = IF U = {} THEN 0 ELSE op[<<c[U], f[U \ {c[U]}]>>]
    BY <2>d DEF FoldsTo
  <2>4. ASSUME NEW U \in SUBSET T
        PROVE  f[U] = IF U = {} THEN 0
                      ELSE u[CHOOSE x \in U : TRUE]
                             + f[U \ {CHOOSE x \in U : TRUE}]
    <3>1. U # {} => c[U] \in T /\ f[U \ {c[U]}] \in Int
      BY <1>1, <2>a
    <3>2. c[U] = CHOOSE x \in U : TRUE
      BY <2>a DEF AnyOf
    <3>3. QED
      BY <2>2, <2>3, <3>1, <3>2
  <2>5. QED
    BY <2>4
<1>3. Eq(F)
  BY <1>2
<1>4. SumOver(u) = F[T]
  BY DEF SumOver, MapThenSumSet, MapThenFoldSet
<1> HIDE DEF F
<1>5. \A U \in SUBSET T :
         F[U] = IF U = {} THEN 0 ELSE u[AnyOf(U)] + F[U \ {AnyOf(U)}]
  BY <1>3 DEF AnyOf
<1>6. F \in [SUBSET T -> Int]
  <2>1. F = [s \in SUBSET T |-> F[s]]
    BY <1>3
  <2> DEFINE B == {U \in SUBSET T : F[U] \notin Int}
  <2> SUFFICES ASSUME B # {} PROVE FALSE
    BY <2>1
  <2>2. PICK U \in B : \A X \in B : Cardinality(U) <= Cardinality(X)
    BY SmallestSet
  <2>3. U # {}
    BY <1>5
  <2> DEFINE a == AnyOf(U)
  <2>4. U \in SUBSET T /\ F[U] \notin Int /\ a \in U
    BY <1>1, <2>2, <2>3
  <2>5. /\ IsFiniteSet(U) /\ Cardinality(U) \in Nat
        /\ Cardinality(U \ {a}) = Cardinality(U) - 1
    BY <2>4, FS_Subset, FS_RemoveElement, FS_CardinalityType
  <2>6. U \ {a} \notin B
    BY <2>2, <2>5
  <2>7. F[U \ {a}] \in Int /\ u[a] \in Int
    BY <2>4, <2>6
  <2>8. F[U] = u[a] + F[U \ {a}]
    BY <1>5, <2>3, <2>4
  <2> HIDE DEF a
  <2>9. QED
    BY <2>4, <2>7, <2>8
<1>7. QED
  BY <1>4, <1>5, <1>6

\* g is the table of the sums of v over the subsets of S.
SumTable(g, S, v) ==
  /\ g \in [SUBSET S -> Int]
  /\ g[{}] = 0
  /\ \A T \in SUBSET S : \A x \in T : g[T] = v[x] + g[T \ {x}]
  /\ \A T \in SUBSET S : SumOver([x \in T |-> v[x]]) = g[T]

\* A sum does not depend on the order in which it is added up.
LEMMA SumTables ==
  ASSUME NEW S, IsFiniteSet(S), NEW v \in [S -> Int]
  PROVE  \E g : SumTable(g, S, v)
<1>1. PICK g \in [SUBSET S -> Int] :
           /\ \A U \in SUBSET S :
                g[U] = IF U = {} THEN 0 ELSE v[AnyOf(U)] + g[U \ {AnyOf(U)}]
           /\ SumOver(v) = g[S]
  BY SumUnfolds
<1>2. \A U \in SUBSET S : U # {} => AnyOf(U) \in U
  BY DEF AnyOf
<1>3. \A U \in SUBSET S : /\ IsFiniteSet(U) /\ Cardinality(U) \in Nat
                          /\ \A x \in U : /\ U \ {x} \in SUBSET S
                                          /\ Cardinality(U \ {x}) < Cardinality(U)
  <2> SUFFICES ASSUME NEW U \in SUBSET S
               PROVE  /\ IsFiniteSet(U) /\ Cardinality(U) \in Nat
                      /\ \A x \in U : /\ U \ {x} \in SUBSET S
                                      /\ Cardinality(U \ {x}) < Cardinality(U)
    OBVIOUS
  <2>1. IsFiniteSet(U) /\ Cardinality(U) \in Nat
    BY FS_Subset, FS_CardinalityType
  <2>2. \A x \in U : Cardinality(U \ {x}) = Cardinality(U) - 1
    BY <2>1, FS_RemoveElement
  <2>3. QED
    BY <2>1, <2>2
<1>4. \A T \in SUBSET S : \A x \in T : g[T] = v[x] + g[T \ {x}]
  <2> DEFINE B == {T \in SUBSET S : \E x \in T : g[T] # v[x] + g[T \ {x}]}
  <2> SUFFICES ASSUME B # {} PROVE FALSE
    OBVIOUS
  <2>a. /\ B \in SUBSET (SUBSET S)
        /\ \A T \in SUBSET S : T \in B <=> \E x \in T : g[T] # v[x] + g[T \ {x}]
    OBVIOUS
  <2> HIDE DEF B
  <2>1. PICK T \in B : \A U \in B : Cardinality(T) <= Cardinality(U)
    BY <2>a, SmallestSet
  <2>2. PICK x \in T : g[T] # v[x] + g[T \ {x}]
    BY <2>a
  <2> DEFINE c == AnyOf(T)
  <2>3. /\ T \in SUBSET S /\ T # {} /\ c \in T
        /\ g[T] = v[c] + g[T \ {c}]
    BY <1>1, <1>2, <2>2, <2>a
  <2> HIDE DEF c
  <2>4. x # c
    BY <2>2, <2>3
  <2>5. \A y \in T : T \ {y} \in SUBSET S /\ T \ {y} \notin B
    <3>1. SUFFICES ASSUME NEW y \in T, T \ {y} \in B PROVE FALSE
      BY <2>3
    <3>2. /\ Cardinality(T \ {y}) \in Nat /\ Cardinality(T) \in Nat
          /\ Cardinality(T \ {y}) < Cardinality(T)
      BY <1>3, <2>3
    <3>3. QED
      BY <2>1, <3>1, <3>2
  <2>6. /\ g[T \ {c}] = v[x] + g[(T \ {c}) \ {x}]
        /\ g[T \ {x}] = v[c] + g[(T \ {x}) \ {c}]
    BY <2>3, <2>4, <2>5, <2>a
  <2>7. (T \ {c}) \ {x} = (T \ {x}) \ {c}
    OBVIOUS
  <2>8. /\ v[x] \in Int /\ v[c] \in Int /\ g[(T \ {x}) \ {c}] \in Int
        /\ g[T \ {x}] \in Int /\ g[T \ {c}] \in Int
    BY <1>1, <2>3, <2>5
  <2>9. g[T \ {c}] = v[x] + g[(T \ {x}) \ {c}]
    BY <2>6, <2>7
  <2> DEFINE Gc == g[T \ {c}]
             Gx == g[T \ {x}]
             Gcx == g[(T \ {x}) \ {c}]
  <2>10. /\ Gc = v[x] + Gcx /\ Gx = v[c] + Gcx
         /\ g[T] = v[c] + Gc /\ g[T] # v[x] + Gx
         /\ v[x] \in Int /\ v[c] \in Int /\ Gcx \in Int
    BY <2>2, <2>3, <2>6, <2>8, <2>9
  <2> HIDE DEF Gc, Gx, Gcx
  <2>11. QED
    BY <2>10
<1>5. ASSUME NEW T \in SUBSET S
      PROVE  SumOver([x \in T |-> v[x]]) = g[T]
  <2> DEFINE u == [x \in T |-> v[x]]
  <2>1. u \in [T -> Int] /\ IsFiniteSet(T)
    BY <1>3
  <2>2. PICK f \in [SUBSET T -> Int] :
           /\ \A U \in SUBSET T :
                f[U] = IF U = {} THEN 0 ELSE u[AnyOf(U)] + f[U \ {AnyOf(U)}]
           /\ SumOver(u) = f[T]
    BY <2>1, SumUnfolds
  <2> DEFINE B == {U \in SUBSET T : f[U] # g[U]}
  <2>3. B = {}
    <3> SUFFICES ASSUME B # {} PROVE FALSE
      OBVIOUS
    <3>a. /\ B \in SUBSET (SUBSET T)
          /\ \A U \in SUBSET T : U \in B <=> f[U] # g[U]
      OBVIOUS
    <3> HIDE DEF B
    <3>1. PICK U \in B : \A X \in B : Cardinality(U) <= Cardinality(X)
      BY <2>1, <3>a, SmallestSet
    <3> DEFINE c == AnyOf(U)
    <3>2. U \in SUBSET T /\ f[U] # g[U]
      BY <3>1, <3>a
    <3>3. U # {}
      BY <1>1, <2>2, <3>2
    <3>4. c \in U /\ f[U] = v[c] + f[U \ {c}] /\ g[U] = v[c] + g[U \ {c}]
      BY <1>1, <1>2, <2>2, <3>2, <3>3
    <3> HIDE DEF c
    <3>5. U \ {c} \in SUBSET T /\ U \ {c} \notin B
      <4>1. /\ Cardinality(U \ {c}) \in Nat /\ Cardinality(U) \in Nat
            /\ Cardinality(U \ {c}) < Cardinality(U)
        BY <1>3, <3>2, <3>4
      <4>2. QED
        BY <3>1, <3>2, <4>1
    <3>6. QED
      BY <3>2, <3>4, <3>5, <3>a
  <2>4. QED
    BY <2>2, <2>3
<1>6. QED
  BY <1>1, <1>4, <1>5 DEF SumTable

LEMMA SumSplits ==
  ASSUME NEW S, IsFiniteSet(S), NEW v \in [S -> Int], NEW x \in S
  PROVE  /\ SumOver(v) \in Int
         /\ SumOver(v) = v[x] + SumOver([y \in S \ {x} |-> v[y]])
<1>1. PICK g : SumTable(g, S, v)
  BY SumTables
<1>2. v = [y \in S |-> v[y]]
  OBVIOUS
<1>3. QED
  BY <1>1, <1>2 DEF SumTable

LEMMA DivMod ==
  ASSUME NEW n \in Int, NEW p \in Nat \ {0}
  PROVE  /\ n \div p \in Int /\ n % p \in 0..(p - 1)
         /\ n = p * (n \div p) + (n % p)
<1>1. n \div p \in Int
  OBVIOUS
<1>2. n % p \in 0..(p - 1)
  OBVIOUS
<1>3. n = p * (n \div p) + (n % p)
  OBVIOUS
<1>4. QED
  BY <1>1, <1>2, <1>3

LEMMA DivModUnique ==
  ASSUME NEW n \in Int, NEW p \in Nat \ {0}, NEW q \in Int, NEW r \in 0..(p - 1),
         n = p * q + r
  PROVE  n \div p = q /\ n % p = r
<1> DEFINE d == n \div p
           m == n % p
<1>1. /\ d \in Int /\ m \in 0..(p - 1)
      /\ n = p * d + m
  BY DivMod
<1> HIDE DEF d, m
<1>2. p * (q - d) = m - r
  BY <1>1
<1>3. q - d < 1
  <2>1. q - d >= 1 => p * (q - d) >= p
    BY <1>1
  <2>2. QED
    BY <1>1, <1>2, <2>1
<1>4. d - q < 1
  <2>1. d - q >= 1 => p * (d - q) >= p
    BY <1>1
  <2>2. p * (d - q) = r - m
    BY <1>1
  <2>3. QED
    BY <1>1, <2>2, <2>1
<1>5. QED
  BY <1>1, <1>2, <1>3, <1>4 DEF d, m

(***************************************************************************)
(* Sums over finite sets: PartSum adds the values of v at the members of T. *)
(* Sums over two disjoint sets, over few values, over the image of a set, by *)
(* rows and by columns, and by groups.                                     *)
(***************************************************************************)

\* What holds of the empty set, and of a set and one more element, holds of
\* every subset of a finite set.
LEMMA SubsetInduction ==
  ASSUME NEW S, IsFiniteSet(S), NEW B, {} \in B,
         \A T \in SUBSET S : \A x \in S \ T : T \in B => T \cup {x} \in B
  PROVE  \A T \in SUBSET S : T \in B
<1> DEFINE C == {T \in SUBSET S : T \notin B}
<1> SUFFICES ASSUME C # {} PROVE FALSE
  OBVIOUS
<1>1. C \in SUBSET (SUBSET S) /\ \A T \in SUBSET S : T \in C <=> T \notin B
  OBVIOUS
<1> HIDE DEF C
<1>2. PICK T \in C : \A U \in C : Cardinality(T) <= Cardinality(U)
  BY <1>1, SmallestSet
<1>3. T \in SUBSET S /\ T \notin B /\ T # {}
  BY <1>1, <1>2
<1>4. PICK x \in T : TRUE
  BY <1>3
<1>5. /\ Cardinality(T) \in Nat
      /\ Cardinality(T \ {x}) = Cardinality(T) - 1
  BY <1>3, <1>4, FS_Subset, FS_RemoveElement, FS_CardinalityType
<1>6. T \ {x} \in SUBSET S /\ T \ {x} \notin C
  BY <1>2, <1>3, <1>5
<1>7. T = (T \ {x}) \cup {x} /\ x \in S \ (T \ {x})
  BY <1>3, <1>4
<1>8. QED
  BY <1>1, <1>3, <1>6, <1>7

\* The sum of the values of v at T.
PartSum(v, T) == SumOver([x \in T |-> v[x]])

\* The sum of a part is an integer, and one more element adds its value.
LEMMA PartSums ==
  ASSUME NEW S, IsFiniteSet(S), NEW v \in [S -> Int]
  PROVE  /\ SumOver(v) = PartSum(v, S)
         /\ PartSum(v, {}) = 0
         /\ \A T \in SUBSET S :
              /\ PartSum(v, T) \in Int
              /\ \A x \in S \ T : PartSum(v, T \cup {x}) = v[x] + PartSum(v, T)
<1>1. PICK g : SumTable(g, S, v)
  BY SumTables
<1>2. \A T \in SUBSET S : PartSum(v, T) = g[T] /\ g[T] \in Int
  BY <1>1 DEF SumTable, PartSum
<1>3. g[{}] = 0
  BY <1>1 DEF SumTable
<1>4. ASSUME NEW T \in SUBSET S, NEW x \in S \ T
      PROVE  g[T \cup {x}] = v[x] + g[T]
  <2>1. (T \cup {x}) \ {x} = T /\ T \cup {x} \in SUBSET S
    OBVIOUS
  <2>2. QED
    BY <1>1, <2>1 DEF SumTable
<1>5. v = [x \in S |-> v[x]]
  OBVIOUS
<1>6. SumOver(v) = PartSum(v, S)
  BY <1>5, Zenon DEF PartSum
<1>7. {} \in SUBSET S /\ \A T \in SUBSET S : \A x \in S \ T : T \cup {x} \in SUBSET S
  OBVIOUS
<1>8. QED
  BY <1>2, <1>3, <1>4, <1>6, <1>7

\* Sums depend on the values only.
LEMMA PartSumSame ==
  ASSUME NEW T, NEW v, NEW w, \A x \in T : v[x] = w[x]
  PROVE  PartSum(v, T) = PartSum(w, T)
<1>1. [x \in T |-> v[x]] = [x \in T |-> w[x]]
  OBVIOUS
<1>2. QED
  BY <1>1 DEF PartSum

\* Sums over disjoint parts add up.
LEMMA PartSumJoins ==
  ASSUME NEW S, IsFiniteSet(S), NEW v \in [S -> Int], NEW T \in SUBSET S,
         NEW U \in SUBSET S, T \cap U = {}
  PROVE  PartSum(v, T \cup U) = PartSum(v, T) + PartSum(v, U)
<1> DEFINE B == {X \in SUBSET U : PartSum(v, T \cup X) = PartSum(v, T) + PartSum(v, X)}
<1>1. {} \in B
  <2>1. T \cup {} = T
    OBVIOUS
  <2>2. QED
    BY <2>1, PartSums
<1>2. ASSUME NEW X \in SUBSET U, NEW x \in U \ X, X \in B
      PROVE  X \cup {x} \in B
  <2> DEFINE Y == T \cup X
             Z == X \cup {x}
  <2>1. /\ Y \in SUBSET S /\ x \in S \ Y /\ x \in S \ X /\ X \in SUBSET S
        /\ T \cup Z = Y \cup {x}
    OBVIOUS
  <2> HIDE DEF Y
  <2>2. PartSum(v, Y \cup {x}) = v[x] + PartSum(v, Y)
    BY <2>1, PartSums
  <2>3. PartSum(v, Z) = v[x] + PartSum(v, X)
    BY <2>1, PartSums
  <2>4. PartSum(v, X) \in Int /\ PartSum(v, T) \in Int /\ v[x] \in Int
    BY <2>1, PartSums
  <2>5. PartSum(v, Y) = PartSum(v, T) + PartSum(v, X)
    BY <1>2 DEF Y
  <2> HIDE DEF Z
  <2>6. PartSum(v, T \cup Z) = PartSum(v, T) + PartSum(v, Z)
    <3>1. PartSum(v, T \cup Z) = PartSum(v, Y \cup {x})
      BY <2>1, Zenon
    <3>2. PartSum(v, Y) \in Int
      BY <2>4, <2>5
    <3>3. QED
      BY <2>2, <2>3, <2>4, <2>5, <3>1, <3>2
  <2>7. QED
    BY <2>6 DEF Z
<1>3. IsFiniteSet(U)
  BY FS_Subset
<1> HIDE DEF B
<1>4. \A X \in SUBSET U : X \in B
  BY <1>1, <1>2, <1>3, SubsetInduction
<1>5. QED
  BY <1>4 DEF B

\* Zeros add up to zero.
LEMMA PartSumZero ==
  ASSUME NEW S, IsFiniteSet(S), NEW v \in [S -> Int], NEW T \in SUBSET S,
         \A x \in T : v[x] = 0
  PROVE  PartSum(v, T) = 0
<1> DEFINE B == {X \in SUBSET T : PartSum(v, X) = 0}
<1>1. {} \in B
  BY PartSums
<1>2. ASSUME NEW X \in SUBSET T, NEW x \in T \ X, X \in B
      PROVE  X \cup {x} \in B
  <2>1. X \in SUBSET S /\ x \in S \ X /\ v[x] = 0 /\ PartSum(v, X) = 0
    BY <1>2
  <2>2. PartSum(v, X \cup {x}) = v[x] + PartSum(v, X)
    BY <2>1, PartSums
  <2>3. QED
    BY <2>1, <2>2
<1>3. IsFiniteSet(T)
  BY FS_Subset
<1> HIDE DEF B
<1>4. T \in B
  BY <1>1, <1>2, <1>3, SubsetInduction
<1>5. QED
  BY <1>4 DEF B

\* What adds nothing may be left out.
LEMMA PartSumDrops ==
  ASSUME NEW S, IsFiniteSet(S), NEW v \in [S -> Int], NEW T \in SUBSET S,
         NEW U \in SUBSET T, \A x \in T \ U : v[x] = 0
  PROVE  PartSum(v, T) = PartSum(v, U)
<1>1. T \ U \in SUBSET S /\ U \in SUBSET S /\ U \cap (T \ U) = {} /\ U \cup (T \ U) = T
  OBVIOUS
<1>2. PartSum(v, T) = PartSum(v, U) + PartSum(v, T \ U)
  BY <1>1, PartSumJoins
<1>3. PartSum(v, T \ U) = 0
  BY <1>1, PartSumZero
<1>4. PartSum(v, U) \in Int
  BY <1>1, PartSums
<1>5. QED
  BY <1>2, <1>3, <1>4

\* Sums over the same part, added value by value.
LEMMA PartSumAdds ==
  ASSUME NEW S, IsFiniteSet(S), NEW v \in [S -> Int], NEW w \in [S -> Int],
         NEW u \in [S -> Int], \A x \in S : u[x] = v[x] + w[x]
  PROVE  \A T \in SUBSET S : PartSum(u, T) = PartSum(v, T) + PartSum(w, T)
<1> DEFINE B == {T \in SUBSET S : PartSum(u, T) = PartSum(v, T) + PartSum(w, T)}
<1>1. {} \in B
  BY PartSums
<1>2. ASSUME NEW T \in SUBSET S, NEW x \in S \ T, T \in B
      PROVE  T \cup {x} \in B
  <2>1. PartSum(u, T) = PartSum(v, T) + PartSum(w, T)
    BY <1>2
  <2>2. /\ PartSum(u, T \cup {x}) = u[x] + PartSum(u, T)
        /\ PartSum(v, T \cup {x}) = v[x] + PartSum(v, T)
        /\ PartSum(w, T \cup {x}) = w[x] + PartSum(w, T)
        /\ PartSum(v, T) \in Int /\ PartSum(w, T) \in Int
    BY PartSums
  <2>3. QED
    BY <2>1, <2>2
<1> HIDE DEF B
<1>3. \A T \in SUBSET S : T \in B
  BY <1>1, <1>2, SubsetInduction
<1>4. QED
  BY <1>3 DEF B

\* Adding up remainders instead of numbers does not change the remainder.
LEMMA ModAdds ==
  ASSUME NEW p \in Nat \ {0}, NEW a \in Int, NEW b \in Int, NEW c \in Int, NEW d \in Int,
         a % p = b % p, c % p = d % p
  PROVE  (a + c) % p = (b + d) % p
<1>1. PICK m \in Int, n \in Int, k \in Int, l \in Int, r \in 0..(p - 1), s \in 0..(p - 1) :
        /\ a = p * m + r /\ b = p * n + r /\ c = p * k + s /\ d = p * l + s
  <2>1. /\ a = p * (a \div p) + (a % p) /\ b = p * (b \div p) + (b % p)
        /\ c = p * (c \div p) + (c % p) /\ d = p * (d \div p) + (d % p)
        /\ a \div p \in Int /\ b \div p \in Int /\ c \div p \in Int /\ d \div p \in Int
        /\ a % p \in 0..(p - 1) /\ c % p \in 0..(p - 1)
    BY DivMod
  <2>2. QED
    BY <2>1
<1> DEFINE t == r + s
           e == (t \div p)
           f == (t % p)
<1>2. t \in Int /\ e \in Int /\ f \in 0..(p - 1) /\ t = p * e + f
  <2>1. t \in Int
    OBVIOUS
  <2> HIDE DEF t
  <2>2. QED
    BY <2>1, DivMod
<1> HIDE DEF e, f
<1>3. a + c = p * (m + k) + t /\ b + d = p * (n + l) + t
  BY <1>1
<1>4. a + c = p * (m + k + e) + f /\ b + d = p * (n + l + e) + f
  BY <1>2, <1>3
<1> DEFINE ac == a + c
           bd == b + d
           mk == m + k + e
           nl == n + l + e
<1>5. mk \in Int /\ nl \in Int /\ ac \in Int /\ bd \in Int
  BY <1>2
<1>6. ac = p * mk + f /\ bd = p * nl + f
  BY <1>4
<1> HIDE DEF ac, bd, mk, nl
<1>7. ac % p = f /\ bd % p = f
  BY <1>2, <1>5, <1>6, DivModUnique
<1>8. QED
  BY <1>7 DEF ac, bd

\* Values with the same remainders have sums with the same remainder.
LEMMA PartSumMod ==
  ASSUME NEW S, IsFiniteSet(S), NEW v \in [S -> Int], NEW w \in [S -> Int],
         NEW p \in Nat \ {0}, \A x \in S : v[x] % p = w[x] % p
  PROVE  \A T \in SUBSET S : PartSum(v, T) % p = PartSum(w, T) % p
<1> DEFINE B == {T \in SUBSET S : PartSum(v, T) % p = PartSum(w, T) % p}
<1>1. {} \in B
  BY PartSums
<1>2. ASSUME NEW T \in SUBSET S, NEW x \in S \ T, T \in B
      PROVE  T \cup {x} \in B
  <2>1. PartSum(v, T) % p = PartSum(w, T) % p
    BY <1>2
  <2>2. /\ PartSum(v, T \cup {x}) = v[x] + PartSum(v, T)
        /\ PartSum(w, T \cup {x}) = w[x] + PartSum(w, T)
        /\ PartSum(v, T) \in Int /\ PartSum(w, T) \in Int
    BY PartSums
  <2>3. v[x] \in Int /\ w[x] \in Int /\ v[x] % p = w[x] % p
    OBVIOUS
  <2>4. (v[x] + PartSum(v, T)) % p = (w[x] + PartSum(w, T)) % p
    BY ONLY <2>1, <2>2, <2>3, p \in Nat \ {0}, ModAdds
  <2>5. QED
    BY <2>2, <2>4
<1> HIDE DEF B
<1>3. \A T \in SUBSET S : T \in B
  BY <1>1, <1>2, SubsetInduction
<1>4. QED
  BY <1>3 DEF B

\* A common factor may be taken out.
LEMMA PartSumScales ==
  ASSUME NEW S, IsFiniteSet(S), NEW v \in [S -> Int], NEW w \in [S -> Int],
         NEW c \in Int, \A x \in S : w[x] = c * v[x]
  PROVE  \A T \in SUBSET S : PartSum(w, T) = c * PartSum(v, T)
<1> DEFINE B == {T \in SUBSET S : PartSum(w, T) = c * PartSum(v, T)}
<1>1. {} \in B
  BY PartSums
<1>2. ASSUME NEW T \in SUBSET S, NEW x \in S \ T, T \in B
      PROVE  T \cup {x} \in B
  <2>1. PartSum(w, T) = c * PartSum(v, T)
    BY <1>2
  <2>2. /\ PartSum(v, T \cup {x}) = v[x] + PartSum(v, T)
        /\ PartSum(w, T \cup {x}) = w[x] + PartSum(w, T)
        /\ PartSum(v, T) \in Int /\ PartSum(w, T) \in Int
    BY PartSums
  <2> DEFINE s == PartSum(v, T)
             a == v[x]
  <2>3. s \in Int /\ a \in Int /\ w[x] = c * a
    BY <2>2
  <2> HIDE DEF s, a
  <2>4. c * (a + s) = c * a + c * s
    BY <2>3
  <2>5. PartSum(w, T \cup {x}) = c * PartSum(v, T \cup {x})
    BY <2>1, <2>2, <2>3, <2>4 DEF s, a
  <2>6. QED
    BY <2>5
<1> HIDE DEF B
<1>3. \A T \in SUBSET S : T \in B
  BY <1>1, <1>2, SubsetInduction
<1>4. QED
  BY <1>3 DEF B

\* Adding ones up is counting.
LEMMA PartSumOnes ==
  ASSUME NEW S, IsFiniteSet(S), NEW v \in [S -> Int], \A x \in S : v[x] = 1
  PROVE  \A T \in SUBSET S : PartSum(v, T) = Cardinality(T)
<1> DEFINE B == {T \in SUBSET S : PartSum(v, T) = Cardinality(T)}
<1>1. {} \in B
  BY PartSums, FS_EmptySet
<1>2. ASSUME NEW T \in SUBSET S, NEW x \in S \ T, T \in B
      PROVE  T \cup {x} \in B
  <2>1. PartSum(v, T) = Cardinality(T)
    BY <1>2
  <2>2. PartSum(v, T \cup {x}) = v[x] + PartSum(v, T) /\ PartSum(v, T) \in Int
    BY PartSums
  <2>3. IsFiniteSet(T)
    BY FS_Subset
  <2>4. Cardinality(T \cup {x}) = Cardinality(T) + 1
    BY <2>3, FS_AddElement
  <2>5. QED
    BY <2>1, <2>2, <2>4
<1> HIDE DEF B
<1>3. \A T \in SUBSET S : T \in B
  BY <1>1, <1>2, SubsetInduction
<1>4. QED
  BY <1>3 DEF B

\* A one-to-one map carries sums over.
LEMMA PartSumMaps ==
  ASSUME NEW S, IsFiniteSet(S), NEW v \in [S -> Int], NEW U, IsFiniteSet(U),
         NEW w \in [U -> Int], NEW h \in [S -> U],
         \A x, y \in S : h[x] = h[y] => x = y,
         \A x \in S : v[x] = w[h[x]]
  PROVE  \A T \in SUBSET S : PartSum(v, T) = PartSum(w, {h[x] : x \in T})
<1> DEFINE B == {T \in SUBSET S : PartSum(v, T) = PartSum(w, {h[x] : x \in T})}
<1>1. {} \in B
  <2>1. {h[x] : x \in {}} = {}
    OBVIOUS
  <2>2. QED
    BY <2>1, PartSums
<1>2. ASSUME NEW T \in SUBSET S, NEW x \in S \ T, T \in B
      PROVE  T \cup {x} \in B
  <2> DEFINE I == {h[y] : y \in T}
  <2>1. /\ I \in SUBSET U /\ h[x] \in U \ I
        /\ {h[y] : y \in T \cup {x}} = I \cup {h[x]}
    OBVIOUS
  <2>2. PartSum(v, T) = PartSum(w, I)
    BY <1>2
  <2> HIDE DEF I
  <2>3. PartSum(v, T \cup {x}) = v[x] + PartSum(v, T)
    BY PartSums
  <2>4. PartSum(w, I \cup {h[x]}) = w[h[x]] + PartSum(w, I)
    BY <2>1, PartSums
  <2>5. PartSum(v, T \cup {x}) = PartSum(w, I \cup {h[x]})
    BY <2>2, <2>3, <2>4
  <2>6. PartSum(w, I \cup {h[x]}) = PartSum(w, {h[y] : y \in T \cup {x}})
    BY <2>1, Zenon
  <2>7. QED
    BY <2>5, <2>6
<1> HIDE DEF B
<1>3. \A T \in SUBSET S : T \in B
  BY <1>1, <1>2, SubsetInduction
<1>4. QED
  BY <1>3 DEF B

\* h renames the elements of T, a part of S, to those of I, a part of U, and
\* v and w have the same values there.
Renames(h, S, v, T, U, w, I) ==
    /\ IsFiniteSet(S) /\ v \in [S -> Int] /\ T \in SUBSET S
    /\ IsFiniteSet(U) /\ w \in [U -> Int] /\ I \in SUBSET U
    /\ h \in [S -> U]
    /\ \A x, y \in S : h[x] = h[y] => x = y
    /\ \A x \in S : v[x] = w[h[x]]
    /\ \A y \in U : y \in I <=> \E x \in T : y = h[x]

\* A renamed part has the same sum.
LEMMA PartSumImage ==
  ASSUME NEW S, NEW v, NEW U, NEW w, NEW h, NEW T, NEW I,
         Renames(h, S, v, T, U, w, I)
  PROVE  PartSum(v, T) = PartSum(w, I)
<1> USE DEF Renames
<1>1. PartSum(v, T) = PartSum(w, {h[x] : x \in T})
  BY PartSumMaps
<1>2. {h[x] : x \in T} = I
  OBVIOUS
<1>3. PartSum(w, {h[x] : x \in T}) = PartSum(w, I)
  BY <1>2, Zenon
<1>4. QED
  BY <1>1, <1>3

\* Adding up a table by rows or by columns.
RowSums(f, S, U) == [x \in S |-> PartSum(f[x], U)]
Column(f, S, y) == [x \in S |-> f[x][y]]
ColumnSums(f, S, T, U) == [y \in U |-> PartSum(Column(f, S, y), T)]

\* The rows' sums and the columns' sums add up to the same.
LEMMA RowsAndColumns ==
  ASSUME NEW S, IsFiniteSet(S), NEW U, IsFiniteSet(U), NEW f \in [S -> [U -> Int]]
  PROVE  PartSum(RowSums(f, S, U), S) = PartSum(ColumnSums(f, S, S, U), U)
<1> DEFINE r == RowSums(f, S, U)
           c(T) == ColumnSums(f, S, T, U)
           B == {T \in SUBSET S : PartSum(r, T) = PartSum(c(T), U)}
<1>1. \A x \in S : f[x] \in [U -> Int] /\ PartSum(f[x], U) \in Int
  <2>1. ASSUME NEW x \in S PROVE f[x] \in [U -> Int] /\ PartSum(f[x], U) \in Int
    <3>1. f[x] \in [U -> Int]
      OBVIOUS
    <3>2. QED
      BY <3>1, PartSums
  <2>2. QED
    BY <2>1
<1>2. \A y \in U : /\ Column(f, S, y) \in [S -> Int]
                   /\ \A x \in S : Column(f, S, y)[x] = f[x][y]
  BY DEF Column
<1>3. r \in [S -> Int] /\ \A x \in S : r[x] = PartSum(f[x], U)
  BY <1>1 DEF RowSums
<1>4. \A T \in SUBSET S : /\ c(T) \in [U -> Int]
                          /\ \A y \in U : c(T)[y] = PartSum(Column(f, S, y), T)
  <2>1. ASSUME NEW T \in SUBSET S, NEW y \in U
        PROVE  PartSum(Column(f, S, y), T) \in Int
    <3> DEFINE w == Column(f, S, y)
    <3>1. w \in [S -> Int]
      BY <1>2
    <3> HIDE DEF w
    <3>2. PartSum(w, T) \in Int
      BY <3>1, PartSums
    <3>3. QED
      BY <3>2 DEF w
  <2>2. QED
    BY <2>1 DEF ColumnSums
<1> HIDE DEF r, c
<1>5. {} \in B
  <2>1. ASSUME NEW y \in U PROVE c({})[y] = 0
    <3> DEFINE w == Column(f, S, y)
    <3>1. w \in [S -> Int] /\ c({})[y] = PartSum(w, {})
      BY <1>2, <1>4
    <3> HIDE DEF w
    <3>2. QED
      BY <3>1, PartSums
  <2>2. c({}) \in [U -> Int]
    BY <1>4
  <2>3. PartSum(c({}), U) = 0
    BY <2>1, <2>2, PartSumZero
  <2>4. PartSum(r, {}) = 0
    BY <1>3, PartSums
  <2>5. QED
    BY <2>3, <2>4
<1>6. ASSUME NEW T \in SUBSET S, NEW x \in S \ T, T \in B
      PROVE  T \cup {x} \in B
  <2> DEFINE X == T \cup {x}
             v == f[x]
             w == c(T)
             u == c(X)
  <2>1. X \in SUBSET S
    OBVIOUS
  <2>2. PartSum(r, X) = r[x] + PartSum(r, T)
    BY <1>3, PartSums
  <2>3. ASSUME NEW y \in U
        PROVE  u[y] = v[y] + w[y]
    <3> DEFINE k == Column(f, S, y)
    <3>1. k \in [S -> Int] /\ k[x] = f[x][y]
      BY <1>2
    <3>2. u[y] = PartSum(k, X) /\ w[y] = PartSum(k, T)
      BY <1>4, <2>1
    <3> HIDE DEF k, u, w
    <3>3. PartSum(k, X) = k[x] + PartSum(k, T)
      BY <3>1, PartSums
    <3>4. QED
      BY <3>1, <3>2, <3>3
  <2>4. v \in [U -> Int] /\ w \in [U -> Int] /\ u \in [U -> Int]
    BY <1>1, <1>4, <2>1
  <2>5. r[x] = PartSum(v, U)
    BY <1>3
  <2>6. PartSum(r, T) = PartSum(w, U)
    BY <1>6
  <2> HIDE DEF u, v, w, X
  <2>7. PartSum(u, U) = PartSum(v, U) + PartSum(w, U)
    BY <2>3, <2>4, PartSumAdds
  <2>8. PartSum(r, X) = PartSum(u, U)
    BY <2>2, <2>5, <2>6, <2>7
  <2>9. QED
    BY <2>1, <2>8 DEF X, u
<1> HIDE DEF B
<1>7. \A T \in SUBSET S : T \in B
  BY <1>5, <1>6, SubsetInduction
<1>8. QED
  BY <1>7 DEF B, r, c

\* Adding up group by group.
\* k puts the elements of S into the groups G[b], b in K; g has the sums of v
\* in each group.
Grouped(k, S, v, K, G, g) ==
    /\ IsFiniteSet(S) /\ v \in [S -> Int]
    /\ IsFiniteSet(K) /\ g \in [K -> Int]
    /\ k \in [S -> K] /\ G \in [K -> SUBSET S]
    /\ \A b \in K : g[b] = PartSum(v, G[b])
    /\ \A b \in K : \A x \in S : x \in G[b] <=> k[x] = b

\* The sums of the groups add up to the sum of all.
LEMMA PartSumGroups ==
  ASSUME NEW S, NEW v, NEW K, NEW k, NEW G, NEW g, Grouped(k, S, v, K, G, g)
  PROVE  PartSum(g, K) = PartSum(v, S)
<1>0. /\ IsFiniteSet(S) /\ v \in [S -> Int]
      /\ IsFiniteSet(K) /\ g \in [K -> Int]
      /\ k \in [S -> K] /\ G \in [K -> SUBSET S]
      /\ \A b \in K : g[b] = PartSum(v, G[b])
      /\ \A b \in K : \A x \in S : x \in G[b] <=> k[x] = b
  BY DEF Grouped
<1> USE <1>0
<1> DEFINE In(T) == {x \in S : k[x] \in T}
           B == {T \in SUBSET K : PartSum(g, T) = PartSum(v, In(T))}
<1>1. {} \in B
  <2>1. In({}) = {}
    OBVIOUS
  <2>2. PartSum(v, In({})) = PartSum(v, {})
    BY <2>1, Zenon
  <2>4. PartSum(v, {}) = 0 /\ PartSum(g, {}) = 0
    BY PartSums
  <2>3. QED
    BY <2>2, <2>4
<1>2. ASSUME NEW T \in SUBSET K, NEW b \in K \ T, T \in B
      PROVE  T \cup {b} \in B
  <2> DEFINE X == G[b]
             Y == In(T)
             Z == In(T \cup {b})
  <2>1. X \in SUBSET S /\ Y \in SUBSET S /\ X \cap Y = {} /\ Z = X \cup Y
    OBVIOUS
  <2>2. PartSum(g, T \cup {b}) = g[b] + PartSum(g, T)
    BY PartSums
  <2>3. g[b] = PartSum(v, X) /\ PartSum(g, T) = PartSum(v, Y)
    BY <1>2
  <2>4. PartSum(v, Z) = PartSum(v, X \cup Y)
    BY <2>1, Zenon
  <2> HIDE DEF X, Y, Z
  <2>5. PartSum(v, X \cup Y) = PartSum(v, X) + PartSum(v, Y)
    BY <2>1, PartSumJoins, SMTT(30)
  <2>6. PartSum(g, T \cup {b}) = PartSum(v, Z)
    BY <2>2, <2>3, <2>4, <2>5
  <2>7. QED
    BY <2>6 DEF Z
<1> HIDE DEF B
<1>3. \A T \in SUBSET K : T \in B
  BY <1>1, <1>2, SubsetInduction
<1>4. In(K) = S
  OBVIOUS
<1>5. PartSum(v, In(K)) = PartSum(v, S)
  BY <1>4, Zenon
<1>6. K \in B
  BY <1>3
<1>7. QED
  BY <1>5, <1>6 DEF B

\* A sum of one value.
LEMMA SumOfOne ==
  ASSUME NEW v, DOMAIN v = 1..1, v = [k \in 1..1 |-> v[k]], v[1] \in Int
  PROVE  SumOver(v) = v[1]
<1>1. v \in [{1} -> Int] /\ IsFiniteSet({1}) /\ {} \cup {1} = {1} /\ 1 \in {1} \ {}
  <2>1. 1..1 = {1}
    OBVIOUS
  <2>2. QED
    BY <2>1, FS_Singleton
<1>2. PartSum(v, {} \cup {1}) = v[1] + PartSum(v, {}) /\ PartSum(v, {}) = 0
  BY <1>1, PartSums
<1>3. SumOver(v) = PartSum(v, {1})
  BY <1>1, PartSums
<1>4. PartSum(v, {} \cup {1}) = PartSum(v, {1})
  BY <1>1, Zenon
<1>5. QED
  BY <1>2, <1>3, <1>4

\* One value more adds itself.
LEMMA SumSteps ==
  ASSUME NEW n \in Nat, NEW v \in [1..(n + 1) -> Int]
  PROVE  /\ SumOver(v) = v[n + 1] + SumOver([k \in 1..n |-> v[k]])
         /\ SumOver([k \in 1..n |-> v[k]]) \in Int
<1> DEFINE S == 1..(n + 1)
           T == 1..n
<1>1. IsFiniteSet(S)
  BY FS_Interval
<1>2. T \in SUBSET S /\ n + 1 \in S \ T /\ T \cup {n + 1} = S
  OBVIOUS
<1>3. PartSum(v, T \cup {n + 1}) = PartSum(v, S)
  BY <1>2, Zenon
<1>4. v \in [S -> Int]
  OBVIOUS
<1> HIDE DEF S, T
<1>5. /\ SumOver(v) = PartSum(v, S)
      /\ PartSum(v, T \cup {n + 1}) = v[n + 1] + PartSum(v, T)
      /\ PartSum(v, T) \in Int
  BY <1>1, <1>2, <1>4, PartSums
<1>6. QED
  BY <1>3, <1>5 DEF PartSum, T

\* Sums of one, two and three values.
LEMMA SumsOfFew ==
  /\ \A v \in [1..1 -> Int] : SumOver(v) = v[1]
  /\ \A v \in [1..2 -> Int] : SumOver(v) = v[1] + v[2]
  /\ \A v \in [1..3 -> Int] : SumOver(v) = v[1] + v[2] + v[3]
<1>1. ASSUME NEW v \in [1..1 -> Int] PROVE SumOver(v) = v[1]
  <2>1. v = [k \in 1..1 |-> v[k]] /\ v[1] \in Int /\ DOMAIN v = 1..1
    OBVIOUS
  <2>2. QED
    BY <2>1, SumOfOne
<1>2. ASSUME NEW v \in [1..2 -> Int] PROVE SumOver(v) = v[1] + v[2]
  <2> DEFINE w == [k \in 1..1 |-> v[k]]
  <2>1. w \in [1..1 -> Int] /\ w[1] = v[1] /\ v \in [1..(1 + 1) -> Int] /\ 1 \in Nat
    OBVIOUS
  <2>2. SumOver(v) = v[1 + 1] + SumOver(w)
    BY <2>1, SumSteps
  <2> HIDE DEF w
  <2>3. SumOver(w) = v[1] /\ v[1] \in Int /\ v[2] \in Int
    BY <1>1, <2>1
  <2>4. QED
    BY <2>2, <2>3
<1>3. ASSUME NEW v \in [1..3 -> Int] PROVE SumOver(v) = v[1] + v[2] + v[3]
  <2> DEFINE w == [k \in 1..2 |-> v[k]]
  <2>1. /\ w \in [1..2 -> Int] /\ w[1] = v[1] /\ w[2] = v[2]
        /\ v \in [1..(2 + 1) -> Int] /\ 2 \in Nat
    OBVIOUS
  <2>2. SumOver(v) = v[2 + 1] + SumOver(w)
    BY <2>1, SumSteps
  <2> HIDE DEF w
  <2>3. SumOver(w) = v[1] + v[2] /\ v[1] \in Int /\ v[2] \in Int /\ v[3] \in Int
    BY <1>2, <2>1
  <2>4. QED
    BY <2>2, <2>3
<1>4. QED
  BY <1>1, <1>2, <1>3

\* Greater values, greater sums.
LEMMA PartSumBounded ==
  ASSUME NEW S, IsFiniteSet(S), NEW v \in [S -> Int], NEW w \in [S -> Int],
         \A x \in S : v[x] <= w[x]
  PROVE  \A T \in SUBSET S : PartSum(v, T) <= PartSum(w, T)
<1> DEFINE B == {T \in SUBSET S : PartSum(v, T) <= PartSum(w, T)}
<1>1. {} \in B
  BY PartSums
<1>2. \A T \in SUBSET S : \A x \in S \ T : T \in B => T \cup {x} \in B
  <2> SUFFICES ASSUME NEW T \in SUBSET S, NEW x \in S \ T, T \in B
               PROVE  PartSum(v, T \cup {x}) <= PartSum(w, T \cup {x})
    OBVIOUS
  <2>1. /\ PartSum(v, T \cup {x}) = v[x] + PartSum(v, T) /\ PartSum(v, T) \in Int
        /\ PartSum(w, T \cup {x}) = w[x] + PartSum(w, T) /\ PartSum(w, T) \in Int
    BY PartSums
  <2>2. PartSum(v, T) <= PartSum(w, T) /\ v[x] \in Int /\ w[x] \in Int /\ v[x] <= w[x]
    OBVIOUS
  <2>3. QED
    BY <2>1, <2>2
<1> HIDE DEF B
<1>3. \A T \in SUBSET S : T \in B
  BY <1>1, <1>2, SubsetInduction
<1>4. QED
  BY <1>3 DEF B

\* Sums of what is not negative are not negative.
LEMMA PartSumNatural ==
  ASSUME NEW S, IsFiniteSet(S), NEW w \in [S -> Int], \A x \in S : 0 <= w[x]
  PROVE  \A T \in SUBSET S : 0 <= PartSum(w, T)
<1> DEFINE z == [x \in S |-> 0]
<1>1. z \in [S -> Int] /\ (\A x \in S : z[x] <= w[x]) /\ \A x \in S : z[x] = 0
  OBVIOUS
<1> HIDE DEF z
<1>2. ASSUME NEW T \in SUBSET S PROVE 0 <= PartSum(w, T)
  <2>1. PartSum(z, T) = 0
    BY <1>1, PartSumZero
  <2>2. PartSum(z, T) <= PartSum(w, T)
    BY <1>1, PartSumBounded
  <2>3. QED
    BY <2>1, <2>2
<1>3. QED
  BY <1>2

\* If nothing is negative, a part adds up to no more than the whole.
LEMMA SumOfPart ==
  ASSUME NEW S, IsFiniteSet(S), NEW w \in [S -> Int], \A x \in S : 0 <= w[x],
         NEW T \in SUBSET S, NEW v \in [T -> Int], \A x \in T : v[x] <= w[x]
  PROVE  SumOver(v) <= SumOver(w)
<1> DEFINE u == [x \in T |-> w[x]]
<1>1. IsFiniteSet(T) /\ u \in [T -> Int] /\ (\A x \in T : v[x] <= u[x]) /\ T \in SUBSET T
  BY FS_Subset
<1>2. PartSum(u, T) = PartSum(w, T)
  BY PartSumSame
<1> HIDE DEF u
<1>3. SumOver(v) = PartSum(v, T) /\ SumOver(w) = PartSum(w, S)
  BY <1>1, PartSums
<1>4. PartSum(v, T) <= PartSum(u, T)
  BY <1>1, PartSumBounded
<1>5. PartSum(w, S) = PartSum(w, T) + PartSum(w, S \ T)
  <2> DEFINE R == S \ T
  <2>1. R \in SUBSET S /\ T \cap R = {} /\ T \cup R = S
    OBVIOUS
  <2> HIDE DEF R
  <2>2. PartSum(w, T \cup R) = PartSum(w, T) + PartSum(w, R)
    BY <2>1, PartSumJoins
  <2>3. QED
    BY <2>1, <2>2 DEF R
<1>6. 0 <= PartSum(w, S \ T)
  BY PartSumNatural
<1>7. /\ PartSum(w, T) \in Int /\ PartSum(w, S \ T) \in Int /\ PartSum(u, T) \in Int
      /\ PartSum(v, T) \in Int
  BY <1>1, PartSums
<1>8. QED
  BY <1>2, <1>3, <1>4, <1>5, <1>6, <1>7

\* One value and the rest.
LEMMA SumWithout ==
  ASSUME NEW S, IsFiniteSet(S), NEW v \in [S -> Int], NEW x \in S
  PROVE  /\ SumOver(v) = v[x] + PartSum(v, S \ {x})
         /\ PartSum(v, S \ {x}) \in Int /\ SumOver(v) \in Int
<1> DEFINE T == S \ {x}
<1>1. T \in SUBSET S /\ x \in S \ T /\ T \cup {x} = S /\ v[x] \in Int
  OBVIOUS
<1> HIDE DEF T
<1>2. /\ SumOver(v) = PartSum(v, S) /\ PartSum(v, T) \in Int
      /\ PartSum(v, T \cup {x}) = v[x] + PartSum(v, T)
  BY <1>1, PartSums
<1>3. PartSum(v, S) = v[x] + PartSum(v, T)
  BY <1>1, <1>2, Zenon
<1>4. QED
  BY <1>1, <1>2, <1>3 DEF T

\* If nothing is negative, no value exceeds the sum.
LEMMA SumAtLeast ==
  ASSUME NEW S, IsFiniteSet(S), NEW w \in [S -> Int], \A x \in S : 0 <= w[x], NEW x \in S
  PROVE  w[x] <= SumOver(w)
<1>1. SumOver(w) = w[x] + PartSum(w, S \ {x}) /\ PartSum(w, S \ {x}) \in Int
  BY SumWithout
<1>2. S \ {x} \in SUBSET S /\ w[x] \in Int
  OBVIOUS
<1>3. 0 <= PartSum(w, S \ {x})
  BY <1>2, PartSumNatural
<1>4. QED
  BY <1>1, <1>2, <1>3

\* Only the value at x grows, by at most d.
Grows(S, v, w, x, d) ==
    /\ IsFiniteSet(S) /\ v \in [S -> Int] /\ w \in [S -> Int] /\ x \in S /\ d \in Int
    /\ w[x] <= v[x] + d
    /\ \A y \in S \ {x} : w[y] = v[y]

LEMMA SumGrows ==
  ASSUME NEW S, NEW v, NEW w, NEW x, NEW d, Grows(S, v, w, x, d)
  PROVE  SumOver(w) <= SumOver(v) + d
<1> USE DEF Grows
<1>1. /\ SumOver(w) = w[x] + PartSum(w, S \ {x}) /\ PartSum(w, S \ {x}) \in Int
      /\ SumOver(v) = v[x] + PartSum(v, S \ {x})
  BY SumWithout
<1>2. PartSum(w, S \ {x}) = PartSum(v, S \ {x})
  BY PartSumSame
<1>3. v[x] \in Int /\ w[x] \in Int
  OBVIOUS
<1>4. QED
  BY <1>1, <1>2, <1>3

\* One more element, whose value is 0.
Extends(S, v, w, x) ==
    /\ IsFiniteSet(S) /\ v \in [S -> Int] /\ x \notin S /\ w \in [S \cup {x} -> Int]
    /\ w[x] = 0 /\ \A y \in S : w[y] = v[y]

LEMMA SumExtends ==
  ASSUME NEW S, NEW v, NEW w, NEW x, Extends(S, v, w, x)
  PROVE  SumOver(w) = SumOver(v)
<1> USE DEF Extends
<1> DEFINE R == S \cup {x}
<1>1. IsFiniteSet(R) /\ w \in [R -> Int] /\ x \in R
  BY FS_AddElement
<1>2. R \ {x} = S
  OBVIOUS
<1> HIDE DEF R
<1>3. SumOver(w) = w[x] + PartSum(w, S) /\ PartSum(w, S) \in Int
  BY <1>1, <1>2, SumWithout
<1>4. SumOver(v) = PartSum(v, S)
  BY PartSums
<1>5. PartSum(w, S) = PartSum(v, S)
  BY PartSumSame
<1>6. QED
  BY <1>3, <1>4, <1>5
==============================================================================
