-------------------------- MODULE ColumnScanProofs --------------------------
(***************************************************************************)
(* Proofs about BitSlicedScan and ColumnScan for every word size, block    *)
(* size and skeleton, every table, and every query: the transposition, the *)
(* layout of row groups, compactions, and what the scans find.             *)
(***************************************************************************)
EXTENDS ColumnScan, SumProofs, SequenceTheorems, FiniteSetTheorems, TLAPS

\* One bit more of a number.
LEMMA ModDouble ==
  ASSUME NEW n \in Int, NEW p \in Nat \ {0}
  PROVE  /\ n % (2 * p) = (n % p) + p * ((n \div p) % 2)
         /\ n \div (2 * p) = (n \div p) \div 2
<1> DEFINE d == n \div p
           m == n % p
           e == d \div 2
           b == d % 2
<1>1. /\ d \in Int /\ m \in 0..(p - 1)
      /\ n = p * d + m
  BY DivMod
<1> HIDE DEF d, m
<1>2. e \in Int /\ b \in 0..1 /\ d = 2 * e + b
  BY <1>1
<1> HIDE DEF e, b
<1>3. p * d = (2 * p) * e + p * b
  BY <1>1, <1>2
<1>4. 2 * p \in Nat \ {0} /\ p * b + m \in 0..(2 * p - 1)
  BY <1>1, <1>2
<1>5. n = (2 * p) * e + (p * b + m)
  BY <1>1, <1>2, <1>3
<1>6. n \div (2 * p) = e /\ n % (2 * p) = p * b + m
  BY <1>2, <1>4, <1>5, DivModUnique
<1>7. QED
  BY <1>1, <1>2, <1>6 DEF d, m, e, b

LEMMA Powers ==
  /\ W \in Nat \ {0}
  /\ \A n \in 0..LogW : 2^n \in Nat \ {0}
  /\ \A n \in 0..W : 2^n \in Nat \ {0}
<1>1. LogW \in Nat /\ W \in Nat
  BY WordAssumption, PowerAssumption
<1>2. ASSUME NEW N \in Nat, \A n \in 0..N : 2^n \in Nat /\ 2^(n + 1) = 2 * 2^n
      PROVE  \A n \in 0..N : 2^n \in Nat \ {0}
  <2> DEFINE B == {n \in 0..N : 2^n = 0}
  <2> SUFFICES ASSUME B # {} PROVE FALSE
    BY <1>2
  <2>1. B \in SUBSET Nat
    OBVIOUS
  <2>2. PICK n \in B : \A m \in B : n <= m
    BY <2>1, LeastElement
  <2>3. n \in 1..N /\ 2^n = 0
    <3>1. n \in 0..N /\ 2^n = 0
      OBVIOUS
    <3>2. ASSUME n = 0 PROVE FALSE
      <4>1. 2^n = 2^0
        BY ONLY <3>2, Zenon
      <4>2. 2^0 = 1
        BY PowerAssumption
      <4>3. QED
        BY <3>1, <4>1, <4>2
    <3>3. QED
      BY <3>1, <3>2
  <2>4. n - 1 \in 0..N /\ (n - 1) + 1 = n
    BY <2>3
  <2>5. 2^n = 2 * 2^(n - 1) /\ 2^(n - 1) \in Nat
    BY <1>2, <2>4
  <2>6. 2^(n - 1) = 0
    BY <2>3, <2>5
  <2>7. QED
    BY <2>2, <2>4, <2>6
<1>3. QED
  <2>1. \A n \in 0..LogW : 2^n \in Nat \ {0}
    BY <1>1, <1>2, PowerAssumption
  <2>2. \A n \in 0..W : 2^n \in Nat \ {0}
    BY <1>1, <1>2, PowerAssumption
  <2>3. 2^LogW # 0
    BY <1>1, <2>1
  <2>4. QED
    BY <1>1, <2>1, <2>2, <2>3 DEF W

LEMMA MaxIsGreatest ==
  ASSUME NEW n \in Nat, NEW S \in SUBSET (0..n), S # {}
  PROVE  Max(S) \in S /\ \A y \in S : Max(S) >= y
<1> DEFINE T == {m \in Nat : n - m \in S}
<1>1. \A y \in S : n - y \in T
  OBVIOUS
<1>2. T \in SUBSET Nat /\ T # {}
  BY <1>1
<1>3. PICK m \in T : \A y \in T : m <= y
  BY <1>2, LeastElement
<1>4. n - m \in S /\ \A y \in S : n - m >= y
  <2>1. m \in Nat /\ n - m \in S
    BY <1>3
  <2>2. ASSUME NEW y \in S PROVE n - m >= y
    <3>1. m <= n - y
      BY <1>1, <1>3
    <3>2. QED
      BY <2>1, <3>1
  <2>3. QED
    BY <2>1, <2>2
<1>5. QED
  BY <1>4 DEF Max

LEMMA MaxOfUpto ==
  ASSUME NEW n \in Nat \ {0}
  PROVE  Max(1..n) = n /\ (1..n) \ {n} = 1..(n - 1)
<1>1. Max(1..n) \in 1..n /\ \A y \in 1..n : Max(1..n) >= y
  <2>1. 1..n \in SUBSET (0..n) /\ 1..n # {}
    OBVIOUS
  <2>2. QED
    BY <2>1, MaxIsGreatest
<1>2. n \in 1..n
  OBVIOUS
<1>3. Max(1..n) >= n
  BY <1>1, <1>2
<1>4. QED
  BY <1>1, <1>3

(* The transposition.                                                        *)

Matrices == [Pos -> SUBSET Pos]

\* The low part of x with the high part of y.
Mix(k, x, y) == k * (y \div k) + (x % k)

LEMMA DividesWord ==
  \A j \in 0..LogW : \E q \in Nat \ {0} : W = 2^j * q
<1> DEFINE Ok(j) == \E q \in Nat \ {0} : W = 2^j * q
           B == {m \in Nat : m <= LogW /\ ~ Ok(LogW - m)}
<1>0. LogW \in Nat
  BY WordAssumption
<1>1. B = {}
  <2> SUFFICES ASSUME B # {} PROVE FALSE
    OBVIOUS
  <2>1. B \in SUBSET Nat
    OBVIOUS
  <2>2. PICK m \in B : \A y \in B : m <= y
    BY <2>1, LeastElement
  <2>3. m \in Nat /\ m <= LogW /\ ~ Ok(LogW - m)
    OBVIOUS
  <2>4. m # 0
    <3>1. Ok(LogW)
      BY <1>0, Powers DEF W
    <3>2. QED
      BY <1>0, <2>3, <3>1
  <2>5. m - 1 \notin B
    BY <2>2, <2>3
  <2>6. Ok(LogW - (m - 1))
    BY <1>0, <2>3, <2>4, <2>5
  <2> DEFINE j == LogW - m
  <2>7. j \in 0..LogW /\ LogW - (m - 1) = j + 1
    BY <1>0, <2>3
  <2> HIDE DEF j
  <2>8. PICK q \in Nat \ {0} : W = 2^(j + 1) * q
    BY <2>6, <2>7
  <2>9. 2^(j + 1) = 2 * 2^j /\ 2^j \in Nat
    BY <2>7, PowerAssumption
  <2>10. W = 2^j * (2 * q) /\ 2 * q \in Nat \ {0}
    BY <2>8, <2>9
  <2>11. Ok(j)
    BY <2>10
  <2>12. QED
    BY <2>3, <2>11 DEF j
<1>2. ASSUME NEW j \in 0..LogW PROVE Ok(j)
  <2>1. \A m \in Nat : m <= LogW => Ok(LogW - m)
    BY <1>1
  <2> HIDE DEF Ok
  <2>2. LogW - j \in Nat /\ LogW - j <= LogW /\ LogW - (LogW - j) = j
    BY <1>0
  <2>3. Ok(LogW - (LogW - j))
    BY <2>1, <2>2
  <2>4. QED
    BY <2>2, <2>3
<1>3. QED
  BY <1>2

\* x and y after they have exchanged the bit of weight k.
Swapped(k, x, y) == x + k * (((y \div k) % 2) - ((x \div k) % 2))

LEMMA Digits ==
  ASSUME NEW x \in Nat, NEW k \in Nat \ {0}
  PROVE  \E X \in Nat : \E c \in {0, 1} : \E d \in 0..(k - 1) :
           /\ x = (2 * k) * X + k * c + d
           /\ x \div k = 2 * X + c /\ (x \div k) % 2 = c /\ x % k = d
<1> DEFINE D == x \div k
           d == x % k
           X == D \div 2
           c == D % 2
<1>1. D \in Int /\ d \in 0..(k - 1) /\ x = k * D + d
  BY DivMod
<1> HIDE DEF D, d
<1>2. D >= 0
  <2>1. D <= -1 => k * D <= k * (-1)
    BY <1>1
  <2>2. QED
    BY <1>1, <2>1
<1>3. X \in Nat /\ c \in {0, 1} /\ D = 2 * X + c
  BY <1>1, <1>2
<1>4. k * D = (2 * k) * X + k * c
  BY <1>1, <1>3
<1>5. QED
  BY <1>1, <1>3, <1>4 DEF D, d, c

LEMMA MixSwapped ==
  ASSUME NEW x \in Nat, NEW y \in Nat, NEW k \in Nat \ {0}
  PROVE  /\ Mix(2 * k, Swapped(k, x, y), Swapped(k, y, x)) = Mix(k, x, y)
         /\ Swapped(k, x, y) \in Nat
<1>1. PICK X \in Nat, c \in {0, 1}, d \in 0..(k - 1) :
           /\ x = (2 * k) * X + k * c + d
           /\ x \div k = 2 * X + c /\ (x \div k) % 2 = c /\ x % k = d
  BY Digits
<1>2. PICK Y \in Nat, e \in {0, 1}, f \in 0..(k - 1) :
           /\ y = (2 * k) * Y + k * e + f
           /\ y \div k = 2 * Y + e /\ (y \div k) % 2 = e /\ y % k = f
  BY Digits
<1> DEFINE xs == Swapped(k, x, y)
           ys == Swapped(k, y, x)
<1>3. /\ 2 * k \in Nat \ {0}
      /\ k * e + d \in 0..(2 * k - 1) /\ k * c + f \in 0..(2 * k - 1)
  BY <1>1, <1>2
<1>4. xs = (2 * k) * X + (k * e + d)
  <2>1. k * (e - c) = k * e - k * c
    BY <1>1, <1>2
  <2>2. QED
    BY <1>1, <1>2, <2>1 DEF Swapped
<1>5. ys = (2 * k) * Y + (k * c + f)
  <2>1. k * (c - e) = k * c - k * e
    BY <1>1, <1>2
  <2>2. QED
    BY <1>1, <1>2, <2>1 DEF Swapped
<1>6. xs \in Nat /\ ys \in Nat
  BY <1>1, <1>2, <1>3, <1>4, <1>5
<1> HIDE DEF xs, ys
<1>7. xs % (2 * k) = k * e + d /\ ys \div (2 * k) = Y
  <2> DEFINE p == 2 * k
             r == k * e + d
             s == k * c + f
  <2>1. /\ p \in Nat \ {0} /\ r \in 0..(p - 1) /\ s \in 0..(p - 1)
        /\ xs = p * X + r /\ ys = p * Y + s
        /\ xs \in Int /\ ys \in Int /\ X \in Int /\ Y \in Int
    BY <1>3, <1>4, <1>5, <1>6
  <2> HIDE DEF p, r, s
  <2>2. xs % p = r /\ ys \div p = Y
    BY <2>1, DivModUnique
  <2>3. QED
    BY <2>2 DEF p, r
<1>8. (2 * k) * Y + (k * e + d) = k * (2 * Y + e) + d
  BY <1>1, <1>2
<1>9. QED
  BY <1>1, <1>2, <1>6, <1>7, <1>8 DEF Mix, xs, ys

LEMMA StageSwaps ==
  ASSUME NEW j \in 0..(LogW - 1), NEW A \in Matrices
  PROVE  /\ Stage(A, 2^j) \in Matrices
         /\ \A i, b \in Pos :
              /\ Swapped(2^j, i, b) \in Pos /\ Swapped(2^j, b, i) \in Pos
              /\ b \in Stage(A, 2^j)[i] <=>
                   Swapped(2^j, b, i) \in A[Swapped(2^j, i, b)]
<1> DEFINE k == 2^j
           Low == {i \in Pos : (i \div k) % 2 = 0}
           t(i) == SymDiff({b - k : b \in A[i] \ 0..(k - 1)}, A[i + k]) \cap Low
<1>1. k \in Nat \ {0} /\ \E q \in Nat \ {0} : W = (2 * k) * q
  <2>1. /\ j \in 0..LogW /\ j + 1 \in 0..LogW
    BY WordAssumption
  <2>2. 2^(j + 1) = 2 * 2^j
    BY <2>1, PowerAssumption
  <2>3. QED
    BY <2>1, <2>2, Powers, DividesWord
<1>2. W \in Nat \ {0} /\ Pos = 0..(W - 1)
  BY Powers DEF Pos
<1>3. \A i \in Pos : A[i] \subseteq Pos
  BY DEF Matrices
<1>4. Stage(A, k) = [i \in Pos |-> IF i \in Low
                       THEN SymDiff(A[i], {b + k : b \in t(i)})
                       ELSE SymDiff(A[i], t(i - k))]
  BY DEF Stage
<1> HIDE DEF k
\* The bit of weight k can be set where it is not, and cleared where it is.
<1>5. ASSUME NEW i \in Pos
      PROVE  /\ i \in Low => /\ i + k \in Pos /\ i + k \notin Low
                             /\ i + k >= k
             /\ i \notin Low => /\ i - k \in Pos /\ i - k \in Low
                                /\ i >= k
             /\ (i \div k) % 2 = IF i \in Low THEN 0 ELSE 1
  <2>1. i \in Nat /\ i < W
    BY <1>2
  <2>2. PICK X \in Nat, c \in {0, 1}, d \in 0..(k - 1) :
           /\ i = (2 * k) * X + k * c + d
           /\ i \div k = 2 * X + c /\ (i \div k) % 2 = c /\ i % k = d
    <3>1. i \in Nat /\ k \in Nat \ {0}
      BY <1>1, <2>1
    <3>2. QED
      BY ONLY <3>1, Digits
  <2>3. PICK q \in Nat \ {0} : W = (2 * k) * q
    BY <1>1
  <2>4. (2 * k) * X + 2 * k <= W
    <3>1. X < q
      <4>1. X >= q => (2 * k) * X >= (2 * k) * q
        BY <1>1, <2>2, <2>3
      <4>2. k * c >= 0
        BY <1>1, <2>2
      <4>3. (2 * k) * X \in Nat /\ (2 * k) * q \in Nat /\ k * c \in Nat
        BY <1>1, <2>2, <2>3
      <4>4. QED
        BY <2>1, <2>2, <2>3, <4>1, <4>2, <4>3
    <3>2. (2 * k) * q >= (2 * k) * (X + 1)
      BY <1>1, <2>2, <2>3, <3>1
    <3>3. (2 * k) * (X + 1) = (2 * k) * X + 2 * k
      BY <1>1, <2>2
    <3>4. QED
      BY <2>3, <3>2, <3>3
  <2>5. /\ \A e \in {0, 1} : ((2 * k) * X + k * e + d) \div k = 2 * X + e
        /\ k * 0 = 0 /\ k * 1 = k
    <3>1. ASSUME NEW e \in {0, 1}
          PROVE  ((2 * k) * X + k * e + d) \div k = 2 * X + e
      <4>1. (2 * k) * X + k * e + d = k * (2 * X + e) + d
        BY <1>1, <2>2
      <4>2. 2 * X + e \in Int /\ (2 * k) * X + k * e + d \in Int
        BY <1>1, <2>2
      <4>3. QED
        BY <1>1, <2>2, <4>1, <4>2, DivModUnique
    <3>2. QED
      BY <1>1, <3>1
  <2>6. CASE c = 0
    <3>1. i \in Low /\ (i \div k) % 2 = 0 /\ i = (2 * k) * X + d
      <4>1. i = (2 * k) * X + k * 0 + d /\ (2 * k) * X \in Nat
        BY <1>1, <2>2, <2>6
      <4>2. i = (2 * k) * X + d
        BY <2>2, <2>5, <4>1
      <4>3. QED
        BY <2>2, <2>6, <4>2
    <3>2. i + k = (2 * k) * X + k * 1 + d
      BY <1>1, <2>2, <2>5, <3>1
    <3>3. (i + k) \div k = 2 * X + 1
      BY <2>5, <3>2
    <3>4. ((i + k) \div k) % 2 = 1
      BY <2>2, <3>3
    <3>5. (2 * k) * X \in Nat
      BY <1>1, <2>2
    <3>6. i + k \in Pos /\ i + k >= k
      BY <1>1, <1>2, <2>1, <2>2, <2>4, <3>1, <3>5
    <3>7. QED
      BY <3>1, <3>4, <3>6
  <2>7. CASE c = 1
    <3>1. i \notin Low /\ (i \div k) % 2 = 1 /\ i = (2 * k) * X + k + d
      BY <2>2, <2>5, <2>7
    <3>2. (2 * k) * X \in Nat
      BY <1>1, <2>2
    <3>3. i - k = (2 * k) * X + k * 0 + d
      BY <1>1, <2>2, <2>5, <3>1, <3>2
    <3>4. (i - k) \div k = 2 * X + 0
      BY <2>5, <3>3
    <3>5. ((i - k) \div k) % 2 = 0
      BY <2>2, <3>4
    <3>6. i - k \in Pos /\ i >= k
      BY <1>1, <1>2, <2>1, <2>2, <3>1, <3>2
    <3>7. QED
      BY <3>1, <3>5, <3>6
  <2>8. QED
    BY <2>2, <2>6, <2>7
<1> HIDE DEF Low
<1>6. ASSUME NEW i \in Pos, NEW b \in Pos
      PROVE  /\ Swapped(k, i, b) = IF i \in Low THEN IF b \in Low THEN i ELSE i + k
                                   ELSE IF b \in Low THEN i - k ELSE i
             /\ Swapped(k, i, b) \in Pos
  <2>1. i \in Int /\ b \in Int
    BY <1>2
  <2>2. /\ (i \div k) % 2 = IF i \in Low THEN 0 ELSE 1
        /\ (b \div k) % 2 = IF b \in Low THEN 0 ELSE 1
    BY <1>5
  <2>3. k * (0 - 0) = 0 /\ k * (1 - 1) = 0 /\ k * (1 - 0) = k /\ k * (0 - 1) = -k
    BY <1>1
  <2>4. Swapped(k, i, b) = IF i \in Low THEN IF b \in Low THEN i ELSE i + k
                                   ELSE IF b \in Low THEN i - k ELSE i
    BY <1>1, <2>1, <2>2, <2>3 DEF Swapped
  <2>5. QED
    BY <1>5, <2>4
<1>7. ASSUME NEW i \in Pos, i \in Low
      PROVE  /\ t(i) \in SUBSET Low
             /\ \A b \in Low : b \in t(i) <=> ((b + k \in A[i]) <=> b \notin A[i + k])
  <2>1. \A b \in Low : b \in Pos /\ b \in Int /\ b + k >= k
    BY <1>1, <1>2 DEF Low
  <2>2. ASSUME NEW b \in Low
        PROVE  (\E c \in A[i] \ 0..(k - 1) : b = c - k) <=> b + k \in A[i]
    <3>1. b + k \notin 0..(k - 1) /\ (b + k) - k = b
      BY <1>1, <2>1
    <3>2. \A c \in A[i] : c \in Int
      BY <1>2, <1>3
    <3>3. \A c \in A[i] : b = c - k => c = b + k
      BY <1>1, <2>1, <3>2
    <3>4. QED
      BY <3>1, <3>3
  <2>3. \A b \in Low : b \in t(i) <=> \/ (b + k \in A[i] /\ b \notin A[i + k])
                                      \/ (b + k \notin A[i] /\ b \in A[i + k])
    BY <2>2 DEF SymDiff
  <2>4. QED
    BY <2>3
<1> HIDE DEF t
<1> DEFINE M == Stage(A, k)
<1>8. ASSUME NEW i \in Pos, NEW b \in Pos
      PROVE  b \in M[i] <=> Swapped(k, b, i) \in A[Swapped(k, i, b)]
  <2>1. k \in Int /\ i \in Int /\ b \in Int
    BY <1>1, <1>2
  <2>2. CASE i \in Low
    <3>1. M[i] = SymDiff(A[i], {c + k : c \in t(i)})
      BY <1>4, <2>2
    <3>2. b \in Low => b \notin {c + k : c \in t(i)}
      <4>1. \A c \in t(i) : c \in Low /\ c \in Pos
        BY <1>7, <2>2 DEF Low
      <4>2. \A c \in t(i) : c + k \notin Low
        BY <1>5, <4>1
      <4>3. QED
        BY <4>2
    <3>3. b \notin Low => (b \in {c + k : c \in t(i)} <=> b - k \in t(i))
      <4>1. \A c \in t(i) : c \in Int /\ (b = c + k => c = b - k)
        BY <1>2, <1>7, <2>1, <2>2 DEF Low
      <4>2. (b - k) + k = b
        BY <2>1
      <4>3. QED
        BY <4>1, <4>2
    <3>4. CASE b \in Low
      BY <1>6, <2>2, <3>1, <3>2, <3>4 DEF SymDiff
    <3>5. CASE b \notin Low
      <4>1. b - k \in Low /\ (b - k) + k = b
        BY <1>5, <2>1, <3>5
      <4>2. b - k \in t(i) <=> (b \in A[i] <=> b - k \notin A[i + k])
        BY <1>7, <2>2, <4>1
      <4>3. b \in M[i] <=> b - k \in A[i + k]
        BY <3>1, <3>3, <3>5, <4>2 DEF SymDiff
      <4>4. QED
        BY <1>6, <2>2, <3>5, <4>3
    <3>6. QED
      BY <3>4, <3>5
  <2>3. CASE i \notin Low
    <3>1. i - k \in Pos /\ i - k \in Low /\ (i - k) + k = i
      BY <1>5, <2>1, <2>3
    <3>2. M[i] = SymDiff(A[i], t(i - k))
      BY <1>4, <2>3
    <3>3. CASE b \in Low
      <4>1. b \in t(i - k) <=> (b + k \in A[i - k] <=> b \notin A[i])
        BY <1>7, <3>1, <3>3
      <4>2. b \in M[i] <=> b + k \in A[i - k]
        BY <3>2, <4>1 DEF SymDiff
      <4>3. Swapped(k, b, i) = b + k /\ Swapped(k, i, b) = i - k
        BY <1>6, <2>3, <3>3
      <4>4. QED
        BY <4>2, <4>3, Zenon
    <3>4. CASE b \notin Low
      <4>1. b \notin t(i - k)
        BY <1>7, <3>1, <3>4
      <4>2. b \in M[i] <=> b \in A[i]
        BY <3>2, <4>1 DEF SymDiff
      <4>3. QED
        BY <1>6, <2>3, <3>4, <4>2
    <3>5. QED
      BY <3>3, <3>4
  <2>4. QED
    BY <2>2, <2>3
<1>9. M \in Matrices
  <2>1. ASSUME NEW i \in Pos PROVE M[i] \subseteq Pos
    <3>1. CASE i \in Low
      <4>1. M[i] = SymDiff(A[i], {c + k : c \in t(i)})
        BY <1>4, <3>1
      <4>2. \A c \in t(i) : c \in Low /\ c \in Pos
        BY <1>7, <3>1 DEF Low
      <4>3. \A c \in t(i) : c + k \in Pos
        BY <1>5, <4>2
      <4>4. QED
        BY <1>3, <4>1, <4>3 DEF SymDiff
    <3>2. CASE i \notin Low
      <4>1. M[i] = SymDiff(A[i], t(i - k)) /\ i - k \in Pos /\ i - k \in Low
        BY <1>4, <1>5, <3>2
      <4>2. \A c \in t(i - k) : c \in Pos
        BY <1>7, <4>1 DEF Low
      <4>3. QED
        BY <1>3, <4>1, <4>2 DEF SymDiff
    <3>3. QED
      BY <3>1, <3>2
  <2>2. QED
    BY <1>4, <2>1 DEF Matrices
<1>10. QED
  BY <1>6, <1>8, <1>9 DEF k

\* After the stages for the bits LogW - 1 down to j, where i and b have
\* exchanged these bits.
Exchanged(M, A, j) ==
  \A i, b \in Pos : b \in M[i] <=> Mix(2^j, b, i) \in A[Mix(2^j, i, b)]

LEMMA ExchangeSteps ==
  ASSUME NEW j \in 0..(LogW - 1), NEW A \in Matrices, NEW M \in Matrices,
         Exchanged(M, A, j + 1)
  PROVE  Exchanged(Stage(M, 2^j), A, j)
<1>1. 2^j \in Nat \ {0} /\ 2^(j + 1) = 2 * 2^j
  <2>1. j \in 0..LogW
    BY WordAssumption
  <2>2. QED
    BY <2>1, Powers, PowerAssumption
<1> DEFINE k == 2^j
<1>2. ASSUME NEW i \in Pos, NEW b \in Pos
      PROVE  b \in Stage(M, k)[i] <=> Mix(k, b, i) \in A[Mix(k, i, b)]
  <2> DEFINE is == Swapped(k, i, b)
             bs == Swapped(k, b, i)
  <2>1. is \in Pos /\ bs \in Pos /\ (b \in Stage(M, k)[i] <=> bs \in M[is])
    BY StageSwaps
  <2>2. bs \in M[is] <=> Mix(2 * k, bs, is) \in A[Mix(2 * k, is, bs)]
    BY <1>1, <2>1 DEF Exchanged
  <2>3. i \in Nat /\ b \in Nat
    BY Powers DEF Pos
  <2>4. Mix(2 * k, bs, is) = Mix(k, b, i) /\ Mix(2 * k, is, bs) = Mix(k, i, b)
    BY <1>1, <2>3, MixSwapped
  <2>5. QED
    BY <2>1, <2>2, <2>4
<1>3. QED
  BY <1>2 DEF Exchanged

\* Nothing is exchanged at first, and everything in the end.
LEMMA ExchangeEnds ==
  ASSUME NEW A \in Matrices
  PROVE  /\ Exchanged(A, A, LogW)
         /\ \A M : Exchanged(M, A, 0) => \A i, b \in Pos : b \in M[i] <=> i \in A[b]
<1>1. W \in Nat \ {0} /\ Pos = 0..(W - 1) /\ W = 2^LogW
  BY Powers DEF Pos, W
<1>2. \A x, y \in Pos : Mix(2^LogW, x, y) = x
  <2>1. \A x \in Pos : x \div W = 0 /\ x % W = x
    <3>1. ASSUME NEW x \in Pos PROVE x \div W = 0 /\ x % W = x
      <4>1. x \in Int /\ x \in 0..(W - 1) /\ x = W * 0 + x
        BY <1>1
      <4>2. QED
        BY <1>1, <4>1, DivModUnique
    <3>2. QED
      BY <3>1
  <2>2. ASSUME NEW x \in Pos, NEW y \in Pos PROVE Mix(W, x, y) = x
    <3>1. x \in Int /\ y \div W = 0 /\ x % W = x /\ W * 0 = 0
      BY <1>1, <2>1
    <3>2. QED
      BY <3>1 DEF Mix
  <2>3. QED
    BY <1>1, <2>2
<1>3. \A x, y \in Pos : Mix(2^0, x, y) = y
  <2>1. ASSUME NEW x \in Pos, NEW y \in Pos PROVE Mix(1, x, y) = y
    <3>1. x \in Int /\ y \in Int /\ 1 \in Nat \ {0} /\ 0 \in 0..(1 - 1)
      BY <1>1
    <3>2. x = 1 * x + 0 /\ y = 1 * y + 0
      BY <3>1
    <3>3. x % 1 = 0 /\ y \div 1 = y
      BY <3>1, <3>2, DivModUnique
    <3>4. QED
      BY <3>1, <3>3 DEF Mix
  <2>2. QED
    BY <2>1, PowerAssumption
<1>4. QED
  BY <1>2, <1>3 DEF Exchanged

LEMMA TransposeUnfolds ==
  ASSUME NEW A \in Matrices
  PROVE  \E F : /\ F[{}] = A /\ Transpose(A) = F[1..LogW]
                /\ \A s \in 1..LogW :
                     F[1..s] = Stage(F[1..(s - 1)], 2^(LogW - s))
<1> DEFINE seq == [s \in 1..LogW |-> 2^(LogW - s)]
           Eq(f) == f = [T \in SUBSET (DOMAIN seq) |->
                           IF T = {} THEN A
                           ELSE Stage(f[T \ {Max(T)}], seq[Max(T)])]
           F == CHOOSE f : Eq(f)
<1>1. Transpose(A) = F[DOMAIN seq]
  BY DEF Transpose, FoldLeft, MapThenFoldSet
<1>2. LogW \in Nat
  BY WordAssumption
<1>3. \E f : Eq(f)
  <2> DEFINE S == 1..LogW
             c == [T \in SUBSET S |-> Max(T)]
             op == [w \in S \X Matrices |-> Stage(w[2], seq[w[1]])]
  <2>1. \A T \in SUBSET S : T # {} => c[T] \in T
    <3>1. S \subseteq 0..LogW
      BY <1>2
    <3>2. QED
      BY <1>2, <3>1, MaxIsGreatest
  <2>2. \A T \in SUBSET S : c[T] = Max(T)
    OBVIOUS
  <2>3. ASSUME NEW s \in S, NEW M \in Matrices
        PROVE  op[<<s, M>>] = Stage(M, seq[s]) /\ op[<<s, M>>] \in Matrices
    <3>1. LogW - s \in 0..(LogW - 1) /\ seq[s] = 2^(LogW - s)
      BY <1>2
    <3>2. Stage(M, seq[s]) \in Matrices
      BY <3>1, StageSwaps
    <3>3. QED
      BY <3>2
  <2>4. IsFiniteSet(S)
    BY <1>2, FS_Interval
  <2> HIDE DEF c, op
  <2>5. Foldable(S, Matrices, A, c, op)
    BY <2>1, <2>3, <2>4 DEF Foldable
  <2>6. PICK f \in [SUBSET S -> Matrices] : FoldsTo(f, S, A, c, op)
    BY <2>5, FoldDefined
  <2>7. ASSUME NEW T \in SUBSET S
        PROVE  f[T] = IF T = {} THEN A ELSE Stage(f[T \ {Max(T)}], seq[Max(T)])
    <3>1. f[T] = IF T = {} THEN A ELSE op[<<c[T], f[T \ {c[T]}]>>]
      BY <2>6 DEF FoldsTo
    <3>2. T # {} => c[T] \in S /\ f[T \ {c[T]}] \in Matrices
      BY <2>1
    <3> HIDE DEF seq
    <3>3. QED
      BY <2>2, <2>3, <3>1, <3>2
  <2>8. DOMAIN seq = S
    OBVIOUS
  <2> HIDE DEF seq, S
  <2>9. f = [T \in SUBSET S |->
               IF T = {} THEN A ELSE Stage(f[T \ {Max(T)}], seq[Max(T)])]
    BY <2>7
  <2>10. Eq(f)
    BY <2>8, <2>9
  <2>11. QED
    BY <2>10
<1>4. Eq(F)
  BY <1>3
<1> HIDE DEF F
<1>5. \A T \in SUBSET (1..LogW) :
        F[T] = IF T = {} THEN A ELSE Stage(F[T \ {Max(T)}], seq[Max(T)])
  BY <1>4
<1>6. ASSUME NEW s \in 1..LogW
      PROVE  F[1..s] = Stage(F[1..(s - 1)], 2^(LogW - s))
  <2>1. 1..s \in SUBSET (1..LogW) /\ 1..s # {} /\ s \in Nat \ {0}
    BY <1>2
  <2>2. Max(1..s) = s /\ (1..s) \ {s} = 1..(s - 1)
    BY <2>1, MaxOfUpto
  <2>3. QED
    BY <1>5, <2>1, <2>2
<1>7. QED
  BY <1>1, <1>5, <1>6

\* SimdTransposer: for every word size the butterfly of masked exchanges
\* transposes a square bit matrix, row r of the result is column r.
THEOREM TransposeTransposes ==
  ASSUME NEW A \in Matrices
  PROVE  /\ Transpose(A) \in Matrices
         /\ \A i, b \in Pos : b \in Transpose(A)[i] <=> i \in A[b]
<1>1. PICK F : /\ F[{}] = A /\ Transpose(A) = F[1..LogW]
               /\ \A s \in 1..LogW :
                    F[1..s] = Stage(F[1..(s - 1)], 2^(LogW - s))
  BY TransposeUnfolds
<1>2. LogW \in Nat
  BY WordAssumption
<1> DEFINE Ok(s) == F[1..s] \in Matrices /\ Exchanged(F[1..s], A, LogW - s)
           B == {s \in 0..LogW : ~ Ok(s)}
<1>3. B = {}
  <2> SUFFICES ASSUME B # {} PROVE FALSE
    OBVIOUS
  <2>1. B \in SUBSET Nat /\ \A s \in 0..LogW : s \notin B => Ok(s)
    OBVIOUS
  <2>2. PICK s \in B : \A y \in B : s <= y
    BY <2>1, LeastElement
  <2>3. s \in 0..LogW /\ ~ Ok(s)
    OBVIOUS
  <2> HIDE DEF B
  <2>4. s # 0
    <3>1. 1..0 = {} /\ LogW - 0 = LogW
      BY <1>2
    <3>2. Ok(0)
      BY <1>1, <3>1, ExchangeEnds
    <3>3. QED
      BY <2>3, <3>2
  <2>5. /\ s \in 1..LogW /\ s - 1 \in 0..LogW /\ LogW - s \in 0..(LogW - 1)
        /\ LogW - (s - 1) = (LogW - s) + 1
    BY <1>2, <2>3, <2>4
  <2>6. Ok(s - 1)
    BY <2>1, <2>2, <2>5
  <2>7. F[1..s] = Stage(F[1..(s - 1)], 2^(LogW - s))
    BY <1>1, <2>5
  <2>8. F[1..s] \in Matrices
    BY <2>5, <2>6, <2>7, StageSwaps
  <2>9. Exchanged(F[1..s], A, LogW - s)
    BY <2>5, <2>6, <2>7, ExchangeSteps
  <2>10. QED
    BY <2>3, <2>8, <2>9
<1>4. LogW \in 0..LogW /\ LogW - LogW = 0
  BY <1>2
<1>5. Ok(LogW)
  BY <1>3, <1>4
<1>6. QED
  BY <1>1, <1>4, <1>5, ExchangeEnds

(* Numbers and words.                                                        *)

Words == 0..(2^W - 1)

LEMMA WordSizes ==
  /\ W \in Nat \ {0} /\ Pos = 0..(W - 1) /\ IsFiniteSet(Pos)
  /\ \A b \in Pos : 2^b \in Nat \ {0} /\ 2^(b + 1) = 2 * 2^b /\ 2^(b + 1) \in Nat \ {0}
  /\ 2^W \in Nat \ {0} /\ 2^W = 2 * 2^(W - 1) /\ 2^(W - 1) \in Nat \ {0}
<1>1. W \in Nat \ {0} /\ Pos = 0..(W - 1)
  BY Powers DEF Pos
<1>2. IsFiniteSet(Pos)
  BY <1>1, FS_Interval
<1>3. \A b \in Pos : b \in 0..W /\ b + 1 \in 0..W
  BY <1>1
<1>4. \A b \in Pos : 2^b \in Nat \ {0} /\ 2^(b + 1) = 2 * 2^b /\ 2^(b + 1) \in Nat \ {0}
  BY <1>3, Powers, PowerAssumption
<1>5. W - 1 \in Pos /\ (W - 1) + 1 = W
  BY <1>1
<1>6. QED
  BY <1>1, <1>2, <1>4, <1>5

\* The powers of two at the one bits of a word are added up like any values.
LEMMA UnsignedSums ==
  ASSUME NEW T \in SUBSET Pos
  PROVE  Unsigned(T) = SumOver([b \in T |-> 2^b])
<1> DEFINE u == [b \in T |-> 2^b]
           Eq(f) == f = [s \in SUBSET T |-> IF s = {} THEN 0
                            ELSE 2^(CHOOSE x \in s : TRUE)
                                   + f[s \ {CHOOSE x \in s : TRUE}]]
           F == CHOOSE f : Eq(f)
<1>1. IsFiniteSet(T) /\ u \in [T -> Int]
  <2>1. IsFiniteSet(T)
    BY WordSizes, FS_Subset
  <2>2. \A b \in T : 2^b \in Int
    BY WordSizes
  <2>3. QED
    BY <2>1, <2>2
<1>2. PICK f \in [SUBSET T -> Int] :
         /\ \A U \in SUBSET T :
              f[U] = IF U = {} THEN 0 ELSE u[AnyOf(U)] + f[U \ {AnyOf(U)}]
         /\ SumOver(u) = f[T]
  <2> HIDE DEF u
  <2>1. QED
    BY <1>1, SumUnfolds
<1>3. \A U \in SUBSET T : U # {} => AnyOf(U) \in U /\ u[AnyOf(U)] = 2^AnyOf(U)
  BY DEF AnyOf
<1>4. Eq(f)
  BY <1>2, <1>3 DEF AnyOf
<1>5. Eq(F)
  BY <1>4
<1>6. Unsigned(T) = F[T]
  BY DEF Unsigned, MapThenSumSet, MapThenFoldSet
<1>7. \A U \in SUBSET T :
         F[U] = IF U = {} THEN 0 ELSE 2^AnyOf(U) + F[U \ {AnyOf(U)}]
  BY <1>5 DEF AnyOf
<1> HIDE DEF F, u
<1>8. \A U \in SUBSET T : F[U] = f[U]
  <2> DEFINE B == {U \in SUBSET T : F[U] # f[U]}
  <2> SUFFICES ASSUME B # {} PROVE FALSE
    OBVIOUS
  <2>a. /\ B \in SUBSET (SUBSET T)
        /\ \A U \in SUBSET T : U \in B <=> F[U] # f[U]
    OBVIOUS
  <2> HIDE DEF B
  <2>1. PICK U \in B : \A X \in B : Cardinality(U) <= Cardinality(X)
    BY <1>1, <2>a, SmallestSet
  <2>2. U \in SUBSET T /\ F[U] # f[U]
    BY <2>1, <2>a
  <2>3. U # {}
    BY <1>2, <1>7, <2>2
  <2> DEFINE a == AnyOf(U)
  <2>4. a \in U
    BY <1>3, <2>2, <2>3
  <2>5. /\ Cardinality(U) \in Nat
        /\ Cardinality(U \ {a}) = Cardinality(U) - 1
    BY <1>1, <2>2, <2>4, FS_Subset, FS_RemoveElement, FS_CardinalityType
  <2>6. U \ {a} \notin B
    BY <2>1, <2>5
  <2>7. F[U \ {a}] = f[U \ {a}]
    BY <2>2, <2>6, <2>a
  <2>8. QED
    BY <1>2, <1>3, <1>7, <2>2, <2>3, <2>7
<1>9. QED
  BY <1>2, <1>6, <1>8 DEF u

LEMMA UnsignedOfBits ==
  ASSUME NEW n \in Words
  PROVE  Unsigned(Bits(n)) = n /\ Bits(n) \in SUBSET Pos
<1> DEFINE v == [b \in Pos |-> 2^b]
           Low(k) == {b \in Bits(n) : b < k}
<1>1. /\ Bits(n) \in SUBSET Pos
      /\ \A b \in Pos : b \in Bits(n) <=> (n \div 2^b) % 2 = 1
  BY DEF Bits
<1>2. n \in Nat /\ n < 2^W
  BY WordSizes DEF Words
<1>3. v \in [Pos -> Int]
  BY WordSizes
<1>4. PICK g : SumTable(g, Pos, v)
  BY <1>3, WordSizes, SumTables
<1>5. Unsigned(Bits(n)) = g[Bits(n)]
  <2>1. [b \in Bits(n) |-> 2^b] = [b \in Bits(n) |-> v[b]]
    BY <1>1
  <2>2. QED
    BY <1>1, <1>4, <2>1, UnsignedSums DEF SumTable
<1> DEFINE Ok(k) == g[Low(k)] = n % 2^k
           B == {k \in 0..W : ~ Ok(k)}
<1>6. B = {}
  <2> SUFFICES ASSUME B # {} PROVE FALSE
    OBVIOUS
  <2>1. B \in SUBSET Nat /\ \A k \in 0..W : k \notin B => Ok(k)
    OBVIOUS
  <2>2. PICK k \in B : \A y \in B : k <= y
    BY <2>1, LeastElement
  <2>3. k \in 0..W /\ ~ Ok(k)
    OBVIOUS
  <2> HIDE DEF B
  <2>4. ASSUME k = 0 PROVE FALSE
    <3>1. Low(0) = {}
      BY <1>1, WordSizes
    <3>2. g[Low(0)] = 0
      BY <1>4, <3>1 DEF SumTable
    <3>3. n % 1 = 0
      BY <1>2
    <3>4. Ok(0)
      BY <3>2, <3>3, PowerAssumption
    <3>5. QED
      BY <2>3, <2>4, <3>4
  <2> DEFINE b == k - 1
             p == 2^b
  <2>5. b \in Pos /\ k = b + 1 /\ b \in 0..W
    BY <2>3, <2>4, WordSizes
  <2>6. g[Low(b)] = n % p
    BY <2>1, <2>2, <2>5
  <2>7. p \in Nat \ {0} /\ 2^k = 2 * p /\ v[b] = p
    BY <2>5, WordSizes
  <2> HIDE DEF p, b
  <2>8. n % (2 * p) = (n % p) + p * ((n \div p) % 2)
    <3>1. n \in Int /\ p \in Nat \ {0}
      BY <1>2, <2>7
    <3>2. QED
      BY ONLY <3>1, ModDouble
  <2>9. CASE b \in Bits(n)
    <3>1. b \in Low(k) /\ Low(k) \ {b} = Low(b)
      BY <1>1, <2>5, <2>9, WordSizes
    <3>2. g[Low(k)] = v[b] + g[Low(b)]
      <4>1. \A T \in SUBSET Pos : \A x \in T : g[T] = v[x] + g[T \ {x}]
        BY <1>4, Zenon DEF SumTable
      <4>2. Low(k) \in SUBSET Pos
        BY <1>1
      <4>3. g[Low(k)] = v[b] + g[Low(k) \ {b}]
        BY <3>1, <4>1, <4>2, Zenon
      <4>4. QED
        BY <3>1, <4>3, Zenon
    <3>3. (n \div p) % 2 = 1
      BY <1>1, <2>5, <2>9 DEF p
    <3>4. n % p \in Int
      BY <1>2, <2>7
    <3>5. n % (2 * p) = p + (n % p)
      BY <2>7, <2>8, <3>3, <3>4
    <3>6. QED
      BY <2>3, <2>6, <2>7, <3>2, <3>5
  <2>10. CASE b \notin Bits(n)
    <3>1. Low(k) = Low(b)
      BY <1>1, <2>5, <2>10, WordSizes
    <3>2. (n \div p) % 2 # 1
      BY <1>1, <2>5, <2>10 DEF p
    <3>3. n \div p \in Int /\ n % p \in Int
      BY <1>2, <2>7
    <3>4. (n \div p) % 2 = 0
      BY <3>2, <3>3
    <3>5. n % (2 * p) = n % p
      BY <2>7, <2>8, <3>3, <3>4
    <3>6. QED
      BY <2>3, <2>6, <2>7, <3>1, <3>5
  <2>11. QED
    BY <2>9, <2>10
<1>7. Low(W) = Bits(n) /\ W \in 0..W
  BY <1>1, WordSizes
<1>8. g[Bits(n)] = n % 2^W
  BY <1>6, <1>7
<1>9. n % 2^W = n
  <2>1. n = 2^W * 0 + n /\ n \in 0..(2^W - 1)
    BY <1>2, WordSizes
  <2>2. QED
    BY <1>2, <2>1, WordSizes, DivModUnique
<1>10. QED
  BY <1>1, <1>5, <1>8, <1>9

\* The numbers of a numeric column.
Numbers == (-(2^(W - 1)))..(2^(W - 1) - 1)

LEMMA SignedOfWord ==
  ASSUME NEW n \in Numbers
  PROVE  /\ n % 2^W \in Words
         /\ Signed(n % 2^W) = n
<1> DEFINE p == 2^W
           h == 2^(W - 1)
<1>1. p \in Nat \ {0} /\ h \in Nat \ {0} /\ p = 2 * h
  BY WordSizes
<1>2. n \in Int /\ n >= -h /\ n < h
  BY <1>1 DEF Numbers
<1>3. CASE n >= 0
  <2>1. n = p * 0 + n /\ n \in 0..(p - 1) /\ 0 \in Int
    BY <1>1, <1>2, <1>3
  <2> HIDE DEF p, h
  <2>2. n % p = n
    BY <1>1, <1>2, <2>1, DivModUnique
  <2>3. ~ n >= h
    BY <1>1, <1>2
  <2>4. QED
    BY <2>1, <2>2, <2>3 DEF Signed, Words, p, h
<1>4. CASE n < 0
  <2>1. n = p * (-1) + (n + p) /\ n + p \in 0..(p - 1) /\ -1 \in Int
    BY <1>1, <1>2, <1>4
  <2>2. n + p >= h /\ (n + p) - p = n
    BY <1>1, <1>2
  <2> HIDE DEF p, h
  <2>3. n % p = n + p
    BY <1>1, <1>2, <2>1, DivModUnique
  <2>4. QED
    BY <2>1, <2>2, <2>3 DEF Signed, Words, p, h
<1>5. QED
  BY <1>2, <1>3, <1>4

LEMMA MinOfTwo ==
  ASSUME NEW x \in Int, NEW y \in Int
  PROVE  Min({x, y}) = IF x <= y THEN x ELSE y
<1> DEFINE m == IF x <= y THEN x ELSE y
<1>1. m \in {x, y} /\ \A z \in {x, y} : m <= z
  OBVIOUS
<1>2. \A k \in {x, y} : (\A z \in {x, y} : k <= z) => k = m
  OBVIOUS
<1>3. QED
  BY <1>1, <1>2 DEF Min

LEMMA LargerPowers ==
  ASSUME NEW a \in 0..W, NEW b \in 0..W, a <= b
  PROVE  2^a <= 2^b /\ 2^a \in Nat \ {0} /\ 2^b \in Nat \ {0}
<1>0. W \in Nat /\ \A n \in 0..W : 2^n \in Nat \ {0}
  BY Powers
<1> DEFINE B == {n \in 0..W : a <= n /\ ~ (2^a <= 2^n)}
<1>1. B = {}
  <2> SUFFICES ASSUME B # {} PROVE FALSE
    OBVIOUS
  <2>1. B \in SUBSET Nat /\ \A n \in 0..W : n \notin B => (a <= n => 2^a <= 2^n)
    OBVIOUS
  <2>2. PICK n \in B : \A y \in B : n <= y
    BY <2>1, LeastElement
  <2>3. n \in 0..W /\ a <= n /\ ~ (2^a <= 2^n)
    OBVIOUS
  <2> HIDE DEF B
  <2>4. n # a
    <3>1. 2^a <= 2^a
      BY <1>0
    <3>2. QED
      BY <2>3, <3>1
  <2>5. n - 1 \in 0..W /\ a <= n - 1 /\ (n - 1) + 1 = n
    BY <1>0, <2>3, <2>4
  <2>6. 2^a <= 2^(n - 1)
    BY <2>1, <2>2, <2>5
  <2>7. 2^n = 2 * 2^(n - 1) /\ 2^(n - 1) \in Nat
    BY <2>5, PowerAssumption
  <2>8. QED
    BY <1>0, <2>3, <2>6, <2>7
<1>2. QED
  BY <1>0, <1>1

\* The bits of a small number are low.
LEMMA BitsBelow ==
  ASSUME NEW a \in 0..W, NEW n \in 0..(2^a - 1)
  PROVE  \A b \in Bits(n) : b \in Pos /\ b < a
<1> SUFFICES ASSUME NEW b \in Bits(n), ~ b < a PROVE FALSE
  BY DEF Bits
<1>1. b \in Pos /\ (n \div 2^b) % 2 = 1
  BY DEF Bits
<1>2. b \in 0..W /\ a <= b
  BY <1>1, WordSizes
<1>3. 2^a <= 2^b /\ 2^a \in Nat \ {0} /\ 2^b \in Nat \ {0}
  BY <1>2, LargerPowers
<1> DEFINE p == 2^b
<1>4. n = p * 0 + n /\ n \in Int /\ n \in 0..(p - 1) /\ p \in Nat \ {0}
  BY <1>3
<1> HIDE DEF p
<1>5. n \div p = 0
  BY <1>4, DivModUnique
<1>6. QED
  BY <1>1, <1>5 DEF p

LEMMA SkeletonIsWord ==
  ASSUME NEW s \in Seq(Chars)
  PROVE  Skeleton(s) \in SUBSET Pos
<1>1. /\ CharBits \in Nat \ {0} /\ SkelChars \in Nat \ {0}
      /\ SkelChars * CharBits <= W /\ W \in Nat
  BY WordAssumption, WordSizes DEF SkelBits
<1>2. CharBits \in 0..W
  <2>1. SkelChars * CharBits >= CharBits
    BY <1>1
  <2>2. QED
    BY <1>1, <2>1
<1>3. ASSUME NEW i \in 1..Min({Len(s), SkelChars}), NEW b \in Bits(s[i])
      PROVE  CharBits * (i - 1) + b \in Pos
  <2>1. Len(s) \in Int /\ i <= Len(s) /\ i <= SkelChars /\ i \in Nat \ {0}
    BY <1>1, MinOfTwo
  <2>2. s[i] \in 0..(2^CharBits - 1)
    <3>1. i \in 1..Len(s)
      BY <2>1
    <3>2. s[i] \in Chars
      BY <3>1
    <3>3. QED
      BY <3>2 DEF Chars
  <2>3. b \in Pos /\ b < CharBits
    BY <1>2, <2>2, BitsBelow
  <2>4. b \in Nat
    BY <2>3, WordSizes
  <2>5. CharBits * (i - 1) + CharBits <= SkelChars * CharBits
    <3>1. CharBits * (i - 1) + CharBits = CharBits * i
      BY <1>1, <2>1
    <3>2. CharBits * i <= CharBits * SkelChars
      BY <1>1, <2>1
    <3>3. CharBits * SkelChars = SkelChars * CharBits
      BY <1>1
    <3>4. QED
      BY <3>1, <3>2, <3>3
  <2>6. CharBits * (i - 1) \in Nat /\ SkelChars * CharBits \in Nat
    BY <1>1, <2>1
  <2>7. QED
    BY <1>1, <2>3, <2>4, <2>5, <2>6, WordSizes
<1>4. ASSUME NEW i \in 1..Min({Len(s), SkelChars})
      PROVE  {CharBits * (i - 1) + b : b \in Bits(s[i])} \subseteq Pos
  BY <1>3
<1>5. QED
  BY <1>4 DEF Skeleton

LEMMA KimIsWord ==
  ASSUME NEW s \in Seq(Chars)
  PROVE  KimSignature(s) \in SUBSET Pos
<1>1. GramBits \in [Grams -> SUBSET Pos]
  BY WordAssumption
<1>2. CASE Len(s) = 1
  <2>1. s = <<s[1]>> /\ s[1] \in Chars
    <3>1. s = [i \in 1..1 |-> s[i]]
      BY <1>2
    <3>2. QED
      BY <1>2, <3>1
  <2>2. s \in Grams
    BY <2>1 DEF Grams
  <2>3. QED
    BY <1>1, <1>2, <2>2 DEF KimSignature
<1>3. CASE Len(s) # 1
  <2>1. ASSUME NEW i \in 1..(Len(s) - 1)
        PROVE  GramBits[SubSeq(s, i, i + 1)] \in SUBSET Pos
    <3>1. SubSeq(s, i, i + 1) = <<s[i], s[i + 1]>>
      <4> DEFINE t == SubSeq(s, i, i + 1)
      <4>1. i \in Int /\ i + 1 \in Int /\ \A j \in i..(i + 1) : s[j] \in Chars
        BY <2>1
      <4>2. /\ t \in Seq(Chars)
            /\ Len(t) = IF i <= i + 1 THEN (i + 1) - i + 1 ELSE 0
            /\ \A j \in 1..((i + 1) - i + 1) : t[j] = s[i + j - 1]
        BY ONLY <4>1, SubSeqProperties
      <4> HIDE DEF t
      <4>3. Len(t) = 2 /\ t[1] = s[i] /\ t[2] = s[i + 1]
        BY <4>1, <4>2
      <4>4. t = [j \in 1..2 |-> t[j]]
        BY <4>2, <4>3
      <4>5. t = <<s[i], s[i + 1]>>
        BY <4>3, <4>4
      <4>6. QED
        BY <4>5 DEF t
    <3>2. s[i] \in Chars /\ s[i + 1] \in Chars
      BY <2>1
    <3>3. <<s[i], s[i + 1]>> \in Grams
      BY <3>2 DEF Grams
    <3>4. QED
      BY <1>1, <3>1, <3>3
  <2>2. QED
    BY <1>3, <2>1 DEF KimSignature
<1>4. QED
  BY <1>2, <1>3

(* Ingestion of a block.                                                     *)


LEMMA WordsOfRows ==
  ASSUME NEW row \in AllRows
  PROVE  /\ NumWord(row.num) \in SUBSET Pos
         /\ Text(row.str) \in Seq(Chars)
         /\ Skeleton(Text(row.str)) \in SUBSET Pos
         /\ KimSignature(Text(row.str)) \in SUBSET Pos
<1>1. NumWord(row.num) \in SUBSET Pos
  BY DEF NumWord, Bits
<1>2. Text(row.str) \in Seq(Chars)
  BY RowAssumption DEF Text
<1>3. QED
  BY <1>1, <1>2, SkeletonIsWord, KimIsWord

\* Rows that are not there read as empty words.
LEMMA EmptyWords ==
  /\ <<>> \in Seq(Chars)
  /\ Skeleton(<<>>) = {} /\ KimSignature(<<>>) = {}
<1>1. SkelChars \in Nat \ {0}
  BY WordAssumption
<1>2. Min({0, SkelChars}) = 0
  BY <1>1, MinOfTwo
<1>3. Len(<<>>) = 0
  OBVIOUS
<1>4. 1..0 = {} /\ 1..(0 - 1) = {}
  OBVIOUS
<1>5. Skeleton(<<>>) = {}
  BY <1>2, <1>3, <1>4 DEF Skeleton
<1>6. KimSignature(<<>>) = {}
  BY <1>3, <1>4 DEF KimSignature
<1>7. QED
  BY <1>5, <1>6

\* The tile of a column holds its words, transposed, and nothing behind the rows.
LEMMA TileHolds ==
  ASSUME NEW n \in 0..W, NEW w \in Matrices, NEW valid \in SUBSET (0..(n - 1)),
         \A r \in Pos : r >= n => w[r] = {}
  PROVE  LET tile == Tile(w, valid)
         IN  /\ tile \in Tiles /\ tile.validity = valid
             /\ \A r, b \in Pos : r \in tile.planes[b] <=> b \in w[r]
             /\ \A b \in Pos : tile.planes[b] \subseteq 0..(n - 1)
             /\ \A r \in Pos : Transpose(tile.planes)[r] = w[r]
<1> DEFINE tile == Tile(w, valid)
           P == Transpose(w)
<1>1. tile = [planes |-> P, validity |-> valid]
  BY DEF Tile
<1>2. P \in Matrices /\ \A r, b \in Pos : r \in P[b] <=> b \in w[r]
  BY TransposeTransposes
<1>3. valid \subseteq Pos
  BY WordSizes
<1>4. \A b \in Pos : P[b] \subseteq 0..(n - 1)
  BY <1>2, WordSizes DEF Matrices
<1>5. ASSUME NEW r \in Pos PROVE Transpose(P)[r] = w[r]
  <2>1. /\ Transpose(P) \in Matrices
        /\ \A b \in Pos : b \in Transpose(P)[r] <=> r \in P[b]
    BY <1>2, TransposeTransposes
  <2>2. \A b \in Pos : b \in Transpose(P)[r] <=> b \in w[r]
    BY <1>2, <2>1
  <2>3. Transpose(P)[r] \subseteq Pos /\ w[r] \subseteq Pos
    BY <2>1 DEF Matrices
  <2>4. QED
    BY <2>2, <2>3
<1> HIDE DEF P
<1>6. tile \in Tiles
  BY <1>1, <1>2, <1>3 DEF Tiles, Matrices
<1>7. QED
  BY <1>1, <1>2, <1>4, <1>5, <1>6

\* What a block holds of the rows it was ingested from, whatever has been
\* deleted of it since.
Holds(block, rows) ==
  LET Filled == 0..(Len(rows) - 1)
  IN  /\ block \in Blocks
      /\ \A r \in Filled : \A b \in Pos :
           /\ r \in block.num.planes[b] <=> b \in NumWord(rows[r + 1].num)
           /\ r \in block.skel.planes[b] <=> b \in Skeleton(Text(rows[r + 1].str))
           /\ r \in block.kim.planes[b] <=> b \in KimSignature(Text(rows[r + 1].str))
      /\ \A b \in Pos : /\ block.num.planes[b] \subseteq Filled
                        /\ block.skel.planes[b] \subseteq Filled
                        /\ block.kim.planes[b] \subseteq Filled
      /\ block.num.validity = {r \in Filled : rows[r + 1].num # Null}
      /\ block.skel.validity = {r \in Filled : rows[r + 1].str # Null}
      /\ block.kim.validity = block.skel.validity
      /\ block.tail = [i \in 1..Len(rows) |-> Text(rows[i].str)]
      /\ \A r \in Filled :
           Transpose(block.num.planes)[r] = NumWord(rows[r + 1].num)

LEMMA IngestHolds ==
  ASSUME NEW rows \in Seq(AllRows), Len(rows) <= W
  PROVE  Holds(IngestBlock(rows), rows) /\ IngestBlock(rows).delete_mask = Pos
<1> DEFINE n == Len(rows)
           Filled == 0..(n - 1)
           Num(i) == IF i \in Filled THEN NumWord(rows[i + 1].num) ELSE {}
           Str(i) == IF i \in Filled THEN Text(rows[i + 1].str) ELSE <<>>
           ValidNum == {i \in Filled : rows[i + 1].num # Null}
           ValidStr == {i \in Filled : rows[i + 1].str # Null}
           wn == [i \in Pos |-> Num(i)]
           ws == [i \in Pos |-> Skeleton(Str(i))]
           wk == [i \in Pos |-> KimSignature(Str(i))]
           tail == [i \in 1..n |-> Str(i - 1)]
           B == IngestBlock(rows)
<1>1. B = [num  |-> Tile(wn, ValidNum), skel |-> Tile(ws, ValidStr),
           kim  |-> Tile(wk, ValidStr), tail |-> tail, delete_mask |-> Pos]
  BY DEF IngestBlock
<1>2. n \in 0..W
  BY WordSizes
<1>3. \A i \in Filled : /\ i + 1 \in 1..n /\ i + 1 \in 1..Len(rows)
                        /\ rows[i + 1] \in AllRows /\ i \in Pos
  BY <1>2, WordSizes
<1>4. \A i \in Pos : /\ Num(i) \in SUBSET Pos /\ Str(i) \in Seq(Chars)
                     /\ i >= n => i \notin Filled /\ Num(i) = {} /\ Str(i) = <<>>
  <2>1. ASSUME NEW i \in Pos, i \in Filled
        PROVE  Num(i) \in SUBSET Pos /\ Str(i) \in Seq(Chars) /\ ~ i >= n
    <3>1. rows[i + 1] \in AllRows
      BY <1>3, <2>1
    <3>2. QED
      BY <1>2, <2>1, <3>1, WordsOfRows
  <2>2. QED
    BY <2>1, EmptyWords
<1>5. wn \in Matrices /\ \A r \in Pos : r >= n => wn[r] = {}
  BY <1>4 DEF Matrices
<1>6. ws \in Matrices /\ \A r \in Pos : r >= n => ws[r] = {}
  <2>1. \A i \in Pos : Skeleton(Str(i)) \in SUBSET Pos
    BY <1>4, SkeletonIsWord
  <2>2. \A i \in Pos : i >= n => Skeleton(Str(i)) = {}
    BY <1>4, EmptyWords
  <2> HIDE DEF Str
  <2>3. QED
    BY <2>1, <2>2 DEF Matrices
<1>7. wk \in Matrices /\ \A r \in Pos : r >= n => wk[r] = {}
  <2>1. \A i \in Pos : KimSignature(Str(i)) \in SUBSET Pos
    BY <1>4, KimIsWord
  <2>2. \A i \in Pos : i >= n => KimSignature(Str(i)) = {}
    BY <1>4, EmptyWords
  <2> HIDE DEF Str
  <2>3. QED
    BY <2>1, <2>2 DEF Matrices
<1>8. ValidNum \in SUBSET (0..(n - 1)) /\ ValidStr \in SUBSET (0..(n - 1))
  OBVIOUS
<1>9. tail = [i \in 1..Len(rows) |-> Text(rows[i].str)]
  <2>1. \A i \in 1..n : i - 1 \in Filled /\ (i - 1) + 1 = i
    BY <1>2
  <2>2. QED
    BY <2>1
<1>10. tail \in Seq(Seq(Chars))
  <2>1. \A i \in 1..n : Text(rows[i].str) \in Seq(Chars)
    BY <1>2, WordsOfRows
  <2>2. tail \in [1..n -> Seq(Chars)]
    BY <1>9, <2>1
  <2>3. QED
    BY <1>2, <2>2
<1>11. \A i \in Filled : /\ wn[i] = NumWord(rows[i + 1].num)
                         /\ ws[i] = Skeleton(Text(rows[i + 1].str))
                         /\ wk[i] = KimSignature(Text(rows[i + 1].str))
  BY <1>3
<1> HIDE DEF wn, ws, wk, tail, ValidNum, ValidStr, n
<1>12. /\ B.num \in Tiles /\ B.num.validity = ValidNum
       /\ \A r, b \in Pos : r \in B.num.planes[b] <=> b \in wn[r]
       /\ \A b \in Pos : B.num.planes[b] \subseteq Filled
       /\ \A r \in Pos : Transpose(B.num.planes)[r] = wn[r]
  BY <1>1, <1>2, <1>5, <1>8, TileHolds
<1>13. /\ B.skel \in Tiles /\ B.skel.validity = ValidStr
       /\ \A r, b \in Pos : r \in B.skel.planes[b] <=> b \in ws[r]
       /\ \A b \in Pos : B.skel.planes[b] \subseteq Filled
  BY <1>1, <1>2, <1>6, <1>8, TileHolds
<1>14. /\ B.kim \in Tiles /\ B.kim.validity = ValidStr
       /\ \A r, b \in Pos : r \in B.kim.planes[b] <=> b \in wk[r]
       /\ \A b \in Pos : B.kim.planes[b] \subseteq Filled
  BY <1>1, <1>2, <1>7, <1>8, TileHolds
<1>15. /\ B.tail = tail /\ B.delete_mask = Pos
       /\ B = [num |-> B.num, skel |-> B.skel, kim |-> B.kim, tail |-> B.tail,
               delete_mask |-> B.delete_mask]
  BY <1>1
<1> HIDE DEF B
<1>16. B \in Blocks
  BY <1>10, <1>12, <1>13, <1>14, <1>15 DEF Blocks
<1>17. \A r \in 0..(Len(rows) - 1) : r \in Filled /\ r \in Pos
  BY <1>3 DEF n
<1>18. Holds(B, rows)
  <2>1. Filled = 0..(Len(rows) - 1)
    BY DEF n
  <2>2. \A r \in Filled : \A b \in Pos :
           /\ r \in B.num.planes[b] <=> b \in NumWord(rows[r + 1].num)
           /\ r \in B.skel.planes[b] <=> b \in Skeleton(Text(rows[r + 1].str))
           /\ r \in B.kim.planes[b] <=> b \in KimSignature(Text(rows[r + 1].str))
    BY <1>3, <1>11, <1>12, <1>13, <1>14
  <2>3. /\ B.num.validity = {r \in Filled : rows[r + 1].num # Null}
        /\ B.skel.validity = {r \in Filled : rows[r + 1].str # Null}
        /\ B.kim.validity = B.skel.validity
    BY <1>12, <1>13, <1>14 DEF ValidNum, ValidStr
  <2>4. \A r \in Filled : Transpose(B.num.planes)[r] = NumWord(rows[r + 1].num)
    BY <1>3, <1>11, <1>12
  <2>5. B.tail = [i \in 1..Len(rows) |-> Text(rows[i].str)]
    BY <1>9, <1>15
  <2>6. \A b \in Pos : /\ B.num.planes[b] \subseteq Filled
                       /\ B.skel.planes[b] \subseteq Filled
                       /\ B.kim.planes[b] \subseteq Filled
    BY <1>12, <1>13, <1>14
  <2> HIDE DEF Filled
  <2>7. QED
    BY <1>16, <2>1, <2>2, <2>3, <2>4, <2>5, <2>6 DEF Holds
<1>19. QED
  BY <1>15, <1>18 DEF B

(* Blocks of a row group.                                                    *)

NumBlocks(n) == (n + W - 1) \div W

\* The rows that block b is ingested from.
Part(rows, b) == SubSeq(rows, W * (b - 1) + 1, Min({W * b, Len(rows)}))

\* Row n is in a block, at a position, and it is the only one there.
LEMMA BlockOfRow ==
  ASSUME NEW N \in Nat, NEW n \in 1..N
  PROVE  /\ (n - 1) \div W + 1 \in 1..NumBlocks(N)
         /\ (n - 1) % W \in Pos
         /\ n = W * ((n - 1) \div W) + ((n - 1) % W) + 1
<1>1. W \in Nat \ {0} /\ Pos = 0..(W - 1)
  BY WordSizes
<1> DEFINE q == (n - 1) \div W
           r == (n - 1) % W
           k == NumBlocks(N)
           s == (N + W - 1) % W
<1>2. n - 1 \in Int /\ N + W - 1 \in Int /\ n \in Int
  BY <1>1
<1>3. q \in Int /\ r \in 0..(W - 1) /\ n - 1 = W * q + r
  BY <1>1, <1>2, DivMod
<1>4. k \in Int /\ s \in 0..(W - 1) /\ N + W - 1 = W * k + s
  BY <1>1, <1>2, DivMod DEF NumBlocks
<1> HIDE DEF q, r, k, s
<1>5. q >= 0
  <2>1. q <= -1 => W * q <= -W
    BY <1>1, <1>3
  <2>2. QED
    BY <1>1, <1>3, <2>1
<1>6. q + 1 <= k
  <2>1. q >= k => W * q >= W * k
    BY <1>1, <1>3, <1>4
  <2>2. W * q \in Int /\ W * k \in Int
    BY <1>1, <1>3, <1>4
  <2>3. QED
    BY <1>1, <1>3, <1>4, <2>1, <2>2
<1>7. n = W * q + r + 1
  <2>1. W * q \in Int
    BY <1>1, <1>3
  <2>2. QED
    BY <1>1, <1>2, <1>3, <2>1
<1>8. QED
  BY <1>1, <1>3, <1>4, <1>5, <1>6, <1>7 DEF q, r, k

LEMMA RowOfBlock ==
  ASSUME NEW N \in Nat, NEW b \in 1..NumBlocks(N),
         NEW r \in 0..(Min({W, N - W * (b - 1)}) - 1)
  PROVE  /\ r \in Pos
         /\ W * (b - 1) + r + 1 \in 1..N
         /\ (W * (b - 1) + r) \div W + 1 = b /\ (W * (b - 1) + r) % W = r
<1>1. W \in Nat \ {0} /\ Pos = 0..(W - 1)
  BY WordSizes
<1>2. NumBlocks(N) \in Int
  BY <1>1 DEF NumBlocks
<1>3. b \in Int /\ b >= 1 /\ W * (b - 1) \in Nat
  BY <1>1, <1>2
<1>4. /\ r \in Nat /\ r < W /\ r < N - W * (b - 1)
  BY <1>1, <1>3, MinOfTwo
<1> DEFINE m == W * (b - 1) + r
<1>5. /\ m \in Int /\ W \in Nat \ {0} /\ b - 1 \in Int
      /\ r \in 0..(W - 1) /\ m = W * (b - 1) + r
  BY <1>1, <1>3, <1>4
<1>6. m \div W = b - 1 /\ m % W = r
  BY ONLY <1>5, DivModUnique
<1>7. QED
  BY <1>1, <1>3, <1>4, <1>6

\* Every block has rows.
LEMMA BlocksFilled ==
  ASSUME NEW N \in Nat, NEW b \in 1..NumBlocks(N)
  PROVE  W * (b - 1) \in Nat /\ W * (b - 1) < N
<1>1. W \in Nat \ {0}
  BY WordSizes
<1> DEFINE k == NumBlocks(N)
           s == (N + W - 1) % W
<1>2. k \in Int /\ s \in 0..(W - 1) /\ N + W - 1 = W * k + s
  <2>1. N + W - 1 \in Int
    BY <1>1
  <2>2. QED
    BY <1>1, <2>1, DivMod DEF NumBlocks
<1> HIDE DEF k, s
<1>3. b \in Nat /\ b >= 1 /\ b <= k
  BY <1>2 DEF k
<1>4. W * (b - 1) + W <= W * k
  <2>1. W * (b - 1) + W = W * b
    BY <1>1, <1>3
  <2>2. W * b <= W * k
    BY <1>1, <1>2, <1>3
  <2>3. QED
    BY <2>1, <2>2
<1>5. W * (b - 1) \in Nat /\ W * k \in Int
  BY <1>1, <1>2, <1>3
<1>6. QED
  BY <1>1, <1>2, <1>4, <1>5

LEMMA PartOfRows ==
  ASSUME NEW rows \in Seq(AllRows), NEW b \in 1..NumBlocks(Len(rows))
  PROVE  /\ Part(rows, b) \in Seq(AllRows)
         /\ Len(Part(rows, b)) = Min({W, Len(rows) - W * (b - 1)})
         /\ Len(Part(rows, b)) \in 1..W
         /\ \A r \in 0..(Len(Part(rows, b)) - 1) :
              Part(rows, b)[r + 1] = rows[W * (b - 1) + r + 1]
<1> DEFINE N == Len(rows)
           c == W * (b - 1)
           e == Min({W * b, N})
           p == Part(rows, b)
<1>1. W \in Nat \ {0} /\ N \in Nat
  BY WordSizes
<1>2. c \in Nat /\ c < N
  BY <1>1, BlocksFilled
<1>3. b \in Int
  BY <1>1 DEF NumBlocks
<1>4. W * b = c + W
  BY <1>1, <1>3
<1>5. e = IF c + W <= N THEN c + W ELSE N
  BY <1>1, <1>2, <1>4, MinOfTwo
<1>6. Min({W, N - c}) = IF W <= N - c THEN W ELSE N - c
  BY <1>1, <1>2, MinOfTwo
<1>7. p = SubSeq(rows, c + 1, e)
  BY DEF Part
<1> HIDE DEF N, c, e, p
<1>8. /\ c + 1 \in Int /\ e \in Int /\ c + 1 <= e /\ e <= N
      /\ e - c = Min({W, N - c}) /\ e - c \in 1..W
  BY <1>1, <1>2, <1>5, <1>6
<1>9. \A i \in (c + 1)..e : rows[i] \in AllRows
  BY <1>1, <1>2, <1>8 DEF N
<1>10. /\ p \in Seq(AllRows)
       /\ Len(p) = IF c + 1 <= e THEN e - (c + 1) + 1 ELSE 0
       /\ \A i \in 1..(e - (c + 1) + 1) : p[i] = rows[(c + 1) + i - 1]
  BY <1>7, <1>8, <1>9, SubSeqProperties
<1>11. Len(p) = e - c
  BY <1>2, <1>8, <1>10
<1>12. \A r \in 0..(Len(p) - 1) : p[r + 1] = rows[c + r + 1]
  <2>1. ASSUME NEW r \in 0..(Len(p) - 1) PROVE p[r + 1] = rows[c + r + 1]
    <3>1. r + 1 \in 1..(e - (c + 1) + 1) /\ (c + 1) + (r + 1) - 1 = c + r + 1
      BY <1>2, <1>8, <1>11
    <3>2. QED
      BY <1>10, <3>1
  <2>2. QED
    BY <2>1
<1>13. QED
  BY <1>8, <1>10, <1>11, <1>12 DEF N, c, p

\* g is laid out from rows, up to what has been deleted since.
LaidOut(g, rows) ==
  /\ rows \in Seq(AllRows) \ {<<>>}
  /\ g \in RowGroups
  /\ g.num_rows = Len(rows)
  /\ Len(g.blocks) = NumBlocks(Len(rows))
  /\ \A b \in 1..NumBlocks(Len(rows)) : Holds(g.blocks[b], Part(rows, b))

LEMMA IngestLaysOut ==
  ASSUME NEW rows \in Seq(AllRows), rows # <<>>
  PROVE  /\ LaidOut(Ingest(rows), rows)
         /\ \A b \in 1..NumBlocks(Len(rows)) : Ingest(rows).blocks[b].delete_mask = Pos
<1> DEFINE g == Ingest(rows)
           k == NumBlocks(Len(rows))
<1>1. g = [num_rows |-> Len(rows), blocks |-> [b \in 1..k |-> IngestBlock(Part(rows, b))]]
  BY DEF Ingest, Part, NumBlocks
<1>2. Len(rows) \in Nat \ {0} /\ W \in Nat \ {0}
  BY WordSizes
<1>3. k \in Nat
  <2>1. 1 \in 1..Len(rows)
    BY <1>2
  <2>2. (1 - 1) \div W + 1 \in 1..k
    BY <1>2, <2>1, BlockOfRow
  <2>3. k \in Int
    BY <1>2 DEF NumBlocks
  <2>4. 1..k # {}
    BY <2>2
  <2>5. QED
    BY <2>3, <2>4
<1> HIDE DEF k
<1>4. ASSUME NEW b \in 1..k
      PROVE  /\ Holds(IngestBlock(Part(rows, b)), Part(rows, b))
             /\ IngestBlock(Part(rows, b)).delete_mask = Pos
  <2>1. b \in 1..NumBlocks(Len(rows))
    BY DEF k
  <2>2. Part(rows, b) \in Seq(AllRows) /\ Len(Part(rows, b)) \in 1..W
    BY <2>1, PartOfRows
  <2>3. Len(Part(rows, b)) <= W
    BY <1>2, <2>2
  <2>4. QED
    BY <2>2, <2>3, IngestHolds
<1>5. \A b \in 1..k : IngestBlock(Part(rows, b)) \in Blocks
  BY <1>4 DEF Holds
<1>6. g.blocks \in Seq(Blocks) /\ Len(g.blocks) = k
  BY <1>1, <1>3, <1>5
<1>7. g \in RowGroups
  BY <1>1, <1>2, <1>6 DEF RowGroups
<1>8. g.num_rows = Len(rows) /\ \A b \in 1..k : g.blocks[b] = IngestBlock(Part(rows, b))
  BY <1>1
<1> HIDE DEF g
<1>9. /\ \A b \in 1..k : Holds(g.blocks[b], Part(rows, b))
      /\ \A b \in 1..k : g.blocks[b].delete_mask = Pos
  BY <1>4, <1>8
<1>10. LaidOut(g, rows)
  BY <1>6, <1>7, <1>8, <1>9 DEF LaidOut, k
<1>11. QED
  BY <1>9, <1>10 DEF g, k

\* A row comes back from its block as it went in.
LEMMA ReadsBackRow ==
  ASSUME NEW rows \in Seq(AllRows), NEW block, Holds(block, rows),
         NEW r \in 0..(Len(rows) - 1)
  PROVE  ReadBack(block, r) = rows[r + 1]
<1>1. rows[r + 1] \in AllRows
  OBVIOUS
<1> DEFINE row == rows[r + 1]
           num == row.num
<1>2. /\ row = [num |-> row.num, str |-> row.str]
      /\ row.num # Null => row.num \in Numbers
  BY <1>1, RowAssumption DEF Numbers
<1>3. ASSUME num # Null
      PROVE  Signed(Unsigned(Transpose(block.num.planes)[r])) = num
  <2>1. Transpose(block.num.planes)[r] = Bits(num % 2^W)
    BY <1>3 DEF Holds, NumWord
  <2>2. num % 2^W \in Words /\ Signed(num % 2^W) = num
    BY <1>2, <1>3, SignedOfWord
  <2>3. Unsigned(Bits(num % 2^W)) = num % 2^W
    BY <2>2, UnsignedOfBits
  <2>4. QED
    BY <2>1, <2>2, <2>3
<1>4. r \in block.num.validity <=> row.num # Null
  BY DEF Holds
<1>5. r \in block.skel.validity <=> row.str # Null
  BY DEF Holds
<1>6. row.str # Null => block.tail[r + 1] = row.str
  <2>1. r + 1 \in 1..Len(rows)
    OBVIOUS
  <2>2. block.tail[r + 1] = Text(row.str)
    BY <2>1 DEF Holds
  <2>3. QED
    BY <2>2 DEF Text
<1>7. ReadBack(block, r) = [num |-> IF r \in block.num.validity
                 THEN Signed(Unsigned(Transpose(block.num.planes)[r])) ELSE Null,
                            str |-> IF r \in block.skel.validity
                 THEN block.tail[r + 1] ELSE Null]
  BY DEF ReadBack
<1>8. QED
  BY <1>2, <1>3, <1>4, <1>5, <1>6, <1>7

\* Where row n of a group is.
LEMMA RowInBlock ==
  ASSUME NEW g, NEW rows, LaidOut(g, rows), NEW n \in 1..Len(rows)
  PROVE  LET b == (n - 1) \div W + 1
             r == (n - 1) % W
         IN  /\ b \in 1..NumBlocks(Len(rows)) /\ b \in DOMAIN g.blocks
             /\ r \in Pos /\ r \in 0..(Len(Part(rows, b)) - 1)
             /\ Part(rows, b)[r + 1] = rows[n]
             /\ Part(rows, b) \in Seq(AllRows)
             /\ Holds(g.blocks[b], Part(rows, b))
<1>1. rows \in Seq(AllRows) /\ Len(rows) \in Nat
  BY DEF LaidOut
<1>2. W \in Nat \ {0} /\ Pos = 0..(W - 1)
  BY WordSizes
<1> DEFINE b == (n - 1) \div W + 1
           r == (n - 1) % W
           k == NumBlocks(Len(rows))
<1>3. /\ b \in 1..k /\ r \in Pos
      /\ n = W * ((n - 1) \div W) + r + 1
  BY <1>1, BlockOfRow
<1>4. (n - 1) \div W \in Int /\ b - 1 = (n - 1) \div W
  <2>1. n - 1 \in Int
    BY <1>1
  <2>2. (n - 1) \div W \in Int
    BY <1>2, <2>1, DivMod
  <2>3. QED
    BY <2>2
<1>5. n = W * (b - 1) + r + 1
  BY <1>3, <1>4
<1> HIDE DEF b, r
<1>6. /\ Part(rows, b) \in Seq(AllRows)
      /\ Len(Part(rows, b)) = Min({W, Len(rows) - W * (b - 1)})
      /\ \A i \in 0..(Len(Part(rows, b)) - 1) :
           Part(rows, b)[i + 1] = rows[W * (b - 1) + i + 1]
  BY <1>1, <1>3, PartOfRows
<1>7. W * (b - 1) \in Nat
  BY <1>1, <1>3, BlocksFilled
<1>8. r \in 0..(Len(Part(rows, b)) - 1)
  BY <1>1, <1>2, <1>3, <1>5, <1>6, <1>7, MinOfTwo
<1>9. Part(rows, b)[r + 1] = rows[n]
  BY <1>5, <1>6, <1>8
<1>10. b \in DOMAIN g.blocks
  BY <1>3 DEF LaidOut, RowGroups
<1>11. Holds(g.blocks[b], Part(rows, b))
  BY <1>3 DEF LaidOut
<1>12. QED
  BY <1>3, <1>6, <1>8, <1>9, <1>10, <1>11 DEF b, r

LEMMA CellsOfLayout ==
  ASSUME NEW g, NEW rows, LaidOut(g, rows)
  PROVE  Cells(g) = [n \in 1..Len(rows) |->
                       [row |-> rows[n],
                        live |-> (n - 1) % W \in
                                   g.blocks[(n - 1) \div W + 1].delete_mask]]
<1>1. g.num_rows = Len(rows)
  BY DEF LaidOut
<1>2. ASSUME NEW n \in 1..Len(rows)
      PROVE  ReadBack(g.blocks[(n - 1) \div W + 1], (n - 1) % W) = rows[n]
  <2> DEFINE b == (n - 1) \div W + 1
             r == (n - 1) % W
  <2>1. /\ r \in 0..(Len(Part(rows, b)) - 1)
        /\ Part(rows, b)[r + 1] = rows[n]
        /\ Part(rows, b) \in Seq(AllRows)
        /\ Holds(g.blocks[b], Part(rows, b))
    BY RowInBlock
  <2> HIDE DEF b, r
  <2>2. ReadBack(g.blocks[b], r) = rows[n]
    BY <2>1, ReadsBackRow
  <2>3. QED
    BY <2>2 DEF b, r
<1>3. Cells(g) = [n \in 1..g.num_rows |->
                    [row |-> ReadBack(g.blocks[(n - 1) \div W + 1], (n - 1) % W),
                     live |-> (n - 1) % W \in
                                   g.blocks[(n - 1) \div W + 1].delete_mask]]
  BY DEF Cells
<1>4. QED
  BY <1>1, <1>2, <1>3

(* What a compaction keeps.                                                  *)

CellsOf(S) == [row : S, live : BOOLEAN]
LiveCellsOf(S) == [row : S, live : {TRUE}]

LEMMA LiveCellsUnfolds ==
  ASSUME NEW S, NEW cells \in Seq(CellsOf(S))
  PROVE  \E F : /\ F[{}] = <<>> /\ LiveCells(cells) = F[1..Len(cells)]
                /\ \A n \in 1..Len(cells) :
                     F[1..n] = IF cells[n].live THEN Append(F[1..(n - 1)], cells[n])
                               ELSE F[1..(n - 1)]
<1> DEFINE D == DOMAIN cells
           Next1(s, c) == IF c.live THEN Append(s, c) ELSE s
           Eq(f) == f = [T \in SUBSET D |->
                           IF T = {} THEN <<>>
                           ELSE Next1(f[T \ {Max(T)}], cells[Max(T)])]
           F == CHOOSE f : Eq(f)
<1>1. LiveCells(cells) = F[DOMAIN cells]
  BY DEF LiveCells, FoldLeft, MapThenFoldSet
<1>2. Len(cells) \in Nat /\ D = 1..Len(cells)
  OBVIOUS
<1>3. \A T \in SUBSET D : T # {} => Max(T) \in T
  <2>1. D \subseteq 0..Len(cells)
    BY <1>2
  <2>2. QED
    BY <1>2, <2>1, MaxIsGreatest
<1>4. \E f : Eq(f)
  <2> DEFINE V == Seq(LiveCellsOf(S))
             c == [T \in SUBSET D |-> Max(T)]
             op == [w \in D \X V |-> Next1(w[2], cells[w[1]])]
  <2>1. \A T \in SUBSET D : c[T] = Max(T) /\ (T # {} => c[T] \in T)
    BY <1>3
  <2>2. ASSUME NEW n \in D, NEW s \in V
        PROVE  op[<<n, s>>] = Next1(s, cells[n]) /\ op[<<n, s>>] \in V
    <3>1. cells[n] \in CellsOf(S)
      BY <1>2
    <3>2. cells[n].live => cells[n] \in LiveCellsOf(S)
      BY <3>1 DEF CellsOf, LiveCellsOf
    <3>3. Next1(s, cells[n]) \in V
      BY <3>2
    <3>4. QED
      BY <3>3
  <2>3. IsFiniteSet(D) /\ <<>> \in V
    BY <1>2, FS_Interval
  <2> HIDE DEF c, op, V, D, Next1
  <2>4. Foldable(D, V, <<>>, c, op)
    BY <2>1, <2>2, <2>3 DEF Foldable
  <2>5. PICK f \in [SUBSET D -> V] : FoldsTo(f, D, <<>>, c, op)
    BY <2>4, FoldDefined
  <2>6. ASSUME NEW T \in SUBSET D
        PROVE  f[T] = IF T = {} THEN <<>>
                      ELSE Next1(f[T \ {Max(T)}], cells[Max(T)])
    <3>1. f[T] = IF T = {} THEN <<>> ELSE op[<<c[T], f[T \ {c[T]}]>>]
      BY <2>5 DEF FoldsTo
    <3>2. T # {} => c[T] \in D /\ f[T \ {c[T]}] \in V
      BY <2>1
    <3>3. QED
      BY <2>1, <2>2, <3>1, <3>2
  <2>7. f = [T \in SUBSET D |->
               IF T = {} THEN <<>> ELSE Next1(f[T \ {Max(T)}], cells[Max(T)])]
    BY <2>6
  <2>8. Eq(f)
    BY <2>7
  <2>9. QED
    BY <2>8
<1>5. Eq(F)
  BY <1>4
<1> HIDE DEF F
<1>6. \A T \in SUBSET D :
        F[T] = IF T = {} THEN <<>> ELSE Next1(F[T \ {Max(T)}], cells[Max(T)])
  BY <1>5
<1>7. ASSUME NEW n \in 1..Len(cells)
      PROVE  F[1..n] = Next1(F[1..(n - 1)], cells[n])
  <2>1. 1..n \in SUBSET D /\ 1..n # {} /\ n \in Nat \ {0}
    <3>1. n \in Nat \ {0} /\ 1..n \subseteq 1..Len(cells) /\ n \in 1..n
      BY <1>2
    <3> HIDE DEF D
    <3>2. QED
      BY <1>2, <3>1
  <2>2. Max(1..n) = n /\ (1..n) \ {n} = 1..(n - 1)
    BY <2>1, MaxOfUpto
  <2> HIDE DEF Next1, D
  <2>3. QED
    BY <1>6, <2>1, <2>2
<1>8. QED
  BY <1>1, <1>2, <1>6, <1>7

LEMMA LiveCellsAlive ==
  ASSUME NEW S, NEW cells \in Seq(CellsOf(S))
  PROVE  /\ LiveCells(cells) \in Seq(LiveCellsOf(S))
         /\ Len(LiveCells(cells)) <= Len(cells)
<1>1. PICK F : /\ F[{}] = <<>> /\ LiveCells(cells) = F[1..Len(cells)]
               /\ \A n \in 1..Len(cells) :
                    F[1..n] = IF cells[n].live THEN Append(F[1..(n - 1)], cells[n])
                              ELSE F[1..(n - 1)]
  BY LiveCellsUnfolds
<1> DEFINE N == Len(cells)
           Ok(n) == F[1..n] \in Seq(LiveCellsOf(S)) /\ Len(F[1..n]) <= n
           B == {n \in 0..N : ~ Ok(n)}
<1>2. N \in Nat
  OBVIOUS
<1>3. B = {}
  <2> SUFFICES ASSUME B # {} PROVE FALSE
    OBVIOUS
  <2>1. B \in SUBSET Nat /\ \A n \in 0..N : n \notin B => Ok(n)
    OBVIOUS
  <2>2. PICK n \in B : \A y \in B : n <= y
    BY <2>1, LeastElement
  <2>3. n \in 0..N /\ ~ Ok(n)
    OBVIOUS
  <2> HIDE DEF B
  <2>4. n # 0
    <3>1. 1..0 = {} /\ <<>> \in Seq(LiveCellsOf(S)) /\ Len(<<>>) <= 0
      OBVIOUS
    <3>2. Ok(0)
      BY <1>1, <3>1
    <3>3. QED
      BY <2>3, <3>2
  <2>5. n \in 1..N /\ n - 1 \in 0..N /\ n \in Nat
    BY <1>2, <2>3, <2>4
  <2>6. Ok(n - 1)
    BY <2>1, <2>2, <2>5
  <2>7. cells[n] \in CellsOf(S) /\ (cells[n].live => cells[n] \in LiveCellsOf(S))
    <3>1. cells[n] \in CellsOf(S)
      BY <2>5
    <3>2. QED
      BY <3>1 DEF CellsOf, LiveCellsOf
  <2>8. F[1..n] = IF cells[n].live THEN Append(F[1..(n - 1)], cells[n])
                  ELSE F[1..(n - 1)]
    BY <1>1, <2>5
  <2> DEFINE s == F[1..(n - 1)]
  <2>9. s \in Seq(LiveCellsOf(S)) /\ Len(s) <= n - 1
    BY <2>6
  <2> HIDE DEF s
  <2>10. Ok(n)
    <3>1. CASE cells[n].live
      <4>1. F[1..n] = Append(s, cells[n])
        BY <2>8, <3>1 DEF s
      <4>2. QED
        BY <2>5, <2>7, <2>9, <3>1, <4>1
    <3>2. CASE ~ cells[n].live
      <4>1. F[1..n] = s
        BY <2>8, <3>2 DEF s
      <4>2. QED
        BY <2>5, <2>9, <4>1
    <3>3. QED
      BY <3>1, <3>2
  <2>11. QED
    BY <2>3, <2>10
<1>4. Ok(N)
  BY <1>2, <1>3
<1>5. QED
  BY <1>1, <1>4

(* The invariant: whatever row group is published is laid out from rows of   *)
(* the table, up to its delete masks, and the table has room for its rows.   *)

Layout == group # Null => \E rows : LaidOut(group, rows)
MemtablesOK == active \in Seq(AllRows) /\ (frozen = Null \/ frozen \in Seq(AllRows))
RoomOK == GroupRows + Len(Frozen) + Len(active) <= MaxRows

IInv == Layout /\ MemtablesOK /\ RoomOK

\* Rows of the group, and the rows that are fresh to RowTable.
GroupCellType == GroupCells \in Seq(CellsOf(AllRows)) /\ Len(GroupCells) = GroupRows

LEMMA GroupCellsTyped ==
  ASSUME Layout
  PROVE  GroupCellType /\ GroupRows \in Nat
<1>1. CASE group = Null
  BY <1>1 DEF GroupCellType, GroupCells, GroupRows
<1>2. CASE group # Null
  <2>1. PICK rows : LaidOut(group, rows)
    BY <1>2 DEF Layout
  <2>2. rows \in Seq(AllRows) /\ GroupRows = Len(rows) /\ GroupCells = Cells(group)
    BY <1>2, <2>1 DEF LaidOut, GroupRows, GroupCells
  <2>3. GroupCells = [n \in 1..Len(rows) |->
                       [row |-> rows[n],
                        live |-> (n - 1) % W \in
                                   group.blocks[(n - 1) \div W + 1].delete_mask]]
    BY <2>1, <2>2, CellsOfLayout
  <2> DEFINE L(n) == (n - 1) % W \in group.blocks[(n - 1) \div W + 1].delete_mask
  <2>4. ASSUME NEW n \in 1..Len(rows)
        PROVE  [row |-> rows[n], live |-> L(n)] \in CellsOf(AllRows)
    <3>1. rows[n] \in AllRows
      BY <2>2
    <3>2. L(n) \in BOOLEAN
      OBVIOUS
    <3> HIDE DEF L
    <3>3. QED
      BY <3>1, <3>2 DEF CellsOf
  <2>5. Len(rows) \in Nat
    BY <2>2
  <2> HIDE DEF L
  <2>6. QED
    BY <2>2, <2>3, <2>4, <2>5 DEF GroupCellType, L
<1>3. QED
  BY <1>1, <1>2

LEMMA RowsOfCells ==
  ASSUME NEW cells \in Seq(LiveCellsOf(AllRows))
  PROVE  /\ Rows(cells) \in Seq(AllRows) /\ Len(Rows(cells)) = Len(cells)
         /\ \A n \in 1..Len(cells) : cells[n] = [row |-> Rows(cells)[n], live |-> TRUE]
<1>1. Len(cells) \in Nat /\ DOMAIN cells = 1..Len(cells)
  OBVIOUS
<1>2. \A n \in 1..Len(cells) : /\ cells[n].row \in AllRows
                               /\ cells[n] = [row |-> cells[n].row, live |-> TRUE]
  <2>1. ASSUME NEW n \in 1..Len(cells)
        PROVE  /\ cells[n].row \in AllRows
               /\ cells[n] = [row |-> cells[n].row, live |-> TRUE]
    <3> DEFINE c == cells[n]
    <3>0. c \in LiveCellsOf(AllRows)
      BY <1>1
    <3> HIDE DEF c
    <3>1. c \in [row : AllRows, live : {TRUE}]
      BY <3>0, Zenon DEF LiveCellsOf
    <3>2. /\ c.row \in AllRows /\ c.live \in {TRUE}
          /\ c = [row |-> c.row, live |-> c.live]
      BY <3>1
    <3>3. c.live = TRUE
      BY <3>2, Zenon
    <3>4. c = [row |-> c.row, live |-> TRUE]
      BY <3>2, <3>3, Zenon
    <3>5. QED
      BY <3>2, <3>4 DEF c
  <2>2. QED
    BY <2>1
<1>3. QED
  BY <1>1, <1>2 DEF Rows

(* Steps of the table.                                                       *)

LEMMA PublishLaysOut ==
  ASSUME NEW rows \in Seq(AllRows)
  PROVE  /\ Publish(rows) # Null => LaidOut(Publish(rows), rows)
         /\ Publish(rows) = Null <=> rows = <<>>
         /\ rows # <<>> =>
              \A b \in 1..NumBlocks(Len(rows)) : Publish(rows).blocks[b].delete_mask = Pos
<1>1. CASE rows = <<>>
  BY <1>1 DEF Publish
<1>2. CASE rows # <<>>
  <2>1. Publish(rows) = Ingest(rows)
    BY <1>2 DEF Publish
  <2>2. /\ LaidOut(Ingest(rows), rows)
        /\ \A b \in 1..NumBlocks(Len(rows)) : Ingest(rows).blocks[b].delete_mask = Pos
    BY <1>2, IngestLaysOut
  <2>3. Ingest(rows) # Null
    BY <2>2, NullAssumption DEF LaidOut
  <2>4. QED
    BY <1>2, <2>1, <2>2, <2>3
<1>3. QED
  BY <1>1, <1>2

\* The cells and the size of what is published.
LEMMA PublishedCells ==
  ASSUME NEW rows \in Seq(AllRows)
  PROVE  LET g == Publish(rows)
         IN  /\ (IF g = Null THEN <<>> ELSE Cells(g))
                  = [n \in 1..Len(rows) |-> [row |-> rows[n], live |-> TRUE]]
             /\ (IF g = Null THEN 0 ELSE g.num_rows) = Len(rows)
<1> DEFINE g == Publish(rows)
<1>1. CASE rows = <<>>
  <2>1. g = Null /\ Len(rows) = 0
    BY <1>1, PublishLaysOut
  <2>2. [n \in 1..0 |-> [row |-> rows[n], live |-> TRUE]] = <<>>
    OBVIOUS
  <2>3. QED
    BY <2>1, <2>2
<1>2. CASE rows # <<>>
  <2>1. /\ g # Null /\ LaidOut(g, rows)
        /\ \A b \in 1..NumBlocks(Len(rows)) : g.blocks[b].delete_mask = Pos
    BY <1>2, PublishLaysOut
  <2> HIDE DEF g
  <2>2. Cells(g) = [n \in 1..Len(rows) |->
                       [row |-> rows[n],
                        live |-> (n - 1) % W \in
                                   g.blocks[(n - 1) \div W + 1].delete_mask]]
    BY <2>1, CellsOfLayout
  <2>3. ASSUME NEW n \in 1..Len(rows)
        PROVE  ((n - 1) % W \in g.blocks[(n - 1) \div W + 1].delete_mask) = TRUE
    <3>1. /\ (n - 1) \div W + 1 \in 1..NumBlocks(Len(rows))
          /\ (n - 1) % W \in Pos
      BY <2>1, RowInBlock
    <3>2. g.blocks[(n - 1) \div W + 1].delete_mask = Pos
      BY <2>1, <3>1
    <3>3. QED
      BY <3>1, <3>2
  <2>4. Cells(g) = [n \in 1..Len(rows) |-> [row |-> rows[n], live |-> TRUE]]
    BY <2>2, <2>3
  <2>5. g.num_rows = Len(rows)
    BY <2>1 DEF LaidOut
  <2>6. QED
    BY <2>1, <2>4, <2>5 DEF g
<1>3. QED
  BY <1>1, <1>2

LEMMA DeleteInBlock ==
  ASSUME NEW block, NEW rows, Holds(block, rows), NEW r
  PROVE  LET new == [block EXCEPT !.delete_mask = @ \ {r}]
         IN  /\ Holds(new, rows) /\ new \in Blocks
             /\ new.delete_mask = block.delete_mask \ {r}
<1> DEFINE new == [block EXCEPT !.delete_mask = @ \ {r}]
<1>1. block \in Blocks
  BY DEF Holds
<1>2. /\ new.num = block.num /\ new.skel = block.skel /\ new.kim = block.kim
      /\ new.tail = block.tail /\ new.delete_mask = block.delete_mask \ {r}
      /\ new \in Blocks
  BY <1>1 DEF Blocks
<1> HIDE DEF new
<1>3. Holds(new, rows)
  BY <1>2 DEF Holds
<1>4. QED
  BY <1>2, <1>3 DEF new

LEMMA RecordCleared ==
  ASSUME NEW c, NEW x, NEW l, NEW f, c = [row |-> x, live |-> l]
  PROVE  [c EXCEPT !.live = f] = [row |-> x, live |-> f]
  OBVIOUS

LEMMA DeleteInGroup ==
  ASSUME NEW g, NEW rows, LaidOut(g, rows), NEW i \in 0..(Len(rows) - 1)
  PROVE  LET h == [g EXCEPT !.blocks[i \div W + 1].delete_mask = @ \ {i % W}]
         IN  /\ LaidOut(h, rows)
             /\ Cells(h) = [Cells(g) EXCEPT ![i + 1].live = FALSE]
<1> DEFINE k == i \div W + 1
           r == i % W
           K == NumBlocks(Len(rows))
           new == [g.blocks[k] EXCEPT !.delete_mask = @ \ {r}]
           bs == [g.blocks EXCEPT ![k] = new]
           h == [g EXCEPT !.blocks[i \div W + 1].delete_mask = @ \ {i % W}]
<1>1. i + 1 \in 1..Len(rows) /\ (i + 1) - 1 = i /\ Len(rows) \in Nat
  BY DEF LaidOut
<1>2. /\ k \in 1..K /\ k \in DOMAIN g.blocks
      /\ Holds(g.blocks[k], Part(rows, k))
  BY <1>1, RowInBlock
<1>3. /\ Holds(new, Part(rows, k)) /\ new \in Blocks
      /\ new.delete_mask = g.blocks[k].delete_mask \ {r}
  BY <1>2, DeleteInBlock
<1>4. /\ g \in RowGroups /\ g.blocks \in Seq(Blocks) /\ Len(g.blocks) = K
      /\ g.num_rows = Len(rows)
  BY DEF LaidOut, RowGroups
<1>5. h = [g EXCEPT !.blocks = bs]
  BY <1>4
<1> HIDE DEF h, K, new
<1>6. /\ bs \in Seq(Blocks) /\ Len(bs) = K
      /\ \A b \in 1..K : bs[b] = IF b = k THEN new ELSE g.blocks[b]
  BY <1>2, <1>3, <1>4
<1> HIDE DEF bs
<1>7. h \in RowGroups /\ h.num_rows = Len(rows) /\ h.blocks = bs
  BY <1>4, <1>5, <1>6 DEF RowGroups
<1>8. \A b \in 1..K : Holds(h.blocks[b], Part(rows, b))
  <2>1. \A b \in 1..K : Holds(g.blocks[b], Part(rows, b))
    BY DEF LaidOut, K
  <2>2. QED
    BY <1>3, <1>6, <1>7, <2>1
<1>9. LaidOut(h, rows)
  BY <1>6, <1>7, <1>8 DEF LaidOut, K
<1> DEFINE In(f, n) == (n - 1) % W \in f.blocks[(n - 1) \div W + 1].delete_mask
<1>10. ASSUME NEW n \in 1..Len(rows)
       PROVE  In(h, n) <=> n # i + 1 /\ In(g, n)
  <2> DEFINE b == (n - 1) \div W + 1
             s == (n - 1) % W
  <2>1. b \in 1..K
    BY RowInBlock DEF K
  <2>2. n = W * ((n - 1) \div W) + s + 1 /\ i + 1 = W * (i \div W) + r + 1
    BY <1>1, BlockOfRow
  <2>3. b = k /\ s = r => n = i + 1
    <3>1. (n - 1) \div W \in Int /\ i \div W \in Int
      BY <1>1, WordSizes, DivMod
    <3>2. b = k => (n - 1) \div W = i \div W
      BY <3>1
    <3>3. QED
      BY <2>2, <3>2
  <2>4. n = i + 1 => b = k /\ s = r
    BY <1>1
  <2> HIDE DEF b, s, k, r
  <2>5. h.blocks[b].delete_mask = IF b = k THEN g.blocks[k].delete_mask \ {r}
                                  ELSE g.blocks[b].delete_mask
    BY <1>3, <1>6, <1>7, <2>1
  <2>6. s \in h.blocks[b].delete_mask <=> n # i + 1 /\ s \in g.blocks[b].delete_mask
    BY <2>3, <2>4, <2>5
  <2>7. QED
    BY <2>6 DEF b, s
<1>11. /\ Cells(g) = [n \in 1..Len(rows) |-> [row |-> rows[n], live |-> In(g, n)]]
       /\ Cells(h) = [n \in 1..Len(rows) |-> [row |-> rows[n], live |-> In(h, n)]]
  BY <1>9, CellsOfLayout
<1> HIDE DEF In
<1>12. [Cells(g) EXCEPT ![i + 1].live = FALSE]
         = [n \in 1..Len(rows) |->
              [row |-> rows[n], live |-> IF n = i + 1 THEN FALSE ELSE In(g, n)]]
  <2> DEFINE C == Cells(g)
             j == i + 1
             E(n) == [row |-> rows[n], live |-> IF n = j THEN FALSE ELSE In(g, n)]
  <2>1. C = [n \in 1..Len(rows) |-> [row |-> rows[n], live |-> In(g, n)]]
    BY <1>11
  <2> HIDE DEF C, j
  <2>2. [C EXCEPT ![j].live = FALSE]
          = [n \in 1..Len(rows) |-> IF n = j THEN [C[n] EXCEPT !.live = FALSE]
                                    ELSE C[n]]
    BY <2>1
  <2>3. ASSUME NEW n \in 1..Len(rows)
        PROVE  (IF n = j THEN [C[n] EXCEPT !.live = FALSE] ELSE C[n]) = E(n)
    <3>1. C[n] = [row |-> rows[n], live |-> In(g, n)]
      BY <2>1
    <3>2. CASE n = j
      <4>1. [C[n] EXCEPT !.live = FALSE] = [row |-> rows[n], live |-> FALSE]
        <5>1. \A f : [C[n] EXCEPT !.live = f] = [row |-> rows[n], live |-> f]
          BY <3>1, RecordCleared
        <5>2. QED
          BY ONLY <5>1, Zenon
      <4>2. QED
        BY <3>2, <4>1
    <3>3. CASE n # j
      BY <3>1, <3>3
    <3>4. QED
      BY <3>2, <3>3
  <2>4. [C EXCEPT ![j].live = FALSE] = [n \in 1..Len(rows) |-> E(n)]
    BY <2>2, <2>3
  <2>5. QED
    BY <2>4 DEF C, j
<1>13. \A n \in 1..Len(rows) : In(h, n) = IF n = i + 1 THEN FALSE ELSE In(g, n)
  <2>1. \A n \in 1..Len(rows) : In(h, n) \in BOOLEAN /\ In(g, n) \in BOOLEAN
    BY DEF In
  <2>2. QED
    BY <1>10, <2>1, Zenon
<1>14. Cells(h) = [Cells(g) EXCEPT ![i + 1].live = FALSE]
  BY <1>11, <1>12, <1>13
<1>15. QED
  BY <1>9, <1>14 DEF h

\* The step of RowTable that deletes is a step of its cells.
LEMMA DeleteStep ==
  ASSUME Layout, MemtablesOK, NEW i \in Indexes, DeleteRow(i)
  PROVE  /\ Layout' /\ GroupRows' = GroupRows
         /\ GroupCells' = IF i < GroupRows
                          THEN [GroupCells EXCEPT ![i + 1].live = FALSE]
                          ELSE GroupCells
<1>1. i \in Nat
  BY RowAssumption
<1>2. CASE ~ i < GroupRows
  <2>1. group' = group
    BY <1>2 DEF DeleteRow
  <2>2. QED
    BY <1>2, <2>1 DEF Layout, GroupRows, GroupCells, Cells, ReadBack
<1>3. CASE i < GroupRows
  <2>1. group # Null
    BY <1>1, <1>3 DEF GroupRows
  <2>2. PICK rows : LaidOut(group, rows)
    BY <2>1 DEF Layout
  <2>3. GroupRows = Len(rows) /\ Len(rows) \in Nat
    BY <2>1, <2>2 DEF GroupRows, LaidOut
  <2>4. i \in 0..(Len(rows) - 1)
    BY <1>1, <1>3, <2>3
  <2>5. group' = [group EXCEPT !.blocks[i \div W + 1].delete_mask = @ \ {i % W}]
    BY <1>3 DEF DeleteRow
  <2>6. /\ LaidOut(group', rows)
        /\ Cells(group') = [Cells(group) EXCEPT ![i + 1].live = FALSE]
    BY <2>2, <2>4, <2>5, DeleteInGroup
  <2>7. group' # Null
    BY <2>6, NullAssumption DEF LaidOut
  <2>8. GroupRows' = Len(rows)
    BY <2>6, <2>7 DEF GroupRows, LaidOut
  <2>9. Layout'
    BY <2>6 DEF Layout
  <2>10. GroupCells = Cells(group) /\ GroupCells' = Cells(group')
    <3>1. GroupCells = Cells(group)
      BY <2>1 DEF GroupCells
    <3>2. GroupCells' = Cells(group')
      BY <2>7 DEF GroupCells, Cells, ReadBack
    <3>3. QED
      BY <3>1, <3>2
  <2>11. QED
    BY <1>3, <2>3, <2>6, <2>8, <2>9, <2>10
<1>4. QED
  BY <1>2, <1>3

\* What a compaction publishes: the living rows and the frozen ones behind them.
LEMMA InstallStep ==
  ASSUME Layout, MemtablesOK, RoomOK, Install
  PROVE  /\ Layout' /\ GroupRows' <= GroupRows + Len(frozen) /\ GroupRows' \in Nat
         /\ frozen \in Seq(AllRows)
         /\ LiveCells(GroupCells) \in Seq(LiveCellsOf(AllRows))
         /\ GroupCells' = LiveCells(GroupCells)
                            \o [k \in 1..Len(frozen) |-> [row |-> frozen[k], live |-> TRUE]]
<1> DEFINE live == LiveCells(GroupCells)
           kept == Rows(live)
           rows == kept \o frozen
<1>1. frozen \in Seq(AllRows) /\ Len(frozen) \in Nat
  BY DEF Install, MemtablesOK
<1>2. GroupCells \in Seq(CellsOf(AllRows)) /\ Len(GroupCells) = GroupRows /\ GroupRows \in Nat
  BY GroupCellsTyped DEF GroupCellType
<1>3. live \in Seq(LiveCellsOf(AllRows)) /\ Len(live) <= GroupRows
  BY <1>2, LiveCellsAlive
<1>4. /\ kept \in Seq(AllRows) /\ Len(kept) = Len(live)
      /\ \A n \in 1..Len(live) : live[n] = [row |-> kept[n], live |-> TRUE]
  BY <1>3, RowsOfCells
<1>5. group' = Publish(rows)
  BY DEF Install, Reconstruct
<1> HIDE DEF live, kept
<1>6. /\ rows \in Seq(AllRows) /\ Len(rows) = Len(kept) + Len(frozen)
      /\ \A n \in 1..(Len(kept) + Len(frozen)) :
           rows[n] = IF n <= Len(kept) THEN kept[n] ELSE frozen[n - Len(kept)]
  <2>1. frozen \in Seq(AllRows) /\ kept \in Seq(AllRows)
    BY <1>1, <1>4
  <2>2. QED
    BY ONLY <2>1, ConcatProperties
<1> HIDE DEF rows
<1>7. Layout'
  BY <1>5, <1>6, PublishLaysOut DEF Layout
<1>8. /\ GroupCells' = [n \in 1..Len(rows) |-> [row |-> rows[n], live |-> TRUE]]
      /\ GroupRows' = Len(rows)
  <2>1. GroupCells' = IF Publish(rows) = Null THEN <<>> ELSE Cells(Publish(rows))
    BY <1>5 DEF GroupCells, Cells, ReadBack
  <2>2. GroupRows' = IF Publish(rows) = Null THEN 0 ELSE Publish(rows).num_rows
    BY <1>5 DEF GroupRows
  <2>3. QED
    BY <1>6, <2>1, <2>2, PublishedCells
<1> DEFINE added == [k \in 1..Len(frozen) |-> [row |-> frozen[k], live |-> TRUE]]
           C(n) == [row |-> rows[n], live |-> TRUE]
<1>9. [n \in 1..Len(rows) |-> C(n)] = live \o added
  <2>1. added \in Seq(LiveCellsOf(AllRows)) /\ Len(added) = Len(frozen)
    <3>1. \A k \in 1..Len(frozen) : [row |-> frozen[k], live |-> TRUE] \in LiveCellsOf(AllRows)
      BY <1>1 DEF LiveCellsOf
    <3>2. QED
      BY <1>1, <3>1
  <2>2. \A k \in 1..Len(frozen) : added[k] = [row |-> frozen[k], live |-> TRUE]
    OBVIOUS
  <2> HIDE DEF added
  <2>3. /\ Len(live \o added) = Len(live) + Len(added)
        /\ live \o added \in Seq(LiveCellsOf(AllRows))
        /\ \A n \in 1..(Len(live) + Len(added)) :
             (live \o added)[n] = IF n <= Len(live) THEN live[n] ELSE added[n - Len(live)]
    BY <1>3, <2>1, ConcatProperties
  <2>4. Len(live) \in Nat /\ Len(rows) = Len(live) + Len(added)
    BY <1>3, <1>4, <1>6, <2>1
  <2>5. ASSUME NEW n \in 1..Len(rows) PROVE C(n) = (live \o added)[n]
    <3>1. n \in 1..(Len(live) + Len(added)) /\ n \in 1..(Len(kept) + Len(frozen))
      BY <1>4, <2>1, <2>4
    <3>2. CASE n <= Len(live)
      <4>1. /\ (live \o added)[n] = live[n] /\ rows[n] = kept[n]
            /\ live[n] = [row |-> kept[n], live |-> TRUE]
        BY <1>4, <1>6, <2>3, <2>4, <3>1, <3>2
      <4>2. QED
        BY <4>1
    <3>3. CASE ~ n <= Len(live)
      <4>1. /\ (live \o added)[n] = added[n - Len(live)]
            /\ rows[n] = frozen[n - Len(live)]
        BY <1>4, <1>6, <2>3, <3>1, <3>3
      <4>2. n - Len(live) \in 1..Len(frozen)
        BY <1>1, <2>1, <2>4, <3>1, <3>3
      <4>3. QED
        BY <2>2, <4>1, <4>2
    <3>4. QED
      BY <3>2, <3>3
  <2> DEFINE s == live \o added
  <2>6. s \in Seq(LiveCellsOf(AllRows)) /\ Len(s) = Len(rows)
    BY <2>3, <2>4
  <2>7. \A n \in 1..Len(rows) : C(n) = s[n]
    BY <2>5
  <2> HIDE DEF s, C
  <2>8. s = [n \in 1..Len(rows) |-> s[n]]
    BY <2>6
  <2>9. QED
    BY <2>7, <2>8 DEF s
<1>10. Len(rows) <= GroupRows + Len(frozen) /\ Len(rows) \in Nat
  BY <1>1, <1>2, <1>3, <1>4, <1>6
<1>11. QED
  BY <1>1, <1>3, <1>7, <1>8, <1>9, <1>10 DEF live

LEMMA InitInv == Init => IInv
<1> SUFFICES ASSUME Init PROVE IInv
  OBVIOUS
<1>1. PICK rows \in Loads : group = Publish(rows)
  BY DEF Init
<1>2. rows \in Seq(AllRows) /\ Len(rows) <= MaxRows
  BY RowAssumption
<1>3. Layout
  BY <1>1, <1>2, PublishLaysOut DEF Layout
<1>4. active = <<>> /\ frozen = Null
  BY DEF Init
<1>5. MemtablesOK
  BY <1>4 DEF MemtablesOK
<1>6. GroupRows = Len(rows)
  <2>1. GroupRows = IF Publish(rows) = Null THEN 0 ELSE Publish(rows).num_rows
    BY <1>1 DEF GroupRows
  <2>2. QED
    BY <1>2, <2>1, PublishedCells
<1>7. RoomOK
  BY <1>2, <1>4, <1>6 DEF RoomOK, Frozen
<1>8. QED
  BY <1>3, <1>5, <1>7 DEF IInv

LEMMA FrozenTyped ==
  ASSUME MemtablesOK
  PROVE  Frozen \in Seq(AllRows) /\ Len(Frozen) \in Nat /\ Len(active) \in Nat
  BY DEF MemtablesOK, Frozen

\* Nothing but group has a part in Layout and in the cells.
LEMMA SameGroup ==
  ASSUME group' = group
  PROVE  /\ Layout => Layout'
         /\ GroupRows' = GroupRows /\ GroupCells' = GroupCells
  BY DEF Layout, GroupRows, GroupCells, Cells, ReadBack

LEMMA NextInv == IInv /\ [Next]_vars => IInv'
<1> SUFFICES ASSUME IInv, [Next]_vars PROVE IInv'
  OBVIOUS
<1>1. Layout /\ MemtablesOK /\ RoomOK
  BY DEF IInv
<1>2. /\ Frozen \in Seq(AllRows) /\ Len(Frozen) \in Nat /\ Len(active) \in Nat
      /\ active \in Seq(AllRows)
      /\ GroupRows \in Nat /\ GroupRows + Len(Frozen) + Len(active) <= MaxRows
      /\ MaxRows \in Nat
  BY <1>1, FrozenTyped, GroupCellsTyped, RowAssumption DEF RoomOK, MemtablesOK
<1>3. ASSUME NEW r \in NewRows, Insert(r) PROVE IInv'
  <2>1. /\ group' = group /\ frozen' = frozen /\ active' = Append(active, r)
        /\ GroupRows + Len(Frozen) + Len(active) < MaxRows
    BY <1>3 DEF Insert
  <2>2. r \in AllRows
    BY RowAssumption
  <2>3. active' \in Seq(AllRows) /\ Len(active') = Len(active) + 1
    BY <1>2, <2>1, <2>2
  <2>4. Layout' /\ GroupRows' = GroupRows
    BY <1>1, <2>1, SameGroup
  <2>5. Frozen' = Frozen
    BY <2>1 DEF Frozen
  <2>6. QED
    BY <1>1, <1>2, <2>1, <2>3, <2>4, <2>5 DEF IInv, MemtablesOK, RoomOK
<1>4. ASSUME NEW i \in Indexes, DeleteRow(i) PROVE IInv'
  <2>1. active' = active /\ frozen' = frozen
    BY <1>4 DEF DeleteRow
  <2>2. Layout' /\ GroupRows' = GroupRows
    BY <1>1, <1>4, DeleteStep
  <2>3. Frozen' = Frozen
    BY <2>1 DEF Frozen
  <2>4. QED
    BY <1>1, <2>1, <2>2, <2>3 DEF IInv, MemtablesOK, RoomOK
<1>5. ASSUME Freeze PROVE IInv'
  <2>1. /\ group' = group /\ frozen = Null /\ frozen' = active /\ active' = <<>>
    BY <1>5 DEF Freeze
  <2>2. Layout' /\ GroupRows' = GroupRows
    BY <1>1, <2>1, SameGroup
  <2>3. frozen' # Null
    BY <1>2, <2>1, NullAssumption
  <2>4. Frozen = <<>> /\ Frozen' = active
    BY <2>1, <2>3 DEF Frozen
  <2>5. QED
    BY <1>1, <1>2, <2>1, <2>2, <2>4 DEF IInv, MemtablesOK, RoomOK
<1>6. ASSUME Install PROVE IInv'
  <2>1. frozen # Null /\ frozen' = Null /\ active' = active
    BY <1>6 DEF Install
  <2>2. Layout' /\ GroupRows' <= GroupRows + Len(frozen) /\ GroupRows' \in Nat
    BY <1>1, <1>6, InstallStep
  <2>3. Frozen = frozen /\ Frozen' = <<>>
    BY <2>1 DEF Frozen
  <2>4. QED
    BY <1>1, <1>2, <2>1, <2>2, <2>3 DEF IInv, MemtablesOK, RoomOK
<1>7. CASE UNCHANGED vars
  <2>1. group' = group /\ active' = active /\ frozen' = frozen
    BY <1>7 DEF vars
  <2>2. Layout' /\ GroupRows' = GroupRows
    BY <1>1, <2>1, SameGroup
  <2>3. QED
    BY <1>1, <2>1, <2>2 DEF IInv, MemtablesOK, RoomOK, Frozen
<1>8. QED
  BY <1>3, <1>4, <1>5, <1>6, <1>7 DEF Next

\* Every published row group is laid out as AdaptiveIngester lays rows out,
\* from some rows of the table, whatever was deleted and compacted since.
THEOREM Invariance == Spec => []IInv
<1>1. QED
  BY InitInv, NextInv, PTL DEF Spec

\* The rows of a block are the rows it was ingested from.
LEMMA FilledRows ==
  ASSUME NEW g, NEW rows, LaidOut(g, rows), NEW b \in 1..NumBlocks(Len(rows))
  PROVE  /\ RowsInBlock(g, b) = 0..(Len(Part(rows, b)) - 1)
         /\ Part(rows, b) \in Seq(AllRows) /\ Len(Part(rows, b)) \in 1..W
         /\ RowsInBlock(g, b) \subseteq Pos
<1>1. rows \in Seq(AllRows) /\ g.num_rows = Len(rows)
  BY DEF LaidOut
<1>2. /\ Part(rows, b) \in Seq(AllRows) /\ Len(Part(rows, b)) \in 1..W
      /\ Len(Part(rows, b)) = Min({W, Len(rows) - W * (b - 1)})
  BY <1>1, PartOfRows
<1>3. RowsInBlock(g, b) = 0..(Len(Part(rows, b)) - 1)
  BY <1>1, <1>2 DEF RowsInBlock
<1>4. W \in Nat /\ Pos = 0..(W - 1)
  BY WordSizes
<1>5. 0..(Len(Part(rows, b)) - 1) \subseteq Pos
  BY <1>2, <1>4
<1>6. QED
  BY <1>2, <1>3, <1>5

LEMMA InvTypes == IInv => TypeOK
<1> SUFFICES ASSUME IInv PROVE TypeOK
  OBVIOUS
<1>1. Layout /\ MemtablesOK /\ RoomOK
  BY DEF IInv
<1>2. ASSUME group # Null
      PROVE  /\ group.num_rows \in 1..MaxRows
             /\ Len(group.blocks) = (group.num_rows + W - 1) \div W
             /\ \A b \in DOMAIN group.blocks :
                  LET block == group.blocks[b]
                      Filled == RowsInBlock(group, b)
                  IN  /\ DOMAIN block.tail = 1..Cardinality(Filled)
                      /\ block.delete_mask \subseteq Pos
                      /\ \A t \in {block.num, block.skel, block.kim} :
                           /\ t.validity \subseteq Filled
                           /\ \A bit \in Pos : t.planes[bit] \subseteq Filled
  <2>1. PICK rows : LaidOut(group, rows)
    BY <1>1, <1>2 DEF Layout
  <2>2. /\ rows \in Seq(AllRows) /\ rows # <<>> /\ group.num_rows = Len(rows)
        /\ Len(group.blocks) = NumBlocks(Len(rows))
        /\ \A b \in 1..NumBlocks(Len(rows)) : Holds(group.blocks[b], Part(rows, b))
        /\ group.blocks \in Seq(Blocks)
    BY <2>1 DEF LaidOut, RowGroups
  <2>3. Len(rows) \in Nat \ {0}
    BY <2>2
  <2>4. group.num_rows \in 1..MaxRows
    BY <1>1, <1>2, <2>2, <2>3, FrozenTyped, RowAssumption DEF RoomOK, GroupRows
  <2>5. Len(group.blocks) = (group.num_rows + W - 1) \div W
    BY <2>2 DEF NumBlocks
  <2>6. ASSUME NEW b \in DOMAIN group.blocks
        PROVE  /\ DOMAIN group.blocks[b].tail = 1..Cardinality(RowsInBlock(group, b))
               /\ group.blocks[b].delete_mask \subseteq Pos
               /\ \A t \in {group.blocks[b].num, group.blocks[b].skel, group.blocks[b].kim} :
                    /\ t.validity \subseteq RowsInBlock(group, b)
                    /\ \A bit \in Pos : t.planes[bit] \subseteq RowsInBlock(group, b)
    <3> DEFINE block == group.blocks[b]
               part == Part(rows, b)
    <3>1. b \in 1..NumBlocks(Len(rows))
      BY <2>2
    <3>2. Holds(block, part)
      BY <2>2, <3>1
    <3>3. /\ RowsInBlock(group, b) = 0..(Len(part) - 1)
          /\ part \in Seq(AllRows) /\ Len(part) \in Nat
      BY <2>1, <3>1, FilledRows, WordSizes
    <3> DEFINE last == Len(part) - 1
    <3>a. 0 \in Int /\ last \in Int /\ ~ 0 > last
      BY <2>1, <3>1, FilledRows, WordSizes
    <3> HIDE DEF last
    <3>b. Cardinality(0..last) = IF 0 > last THEN 0 ELSE last - 0 + 1
      BY <3>a, FS_Interval
    <3>4. Cardinality(0..(Len(part) - 1)) = Len(part)
      BY <3>3, <3>a, <3>b DEF last
    <3> HIDE DEF block, part
    <3>5. DOMAIN block.tail = 1..Len(part)
      BY <3>2, <3>3 DEF Holds
    <3>6. block.delete_mask \subseteq Pos
      BY <3>2 DEF Holds, Blocks
    <3>7. /\ block.num.validity \subseteq 0..(Len(part) - 1)
          /\ block.skel.validity \subseteq 0..(Len(part) - 1)
          /\ block.kim.validity \subseteq 0..(Len(part) - 1)
          /\ \A bit \in Pos : /\ block.num.planes[bit] \subseteq 0..(Len(part) - 1)
                              /\ block.skel.planes[bit] \subseteq 0..(Len(part) - 1)
                              /\ block.kim.planes[bit] \subseteq 0..(Len(part) - 1)
      BY <3>2 DEF Holds
    <3>8. QED
      BY <3>3, <3>4, <3>5, <3>6, <3>7 DEF block
  <2>7. QED
    BY <2>4, <2>5, <2>6
<1>3. active \in Seq(AllRows) /\ (frozen = Null \/ frozen \in Seq(AllRows))
  BY <1>1 DEF MemtablesOK
<1>4. QED
  BY <1>2, <1>3 DEF TypeOK

\* A published group has a block for every W rows; behind its rows a block
\* has neither a one bit nor a valid position, in any tile.
THEOREM TypeCorrect == Spec => []TypeOK
<1>1. QED
  BY Invariance, InvTypes, PTL

(* The refinement of RowTable.                                               *)

LEMMA RefinesInit == Init => Table!TableInit
<1> SUFFICES ASSUME Init PROVE Table!TableInit
  OBVIOUS
<1>1. PICK rows \in Loads : group = Publish(rows)
  BY DEF Init
<1>2. rows \in Seq(AllRows)
  BY RowAssumption
<1>3. GroupCells = [n \in 1..Len(rows) |-> [row |-> rows[n], live |-> TRUE]]
  <2>1. GroupCells = IF Publish(rows) = Null THEN <<>> ELSE Cells(Publish(rows))
    BY <1>1 DEF GroupCells
  <2>2. QED
    BY <1>2, <2>1, PublishedCells
<1>4. GroupCells \in Seq(LiveCellsOf(AllRows))
  <2>1. \A n \in 1..Len(rows) : [row |-> rows[n], live |-> TRUE] \in LiveCellsOf(AllRows)
    BY <1>2 DEF LiveCellsOf
  <2>2. Len(rows) \in Nat
    BY <1>2
  <2>3. QED
    BY <1>3, <2>1, <2>2
<1>5. Frozen \o active = <<>>
  BY DEF Init, Frozen
<1>6. QED
  BY <1>4, <1>5 DEF Table!TableInit, LiveCellsOf

LEMMA RefinesNext ==
  IInv /\ [Next]_vars => [Table!TableNext]_<<GroupCells, Frozen \o active>>
<1> SUFFICES ASSUME IInv, [Next]_vars
             PROVE  [Table!TableNext]_<<GroupCells, Frozen \o active>>
  OBVIOUS
<1> DEFINE fresh == Frozen \o active
<1>1. Layout /\ MemtablesOK /\ RoomOK
  BY DEF IInv
<1>2. /\ Frozen \in Seq(AllRows) /\ Len(Frozen) \in Nat /\ Len(active) \in Nat
      /\ active \in Seq(AllRows)
      /\ GroupCells \in Seq(CellsOf(AllRows)) /\ Len(GroupCells) = GroupRows
      /\ GroupRows \in Nat
  BY <1>1, FrozenTyped, GroupCellsTyped DEF MemtablesOK, GroupCellType
<1>3. ASSUME NEW r \in NewRows, Insert(r)
      PROVE  Table!TableNext
  <2>1. /\ group' = group /\ frozen' = frozen /\ active' = Append(active, r)
    BY <1>3 DEF Insert
  <2>2. r \in AllRows
    BY RowAssumption
  <2>3. GroupCells' = GroupCells
    BY <2>1, SameGroup
  <2>4. Frozen' = Frozen
    BY <2>1 DEF Frozen
  <2>5. fresh' = Frozen \o Append(active, r)
    BY <2>1, <2>4
  <2>6. Frozen \o Append(active, r) = Append(Frozen \o active, r)
    BY <1>2, <2>2
  <2>7. Table!Insert(r)
    BY <2>3, <2>5, <2>6 DEF Table!Insert
  <2>8. QED
    BY <2>2, <2>7 DEF Table!TableNext
<1>4. ASSUME NEW i \in Indexes, DeleteRow(i)
      PROVE  Table!TableNext \/ UNCHANGED <<GroupCells, fresh>>
  <2>1. active' = active /\ frozen' = frozen
    BY <1>4 DEF DeleteRow
  <2>2. fresh' = fresh
    BY <2>1 DEF Frozen
  <2>3. GroupCells' = IF i < GroupRows
                      THEN [GroupCells EXCEPT ![i + 1].live = FALSE]
                      ELSE GroupCells
    BY <1>1, <1>4, DeleteStep
  <2>4. i \in Nat
    BY RowAssumption
  <2>5. CASE i < GroupRows
    <3>1. i + 1 \in DOMAIN GroupCells
      BY <1>2, <2>4, <2>5
    <3>2. Table!Delete(i + 1)
      BY <2>2, <2>3, <2>5 DEF Table!Delete
    <3>3. QED
      BY <3>1, <3>2 DEF Table!TableNext
  <2>6. CASE ~ i < GroupRows
    BY <2>2, <2>3, <2>6
  <2>7. QED
    BY <2>5, <2>6
<1>5. ASSUME Freeze PROVE UNCHANGED <<GroupCells, fresh>>
  <2>1. /\ group' = group /\ frozen = Null /\ frozen' = active /\ active' = <<>>
    BY <1>5 DEF Freeze
  <2>2. GroupCells' = GroupCells
    BY <2>1, SameGroup
  <2>3. active # Null
    BY <1>2, NullAssumption
  <2>4. Frozen = <<>> /\ Frozen' = active
    BY <2>1, <2>3 DEF Frozen
  <2>5. fresh = active
    BY <1>2, <2>4
  <2>6. fresh' = active
    BY <1>2, <2>1, <2>4
  <2>7. QED
    BY <2>2, <2>5, <2>6
<1>6. ASSUME Install PROVE Table!TableNext
  <2> DEFINE k == Len(frozen)
  <2>1. frozen # Null /\ frozen' = Null /\ active' = active
    BY <1>6 DEF Install
  <2>2. /\ frozen \in Seq(AllRows)
        /\ LiveCells(GroupCells) \in Seq(LiveCellsOf(AllRows))
        /\ GroupCells' = LiveCells(GroupCells)
                           \o [j \in 1..k |-> [row |-> frozen[j], live |-> TRUE]]
    BY <1>1, <1>6, InstallStep
  <2>3. Frozen = frozen /\ Frozen' = <<>>
    BY <2>1 DEF Frozen
  <2>4. k \in Nat /\ fresh = frozen \o active
    BY <2>2, <2>3
  <2>5. \A j \in 1..k : fresh[j] = frozen[j]
    BY <1>2, <2>2, <2>4
  <2>6. k \in 0..Len(fresh)
    BY <1>2, <2>2, <2>4
  <2>7. SubSeq(fresh, k + 1, Len(fresh)) = active
    BY <1>2, <2>2, <2>4
  <2>8. fresh' = active
    BY <1>2, <2>1, <2>3
  <2>9. Table!LiveCells = LiveCells(GroupCells)
    BY DEF Table!LiveCells, LiveCells, Table!FoldLeft, Table!MapThenFoldSet, Table!Max, FoldLeft, MapThenFoldSet, Max
  <2>10. [j \in 1..k |-> [row |-> frozen[j], live |-> TRUE]]
           = [j \in 1..k |-> Table!Alive(fresh[j])]
    BY <2>5 DEF Table!Alive
  <2>11. Table!Compact(k)
    BY <2>2, <2>7, <2>8, <2>9, <2>10 DEF Table!Compact
  <2>12. QED
    BY <2>6, <2>11 DEF Table!TableNext
<1>7. CASE UNCHANGED vars
  <2>1. group' = group /\ active' = active /\ frozen' = frozen
    BY <1>7 DEF vars
  <2>2. GroupCells' = GroupCells
    BY <2>1, SameGroup
  <2>3. fresh' = fresh
    BY <2>1 DEF Frozen
  <2>4. QED
    BY <2>2, <2>3
<1>8. QED
  BY <1>3, <1>4, <1>5, <1>6, <1>7 DEF Next

\* The rows a table holds, whatever holds them: inserting, deleting and
\* compacting do to them what RowTable promises, and nothing else.
THEOREM Refinement == Spec => ImplementsRowTable
<1>1. QED
  BY RefinesInit, RefinesNext, Invariance, PTL
  DEF Spec, ImplementsRowTable, Table!TableSpec

(* Comparisons of words, bit by bit.                                         *)

LEMMA BitsDetermine ==
  ASSUME NEW x \in Words, NEW y \in Words, Bits(x) = Bits(y)
  PROVE  x = y
  BY UnsignedOfBits

\* x and y agree on the bits from b on.
AgreeFrom(b, x, y) == \A c \in Pos : c >= b => (c \in Bits(x) <=> c \in Bits(y))

LEMMA HighPartsAgree ==
  ASSUME NEW x \in Words, NEW y \in Words, NEW b \in 0..W, AgreeFrom(b, x, y)
  PROVE  x \div 2^b = y \div 2^b
<1>0. /\ W \in Nat /\ x \in Int /\ y \in Int
      /\ Pos = 0..(W - 1) /\ x \in 0..(2^W - 1) /\ y \in 0..(2^W - 1)
      /\ 2^W \in Nat \ {0}
  BY WordSizes DEF Words
<1> DEFINE Ok(c) == x \div 2^c = y \div 2^c
           B == {m \in 0..(W - b) : ~ Ok(W - m)}
<1>1. B = {}
  <2> SUFFICES ASSUME B # {} PROVE FALSE
    OBVIOUS
  <2>1. B \in SUBSET Nat /\ \A m \in 0..(W - b) : m \notin B => Ok(W - m)
    OBVIOUS
  <2>2. PICK m \in B : \A k \in B : m <= k
    BY <2>1, LeastElement
  <2>3. m \in 0..(W - b) /\ ~ Ok(W - m)
    OBVIOUS
  <2> HIDE DEF B
  <2>4. ASSUME m = 0 PROVE FALSE
    <3> DEFINE p == 2^W
    <3>1. x = p * 0 + x /\ y = p * 0 + y /\ 0 \in Int
      BY <1>0
    <3>2. x \in 0..(p - 1) /\ y \in 0..(p - 1) /\ p \in Nat \ {0}
      BY <1>0
    <3> HIDE DEF p
    <3>3. x \div p = 0 /\ y \div p = 0
      BY <1>0, <3>1, <3>2, DivModUnique
    <3>4. W - m = W
      BY <1>0, <2>4
    <3>5. QED
      BY <2>3, <3>3, <3>4 DEF p
  <2> DEFINE c == W - m
             p == 2^c
  <2>5. c \in Pos /\ c >= b /\ W - (m - 1) = c + 1 /\ m - 1 \in 0..(W - b)
    BY <1>0, <2>3, <2>4
  <2>6. Ok(c + 1)
    BY <2>1, <2>2, <2>5
  <2>7. p \in Nat \ {0} /\ 2^(c + 1) = 2 * p
    BY <2>5, WordSizes
  <2>8. x \div (2 * p) = (x \div p) \div 2 /\ y \div (2 * p) = (y \div p) \div 2
    <3> HIDE DEF p
    <3>1. QED
      BY ONLY <1>0, <2>7, ModDouble
  <2>9. (x \div p) % 2 = 1 <=> (y \div p) % 2 = 1
    BY <2>5 DEF AgreeFrom, Bits
  <2>10. x \div p \in Int /\ y \div p \in Int
    <3> HIDE DEF p
    <3>1. QED
      BY ONLY <1>0, <2>7, DivMod
  <2> DEFINE u == x \div p
             v == y \div p
  <2>11. u \in Int /\ v \in Int /\ u \div 2 = v \div 2 /\ (u % 2 = 1 <=> v % 2 = 1)
    BY <2>6, <2>7, <2>8, <2>9, <2>10
  <2> HIDE DEF u, v
  <2>12. u = v
    BY ONLY <2>11
  <2>13. QED
    BY <2>3, <2>12 DEF u, v
<1>2. W - b \in 0..(W - b) /\ W - (W - b) = b
  BY <1>0
<1>3. Ok(b)
  BY <1>1, <1>2
<1>4. QED
  BY <1>3

\* The highest bit on which two words differ tells which is greater.
LEMMA HighestDifference ==
  ASSUME NEW x \in Words, NEW y \in Words, NEW b \in Pos,
         b \in Bits(x), b \notin Bits(y), AgreeFrom(b + 1, x, y)
  PROVE  x > y
<1> DEFINE p == 2^b
           u == x \div p
           v == y \div p
<1>1. b + 1 \in 0..W /\ x \in Int /\ y \in Int
  BY WordSizes DEF Words
<1>2. x \div 2^(b + 1) = y \div 2^(b + 1)
  BY <1>1, HighPartsAgree
<1>3. p \in Nat \ {0} /\ 2^(b + 1) = 2 * p
  BY WordSizes
<1>4. u % 2 = 1 /\ v % 2 # 1
  BY DEF Bits
<1> HIDE DEF p
<1>5. x \div (2 * p) = u \div 2 /\ y \div (2 * p) = v \div 2
  BY ONLY <1>1, <1>3, ModDouble
<1>6. /\ u \in Int /\ x % p \in 0..(p - 1) /\ x = p * u + (x % p)
      /\ v \in Int /\ y % p \in 0..(p - 1) /\ y = p * v + (y % p)
  BY ONLY <1>1, <1>3, DivMod
<1>7. u \div 2 = v \div 2
  BY <1>2, <1>3, <1>5
<1> HIDE DEF u, v
<1>8. u = v + 1
  BY <1>4, <1>6, <1>7
<1>9. p * u = p * v + p
  BY <1>3, <1>6, <1>8
<1>10. p * v \in Int
  BY <1>3, <1>6
<1>11. QED
  BY <1>1, <1>3, <1>6, <1>9, <1>10

LEMMA GreaterWords ==
  ASSUME NEW x \in Words, NEW y \in Words
  PROVE  x > y <=> \E b \in Pos : b \in Bits(x) /\ b \notin Bits(y) /\ AgreeFrom(b + 1, x, y)
<1>0. x \in Int /\ y \in Int /\ W \in Nat \ {0} /\ Pos = 0..(W - 1)
  BY WordSizes DEF Words
<1>1. ASSUME x > y
      PROVE  \E b \in Pos : b \in Bits(x) /\ b \notin Bits(y) /\ AgreeFrom(b + 1, x, y)
  <2> DEFINE D == {b \in Pos : ~ (b \in Bits(x) <=> b \in Bits(y))}
             m == Max(D)
  <2>1. D # {}
    <3>1. x # y
      BY <1>0, <1>1
    <3>2. Bits(x) # Bits(y)
      BY <3>1, BitsDetermine
    <3>3. QED
      BY <3>2 DEF Bits
  <2>2. W - 1 \in Nat /\ D \in SUBSET (0..(W - 1))
    BY <1>0
  <2>3. m \in D /\ \A b \in D : m >= b
    BY <2>1, <2>2, MaxIsGreatest
  <2> HIDE DEF m
  <2>4. m \in Pos /\ ~ (m \in Bits(x) <=> m \in Bits(y)) /\ m \in Int
    BY <1>0, <2>3
  <2>5. AgreeFrom(m + 1, x, y) /\ AgreeFrom(m + 1, y, x)
    <3>1. ASSUME NEW c \in Pos, c >= m + 1 PROVE c \in Bits(x) <=> c \in Bits(y)
      <4>1. c \in Int /\ ~ m >= c
        BY <1>0, <2>4, <3>1
      <4>2. c \notin D
        BY <2>3, <4>1
      <4>3. QED
        BY <4>2
    <3>2. QED
      BY <3>1 DEF AgreeFrom
  <2>6. CASE m \in Bits(x)
    BY <2>4, <2>5, <2>6
  <2>7. CASE m \notin Bits(x)
    <3>1. y > x
      BY <2>4, <2>5, <2>7, HighestDifference
    <3>2. QED
      BY <1>0, <1>1, <3>1
  <2>8. QED
    BY <2>6, <2>7
<1>2. QED
  BY <1>1, HighestDifference

(* The numeric comparisons of a row group.                                   *)

\* The compared bits are all below some bit, and no word has one above them.
LEMMA ComparedBits ==
  ASSUME NEW g, NEW rows, LaidOut(g, rows), NEW b \in 1..NumBlocks(Len(rows)),
         NEW r \in 0..(Len(Part(rows, b)) - 1), NEW target \in Words
  PROVE  \E m \in Pos : /\ CompareBits(g, target) = 0..m
                        /\ Bits(target) \subseteq 0..m
                        /\ NumWord(Part(rows, b)[r + 1].num) \subseteq 0..m
<1> DEFINE S == {0} \cup ActivePlanes(g.blocks) \cup Bits(target)
           m == Max(S)
           row == Part(rows, b)[r + 1]
<1>1. W \in Nat \ {0} /\ Pos = 0..(W - 1) /\ W - 1 \in Nat
  BY WordSizes
<1>2. S \in SUBSET (0..(W - 1)) /\ S # {}
  BY <1>1 DEF ActivePlanes, Bits
<1>3. m \in S /\ \A x \in S : m >= x
  BY <1>1, <1>2, MaxIsGreatest
<1>4. CompareBits(g, target) = 0..m
  BY DEF CompareBits
<1>5. Bits(target) \subseteq S
  OBVIOUS
<1>6. NumWord(row.num) \subseteq S
  <2>1. /\ Holds(g.blocks[b], Part(rows, b)) /\ b \in DOMAIN g.blocks
    BY DEF LaidOut, RowGroups
  <2>2. ASSUME NEW c \in NumWord(row.num) PROVE c \in S
    <3>1. c \in Pos
      BY DEF NumWord, Bits
    <3>2. r \in g.blocks[b].num.planes[c]
      BY <2>1, <3>1 DEF Holds
    <3>3. c \in ActivePlanes(g.blocks)
      BY <2>1, <3>1, <3>2 DEF ActivePlanes
    <3>4. QED
      BY <3>3
  <2>3. QED
    BY <2>2
<1> HIDE DEF S, m
<1>7. \A x \in S : x \in 0..m
  BY <1>1, <1>2, <1>3
<1>8. m \in Pos
  BY <1>1, <1>2, <1>3
<1>9. QED
  BY <1>4, <1>5, <1>6, <1>7, <1>8

\* Planes that hold word x at position r, compared with word y up to bit m.
LEMMA PlanesCompare ==
  ASSUME NEW planes, NEW r \in Pos, NEW x \in Words, NEW y \in Words, NEW m \in Pos,
         \A c \in Pos : r \in planes[c] <=> c \in Bits(x),
         Bits(x) \subseteq 0..m, Bits(y) \subseteq 0..m
  PROVE  /\ r \in CmpEq(planes, 0..m, Bits(y)) <=> x = y
         /\ r \in CmpGt(planes, 0..m, Bits(y)) <=> x > y
         /\ r \in CmpLt(planes, 0..m, Bits(y)) <=> x < y
<1>1. /\ 0..m \subseteq Pos /\ Pos = 0..(W - 1) /\ W \in Nat /\ m \in Int
      /\ x \in Int /\ y \in Int
      /\ Bits(x) \subseteq Pos /\ Bits(y) \subseteq Pos
  BY WordSizes DEF Bits, Words
<1>2. r \in CmpEq(planes, 0..m, Bits(y)) <=> x = y
  <2>1. r \in CmpEq(planes, 0..m, Bits(y))
          <=> \A c \in 0..m : c \in Bits(x) <=> c \in Bits(y)
    BY <1>1 DEF CmpEq
  <2>2. (\A c \in 0..m : c \in Bits(x) <=> c \in Bits(y)) <=> Bits(x) = Bits(y)
    BY <1>1
  <2>3. QED
    BY <2>1, <2>2, BitsDetermine
<1>3. ASSUME NEW c \in 0..m
      PROVE  /\ r \in CmpEq(planes, Above(0..m, c), Bits(y)) <=> AgreeFrom(c + 1, x, y)
             /\ r \in CmpEq(planes, Above(0..m, c), Bits(y)) <=> AgreeFrom(c + 1, y, x)
  <2>1. r \in CmpEq(planes, Above(0..m, c), Bits(y))
          <=> \A d \in Above(0..m, c) : d \in Bits(x) <=> d \in Bits(y)
    BY <1>1 DEF CmpEq, Above
  <2>2. \A d \in Pos : d \in Above(0..m, c) <=> d >= c + 1 /\ d \in 0..m
    BY <1>1 DEF Above
  <2>3. Above(0..m, c) \subseteq Pos
    BY <1>1 DEF Above
  <2>4. (\A d \in Above(0..m, c) : d \in Bits(x) <=> d \in Bits(y))
          <=> \A d \in Pos : d >= c + 1 => (d \in Bits(x) <=> d \in Bits(y))
    BY <2>2, <2>3
  <2>5. QED
    BY <2>1, <2>4 DEF AgreeFrom
<1>4. r \in CmpGt(planes, 0..m, Bits(y)) <=> x > y
  <2>1. r \in CmpGt(planes, 0..m, Bits(y))
          <=> \E c \in (0..m) \ Bits(y) :
                 r \in CmpEq(planes, Above(0..m, c), Bits(y)) /\ r \in planes[c]
    BY DEF CmpGt
  <2>2. r \in CmpGt(planes, 0..m, Bits(y))
          <=> \E c \in Pos : c \in Bits(x) /\ c \notin Bits(y) /\ AgreeFrom(c + 1, x, y)
    BY <1>1, <1>3, <2>1
  <2>3. QED
    BY <2>2, GreaterWords
<1>5. r \in CmpLt(planes, 0..m, Bits(y)) <=> x < y
  <2>1. r \in CmpLt(planes, 0..m, Bits(y))
          <=> \E c \in (0..m) \cap Bits(y) :
                 r \in CmpEq(planes, Above(0..m, c), Bits(y)) /\ r \notin planes[c]
    BY DEF CmpLt
  <2>2. r \in CmpLt(planes, 0..m, Bits(y))
          <=> \E c \in Pos : c \in Bits(y) /\ c \notin Bits(x) /\ AgreeFrom(c + 1, y, x)
    BY <1>1, <1>3, <2>1
  <2>3. r \in CmpLt(planes, 0..m, Bits(y)) <=> y > x
    BY <2>2, GreaterWords
  <2>4. QED
    BY <1>1, <2>3
<1>6. QED
  BY <1>2, <1>4, <1>5

\* Signed numbers of one sign are ordered as their words are.
LEMMA SignedOrder ==
  ASSUME NEW x \in Words, NEW y \in Words
  PROVE  /\ Signed(x) = Signed(y) <=> x = y
         /\ (Signed(x) >= 0 <=> Signed(y) >= 0) =>
               /\ x > y <=> Signed(x) > Signed(y)
               /\ x < y <=> Signed(x) < Signed(y)
<1> DEFINE p == 2^W
           h == 2^(W - 1)
<1>1. p \in Nat \ {0} /\ h \in Nat \ {0} /\ p = 2 * h
  BY WordSizes
<1>2. x \in 0..(p - 1) /\ y \in 0..(p - 1)
  BY DEF Words
<1>3. /\ Signed(x) = IF x >= h THEN x - p ELSE x
      /\ Signed(y) = IF y >= h THEN y - p ELSE y
  BY DEF Signed
<1> HIDE DEF p, h
<1>4. QED
  BY <1>1, <1>2, <1>3

LEMMA NumericScan ==
  ASSUME NEW g, NEW rows, LaidOut(g, rows), NEW b \in 1..NumBlocks(Len(rows)),
         NEW r \in 0..(Len(Part(rows, b)) - 1), NEW p \in NumPredicates,
         Plain(Part(rows, b)[r + 1], p)
  PROVE  r \in PredicateMask(g, g.blocks[b], p)
           <=> MatchNumeric(Part(rows, b)[r + 1].num, p)
<1> DEFINE row == Part(rows, b)[r + 1]
           n == row.num
           x == n % 2^W
           y == p.value
           planes == g.blocks[b].num.planes
<1>1. p.col = "num" /\ p.op \in {"EQ", "GT", "LT"} /\ y \in Words
  BY DEF NumPredicates, Words
<1>2. Part(rows, b) \in Seq(AllRows) /\ r \in Pos /\ row \in AllRows
  <2>1. Part(rows, b) \in Seq(AllRows) /\ 0..(Len(Part(rows, b)) - 1) \subseteq Pos
    BY FilledRows
  <2>2. QED
    BY <2>1
<1>3. n # Null /\ n \in Numbers
  <2>1. n # Null
    BY <1>1 DEF Plain
  <2>2. QED
    BY <1>2, <2>1, RowAssumption DEF Numbers
<1>4. x \in Words /\ Signed(x) = n
  BY <1>3, SignedOfWord
<1>5. NumWord(n) = Bits(x)
  BY <1>3 DEF NumWord
<1>6. Holds(g.blocks[b], Part(rows, b))
  BY DEF LaidOut
<1>7. \A c \in Pos : r \in planes[c] <=> c \in Bits(x)
  BY <1>5, <1>6 DEF Holds
<1>8. PICK m \in Pos : /\ CompareBits(g, p.value) = 0..m
                       /\ Bits(p.value) \subseteq 0..m /\ Bits(x) \subseteq 0..m
  <2>1. p.value \in Words
    BY <1>1
  <2>2. PICK m \in Pos : /\ CompareBits(g, p.value) = 0..m
                         /\ Bits(p.value) \subseteq 0..m
                         /\ NumWord(Part(rows, b)[r + 1].num) \subseteq 0..m
    BY ONLY LaidOut(g, rows), b \in 1..NumBlocks(Len(rows)),
            r \in 0..(Len(Part(rows, b)) - 1), <2>1, ComparedBits
  <2>3. NumWord(Part(rows, b)[r + 1].num) = Bits(x)
    BY <1>5
  <2>4. QED
    BY <2>2, <2>3
<1>9. p.op = "EQ" \/ (Signed(x) >= 0 <=> Signed(y) >= 0)
  BY <1>1, <1>4 DEF Plain
<1>10. PredicateMask(g, g.blocks[b], p) = CASE p.op = "EQ" -> CmpEq(planes, 0..m, Bits(y))
                                [] p.op = "GT" -> CmpGt(planes, 0..m, Bits(y))
                                [] p.op = "LT" -> CmpLt(planes, 0..m, Bits(y))
  BY <1>1, <1>8 DEF PredicateMask, NumericMask
<1>11. MatchNumeric(n, p) <=> CASE p.op = "EQ" -> Signed(x) = Signed(y)
                                [] p.op = "GT" -> Signed(x) > Signed(y)
                                [] p.op = "LT" -> Signed(x) < Signed(y)
  BY <1>1, <1>4 DEF MatchNumeric
<1>17. /\ \A c \in Pos : r \in planes[c] <=> c \in Bits(x)
       /\ r \in Pos /\ x \in Words /\ y \in Words /\ m \in Pos
       /\ Bits(x) \subseteq 0..m /\ Bits(y) \subseteq 0..m
  BY <1>1, <1>2, <1>4, <1>7, <1>8
<1> HIDE DEF planes, x, y, n
<1>12. /\ r \in CmpEq(planes, 0..m, Bits(y)) <=> x = y
       /\ r \in CmpGt(planes, 0..m, Bits(y)) <=> x > y
       /\ r \in CmpLt(planes, 0..m, Bits(y)) <=> x < y
  BY ONLY <1>17, PlanesCompare
<1>13. CASE p.op = "EQ"
  BY <1>1, <1>4, <1>10, <1>11, <1>12, <1>13, SignedOrder DEF n
<1>14. CASE p.op = "GT"
  BY <1>1, <1>4, <1>9, <1>10, <1>11, <1>12, <1>14, SignedOrder DEF n
<1>15. CASE p.op = "LT"
  BY <1>1, <1>4, <1>9, <1>10, <1>11, <1>12, <1>15, SignedOrder DEF n
<1>16. QED
  BY <1>1, <1>13, <1>14, <1>15


LEMMA BitOfSkeleton ==
  ASSUME NEW s \in Seq(Chars), NEW b
  PROVE  b \in Skeleton(s)
           <=> \E i \in 1..Len(s) : /\ i <= SkelChars
                                    /\ \E c \in Bits(s[i]) : b = CharBits * (i - 1) + c
<1>1. SkelChars \in Int /\ Len(s) \in Int
  BY WordAssumption
<1>2. 1..Min({Len(s), SkelChars}) = {i \in 1..Len(s) : i <= SkelChars}
  BY <1>1, MinOfTwo
<1> DEFINE I == 1..Min({Len(s), SkelChars})
<1>3. Skeleton(s) = UNION {{CharBits * (i - 1) + c : c \in Bits(s[i])} : i \in I}
  BY DEF Skeleton
<1>4. \A i : i \in I <=> i \in 1..Len(s) /\ i <= SkelChars
  BY <1>2
<1> HIDE DEF I
<1>5. b \in Skeleton(s)
        <=> \E i \in I : b \in {CharBits * (i - 1) + c : c \in Bits(s[i])}
  BY <1>3
<1>6. \A i : b \in {CharBits * (i - 1) + c : c \in Bits(s[i])}
               <=> \E c \in Bits(s[i]) : b = CharBits * (i - 1) + c
  OBVIOUS
<1>7. QED
  BY <1>4, <1>5, <1>6

\* The skeleton of a pattern and that of a string which begins with it agree
\* on the bits of the pattern's characters.
LEMMA SkeletonOfPrefix ==
  ASSUME NEW t \in Seq(Chars), NEW s \in Seq(Chars), IsPrefix(t, s),
         NEW b \in Pos, b < Len(t) * CharBits
  PROVE  b \in Skeleton(t) <=> b \in Skeleton(s)
<1>1. Len(t) \in Nat /\ Len(s) \in Nat /\ CharBits \in Nat \ {0} /\ b \in Nat
  BY WordAssumption, WordSizes
<1>2. Len(t) <= Len(s) /\ \A i \in 1..Len(t) : t[i] = s[i]
  <2>1. Len(t) <= Len(s) /\ SubSeq(t, 1, Len(t)) = SubSeq(s, 1, Len(t))
    BY DEF IsPrefix
  <2>2. \A i \in 1..Len(t) : SubSeq(s, 1, Len(t))[i] = s[i]
    <3>1. \A i \in 1..Len(t) : s[i] \in Chars
      BY <1>1, <2>1
    <3>2. \A i \in 1..(Len(t) - 1 + 1) : SubSeq(s, 1, Len(t))[i] = s[1 + i - 1]
      BY <1>1, <3>1, SubSeqProperties
    <3>3. QED
      BY <1>1, <3>2
  <2>3. SubSeq(t, 1, Len(t)) = t
    BY SubSeqFull
  <2>4. QED
    BY <2>1, <2>2, <2>3
<1>3. ASSUME NEW i \in Nat, NEW c \in Nat, b = CharBits * (i - 1) + c
      PROVE  i <= Len(t)
  <2> DEFINE L == Len(t)
  <2>1. CharBits * (i - 1) < L * CharBits
    BY <1>1, <1>3
  <2>2. ASSUME i >= L + 1 PROVE FALSE
    <3>1. CharBits * (i - 1) >= CharBits * L
      BY <1>1, <2>2
    <3>2. QED
      BY <1>1, <2>1, <3>1
  <2>3. QED
    BY <1>1, <2>2
<1>4. ASSUME NEW i \in Nat, NEW c \in Bits(s[i]), b = CharBits * (i - 1) + c
      PROVE  i <= Len(t)
  <2>1. c \in Nat
    BY WordSizes DEF Bits
  <2>2. QED
    BY <1>3, <1>4, <2>1
<1>5. QED
  BY <1>1, <1>2, <1>4, BitOfSkeleton

\* The signature of a pattern is part of that of every string that contains
\* it, unless the pattern is a single character.
LEMMA KimOfPart ==
  ASSUME NEW t \in Seq(Chars), NEW s \in Seq(Chars), Len(t) # 1,
         NEW i \in 1..(Len(s) - Len(t) + 1), SubSeq(s, i, i + Len(t) - 1) = t
  PROVE  KimSignature(t) \subseteq KimSignature(s)
<1>1. Len(t) \in Nat /\ Len(s) \in Nat
  OBVIOUS
<1>2. KimSignature(t) = UNION {GramBits[SubSeq(t, j, j + 1)] : j \in 1..(Len(t) - 1)}
  BY DEF KimSignature
<1>3. CASE Len(t) = 0
  <2>1. 1..(Len(t) - 1) = {}
    BY <1>3
  <2>2. QED
    BY <1>2, <2>1
<1>4. CASE Len(t) > 1
  <2>1. KimSignature(s) = UNION {GramBits[SubSeq(s, j, j + 1)] : j \in 1..(Len(s) - 1)}
    BY <1>1, <1>4 DEF KimSignature
  <2>2. ASSUME NEW j \in 1..(Len(t) - 1)
        PROVE  /\ SubSeq(t, j, j + 1) = SubSeq(s, i + j - 1, (i + j - 1) + 1)
               /\ i + j - 1 \in 1..(Len(s) - 1)
    <3>1. /\ i \in 1..Len(s) /\ i + Len(t) - 1 \in 1..Len(s)
          /\ j \in 1..((i + Len(t) - 1) - i + 1) /\ j + 1 \in 1..((i + Len(t) - 1) - i + 1)
      BY <1>1, <1>4
    <3>2. SubSeq(SubSeq(s, i, i + Len(t) - 1), j, j + 1) = SubSeq(s, i + j - 1, i + (j + 1) - 1)
      BY <3>1, SubSeqOfSubSeq
    <3>3. i + (j + 1) - 1 = (i + j - 1) + 1
      BY <1>1
    <3>4. i + j - 1 \in 1..(Len(s) - 1)
      BY <1>1, <1>4
    <3>5. QED
      BY <3>2, <3>3, <3>4
  <2>3. QED
    BY <1>2, <2>1, <2>2
<1>5. QED
  BY <1>1, <1>3, <1>4


LEMMA CleanPatternTyped ==
  ASSUME NEW p \in StrPredicates
  PROVE  /\ p.value \in Seq(Chars) /\ p.col = "str"
         /\ p.op \in {"EQ", "LIKE_PREFIX", "LIKE_CONTAINS"}
         /\ ChopLast(p.value) \in Seq(Chars)
         /\ CleanPattern(p) \in Seq(Chars)
<1>1. /\ p.value \in Seq(Chars) /\ p.col = "str"
      /\ p.op \in {"EQ", "LIKE_PREFIX", "LIKE_CONTAINS"}
  BY DEF StrPredicates
<1>2. ASSUME NEW s \in Seq(Chars)
      PROVE  ChopLast(s) \in Seq(Chars)
  <2>1. CASE s = <<>> \/ Last(s) # Percent
    BY <2>1 DEF ChopLast
  <2>2. CASE s # <<>> /\ Last(s) = Percent
    <3>1. \A i \in 1..(Len(s) - 1) : s[i] \in Chars
      OBVIOUS
    <3>2. SubSeq(s, 1, Len(s) - 1) \in Seq(Chars)
      BY <3>1, SubSeqProperties
    <3>3. QED
      BY <2>2, <3>2 DEF ChopLast, Front
  <2>3. QED
    BY <2>1, <2>2
<1>3. ASSUME NEW s \in Seq(Chars)
      PROVE  ChopFirst(s) \in Seq(Chars)
  BY HeadTailProperties DEF ChopFirst
<1>4. CleanPattern(p) \in Seq(Chars)
  BY <1>1, <1>2, <1>3 DEF CleanPattern
<1>5. QED
  BY <1>1, <1>2, <1>4

\* No string that satisfies a plain predicate is lost to the skeleton and the
\* signature of its pattern.
LEMMA StringScan ==
  ASSUME NEW block, NEW rows \in Seq(AllRows), Holds(block, rows), Len(rows) <= W,
         NEW r \in 0..(Len(rows) - 1), NEW p \in StrPredicates,
         Plain(rows[r + 1], p), MatchString(rows[r + 1].str, p)
  PROVE  r \in StringMask(block, p)
<1> DEFINE s == rows[r + 1].str
           clean == CleanPattern(p)
           word == SkeletonConstant(p)
<1>1. r \in Pos /\ rows[r + 1] \in AllRows /\ CharBits \in Nat \ {0} /\ SkelBits \in Nat \ {0}
  <2>1. CharBits \in Nat \ {0} /\ SkelChars \in Nat \ {0}
    BY WordAssumption
  <2>2. SkelBits \in Nat \ {0}
    BY <2>1 DEF SkelBits
  <2>3. QED
    BY <2>1, <2>2, WordSizes
<1>2. /\ p.value \in Seq(Chars) /\ p.col = "str"
      /\ p.op \in {"EQ", "LIKE_PREFIX", "LIKE_CONTAINS"}
      /\ ChopLast(p.value) \in Seq(Chars)
      /\ clean \in Seq(Chars)
  BY CleanPatternTyped
<1>3. s # Null /\ s \in Seq(Chars) /\ Text(s) = s
  <2>1. s # Null
    BY <1>2 DEF Plain
  <2>2. QED
    BY <1>1, <2>1, RowAssumption DEF Text
<1>4. /\ \A b \in Pos : r \in block.skel.planes[b] <=> b \in Skeleton(s)
      /\ \A b \in Pos : r \in block.kim.planes[b] <=> b \in KimSignature(s)
  BY <1>3 DEF Holds
<1>5. KimSignature(clean) \subseteq KimSignature(s)
        => r \in CmpKim(block.kim.planes, KimSignature(clean))
  <2>1. KimSignature(s) \in SUBSET Pos
    BY <1>3, KimIsWord
  <2>2. QED
    BY <1>1, <1>4, <2>1 DEF CmpKim
<1>6. ASSUME NEW n \in Nat,
             \A b \in Pos : b < (IF n \in 1..SkelBits THEN n ELSE SkelBits)
                              => (b \in Skeleton(s) <=> b \in word)
      PROVE  r \in CmpSkeleton(block.skel.planes, n, word)
  <2> DEFINE k == IF n \in 1..SkelBits THEN n ELSE SkelBits
  <2>1. k \in 1..SkelBits /\ SkelBits <= W
    BY <1>1, WordAssumption
  <2>2. \A b \in 0..(k - 1) : b \in Pos /\ b < k
    BY <2>1, <1>1, WordSizes
  <2>3. r \in CmpEq(block.skel.planes, 0..(k - 1), word)
    BY <1>1, <1>4, <1>6, <2>2 DEF CmpEq
  <2>4. QED
    BY <2>3 DEF CmpSkeleton
<1>7. CASE p.op = "EQ"
  <2>1. s = p.value /\ clean = p.value /\ ChopLast(p.value) = p.value
    BY <1>2, <1>7 DEF MatchString, CleanPattern, Plain
  <2>2. word = Skeleton(s)
    BY <2>1 DEF SkeletonConstant
  <2>3. Min({SkelBits, (Len(clean) + 1) * CharBits}) \in Nat
    <3>1. SkelBits \in Int /\ (Len(clean) + 1) * CharBits \in Nat
      BY <1>1, <1>2
    <3>2. QED
      BY <1>1, <3>1, MinOfTwo
  <2>4. r \in CmpSkeleton(block.skel.planes, Min({SkelBits, (Len(clean) + 1) * CharBits}), word)
    BY <1>6, <2>2, <2>3
  <2>5. r \in CmpKim(block.kim.planes, KimSignature(clean))
    BY <1>5, <2>1
  <2>6. QED
    BY <1>7, <2>4, <2>5 DEF StringMask
<1>8. CASE p.op = "LIKE_PREFIX"
  <2>1. clean = ChopLast(p.value) /\ clean # <<>> /\ IsPrefix(clean, s)
    BY <1>2, <1>8 DEF MatchString, CleanPattern, Plain
  <2> DEFINE bits == Len(clean) * CharBits
             n == Min({SkelBits, bits})
  <2>2. bits \in Nat \ {0} /\ n \in 1..SkelBits /\ n <= bits
    <3>1. Len(clean) \in Nat \ {0}
      BY <1>2, <2>1
    <3>2. bits \in Nat \ {0}
      BY <1>1, <3>1
    <3>3. QED
      BY <1>1, <3>2, MinOfTwo
  <2>3. word = Skeleton(clean)
    BY <2>1 DEF SkeletonConstant
  <2>4. \A b \in Pos : b < n => (b \in Skeleton(s) <=> b \in word)
    <3>1. ASSUME NEW b \in Pos, b < n
          PROVE  b < Len(clean) * CharBits
      BY <2>2, <3>1, WordSizes
    <3>2. QED
      BY <1>2, <1>3, <2>1, <2>3, <3>1, SkeletonOfPrefix
  <2>5. r \in CmpSkeleton(block.skel.planes, n, word)
    <3> HIDE DEF n, word, s
    <3>1. n \in Nat /\ n \in 1..SkelBits
      BY <1>1, <2>2
    <3>2. \A b \in Pos : b < (IF n \in 1..SkelBits THEN n ELSE SkelBits)
                            => (b \in Skeleton(s) <=> b \in word)
      BY <2>4, <3>1
    <3>3. QED
      BY <1>6, <3>1, <3>2
  <2>6. QED
    BY <1>8, <2>5 DEF StringMask
<1>9. CASE p.op = "LIKE_CONTAINS"
  <2>1. Len(clean) # 1
    BY <1>9 DEF Plain
  <2>2. PICK i \in 1..(Len(s) - Len(clean) + 1) : SubSeq(s, i, i + Len(clean) - 1) = clean
    BY <1>9 DEF MatchString
  <2>3. KimSignature(clean) \subseteq KimSignature(s)
    BY <1>2, <1>3, <2>1, <2>2, KimOfPart
  <2>4. QED
    BY <1>5, <1>9, <2>3 DEF StringMask
<1>10. QED
  BY <1>2, <1>7, <1>8, <1>9


\* One row and one predicate: the masks of the scan and the verification of
\* the string against the tail payload decide as the memtable scan does.
LEMMA PredicateScan ==
  ASSUME NEW g, NEW rows, LaidOut(g, rows), NEW b \in 1..NumBlocks(Len(rows)),
         NEW r \in 0..(Len(Part(rows, b)) - 1),
         NEW p \in NumPredicates \cup StrPredicates, Plain(Part(rows, b)[r + 1], p)
  PROVE  LET row == Part(rows, b)[r + 1]
         IN  (/\ r \in PredicateMask(g, g.blocks[b], p)
              /\ p.col = "str" => MatchString(g.blocks[b].tail[r + 1], p))
             <=> (/\ row[p.col] # Null
                  /\ IF p.col = "str" THEN MatchString(row.str, p)
                                      ELSE MatchNumeric(row.num, p))
<1> DEFINE row == Part(rows, b)[r + 1]
<1>1. row[p.col] # Null
  BY DEF Plain
<1>2. CASE p \in NumPredicates
  <2>1. p.col # "str"
    BY <1>2 DEF NumPredicates
  <2>2. r \in PredicateMask(g, g.blocks[b], p) <=> MatchNumeric(row.num, p)
    BY <1>2, NumericScan
  <2>3. QED
    BY <1>1, <2>1, <2>2
<1>3. CASE p \in StrPredicates
  <2>1. p.col = "str"
    BY <1>3 DEF StrPredicates
  <2>2. Part(rows, b) \in Seq(AllRows) /\ Len(Part(rows, b)) \in 1..W
    BY FilledRows
  <2>3. Holds(g.blocks[b], Part(rows, b))
    BY DEF LaidOut
  <2>4. g.blocks[b].tail[r + 1] = row.str
    <3>1. r + 1 \in 1..Len(Part(rows, b))
      BY <2>2
    <3>2. g.blocks[b].tail = [i \in 1..Len(Part(rows, b)) |-> Text(Part(rows, b)[i].str)]
      BY <2>3 DEF Holds
    <3>3. row.str # Null
      BY <1>1, <2>1
    <3>4. QED
      BY <3>1, <3>2, <3>3 DEF Text
  <2>5. MatchString(row.str, p) => r \in StringMask(g.blocks[b], p)
    <3>1. Len(Part(rows, b)) <= W
      BY <2>2, WordSizes
    <3>2. QED
      BY <1>3, <2>2, <2>3, <3>1, StringScan
  <2>6. PredicateMask(g, g.blocks[b], p) = StringMask(g.blocks[b], p)
    BY <2>1 DEF PredicateMask
  <2>7. QED
    BY <1>1, <2>1, <2>4, <2>5, <2>6
<1>4. QED
  BY <1>2, <1>3

LEMMA InvScans == IInv => ScanFindsMatchingRows
<1> SUFFICES ASSUME IInv, NEW q \in Queries, NEW n \in 1..GroupRows,
                    \A p \in q : Plain(GroupCells[n].row, p)
             PROVE  n \in Found(q) <=> /\ GroupCells[n].live
                                       /\ RowMatches(GroupCells[n].row, q)
  BY DEF ScanFindsMatchingRows
<1>1. group # Null
  BY DEF GroupRows
<1>2. PICK rows : LaidOut(group, rows)
  BY <1>1 DEF IInv, Layout
<1>3. GroupRows = Len(rows) /\ n \in 1..Len(rows)
  BY <1>1, <1>2 DEF GroupRows, LaidOut
<1> DEFINE b == (n - 1) \div W + 1
           r == (n - 1) % W
           block == group.blocks[b]
<1>4. /\ b \in 1..NumBlocks(Len(rows))
      /\ r \in Pos /\ r \in 0..(Len(Part(rows, b)) - 1)
      /\ Part(rows, b)[r + 1] = rows[n]
  BY <1>2, <1>3, RowInBlock
<1>5. GroupCells[n] = [row |-> rows[n], live |-> r \in block.delete_mask]
  <2>1. Cells(group) = [k \in 1..Len(rows) |->
                          [row |-> rows[k],
                           live |-> (k - 1) % W \in
                                      group.blocks[(k - 1) \div W + 1].delete_mask]]
    BY <1>2, CellsOfLayout
  <2>2. QED
    BY <1>1, <1>3, <2>1 DEF GroupCells
<1>6. GroupCells[n].row = rows[n] /\ (GroupCells[n].live <=> r \in block.delete_mask)
  <2> DEFINE alive == r \in block.delete_mask
  <2>1. GroupCells[n] = [row |-> rows[n], live |-> alive]
    BY <1>5
  <2> HIDE DEF alive
  <2>2. GroupCells[n].row = rows[n] /\ GroupCells[n].live = alive
    BY <2>1
  <2>3. QED
    BY <2>2 DEF alive
<1>7. RowsInBlock(group, b) = 0..(Len(Part(rows, b)) - 1)
  BY <1>2, <1>4, FilledRows
<1>8. q \subseteq NumPredicates \cup StrPredicates
  BY QueryAssumption
<1>9. ASSUME NEW p \in q
      PROVE  (/\ r \in PredicateMask(group, block, p)
              /\ p.col = "str" => MatchString(block.tail[r + 1], p))
             <=> (/\ rows[n][p.col] # Null
                  /\ IF p.col = "str" THEN MatchString(rows[n].str, p)
                                      ELSE MatchNumeric(rows[n].num, p))
  <2>1. Plain(Part(rows, b)[r + 1], p) /\ p \in NumPredicates \cup StrPredicates
    BY <1>4, <1>6, <1>8
  <2> HIDE DEF b, r
  <2>2. QED
    BY <1>2, <1>4, <2>1, PredicateScan
<1>10. n \in Found(q) <=> r \in FinalMask(group, b, q)
  BY <1>3 DEF Found
<1>11. r \in FinalMask(group, b, q)
         <=> /\ r \in block.delete_mask
             /\ \A p \in q : /\ r \in PredicateMask(group, block, p)
                             /\ p.col = "str" => MatchString(block.tail[r + 1], p)
  <2> HIDE DEF b, r
  <2>1. QED
    BY <1>4, <1>7 DEF FinalMask
<1>12. RowMatches(rows[n], q)
         <=> \A p \in q : /\ rows[n][p.col] # Null
                          /\ IF p.col = "str" THEN MatchString(rows[n].str, p)
                                              ELSE MatchNumeric(rows[n].num, p)
  BY DEF RowMatches
<1> HIDE DEF b, r, block
<1>13. QED
  BY <1>6, <1>9, <1>10, <1>11, <1>12

\* A compaction does not change what a query finds: on plain rows and
\* predicates the bit-serial comparisons, skeletons and signatures that
\* MicroOpCompiler emits, with the verification behind them, find a row of a
\* block exactly if it is alive and MemTable's scan would have found it.
THEOREM ScanCorrect == Spec => []ScanFindsMatchingRows
<1>1. QED
  BY Invariance, InvScans, PTL

(***************************************************************************)
(* What the answers add up. A row group does not look at the rows: it adds up *)
(* powers of two, one for every bit set in a plane, and takes the bits of the *)
(* rows it found. That this is the sum over those rows is shown by adding up *)
(* the same table of numbers by rows and by planes.                        *)
(***************************************************************************)

\* The block of the n-th row of a group, and its place there.
BlockOf(n) == (n - 1) \div W + 1
PlaceOf(n) == (n - 1) % W

\* The rows of a block that a scan finds are the places of those it finds
\* of the group.
LEMMA MaskOfBlock ==
  ASSUME NEW rows, group # Null, LaidOut(group, rows), NEW q
  PROVE  /\ GroupRows = Len(rows) /\ Found(q) \in SUBSET (1..Len(rows))
         /\ DOMAIN group.blocks = 1..NumBlocks(Len(rows))
         /\ \A n \in 1..Len(rows) : /\ BlockOf(n) \in 1..NumBlocks(Len(rows))
                                    /\ PlaceOf(n) \in Pos
                                    /\ n = W * (BlockOf(n) - 1) + PlaceOf(n) + 1
         /\ \A b \in 1..NumBlocks(Len(rows)) :
              /\ FinalMask(group, b, q) \in SUBSET Pos
              /\ FinalMask(group, b, q) \subseteq 0..(Len(Part(rows, b)) - 1)
              /\ FinalMask(group, b, q)
                   = {PlaceOf(n) : n \in {m \in Found(q) : BlockOf(m) = b}}
<1>1. /\ GroupRows = Len(rows) /\ Len(rows) \in Nat /\ group.num_rows = Len(rows)
      /\ DOMAIN group.blocks = 1..NumBlocks(Len(rows))
  BY DEF LaidOut, GroupRows, RowGroups
<1>2. /\ Found(q) \in SUBSET (1..Len(rows))
      /\ \A n \in 1..Len(rows) : n \in Found(q) <=> PlaceOf(n) \in FinalMask(group, BlockOf(n), q)
  BY <1>1 DEF Found, BlockOf, PlaceOf
<1>3. ASSUME NEW n \in 1..Len(rows)
      PROVE  /\ BlockOf(n) \in 1..NumBlocks(Len(rows))
             /\ PlaceOf(n) \in Pos
             /\ n = W * (BlockOf(n) - 1) + PlaceOf(n) + 1
  <2> DEFINE d == (n - 1) \div W
             m == (n - 1) % W
  <2>1. d + 1 \in 1..NumBlocks(Len(rows)) /\ m \in Pos /\ n = W * d + m + 1
    BY <1>1, BlockOfRow
  <2>2. d \in Int /\ (d + 1) - 1 = d
    <3>1. n - 1 \in Int /\ W \in Nat \ {0}
      BY <1>1, WordSizes
    <3>2. QED
      BY <3>1, DivMod
  <2>3. BlockOf(n) = d + 1 /\ PlaceOf(n) = m
    BY DEF BlockOf, PlaceOf
  <2> HIDE DEF d, m
  <2>4. QED
    BY <2>1, <2>2, <2>3
<1>4. ASSUME NEW b \in 1..NumBlocks(Len(rows))
      PROVE  /\ FinalMask(group, b, q) \in SUBSET Pos
             /\ FinalMask(group, b, q) \subseteq 0..(Len(Part(rows, b)) - 1)
             /\ FinalMask(group, b, q)
                  = {PlaceOf(n) : n \in {m \in Found(q) : BlockOf(m) = b}}
  <2>1. RowsInBlock(group, b) = 0..(Len(Part(rows, b)) - 1) /\ RowsInBlock(group, b) \subseteq Pos
    BY FilledRows
  <2>2. FinalMask(group, b, q) \subseteq RowsInBlock(group, b)
    BY DEF FinalMask
  <2>3. ASSUME NEW r \in FinalMask(group, b, q)
        PROVE  \E n \in Found(q) : BlockOf(n) = b /\ PlaceOf(n) = r
    <3> DEFINE n == W * (b - 1) + r + 1
    <3>1. r \in 0..(Min({W, Len(rows) - W * (b - 1)}) - 1)
      BY <1>1, <2>2 DEF RowsInBlock
    <3>2. /\ n \in 1..Len(rows)
          /\ (W * (b - 1) + r) \div W + 1 = b /\ (W * (b - 1) + r) % W = r
      BY ONLY <1>1, <3>1, b \in 1..NumBlocks(Len(rows)), RowOfBlock
    <3>3. n - 1 = W * (b - 1) + r
      <4>1. W * (b - 1) \in Int /\ r \in Int
        BY <2>1, <2>2, WordSizes
      <4>2. QED
        BY <4>1
    <3>4. BlockOf(n) = b /\ PlaceOf(n) = r
      BY <3>2, <3>3 DEF BlockOf, PlaceOf
    <3> HIDE DEF n
    <3>5. QED
      BY <1>2, <3>2, <3>4
  <2>4. QED
    BY <1>2, <2>1, <2>2, <2>3
<1>5. QED
  BY <1>1, <1>2, <1>3, <1>4

\* The number a sum adds up for a row, and the word its bit planes make.
NumberOf(row) == IF row.num = Null THEN 0 ELSE row.num
WordOf(row) == Unsigned(NumWord(row.num))

\* A number is the word of its bits, read back with its sign.
LEMMA NumbersAndWords ==
  ASSUME NEW row \in AllRows
  PROVE  /\ NumberOf(row) \in Int /\ WordOf(row) \in Int
         /\ NumWord(row.num) \in SUBSET Pos
         /\ WordOf(row) % 2^W = NumberOf(row) % 2^W
         /\ Signed(WordOf(row)) = NumberOf(row)
<1> DEFINE p == 2^W
<1>1. p \in Nat \ {0} /\ 2^(W - 1) \in Nat \ {0}
  BY WordSizes
<1>2. CASE row.num = Null
  <2>1. NumWord(row.num) = {} /\ NumberOf(row) = 0
    BY <1>2 DEF NumWord, NumberOf
  <2>2. Unsigned({}) = 0
    <3>1. Unsigned({}) = SumOver([x \in {} |-> 2^x])
      BY UnsignedSums
    <3> DEFINE v == [x \in {} |-> 2^x]
    <3>2. v \in [{} -> Int] /\ IsFiniteSet({})
      BY FS_EmptySet
    <3> HIDE DEF v
    <3>3. SumOver(v) = 0
      BY <3>2, PartSums
    <3>4. QED
      BY <3>1, <3>3 DEF v
  <2>3. WordOf(row) = 0
    BY <2>1, <2>2 DEF WordOf
  <2>4. Signed(0) = 0
    BY <1>1 DEF Signed
  <2>5. QED
    BY <2>1, <2>3, <2>4
<1>3. CASE row.num # Null
  <2> DEFINE n == row.num
             x == n % 2^W
  <2>1. n \in Numbers /\ n \in Int
    BY <1>1, <1>3, RowAssumption DEF Numbers
  <2>2. x \in Words /\ Signed(x) = n
    BY <2>1, SignedOfWord
  <2>3. NumWord(n) = Bits(x) /\ NumberOf(row) = n
    BY <1>3 DEF NumWord, NumberOf
  <2>4. Unsigned(Bits(x)) = x /\ Bits(x) \in SUBSET Pos
    <3> HIDE DEF x
    <3>1. QED
      BY <2>2, UnsignedOfBits
  <2>5. WordOf(row) = x
    BY <2>3, <2>4 DEF WordOf
  <2>6. x % p = n % p
    <3>1. x \in 0..(p - 1) /\ x \in Int
      BY <1>1, <2>2 DEF Words
    <3>2. x = p * 0 + x
      BY <1>1, <3>1
    <3> HIDE DEF p, x
    <3>3. x % p = x
      BY <1>1, <3>1, <3>2, DivModUnique
    <3>4. QED
      BY <3>3 DEF x, p
  <2>7. x \in Int
    BY <1>1, <2>2 DEF Words
  <2> HIDE DEF x
  <2>8. QED
    BY <2>1, <2>2, <2>3, <2>4, <2>5, <2>6, <2>7
<1>4. QED
  BY <1>2, <1>3

\* Adding up the bit planes of a set of rows adds up the words of the rows.
LEMMA PlanesAddUp ==
  ASSUME NEW planes \in [Pos -> SUBSET Pos], NEW mask \in SUBSET Pos, NEW m \in Pos,
         \A bit \in Pos : planes[bit] # {} => bit <= m,
         NEW w \in [Pos -> SUBSET Pos],
         \A r \in mask : \A bit \in Pos : r \in planes[bit] <=> bit \in w[r]
  PROVE  SumOver([bit \in 0..m |-> 2^bit * Cardinality(mask \cap planes[bit])])
           = PartSum([r \in Pos |-> Unsigned(w[r])], mask)
<1> DEFINE f == [bit \in Pos |-> [r \in Pos |-> IF r \in mask \cap planes[bit] THEN 2^bit ELSE 0]]
           rs == RowSums(f, Pos, Pos)
           cs == ColumnSums(f, Pos, Pos, Pos)
           one == [r \in Pos |-> 1]
           uw == [r \in Pos |-> Unsigned(w[r])]
<1>1. IsFiniteSet(Pos) /\ \A bit \in Pos : 2^bit \in Int
  BY WordSizes
<1>2. f \in [Pos -> [Pos -> Int]]
  BY <1>1
<1>3. ASSUME NEW bit \in Pos
      PROVE  rs[bit] = 2^bit * Cardinality(mask \cap planes[bit]) /\ rs[bit] \in Int
  <2> DEFINE X == mask \cap planes[bit]
             v == f[bit]
             k == 2^bit
             o == [r \in Pos |-> IF r \in X THEN 1 ELSE 0]
  <2>1. X \in SUBSET Pos /\ v \in [Pos -> Int] /\ o \in [Pos -> Int] /\ k \in Int
    BY <1>1, <1>2
  <2>2. \A r \in Pos : v[r] = k * o[r] /\ (r \notin X => v[r] = 0)
    BY <1>1
  <2>3. rs[bit] = PartSum(v, Pos)
    BY DEF RowSums
  <2>4. \A r \in Pos \ X : v[r] = 0
    BY <2>2
  <2>5. one \in [Pos -> Int] /\ \A r \in Pos : one[r] = 1
    OBVIOUS
  <2>6. \A r \in X : o[r] = one[r]
    BY <2>1
  <2> HIDE DEF v, o, k, X, one
  <2>7. PartSum(v, Pos) = PartSum(v, X)
    BY <1>1, <2>1, <2>4, PartSumDrops
  <2>8. PartSum(v, X) = k * PartSum(o, X)
    <3>1. \A r \in Pos : v[r] = k * o[r]
      BY <2>2
    <3>2. QED
      BY <1>1, <2>1, <3>1, PartSumScales
  <2>9. PartSum(o, X) = PartSum(one, X)
    BY <2>6, PartSumSame
  <2>10. PartSum(one, X) = Cardinality(X)
    BY <1>1, <2>1, <2>5, PartSumOnes
  <2>11. PartSum(v, X) \in Int
    BY <1>1, <2>1, PartSums
  <2>12. QED
    BY <2>3, <2>7, <2>8, <2>9, <2>10, <2>11 DEF X, k
<1>4. rs \in [Pos -> Int]
  BY <1>3 DEF RowSums
<1>5. SumOver([bit \in 0..m |-> 2^bit * Cardinality(mask \cap planes[bit])])
        = PartSum(rs, 0..m)
  <2>1. 0..m \subseteq Pos
    BY WordSizes
  <2>2. [bit \in 0..m |-> 2^bit * Cardinality(mask \cap planes[bit])]
          = [bit \in 0..m |-> rs[bit]]
    BY <1>3, <2>1
  <2>3. QED
    BY <2>2, Zenon DEF PartSum
<1>6. PartSum(rs, Pos) = PartSum(rs, 0..m)
  <2> DEFINE L == 0..m
  <2>1. L \in SUBSET Pos /\ Pos \in SUBSET Pos
    BY WordSizes
  <2>2. ASSUME NEW bit \in Pos \ L PROVE rs[bit] = 0
    <3> DEFINE c == Cardinality(mask \cap planes[bit])
               k == 2^bit
    <3>1. mask \cap planes[bit] = {}
      BY WordSizes
    <3>2. c = 0
      BY <3>1, FS_EmptySet
    <3>3. rs[bit] = k * c /\ k \in Int
      BY <1>1, <1>3
    <3> HIDE DEF c, k
    <3>4. QED
      BY <3>2, <3>3
  <2> HIDE DEF rs, L
  <2>3. PartSum(rs, Pos) = PartSum(rs, L)
    BY <1>1, <1>4, <2>1, <2>2, PartSumDrops
  <2>4. QED
    BY <2>3 DEF L
<1>7. PartSum(rs, Pos) = PartSum(cs, Pos)
  <2> HIDE DEF f
  <2>1. QED
    BY <1>1, <1>2, RowsAndColumns
<1>8. ASSUME NEW r \in Pos
      PROVE  cs[r] = IF r \in mask THEN uw[r] ELSE 0
  <2> DEFINE v == Column(f, Pos, r)
             T == w[r]
             pw == [bit \in Pos |-> 2^bit]
  <2>1. cs[r] = PartSum(v, Pos)
    BY DEF ColumnSums
  <2>2. \A bit \in Pos : v[bit] = IF r \in mask \cap planes[bit] THEN 2^bit ELSE 0
    BY DEF Column
  <2>3. v \in [Pos -> Int]
    BY <1>2 DEF Column
  <2>4. CASE r \notin mask
    <3>1. \A bit \in Pos : v[bit] = 0
      BY <2>2, <2>4
    <3> HIDE DEF v
    <3>2. PartSum(v, Pos) = 0
      BY <1>1, <2>3, <3>1, PartSumZero
    <3>3. QED
      BY <2>1, <2>4, <3>2
  <2>5. CASE r \in mask
    <3>1. T \in SUBSET Pos /\ Pos \in SUBSET Pos
      OBVIOUS
    <3>2. \A bit \in Pos \ T : v[bit] = 0
      BY <2>2, <2>5
    <3>3. \A bit \in T : v[bit] = pw[bit]
      BY <2>2, <2>5, <3>1
    <3> HIDE DEF v, T, pw
    <3>4. PartSum(v, Pos) = PartSum(v, T)
      BY <1>1, <2>3, <3>1, <3>2, PartSumDrops
    <3>5. PartSum(v, T) = PartSum(pw, T)
      BY <3>3, PartSumSame
    <3>6. PartSum(pw, T) = SumOver([bit \in T |-> 2^bit])
      <4>1. [bit \in T |-> pw[bit]] = [bit \in T |-> 2^bit]
        BY <3>1 DEF pw
      <4>2. QED
        BY <4>1, Zenon DEF PartSum
    <3>7. Unsigned(T) = SumOver([bit \in T |-> 2^bit])
      BY <3>1, UnsignedSums
    <3>8. uw[r] = Unsigned(T)
      BY DEF T
    <3> HIDE DEF uw, cs
    <3>9. QED
      BY <2>1, <2>5, <3>4, <3>5, <3>6, <3>7, <3>8
  <2>6. QED
    BY <2>4, <2>5
<1>9. cs \in [Pos -> Int]
  <2>1. ASSUME NEW r \in Pos PROVE PartSum(Column(f, Pos, r), Pos) \in Int
    <3> DEFINE v == Column(f, Pos, r)
    <3>1. v \in [Pos -> Int]
      BY <1>2 DEF Column
    <3> HIDE DEF v
    <3>2. PartSum(v, Pos) \in Int
      BY <1>1, <3>1, PartSums
    <3>3. QED
      BY <3>2 DEF v
  <2>2. QED
    BY <2>1 DEF ColumnSums
<1> HIDE DEF rs, cs, uw
<1>10. PartSum(cs, Pos) = PartSum(cs, mask)
  <2>1. \A r \in Pos \ mask : cs[r] = 0
    BY <1>8
  <2>2. mask \in SUBSET Pos /\ Pos \in SUBSET Pos
    OBVIOUS
  <2>3. QED
    BY <1>1, <1>9, <2>1, <2>2, PartSumDrops
<1>11. PartSum(cs, mask) = PartSum(uw, mask)
  <2>1. \A r \in mask : cs[r] = uw[r]
    BY <1>8
  <2>2. QED
    BY <2>1, PartSumSame
<1>12. QED
  BY <1>5, <1>6, <1>7, <1>10, <1>11 DEF uw

\* Values laid out by place add up to those of the rows found in the block.
LEMMA BlockSum ==
  ASSUME NEW rows, group # Null, LaidOut(group, rows), NEW q,
         NEW x \in [1..Len(rows) -> Int], NEW y \in [Pos -> Int],
         NEW b \in 1..NumBlocks(Len(rows)),
         \A n \in 1..Len(rows) : BlockOf(n) = b => y[PlaceOf(n)] = x[n]
  PROVE  PartSum(y, FinalMask(group, b, q)) = PartSum(x, {n \in Found(q) : BlockOf(n) = b})
<1> DEFINE N == 1..Len(rows)
           S == {n \in N : BlockOf(n) = b}
           T == {n \in Found(q) : BlockOf(n) = b}
           v == [n \in S |-> x[n]]
           h == [n \in S |-> PlaceOf(n)]
<1>1. /\ IsFiniteSet(N) /\ IsFiniteSet(Pos)
      /\ Found(q) \in SUBSET N
      /\ FinalMask(group, b, q) = {PlaceOf(n) : n \in T}
      /\ \A n \in N : /\ PlaceOf(n) \in Pos
                      /\ n = W * (BlockOf(n) - 1) + PlaceOf(n) + 1
  <2>1. Len(rows) \in Nat
    BY DEF LaidOut
  <2>2. IsFiniteSet(N) /\ IsFiniteSet(Pos)
    BY <2>1, WordSizes, FS_Interval
  <2>3. Found(q) \in SUBSET N
    BY MaskOfBlock
  <2>4. FinalMask(group, b, q) = {PlaceOf(n) : n \in T}
    BY MaskOfBlock
  <2>5. \A n \in N : /\ PlaceOf(n) \in Pos
                     /\ n = W * (BlockOf(n) - 1) + PlaceOf(n) + 1
    BY MaskOfBlock
  <2>6. QED
    BY <2>2, <2>3, <2>4, <2>5
<1>2. S \in SUBSET N /\ T \in SUBSET S
  BY <1>1
<1>3. v \in [S -> Int] /\ h \in [S -> Pos]
  BY <1>1
<1>4. \A n, k \in S : h[n] = h[k] => n = k
  BY <1>1
<1>5. \A n \in S : v[n] = y[h[n]]
  OBVIOUS
<1> DEFINE mask == FinalMask(group, b, q)
<1>6. mask \in SUBSET Pos /\ \A r \in Pos : r \in mask <=> \E n \in T : r = h[n]
  BY <1>1, <1>2
<1>7. \A n \in T : v[n] = x[n]
  BY <1>2
<1>9. IsFiniteSet(S)
  BY <1>1, <1>2, FS_Subset
<1> HIDE DEF S, T, v, h, mask
<1>10. PartSum(v, T) = PartSum(y, mask)
  <2>1. IsFiniteSet(Pos)
    BY <1>1
  <2>2. Renames(h, S, v, T, Pos, y, mask)
    BY <2>1, <1>2, <1>3, <1>4, <1>5, <1>6, <1>9 DEF Renames
  <2>3. QED
    BY <2>2, PartSumImage
<1>11. PartSum(v, T) = PartSum(x, T)
  BY <1>7, PartSumSame
<1>12. QED
  BY <1>10, <1>11 DEF T, mask

\* The sums of the blocks add up to that of all rows found.
LEMMA GroupSum ==
  ASSUME NEW rows, group # Null, LaidOut(group, rows), NEW q,
         NEW x \in [1..Len(rows) -> Int], NEW g \in [1..NumBlocks(Len(rows)) -> Int],
         \A b \in 1..NumBlocks(Len(rows)) :
            g[b] = PartSum(x, {n \in Found(q) : BlockOf(n) = b})
  PROVE  /\ SumOver(g) = PartSum(x, Found(q))
         /\ IsFiniteSet(Found(q)) /\ Found(q) \in SUBSET (1..Len(rows))
<1> DEFINE S == Found(q)
           K == 1..NumBlocks(Len(rows))
           v == [n \in S |-> x[n]]
           k == [n \in S |-> BlockOf(n)]
<1>1. /\ IsFiniteSet(1..Len(rows)) /\ Found(q) \in SUBSET (1..Len(rows))
      /\ \A n \in 1..Len(rows) : BlockOf(n) \in K
  <2>1. Len(rows) \in Nat
    BY DEF LaidOut
  <2>2. IsFiniteSet(1..Len(rows))
    BY <2>1, FS_Interval
  <2>3. Found(q) \in SUBSET (1..Len(rows))
    BY MaskOfBlock
  <2>4. \A n \in 1..Len(rows) : BlockOf(n) \in K
    BY MaskOfBlock
  <2>5. QED
    BY <2>2, <2>3, <2>4
<1>2. IsFiniteSet(S) /\ IsFiniteSet(K)
  <2>1. IsFiniteSet(S)
    BY <1>1, FS_Subset
  <2>2. NumBlocks(Len(rows)) \in Int
    <3>1. Len(rows) + W - 1 \in Int /\ W \in Nat \ {0}
      <4>1. Len(rows) \in Nat
        BY DEF LaidOut
      <4>2. QED
        BY <4>1, WordSizes
    <3>2. QED
      BY <3>1, DivMod DEF NumBlocks
  <2>3. QED
    BY <2>1, <2>2, FS_Interval
<1>3. v \in [S -> Int] /\ k \in [S -> K]
  BY <1>1
<1> DEFINE G == [b \in K |-> {n \in S : BlockOf(n) = b}]
<1>4. ASSUME NEW b \in K
      PROVE  g[b] = PartSum(v, G[b])
  <2> DEFINE T == {n \in S : BlockOf(n) = b}
  <2>1. G[b] = T
    OBVIOUS
  <2>2. g[b] = PartSum(x, T)
    OBVIOUS
  <2>3. \A n \in T : v[n] = x[n]
    OBVIOUS
  <2>4. PartSum(v, T) = PartSum(v, G[b])
    BY <2>1, Zenon
  <2> HIDE DEF T, v, G
  <2>5. PartSum(v, T) = PartSum(x, T)
    BY <2>3, PartSumSame
  <2>6. QED
    BY <2>2, <2>4, <2>5
<1>5. /\ g \in [K -> Int] /\ G \in [K -> SUBSET S]
      /\ \A b \in K : \A n \in S : n \in G[b] <=> k[n] = b
  OBVIOUS
<1>6. \A n \in S : v[n] = x[n]
  OBVIOUS
<1> HIDE DEF v, k, K, S, G
<1>7. PartSum(g, K) = PartSum(v, S)
  <2>1. Grouped(k, S, v, K, G, g)
    BY <1>2, <1>3, <1>4, <1>5 DEF Grouped
  <2>2. QED
    BY <2>1, PartSumGroups
<1>8. PartSum(v, S) = PartSum(x, S)
  BY <1>6, PartSumSame
<1>9. SumOver(g) = PartSum(g, K)
  BY <1>2, <1>5, PartSums
<1>10. QED
  BY <1>1, <1>2, <1>7, <1>8, <1>9 DEF S

\* The highest active plane of a block is among those added up.
LEMMA TopPlane ==
  ASSUME NEW rows, LaidOut(group, rows), NEW b \in 1..NumBlocks(Len(rows))
  PROVE  /\ MaxPlane(group, b) \in Pos
         /\ \A bit \in Pos : group.blocks[b].num.planes[bit] # {} => bit <= MaxPlane(group, b)
<1> DEFINE block == group.blocks[b]
           one == ActivePlanes(<<block>>)
           all == ActivePlanes(group.blocks)
           planned == Max({0} \cup all)
<1>1. W - 1 \in Nat /\ Pos = 0..(W - 1) /\ 0 \in Pos
  BY WordSizes
<1>2. b \in DOMAIN group.blocks
  BY DEF LaidOut, RowGroups
<1>3. \A bit \in Pos : bit \in all <=> \E k \in DOMAIN group.blocks : group.blocks[k].num.planes[bit] # {}
  BY DEF ActivePlanes
<1>4. \A bit \in Pos : bit \in one <=> block.num.planes[bit] # {}
  <2> HIDE DEF block
  <2>1. DOMAIN <<block>> = {1} /\ <<block>>[1] = block
    OBVIOUS
  <2>2. QED
    BY <2>1 DEF ActivePlanes
<1>5. all \subseteq Pos /\ one \subseteq Pos
  BY DEF ActivePlanes
<1> HIDE DEF one, all
<1>6. planned \in {0} \cup all /\ \A y \in {0} \cup all : planned >= y
  BY <1>1, <1>5, MaxIsGreatest
<1> DEFINE S == {0} \cup (one \cap 0..planned)
<1>7. MaxPlane(group, b) = Max(S)
  BY DEF MaxPlane, one, all
<1> HIDE DEF planned
<1>8. S \in SUBSET (0..(W - 1)) /\ S # {}
  BY <1>1, <1>5
<1> HIDE DEF S
<1>9. Max(S) \in S /\ \A y \in S : Max(S) >= y
  BY <1>1, <1>8, MaxIsGreatest
<1>10. ASSUME NEW bit \in Pos, block.num.planes[bit] # {}
       PROVE  bit <= Max(S)
  <2>1. bit \in one /\ bit \in all
    BY <1>2, <1>3, <1>4, <1>10
  <2>2. planned >= bit /\ bit \in Nat /\ planned \in Nat
    BY <1>1, <1>5, <1>6, <2>1
  <2>3. bit \in S
    BY <2>1, <2>2 DEF S
  <2>4. QED
    BY <1>1, <1>8, <1>9, <2>2, <2>3
<1>11. QED
  BY <1>1, <1>7, <1>8, <1>9, <1>10

\* What the compiled sum of a block computes: the planes up to the top one.
LEMMA PlaneSumOfBlock ==
  ASSUME NEW rows, group # Null, LaidOut(group, rows), NEW q,
         NEW b \in 1..NumBlocks(Len(rows))
  PROVE  PlaneSum(group, b, q)
           = PartSum([n \in 1..Len(rows) |-> WordOf(rows[n])],
                     {n \in Found(q) : BlockOf(n) = b}) % 2^W
<1> DEFINE planes == group.blocks[b].num.planes
           mask == FinalMask(group, b, q)
           m == MaxPlane(group, b)
           w == [r \in Pos |-> {bit \in Pos : r \in planes[bit]}]
           x == [n \in 1..Len(rows) |-> WordOf(rows[n])]
           y == [r \in Pos |-> Unsigned(w[r])]
           T == {n \in Found(q) : BlockOf(n) = b}
<1>1. Holds(group.blocks[b], Part(rows, b)) /\ rows \in Seq(AllRows)
  BY DEF LaidOut
<1>2. planes \in [Pos -> SUBSET Pos]
  <2>1. group.blocks[b] \in Blocks
    BY <1>1 DEF Holds
  <2>2. group.blocks[b].num \in Tiles
    BY <2>1 DEF Blocks
  <2>3. QED
    BY <2>2 DEF Tiles
<1>3. mask \in SUBSET Pos
  BY MaskOfBlock
<1>4. m \in Pos /\ \A bit \in Pos : planes[bit] # {} => bit <= m
  BY TopPlane
<1>5. w \in [Pos -> SUBSET Pos] /\ \A r \in mask : \A bit \in Pos : r \in planes[bit] <=> bit \in w[r]
  BY <1>3
<1>6. PlaneSum(group, b, q)
        = SumOver([bit \in 0..m |-> 2^bit * Cardinality(mask \cap planes[bit])]) % 2^W
  BY DEF PlaneSum
<1>7. ASSUME NEW n \in 1..Len(rows), BlockOf(n) = b
      PROVE  y[PlaceOf(n)] = x[n]
  <2> DEFINE r == PlaceOf(n)
  <2>1. /\ r \in Pos /\ r \in 0..(Len(Part(rows, b)) - 1)
        /\ Part(rows, b)[r + 1] = rows[n]
    BY <1>7, RowInBlock DEF BlockOf, PlaceOf
  <2>2. rows[n] \in AllRows
    BY <1>1
  <2>3. NumWord(rows[n].num) \in SUBSET Pos
    BY <2>2, NumbersAndWords
  <2>4. \A bit \in Pos : r \in planes[bit] <=> bit \in NumWord(rows[n].num)
    BY <1>1, <2>1 DEF Holds
  <2>5. w[r] = NumWord(rows[n].num)
    BY <2>1, <2>3, <2>4
  <2>6. y[r] = Unsigned(w[r])
    BY <2>1
  <2>7. QED
    BY <2>5, <2>6 DEF WordOf
<1>8. x \in [1..Len(rows) -> Int]
  <2>1. \A n \in 1..Len(rows) : rows[n] \in AllRows
    BY <1>1
  <2>2. QED
    BY <2>1, NumbersAndWords
<1>9. y \in [Pos -> Int]
  <2>1. ASSUME NEW r \in Pos PROVE Unsigned(w[r]) \in Int
    <3> DEFINE X == w[r]
               pw == [bit \in Pos |-> 2^bit]
    <3>1. X \in SUBSET Pos /\ IsFiniteSet(Pos) /\ pw \in [Pos -> Int]
      BY WordSizes
    <3> HIDE DEF X
    <3>2. [bit \in X |-> 2^bit] = [bit \in X |-> pw[bit]]
      BY <3>1
    <3>3. Unsigned(X) = PartSum(pw, X)
      BY <3>1, <3>2, UnsignedSums, Zenon DEF PartSum
    <3> HIDE DEF pw
    <3>4. PartSum(pw, X) \in Int
      BY <3>1, PartSums
    <3>5. QED
      BY <3>3, <3>4 DEF X
  <2>2. QED
    BY <2>1
<1> HIDE DEF planes, mask, m, w, x
<1>10. SumOver([bit \in 0..m |-> 2^bit * Cardinality(mask \cap planes[bit])])
         = PartSum(y, mask)
  BY <1>2, <1>3, <1>4, <1>5, PlanesAddUp
<1> HIDE DEF y
<1>11. PartSum(y, mask) = PartSum(x, T)
  <2>1. \A n \in 1..Len(rows) : BlockOf(n) = b => y[PlaceOf(n)] = x[n]
    BY <1>7
  <2>2. PartSum(y, FinalMask(group, b, q)) = PartSum(x, {n \in Found(q) : BlockOf(n) = b})
    BY ONLY <2>1, <1>8, <1>9, group # Null, LaidOut(group, rows),
            b \in 1..NumBlocks(Len(rows)), BlockSum
  <2>3. QED
    BY <2>2 DEF mask
<1>12. QED
  BY <1>6, <1>10, <1>11 DEF x

(***************************************************************************)
(* The parts a query adds up, row groups, frozen memtable and active one, as *)
(* one sum over the rows it found.                                         *)
(***************************************************************************)

\* The numbers that a sum over the rows adds up.
RowNumbers(rows) == [n \in 1..Len(rows) |-> NumberOf(rows[n])]

\* These are integers, one for every row.
LEMMA RowNumbersTyped ==
  ASSUME NEW rows \in Seq(AllRows)
  PROVE  /\ RowNumbers(rows) \in [1..Len(rows) -> Int]
         /\ IsFiniteSet(1..Len(rows)) /\ DOMAIN rows = 1..Len(rows)
         /\ \A n \in 1..Len(rows) : rows[n] \in AllRows
<1>1. Len(rows) \in Nat /\ DOMAIN rows = 1..Len(rows) /\ \A n \in 1..Len(rows) : rows[n] \in AllRows
  OBVIOUS
<1>2. \A n \in 1..Len(rows) : NumberOf(rows[n]) \in Int
  BY <1>1, NumbersAndWords
<1>3. IsFiniteSet(1..Len(rows))
  BY <1>1, FS_Interval
<1>4. QED
  BY <1>1, <1>2, <1>3 DEF RowNumbers

\* A row group counts the rows it finds.
LEMMA GroupCounts ==
  ASSUME NEW rows, group # Null, LaidOut(group, rows), NEW q
  PROVE  /\ GroupExecute(group, q).count = Cardinality(Found(q))
         /\ IsFiniteSet(Found(q)) /\ Found(q) \in SUBSET (1..Len(rows))
<1> DEFINE N == 1..Len(rows)
           K == 1..NumBlocks(Len(rows))
           x == [n \in N |-> 1]
           y == [r \in Pos |-> 1]
           g == [b \in K |-> Cardinality(FinalMask(group, b, q))]
<1>1. rows \in Seq(AllRows)
  BY DEF LaidOut
<1>2. IsFiniteSet(N) /\ IsFiniteSet(Pos)
  BY <1>1, RowNumbersTyped, WordSizes
<1>3. /\ DOMAIN group.blocks = K
      /\ \A b \in K : FinalMask(group, b, q) \in SUBSET Pos
  BY MaskOfBlock
<1>4. /\ x \in [N -> Int] /\ \A n \in N : x[n] = 1
      /\ y \in [Pos -> Int] /\ \A r \in Pos : y[r] = 1
  OBVIOUS
<1>5. ASSUME NEW b \in K
      PROVE  PartSum(y, FinalMask(group, b, q)) = PartSum(x, {n \in Found(q) : BlockOf(n) = b})
  <2>1. \A n \in 1..Len(rows) : BlockOf(n) = b => y[PlaceOf(n)] = x[n]
    BY MaskOfBlock
  <2>2. x \in [1..Len(rows) -> Int]
    OBVIOUS
  <2>0. y \in [Pos -> Int]
    OBVIOUS
  <2>3. b \in 1..NumBlocks(Len(rows))
    OBVIOUS
  <2> HIDE DEF x, y, N, K, g
  <2>4. PartSum(y, FinalMask(group, b, q)) = PartSum(x, {n \in Found(q) : BlockOf(n) = b})
    BY ONLY <2>1, <2>2, <2>0, group # Null, LaidOut(group, rows), <2>3, BlockSum
  <2>5. QED
    BY <2>4
<1> HIDE DEF x, y
<1>6. ASSUME NEW b \in K
      PROVE  g[b] = PartSum(x, {n \in Found(q) : BlockOf(n) = b}) /\ g[b] \in Int
  <2> DEFINE mask == FinalMask(group, b, q)
  <2>1. mask \in SUBSET Pos /\ g[b] = Cardinality(mask)
    BY <1>3
  <2> HIDE DEF mask
  <2>2. PartSum(y, mask) = Cardinality(mask) /\ PartSum(y, mask) \in Int
    BY <1>2, <1>4, <2>1, PartSumOnes, PartSums
  <2>3. PartSum(y, mask) = PartSum(x, {n \in Found(q) : BlockOf(n) = b})
    BY <1>5 DEF mask
  <2>4. QED
    BY <2>1, <2>2, <2>3
<1>7. /\ SumOver(g) = PartSum(x, Found(q))
      /\ IsFiniteSet(Found(q)) /\ Found(q) \in SUBSET (1..Len(rows))
  <2>1. g \in [1..NumBlocks(Len(rows)) -> Int]
    BY <1>6
  <2>2. \A b \in 1..NumBlocks(Len(rows)) :
            g[b] = PartSum(x, {n \in Found(q) : BlockOf(n) = b})
    BY <1>6
  <2>3. x \in [1..Len(rows) -> Int]
    BY <1>4
  <2> HIDE DEF g
  <2>4. QED
    BY ONLY <2>1, <2>2, <2>3, group # Null, LaidOut(group, rows), GroupSum
<1>8. PartSum(x, Found(q)) = Cardinality(Found(q))
  <2> DEFINE F == Found(q)
  <2>1. F \in SUBSET N
    BY <1>7
  <2> HIDE DEF F, N
  <2>2. PartSum(x, F) = Cardinality(F)
    BY <1>2, <1>4, <2>1, PartSumOnes
  <2>3. QED
    BY <2>2 DEF F
<1>9. GroupExecute(group, q).count = SumOver(g)
  BY <1>3 DEF GroupExecute
<1>10. QED
  BY <1>7, <1>8, <1>9

\* Adding up its bit planes, a row group adds up the numbers it finds.
LEMMA GroupAddsUp ==
  ASSUME NEW rows, group # Null, LaidOut(group, rows), NEW q
  PROVE  GroupExecute(group, q).sum = PartSum(RowNumbers(rows), Found(q)) % 2^W
<1> DEFINE N == 1..Len(rows)
           K == 1..NumBlocks(Len(rows))
           p == 2^W
           x == [n \in N |-> WordOf(rows[n])]
           y == RowNumbers(rows)
           T(b) == {n \in Found(q) : BlockOf(n) = b}
           g == [b \in K |-> PartSum(x, T(b))]
           s == [b \in K |-> PlaneSum(group, b, q)]
<1>1. rows \in Seq(AllRows) /\ p \in Nat \ {0}
  BY WordSizes DEF LaidOut
<1>2. /\ IsFiniteSet(N) /\ y \in [N -> Int]
      /\ \A n \in N : rows[n] \in AllRows
  BY <1>1, RowNumbersTyped
<1>3. \A n \in N : WordOf(rows[n]) \in Int /\ WordOf(rows[n]) % p = NumberOf(rows[n]) % p
  BY <1>2, NumbersAndWords
<1>4. x \in [N -> Int] /\ \A n \in N : x[n] % p = y[n] % p
  BY <1>3 DEF RowNumbers
<1>5. DOMAIN group.blocks = K /\ IsFiniteSet(K) /\ Found(q) \in SUBSET N
  <2>1. DOMAIN group.blocks = K /\ Found(q) \in SUBSET N
    BY MaskOfBlock
  <2>2. Len(group.blocks) \in Nat /\ Len(group.blocks) = NumBlocks(Len(rows))
    BY DEF LaidOut, RowGroups
  <2>3. QED
    BY <2>1, <2>2, FS_Interval
<1>6. \A b \in K : PlaneSum(group, b, q) = PartSum(x, T(b)) % p
  <2>1. ASSUME NEW b \in K PROVE PlaneSum(group, b, q) = PartSum(x, T(b)) % p
    BY PlaneSumOfBlock
  <2>2. QED
    BY <2>1
<1>7. \A b \in K : PartSum(x, T(b)) \in Int
  <2>1. ASSUME NEW b \in K PROVE PartSum(x, T(b)) \in Int
    <3> DEFINE X == T(b)
    <3>1. X \in SUBSET N
      BY <1>5
    <3> HIDE DEF x, X, N
    <3>2. PartSum(x, X) \in Int
      BY <1>2, <1>4, <3>1, PartSums
    <3>3. QED
      BY <3>2 DEF X
  <2>2. QED
    BY <2>1
<1> HIDE DEF x, y, p
<1>8. g \in [K -> Int] /\ \A b \in K : g[b] = PartSum(x, T(b))
  BY <1>7
<1>9. SumOver(g) = PartSum(x, Found(q))
  <2>1. x \in [1..Len(rows) -> Int]
    BY <1>4
  <2>2. g \in [1..NumBlocks(Len(rows)) -> Int]
    BY <1>8
  <2>3. \A b \in 1..NumBlocks(Len(rows)) :
            g[b] = PartSum(x, {n \in Found(q) : BlockOf(n) = b})
    BY <1>8
  <2> HIDE DEF g
  <2>4. QED
    BY ONLY <2>1, <2>2, <2>3, group # Null, LaidOut(group, rows), GroupSum
<1>10. s \in [K -> Int] /\ \A b \in K : s[b] % p = g[b] % p
  <2>1. ASSUME NEW b \in K PROVE s[b] \in Int /\ s[b] % p = g[b] % p
    <3> DEFINE a == g[b]
               c == a % p
    <3>1. s[b] = c /\ a \in Int
      BY <1>6, <1>8
    <3> HIDE DEF a
    <3>2. c \in 0..(p - 1)
      BY <1>1, <3>1, DivMod
    <3>3. c \in Int /\ c = p * 0 + c
      BY <1>1, <3>2
    <3> HIDE DEF c
    <3>4. c % p = c
      BY <1>1, <3>2, <3>3, DivModUnique
    <3>5. QED
      BY <3>1, <3>3, <3>4 DEF a, c
  <2>2. QED
    BY <2>1
<1> HIDE DEF g, s
<1>11. SumOver(s) % p = SumOver(g) % p
  <2> HIDE DEF K
  <2>3. \A b \in K : s[b] % p = g[b] % p
    BY <1>10
  <2>4. IsFiniteSet(K) /\ g \in [K -> Int] /\ s \in [K -> Int] /\ p \in Nat \ {0} /\ K \in SUBSET K
    BY <1>1, <1>5, <1>8, <1>10
  <2>1. PartSum(s, K) % p = PartSum(g, K) % p
    BY ONLY <2>3, <2>4, PartSumMod
  <2>2. SumOver(s) = PartSum(s, K) /\ SumOver(g) = PartSum(g, K)
    BY <1>5, <1>8, <1>10, PartSums
  <2>5. QED
    BY <2>1, <2>2
<1>12. PartSum(x, Found(q)) % p = PartSum(y, Found(q)) % p
  <2> DEFINE F == Found(q)
  <2>1. F \in SUBSET N
    BY <1>5
  <2>2. \A n \in N : x[n] % p = y[n] % p
    BY <1>4
  <2>3. IsFiniteSet(N) /\ x \in [N -> Int] /\ y \in [N -> Int] /\ p \in Nat \ {0} /\ F \in SUBSET N
    BY <1>1, <1>2, <1>4, <2>1
  <2> HIDE DEF F, N
  <2>4. PartSum(x, F) % p = PartSum(y, F) % p
    BY ONLY <2>2, <2>3, PartSumMod
  <2>5. QED
    BY <2>4 DEF F
<1>13. GroupExecute(group, q).sum = SumOver(s) % p
  BY <1>5 DEF GroupExecute, s, p
<1>14. QED
  BY <1>9, <1>11, <1>12, <1>13 DEF y, p

\* The numbers a row group hands out are those of the rows it finds.
LEMMA MatchedRows ==
  ASSUME NEW rows, group # Null, LaidOut(group, rows), NEW q
  PROVE  LET values == MatchedValues(group, q)
         IN  /\ \A x \in DOMAIN values : \E n \in Found(q) :
                  x = <<BlockOf(n), PlaceOf(n)>>
             /\ \A n \in Found(q) :
                  /\ <<BlockOf(n), PlaceOf(n)>> \in DOMAIN values
                  /\ values[<<BlockOf(n), PlaceOf(n)>>] = RowNumbers(rows)[n]
             /\ IsFiniteSet(DOMAIN values) /\ values \in [DOMAIN values -> Int]
             /\ SumOver(values) = PartSum(RowNumbers(rows), Found(q))
<1> DEFINE N == 1..Len(rows)
           K == 1..NumBlocks(Len(rows))
           F == Found(q)
           v == MatchedValues(group, q)
           M == DOMAIN v
           y == RowNumbers(rows)
           z == [n \in F |-> y[n]]
           h == [n \in F |-> <<BlockOf(n), PlaceOf(n)>>]
<1>1. /\ rows \in Seq(AllRows) /\ IsFiniteSet(N) /\ y \in [N -> Int]
      /\ \A n \in N : rows[n] \in AllRows /\ y[n] = NumberOf(rows[n])
  BY RowNumbersTyped DEF LaidOut, RowNumbers
<1>2. IsFiniteSet(F) /\ F \in SUBSET N
  BY GroupCounts
<1>3. /\ DOMAIN group.blocks = K
      /\ \A n \in N : /\ BlockOf(n) \in K /\ PlaceOf(n) \in Pos
                      /\ n = W * (BlockOf(n) - 1) + PlaceOf(n) + 1
      /\ \A b \in K : FinalMask(group, b, q) = {PlaceOf(n) : n \in {m \in F : BlockOf(m) = b}}
  BY MaskOfBlock
<1>4. M = {br \in K \X Pos : br[2] \in FinalMask(group, br[1], q)}
  BY <1>3 DEF MatchedValues
<1>5. ASSUME NEW x \in M PROVE \E n \in F : x = h[n]
  <2>1. x = <<x[1], x[2]>> /\ x[1] \in K /\ x[2] \in FinalMask(group, x[1], q)
    BY <1>4
  <2>2. PICK n \in F : BlockOf(n) = x[1] /\ PlaceOf(n) = x[2]
    BY <1>3, <2>1
  <2>3. QED
    BY <2>1, <2>2
<1>6. ASSUME NEW n \in F PROVE h[n] \in M /\ v[h[n]] = y[n]
  <2> DEFINE b == BlockOf(n)
             r == PlaceOf(n)
  <2>1. /\ b \in K /\ r \in Pos /\ r \in 0..(Len(Part(rows, b)) - 1)
        /\ Part(rows, b)[r + 1] = rows[n] /\ Holds(group.blocks[b], Part(rows, b))
    BY <1>2, RowInBlock DEF BlockOf, PlaceOf
  <2>2. r \in FinalMask(group, b, q)
    BY <1>3, <2>1
  <2>3. Transpose(group.blocks[b].num.planes)[r] = NumWord(rows[n].num)
    BY <2>1 DEF Holds
  <2>4. h[n] = <<b, r>>
    OBVIOUS
  <2> HIDE DEF b, r, h
  <2>5. <<b, r>> \in M
    BY <1>4, <2>1, <2>2
  <2>6. v[<<b, r>>] = Signed(Unsigned(Transpose(group.blocks[b].num.planes)[r]))
    BY <1>3, <2>1, <2>2 DEF MatchedValues
  <2>7. v[<<b, r>>] = Signed(WordOf(rows[n]))
    BY <2>3, <2>6 DEF WordOf
  <2>8. rows[n] \in AllRows /\ y[n] = NumberOf(rows[n])
    BY <1>1, <1>2
  <2>9. Signed(WordOf(rows[n])) = NumberOf(rows[n])
    BY <2>8, NumbersAndWords
  <2>10. QED
    BY <2>4, <2>5, <2>7, <2>8, <2>9
<1>7. \A n, m \in F : h[n] = h[m] => n = m
  <2>1. ASSUME NEW n \in F, NEW m \in F, h[n] = h[m] PROVE n = m
    <3>1. BlockOf(n) = BlockOf(m) /\ PlaceOf(n) = PlaceOf(m)
      BY <2>1
    <3>2. /\ n = W * (BlockOf(n) - 1) + PlaceOf(n) + 1
          /\ m = W * (BlockOf(m) - 1) + PlaceOf(m) + 1
      BY <1>2, <1>3
    <3>3. QED
      BY <3>1, <3>2
  <2>2. QED
    BY <2>1
<1>8. \A n \in F : h[n] = <<BlockOf(n), PlaceOf(n)>>
  OBVIOUS
<1>9. v = [x \in M |-> v[x]]
  BY DEF MatchedValues
<1>10. z \in [F -> Int] /\ \A n \in F : z[n] = y[n]
  BY <1>1, <1>2
<1>11. h \in [F -> M]
  BY <1>6
<1> HIDE DEF h, z, v, M, F
<1>12. v \in [M -> Int]
  <2>1. ASSUME NEW x \in M PROVE v[x] \in Int
    <3>1. PICK n \in F : x = h[n]
      BY <1>5
    <3>2. v[x] = y[n]
      BY <1>6, <3>1
    <3>3. QED
      BY <1>1, <1>2, <3>2
  <2>2. QED
    BY <1>9, <2>1
<1>13. IsFiniteSet(M)
  <2>1. M = {h[n] : n \in F}
    BY <1>5, <1>6
  <2>2. h \in Surjection(F, M)
    BY <1>5, <1>11 DEF Surjection
  <2>3. QED
    BY <1>2, <2>2, FS_Surjection
<1>14. Renames(h, F, z, F, M, v, M)
  <2>1. \A n \in F : z[n] = v[h[n]]
    BY <1>6, <1>10
  <2>2. \A x \in M : x \in M <=> \E n \in F : x = h[n]
    BY <1>5
  <2>3. QED
    BY <1>2, <1>7, <1>10, <1>11, <1>12, <1>13, <2>1, <2>2 DEF Renames
<1>15. PartSum(z, F) = PartSum(v, M)
  BY <1>14, PartSumImage
<1>16. PartSum(z, F) = PartSum(y, F)
  BY <1>10, PartSumSame
<1>17. SumOver(v) = PartSum(v, M)
  BY <1>12, <1>13, PartSums
<1>18. /\ \A x \in M : \E n \in F : x = <<BlockOf(n), PlaceOf(n)>>
       /\ \A n \in F : /\ <<BlockOf(n), PlaceOf(n)>> \in M
                       /\ v[<<BlockOf(n), PlaceOf(n)>>] = y[n]
  BY <1>5, <1>6, <1>8
<1>19. QED
  BY <1>12, <1>13, <1>15, <1>16, <1>17, <1>18 DEF v, M, F

\* v has the values of w at the elements of X tagged with k.
Tagged(k, X, w, D, v) ==
    /\ IsFiniteSet(X) /\ w \in [X -> Int]
    /\ IsFiniteSet(D) /\ v \in [D -> Int] /\ {k} \X X \subseteq D
    /\ \A x \in X : v[<<k, x>>] = w[x]

\* A tag does not change a sum.
LEMMA TaggedSum ==
  ASSUME NEW k, NEW X, NEW w, NEW D, NEW v, Tagged(k, X, w, D, v)
  PROVE  PartSum(v, {k} \X X) = SumOver(w)
<1>0. /\ IsFiniteSet(X) /\ w \in [X -> Int]
      /\ IsFiniteSet(D) /\ v \in [D -> Int] /\ {k} \X X \subseteq D
      /\ \A x \in X : v[<<k, x>>] = w[x]
  BY DEF Tagged
<1> USE <1>0
<1> DEFINE h == [x \in X |-> <<k, x>>]
<1> DEFINE Y == {k} \X X
<1>1. h \in [X -> D] /\ \A x, y \in X : h[x] = h[y] => x = y
  OBVIOUS
<1>3. Y \in SUBSET D
  OBVIOUS
<1>2. /\ \A x \in X : w[x] = v[h[x]]
      /\ \A y \in D : y \in Y <=> \E x \in X : y = h[x]
  OBVIOUS
<1> HIDE DEF h, Y
<1>4. Renames(h, X, w, X, D, v, Y)
  BY <1>1, <1>2, <1>3 DEF Renames
<1>5. PartSum(w, X) = PartSum(v, Y)
  BY <1>4, PartSumImage
<1>6. SumOver(w) = PartSum(w, X)
  BY <1>3, PartSums
<1>7. QED
  BY <1>5, <1>6 DEF Y

\* The values a memtable hands out.
LEMMA MemValuesTyped ==
  ASSUME NEW rows \in Seq(AllRows), NEW q
  PROVE  /\ MemValues(rows, q) \in [DOMAIN MemValues(rows, q) -> Int]
         /\ IsFiniteSet(DOMAIN MemValues(rows, q))
         /\ DOMAIN MemValues(rows, q) = {n \in Matching(rows, q) : rows[n].num # Null}
         /\ SumOver(MemValues(rows, q)) \in Int
         /\ IsFiniteSet(Matching(rows, q)) /\ Cardinality(Matching(rows, q)) \in Nat
<1> DEFINE v == MemValues(rows, q)
           D == {n \in Matching(rows, q) : rows[n].num # Null}
<1>1. /\ IsFiniteSet(1..Len(rows)) /\ DOMAIN rows = 1..Len(rows)
      /\ \A n \in 1..Len(rows) : rows[n] \in AllRows
  BY RowNumbersTyped
<1>2. Matching(rows, q) \subseteq 1..Len(rows)
  BY <1>1 DEF Matching
<1>3. D \subseteq 1..Len(rows) /\ D \subseteq Matching(rows, q)
  BY <1>2
<1>4. IsFiniteSet(Matching(rows, q)) /\ IsFiniteSet(D)
  BY <1>1, <1>2, <1>3, FS_Subset
<1>5. Cardinality(Matching(rows, q)) \in Nat
  BY <1>4, FS_CardinalityType
<1>6. ASSUME NEW n \in D PROVE rows[n].num \in Int
  <2>1. rows[n] \in AllRows /\ rows[n].num # Null
    BY <1>1, <1>3
  <2>2. NumberOf(rows[n]) \in Int
    BY <2>1, NumbersAndWords
  <2>3. QED
    BY <2>1, <2>2 DEF NumberOf
<1>7. v = [n \in D |-> rows[n].num]
  BY DEF MemValues
<1>8. v \in [D -> Int] /\ DOMAIN v = D
  BY <1>6, <1>7
<1>9. SumOver(v) \in Int
  <2> HIDE DEF v, D
  <2>1. SumOver(v) = PartSum(v, D) /\ D \in SUBSET D
    BY <1>4, <1>8, PartSums
  <2>2. PartSum(v, D) \in Int
    BY <1>4, <1>8, <2>1, PartSums
  <2>3. QED
    BY <2>1, <2>2
<1>10. QED
  BY <1>4, <1>5, <1>8, <1>9

\* The numbers of the persisted rows a scan finds.
FoundNumbers(q) ==
    [n \in {k \in Found(q) : GroupCells[k].row.num # Null} |-> GroupCells[n].row.num]

\* Count, sum and values of the row group's part.
LEMMA GroupPart ==
  ASSUME Layout, NEW q
  PROVE  /\ FoundNumbers(q) \in [DOMAIN FoundNumbers(q) -> Int]
         /\ IsFiniteSet(Found(q)) /\ Cardinality(Found(q)) \in Nat
         /\ IsFiniteSet(DOMAIN FoundNumbers(q)) /\ SumOver(FoundNumbers(q)) \in Int
         /\ group = Null => Cardinality(Found(q)) = 0 /\ SumOver(FoundNumbers(q)) = 0
         /\ group # Null =>
              /\ GroupExecute(group, q).count = Cardinality(Found(q))
              /\ GroupExecute(group, q).sum = SumOver(FoundNumbers(q)) % 2^W
              /\ SumOver(MatchedValues(group, q)) = SumOver(FoundNumbers(q))
<1> DEFINE v == FoundNumbers(q)
           F == Found(q)
           G == {k \in F : GroupCells[k].row.num # Null}
<1>1. v = [n \in G |-> GroupCells[n].row.num] /\ DOMAIN v = G
  BY DEF FoundNumbers
<1>2. CASE group = Null
  <2>1. F = {}
    BY <1>2 DEF Found, GroupRows
  <2>2. G = {}
    BY <2>1
  <2>3. v \in [{} -> Int] /\ IsFiniteSet({}) /\ Cardinality({}) = 0
    BY <1>1, <2>2, FS_EmptySet
  <2> HIDE DEF v, F, G
  <2>4. SumOver(v) = PartSum(v, {}) /\ PartSum(v, {}) = 0
    BY <2>3, PartSums
  <2>5. v \in [DOMAIN v -> Int] /\ IsFiniteSet(DOMAIN v) /\ IsFiniteSet(F) /\ Cardinality(F) = 0
    BY <2>1, <2>3
  <2>6. QED
    BY <1>2, <2>4, <2>5 DEF v, F
<1>3. CASE group # Null
  <2>1. PICK rows : LaidOut(group, rows)
    BY <1>3 DEF Layout
  <2> DEFINE y == RowNumbers(rows)
             N == 1..Len(rows)
  <2>2. /\ GroupExecute(group, q).count = Cardinality(F)
        /\ IsFiniteSet(F) /\ F \in SUBSET N
    BY <1>3, <2>1, GroupCounts
  <2>3. GroupExecute(group, q).sum = PartSum(y, F) % 2^W
    BY <1>3, <2>1, GroupAddsUp
  <2>4. SumOver(MatchedValues(group, q)) = PartSum(y, F)
    BY <1>3, <2>1, MatchedRows
  <2>5. \A n \in N : GroupCells[n].row = rows[n]
    BY <1>3, <2>1, CellsOfLayout DEF GroupCells
  <2>6. y \in [N -> Int] /\ IsFiniteSet(N) /\ \A n \in N : y[n] = NumberOf(rows[n])
    BY <2>1, RowNumbersTyped DEF LaidOut, RowNumbers
  <2>7. G \in SUBSET F /\ \A n \in F \ G : y[n] = 0
    BY <2>2, <2>5, <2>6 DEF NumberOf
  <2>8. \A n \in G : v[n] = y[n]
    BY <1>1, <2>2, <2>5, <2>6 DEF NumberOf
  <2>9. v \in [G -> Int]
    <3>1. \A n \in G : v[n] \in Int
      BY <2>2, <2>6, <2>7, <2>8
    <3>2. v = [n \in G |-> v[n]]
      BY <1>1
    <3>3. QED
      BY <3>1, <3>2
  <2>10. IsFiniteSet(G)
    BY <2>2, <2>7, FS_Subset
  <2>11. Cardinality(F) \in Nat
    BY <2>2, FS_CardinalityType
  <2> HIDE DEF v, F, G, y, N
  <2>12. PartSum(y, F) = PartSum(y, G)
    BY <2>2, <2>6, <2>7, PartSumDrops
  <2>13. PartSum(v, G) = PartSum(y, G)
    BY <2>8, PartSumSame
  <2>14. SumOver(v) = PartSum(v, G)
    BY <2>9, <2>10, PartSums
  <2>15. PartSum(y, F) \in Int
    BY <2>2, <2>6, PartSums
  <2>16. SumOver(v) = PartSum(y, F)
    BY <2>12, <2>13, <2>14
  <2>17. DOMAIN v = G
    BY <1>1
  <2>18. v \in [DOMAIN v -> Int] /\ IsFiniteSet(DOMAIN v) /\ SumOver(v) \in Int
    BY <2>9, <2>10, <2>15, <2>16, <2>17
  <2>19. QED
    BY <1>3, <2>2, <2>3, <2>4, <2>11, <2>16, <2>18 DEF v, F
<1>4. QED
  BY <1>2, <1>3

\* The values behind an answer are those of the three parts, tagged.
LEMMA FoundParts ==
  ASSUME Layout, MemtablesOK, NEW q
  PROVE  LET g == FoundNumbers(q)
             a == MemValues(active, q)
             f == MemValues(Frozen, q)
             v == FoundValues(q)
             D == ({1} \X DOMAIN g) \cup ({2} \X DOMAIN a) \cup ({3} \X DOMAIN f)
         IN  /\ v \in [D -> Int] /\ IsFiniteSet(D)
             /\ g \in [DOMAIN g -> Int] /\ IsFiniteSet(DOMAIN g)
             /\ a \in [DOMAIN a -> Int] /\ IsFiniteSet(DOMAIN a)
             /\ f \in [DOMAIN f -> Int] /\ IsFiniteSet(DOMAIN f)
             /\ \A n \in DOMAIN g : v[<<1, n>>] = g[n]
             /\ \A n \in DOMAIN a : v[<<2, n>>] = a[n]
             /\ \A n \in DOMAIN f : v[<<3, n>>] = f[n]
<1> DEFINE g == FoundNumbers(q)
           a == MemValues(active, q)
           f == MemValues(Frozen, q)
           G == DOMAIN g
           A == DOMAIN a
           F == DOMAIN f
           g1 == {1} \X G
           a1 == {2} \X A
           f1 == {3} \X F
           D == g1 \cup a1 \cup f1
           v == FoundValues(q)
<1>1. active \in Seq(AllRows) /\ Frozen \in Seq(AllRows)
  BY FrozenTyped DEF MemtablesOK
<1>2. /\ g \in [G -> Int] /\ a \in [A -> Int] /\ f \in [F -> Int]
      /\ IsFiniteSet(G) /\ IsFiniteSet(A) /\ IsFiniteSet(F)
  BY <1>1, GroupPart, MemValuesTyped
<1>3. /\ G = {n \in Found(q) : GroupCells[n].row.num # Null}
      /\ \A n \in G : g[n] = GroupCells[n].row.num
      /\ \A n \in A : a[n] = active[n].num
      /\ \A n \in F : f[n] = Frozen[n].num
  BY DEF FoundNumbers, MemValues
<1>4. v = [x \in D |->
            CASE x[1] = 1 -> GroupCells[x[2]].row.num
              [] x[1] = 2 -> active[x[2]].num
              [] x[1] = 3 -> Frozen[x[2]].num]
  BY <1>3 DEF FoundValues
<1> HIDE DEF g, a, f, v, G, A, F
<1>5. /\ \A n \in G : v[<<1, n>>] = g[n]
      /\ \A n \in A : v[<<2, n>>] = a[n]
      /\ \A n \in F : v[<<3, n>>] = f[n]
  BY <1>3, <1>4
<1>6. v \in [D -> Int]
  <2>1. ASSUME NEW x \in D PROVE v[x] \in Int
    <3>1. CASE x \in g1
      <4>1. PICK n \in G : x = <<1, n>>
        BY <3>1
      <4>2. QED
        BY <1>2, <1>5, <4>1
    <3>2. CASE x \in a1
      <4>1. PICK n \in A : x = <<2, n>>
        BY <3>2
      <4>2. QED
        BY <1>2, <1>5, <4>1
    <3>3. CASE x \in f1
      <4>1. PICK n \in F : x = <<3, n>>
        BY <3>3
      <4>2. QED
        BY <1>2, <1>5, <4>1
    <3>4. QED
      BY <3>1, <3>2, <3>3
  <2>2. v = [x \in D |-> v[x]]
    BY <1>4
  <2>3. QED
    BY <2>1, <2>2
<1>7. IsFiniteSet(D)
  <2>1. IsFiniteSet(g1) /\ IsFiniteSet(a1) /\ IsFiniteSet(f1)
    BY <1>2, FS_Singleton, FS_Product
  <2>2. QED
    BY <2>1, FS_Union
<1>8. QED
  BY <1>2, <1>5, <1>6, <1>7 DEF g, a, f, v, G, A, F

\* They add up part by part.
LEMMA PartsAddUp ==
  ASSUME Layout, MemtablesOK, NEW q
  PROVE  SumOver(FoundValues(q))
           = SumOver(FoundNumbers(q)) + SumOver(MemValues(active, q))
               + SumOver(MemValues(Frozen, q))
<1> DEFINE g == FoundNumbers(q)
           a == MemValues(active, q)
           f == MemValues(Frozen, q)
           G == DOMAIN g
           A == DOMAIN a
           F == DOMAIN f
           g1 == {1} \X G
           a1 == {2} \X A
           f1 == {3} \X F
           D == g1 \cup a1 \cup f1
           v == FoundValues(q)
<1>2. /\ g \in [G -> Int] /\ a \in [A -> Int] /\ f \in [F -> Int]
      /\ IsFiniteSet(G) /\ IsFiniteSet(A) /\ IsFiniteSet(F)
      /\ v \in [D -> Int] /\ IsFiniteSet(D)
  BY FoundParts
<1>5. /\ \A n \in G : v[<<1, n>>] = g[n]
      /\ \A n \in A : v[<<2, n>>] = a[n]
      /\ \A n \in F : v[<<3, n>>] = f[n]
  BY FoundParts
<1>6. v \in [D -> Int]
  BY <1>2
<1>7. IsFiniteSet(D)
  BY <1>2
<1> HIDE DEF g, a, f, v, G, A, F
<1>8. /\ g1 \subseteq D /\ a1 \subseteq D /\ f1 \subseteq D /\ g1 \cup a1 \subseteq D
      /\ g1 \cap a1 = {} /\ (g1 \cup a1) \cap f1 = {}
  OBVIOUS
<1> HIDE DEF D
<1>0. Tagged(1, G, g, D, v) /\ Tagged(2, A, a, D, v) /\ Tagged(3, F, f, D, v)
  BY <1>2, <1>5, <1>6, <1>7, <1>8 DEF Tagged
<1>9. PartSum(v, {1} \X G) = SumOver(g)
  BY <1>0, TaggedSum
<1>10. PartSum(v, {2} \X A) = SumOver(a)
  BY <1>0, TaggedSum
<1>11. PartSum(v, {3} \X F) = SumOver(f)
  BY <1>0, TaggedSum
<1>12. SumOver(v) = PartSum(v, D)
  BY <1>6, <1>7, PartSums
<1>13. PartSum(v, D) = PartSum(v, (g1 \cup a1) \cup f1)
  BY Zenon DEF D
<1> DEFINE ga == g1 \cup a1
<1> HIDE DEF g1, a1, f1
<1>14. PartSum(v, g1 \cup a1) = PartSum(v, g1) + PartSum(v, a1)
  BY <1>6, <1>7, <1>8, PartSumJoins
<1>15. PartSum(v, ga \cup f1) = PartSum(v, ga) + PartSum(v, f1)
  <2>1. ga \in SUBSET D /\ f1 \in SUBSET D /\ ga \cap f1 = {}
    BY <1>8
  <2> HIDE DEF ga
  <2>2. QED
    BY <1>6, <1>7, <2>1, PartSumJoins
<1>16. QED
  BY <1>9, <1>10, <1>11, <1>12, <1>13, <1>14, <1>15 DEF g1, a1, f1, v, g, a, f

(***************************************************************************)
(* Merging the parts: counts and sums modulo the width of the code's words. *)
(***************************************************************************)

\* Merging adds counts and sums up: one result.
LEMMA MergedOne ==
  ASSUME NEW r1,
         r1.count \in Int, r1.sum \in Int
  PROVE  /\ Merge(<<r1>>).count = r1.count
         /\ Merge(<<r1>>).sum = r1.sum
<1> DEFINE r == <<r1>>
           c == [k \in DOMAIN r |-> r[k].count]
           s == [k \in DOMAIN r |-> r[k].sum]
<1>1. Merge(r).count = SumOver(c) /\ Merge(r).sum = SumOver(s)
  BY DEF Merge
<1>2. \A k \in 1..1 : k = 1
  OBVIOUS
<1>3. DOMAIN r = 1..1 /\ r[1] = r1
  OBVIOUS
<1> HIDE DEF r
<1>4. /\ c \in [1..1 -> Int] /\ c[1] = r1.count
      /\ s \in [1..1 -> Int] /\ s[1] = r1.sum
  BY <1>2, <1>3
<1> HIDE DEF c, s
<1>5. QED
  BY <1>1, <1>4, SumsOfFew DEF r

\* Two results.
LEMMA MergedTwo ==
  ASSUME NEW r1, NEW r2,
         r1.count \in Int, r1.sum \in Int,
         r2.count \in Int, r2.sum \in Int
  PROVE  /\ Merge(<<r1, r2>>).count = r1.count + r2.count
         /\ Merge(<<r1, r2>>).sum = r1.sum + r2.sum
<1> DEFINE r == <<r1, r2>>
           c == [k \in DOMAIN r |-> r[k].count]
           s == [k \in DOMAIN r |-> r[k].sum]
<1>1. Merge(r).count = SumOver(c) /\ Merge(r).sum = SumOver(s)
  BY DEF Merge
<1>2. \A k \in 1..2 : k = 1 \/ k = 2
  OBVIOUS
<1>3. DOMAIN r = 1..2 /\ r[1] = r1 /\ r[2] = r2
  OBVIOUS
<1> HIDE DEF r
<1>4. /\ c \in [1..2 -> Int] /\ c[1] = r1.count /\ c[2] = r2.count
      /\ s \in [1..2 -> Int] /\ s[1] = r1.sum /\ s[2] = r2.sum
  BY <1>2, <1>3
<1> HIDE DEF c, s
<1>5. QED
  BY <1>1, <1>4, SumsOfFew DEF r

\* Three results.
LEMMA MergedThree ==
  ASSUME NEW r1, NEW r2, NEW r3,
         r1.count \in Int, r1.sum \in Int,
         r2.count \in Int, r2.sum \in Int,
         r3.count \in Int, r3.sum \in Int
  PROVE  /\ Merge(<<r1, r2, r3>>).count = r1.count + r2.count + r3.count
         /\ Merge(<<r1, r2, r3>>).sum = r1.sum + r2.sum + r3.sum
<1> DEFINE r == <<r1, r2, r3>>
           c == [k \in DOMAIN r |-> r[k].count]
           s == [k \in DOMAIN r |-> r[k].sum]
<1>1. Merge(r).count = SumOver(c) /\ Merge(r).sum = SumOver(s)
  BY DEF Merge
<1>2. \A k \in 1..3 : k = 1 \/ k = 2 \/ k = 3
  OBVIOUS
<1>3. DOMAIN r = 1..3 /\ r[1] = r1 /\ r[2] = r2 /\ r[3] = r3
  OBVIOUS
<1> HIDE DEF r
<1>4. /\ c \in [1..3 -> Int] /\ c[1] = r1.count /\ c[2] = r2.count /\ c[3] = r3.count
      /\ s \in [1..3 -> Int] /\ s[1] = r1.sum /\ s[2] = r2.sum /\ s[3] = r3.sum
  BY <1>2, <1>3
<1> HIDE DEF c, s
<1>5. QED
  BY <1>1, <1>4, SumsOfFew DEF r

\* Joining short tuples.
LEMMA Tuples ==
  ASSUME NEW x, NEW y, NEW z
  PROVE  /\ <<>> \o <<x>> = <<x>> /\ <<x>> \o <<>> = <<x>>
         /\ <<x, y>> \o <<>> = <<x, y>>
         /\ <<x>> \o <<y>> = <<x, y>> /\ <<x, y>> \o <<z>> = <<x, y, z>>
<1>1. <<>> \o <<x>> = <<x>> /\ <<x>> \o <<>> = <<x>>
  OBVIOUS
<1>0. \A i : /\ i \in 1..2 <=> i = 1 \/ i = 2
             /\ i \in 1..3 <=> i = 1 \/ i = 2 \/ i = 3
  OBVIOUS
<1>2. <<x>> \o <<y>> = <<x, y>>
  <2> DEFINE s == <<x>>
             u == <<y>>
             t == s \o u
  <2>1. /\ s \in Seq({x, y, z}) /\ u \in Seq({x, y, z})
        /\ Len(s) = 1 /\ Len(u) = 1 /\ s[1] = x /\ u[1] = y
    OBVIOUS
  <2> HIDE DEF s, u
  <2>2. t \in Seq({x, y, z}) /\ Len(t) = 2 /\ t[1] = x /\ t[2] = y
    BY <2>1, ConcatProperties
  <2> HIDE DEF t
  <2>3. t = <<x, y>>
    BY <1>0, <2>2
  <2>4. QED
    BY <2>3 DEF t, s, u
<1>3. <<x, y>> \o <<>> = <<x, y>>
  OBVIOUS
<1>4. <<x, y>> \o <<z>> = <<x, y, z>>
  <2> DEFINE s == <<x, y>>
             u == <<z>>
             t == s \o u
  <2>1. /\ s \in Seq({x, y, z}) /\ u \in Seq({x, y, z})
        /\ Len(s) = 2 /\ Len(u) = 1 /\ s[1] = x /\ s[2] = y /\ u[1] = z
    OBVIOUS
  <2> HIDE DEF s, u
  <2>2. t \in Seq({x, y, z}) /\ Len(t) = 3 /\ t[1] = x /\ t[2] = y /\ t[3] = z
    BY <2>1, ConcatProperties
  <2> HIDE DEF t
  <2>3. t = <<x, y, z>>
    BY <1>0, <2>2
  <2>4. QED
    BY <2>3 DEF t, s, u
<1>5. QED
  BY <1>1, <1>2, <1>3, <1>4

\* The results of the parts there are, in order.
LEMMA ResultsOfParts ==
  ASSUME NEW q
  PROVE  LET g == GroupResult(q)
             a == MemResult(active, q)
             f == MemResult(frozen, q)
         IN  /\ group = Null /\ frozen = Null => Results(q) = <<a>>
             /\ group # Null /\ frozen = Null => Results(q) = <<g, a>>
             /\ group = Null /\ frozen # Null => Results(q) = <<a, f>>
             /\ group # Null /\ frozen # Null => Results(q) = <<g, a, f>>
<1> DEFINE g == GroupResult(q)
           a == MemResult(active, q)
           f == MemResult(frozen, q)
<1>1. Results(q) = (IF group = Null THEN <<>> ELSE <<g>>) \o <<a>>
                     \o (IF frozen = Null THEN <<>> ELSE <<f>>)
  BY DEF Results
<1> HIDE DEF g, a, f
<1>3. ASSUME group = Null, frozen = Null PROVE Results(q) = <<a>>
  <2>1. Results(q) = (<<>> \o <<a>>) \o <<>>
    BY <1>1, <1>3, Zenon
  <2>2. QED
    BY <2>1, Tuples, Zenon
<1>4. ASSUME group # Null, frozen = Null PROVE Results(q) = <<g, a>>
  <2>1. Results(q) = (<<g>> \o <<a>>) \o <<>>
    BY <1>1, <1>4, Zenon
  <2>2. QED
    BY <2>1, Tuples, Zenon
<1>5. ASSUME group = Null, frozen # Null PROVE Results(q) = <<a, f>>
  <2>1. Results(q) = (<<>> \o <<a>>) \o <<f>>
    BY <1>1, <1>5, Zenon
  <2>2. QED
    BY <2>1, Tuples, Zenon
<1>6. ASSUME group # Null, frozen # Null PROVE Results(q) = <<g, a, f>>
  <2>1. Results(q) = (<<g>> \o <<a>>) \o <<f>>
    BY <1>1, <1>6, Zenon
  <2>2. QED
    BY <2>1, Tuples, Zenon
<1>7. QED
  BY <1>3, <1>4, <1>5, <1>6 DEF g, a, f

\* A number and its remainder have the same remainder.
LEMMA ModOfMod ==
  ASSUME NEW p \in Nat \ {0}, NEW a \in Int
  PROVE  (a % p) % p = a % p /\ a % p \in Int
<1> DEFINE c == a % p
<1>1. c \in 0..(p - 1)
  BY DivMod
<1>2. c \in Int /\ c = p * 0 + c
  BY <1>1
<1> HIDE DEF c
<1>3. c % p = c
  BY <1>1, <1>2, DivModUnique
<1>4. QED
  BY <1>2, <1>3 DEF c

\* a and b have the same remainder.
SameMod(p, a, b) == p \in Nat \ {0} /\ a \in Int /\ b \in Int /\ a % p = b % p

\* Remainders add up.
LEMMA SameModAdds ==
  ASSUME NEW p, NEW a, NEW b, NEW c, NEW d, SameMod(p, a, b), SameMod(p, c, d)
  PROVE  SameMod(p, a + c, b + d)
<1>1. p \in Nat \ {0} /\ a \in Int /\ b \in Int /\ c \in Int /\ d \in Int
  BY DEF SameMod
<1>2. a % p = b % p /\ c % p = d % p
  BY DEF SameMod
<1>3. (a + c) % p = (b + d) % p
  BY <1>1, <1>2, ModAdds
<1>4. QED
  BY <1>1, <1>3 DEF SameMod

\* Remainders of three summands.
LEMMA ModOfThree ==
  ASSUME NEW p, NEW a, NEW b, NEW c, NEW x, NEW y, NEW z,
         SameMod(p, x, a), SameMod(p, y, b), SameMod(p, z, c)
  PROVE  SameMod(p, x + y + z, a + b + c)
<1>1. SameMod(p, x + y, a + b)
  BY SameModAdds
<1>2. QED
  BY <1>1, SameModAdds

\* Counts and sums of the merged answers, in every state of the invariant.
LEMMA InvSums == IInv => SumsAreOfFoundRows
<1> SUFFICES ASSUME IInv PROVE SumsAreOfFoundRows
  OBVIOUS
<1>1. Layout /\ MemtablesOK /\ active \in Seq(AllRows) /\ Frozen \in Seq(AllRows)
  BY FrozenTyped DEF IInv, MemtablesOK
<1>2. ASSUME NEW q
      PROVE  /\ TableExecute(q).count = FoundCount(q) /\ QueryResult(q).count = FoundCount(q)
             /\ TableExecute(q).sum = SumOver(FoundValues(q)) % 2^W
             /\ QueryResult(q).sum % 2^W = SumOver(FoundValues(q)) % 2^W
  <2> DEFINE p == 2^W
             gs == SumOver(FoundNumbers(q))
             as == SumOver(MemValues(active, q))
             fs == SumOver(MemValues(Frozen, q))
             gc == Cardinality(Found(q))
             ac == Cardinality(Matching(active, q))
             fc == Cardinality(Matching(Frozen, q))
             s == SumOver(FoundValues(q))
  <2>1. p \in Nat \ {0}
    BY WordSizes
  <2>2. /\ gs \in Int /\ gc \in Int
        /\ group = Null => gc = 0 /\ gs = 0
    BY <1>1, GroupPart
  <2>3. as \in Int /\ ac \in Int /\ fs \in Int /\ fc \in Int
    <3>1. as \in Int /\ ac \in Nat
      BY <1>1, MemValuesTyped
    <3>2. fs \in Int /\ fc \in Nat
      BY <1>1, MemValuesTyped
    <3>3. QED
      BY <3>1, <3>2
  <2>4. s = gs + as + fs /\ FoundCount(q) = gc + ac + fc
    BY <1>1, PartsAddUp DEF FoundCount
  <2>5. group # Null => /\ GroupExecute(group, q).count = gc
                        /\ GroupExecute(group, q).sum = gs % p
                        /\ SumOver(MatchedValues(group, q)) = gs
    BY <1>1, GroupPart
  <2>6. TableExecute(q).count = FoundCount(q) /\ TableExecute(q).sum = s % p
    <3> DEFINE parts == <<IF group = Null THEN [count |-> 0, sum |-> 0]
                                   ELSE GroupExecute(group, q),
                   MemExecute(active, q), MemExecute(Frozen, q)>>
               cs == [k \in 1..3 |-> parts[k].count]
               ss == [k \in 1..3 |-> parts[k].sum]
    <3>1. TableExecute(q) = [count |-> SumOver(cs), sum |-> SumOver(ss) % p]
      BY DEF TableExecute
    <3>2. /\ parts[1] = IF group = Null THEN [count |-> 0, sum |-> 0]
                                   ELSE GroupExecute(group, q)
          /\ parts[2].count = ac /\ parts[2].sum = as % p
          /\ parts[3].count = fc /\ parts[3].sum = fs % p
      BY DEF MemExecute
    <3> HIDE DEF parts, p, gs, as, fs, gc, ac, fc
    <3>3. 0 % p = 0
      <4>1. 0 = p * 0 + 0 /\ 0 \in 0..(p - 1) /\ 0 \in Int
        BY <2>1
      <4>2. QED
        BY <2>1, <4>1, DivModUnique
    <3>4. parts[1].count = gc /\ parts[1].sum = gs % p
      <4>1. CASE group = Null
        BY <2>2, <3>2, <3>3, <4>1
      <4>2. CASE group # Null
        BY <2>5, <3>2, <4>2
      <4>3. QED
        BY <4>1, <4>2
    <3> DEFINE x == gs % p
               y == as % p
               z == fs % p
    <3>5. /\ x \in Int /\ y \in Int /\ z \in Int
          /\ x % p = gs % p /\ y % p = as % p /\ z % p = fs % p
      BY <2>1, <2>2, <2>3, ModOfMod
    <3>6. /\ cs \in [1..3 -> Int] /\ cs[1] = gc /\ cs[2] = ac /\ cs[3] = fc
          /\ ss \in [1..3 -> Int] /\ ss[1] = x /\ ss[2] = y /\ ss[3] = z
      <4>1. \A k \in 1..3 : k = 1 \/ k = 2 \/ k = 3
        OBVIOUS
      <4>2. /\ parts[1].count = gc /\ parts[2].count = ac /\ parts[3].count = fc
            /\ parts[1].sum = x /\ parts[2].sum = y /\ parts[3].sum = z
        BY <3>2, <3>4
      <4> HIDE DEF x, y, z
      <4>3. QED
        BY <2>2, <2>3, <3>5, <4>1, <4>2
    <3> HIDE DEF cs, ss, x, y, z
    <3>7. SumOver(cs) = gc + ac + fc /\ SumOver(ss) = x + y + z
      BY <3>6, SumsOfFew
    <3>8. (x + y + z) % p = (gs + as + fs) % p
      <4>1. SameMod(p, x, gs) /\ SameMod(p, y, as) /\ SameMod(p, z, fs)
        BY <2>1, <2>2, <2>3, <3>5 DEF SameMod
      <4>2. SameMod(p, x + y + z, gs + as + fs)
        BY <4>1, ModOfThree
      <4>3. QED
        BY <4>2 DEF SameMod
    <3>9. TableExecute(q).count = SumOver(cs) /\ TableExecute(q).sum = SumOver(ss) % p
      BY <3>1
    <3>10. QED
      BY <2>4, <3>7, <3>8, <3>9
  <2>7. QueryResult(q).count = FoundCount(q) /\ QueryResult(q).sum = s
    <3> DEFINE g == GroupResult(q)
               a == MemResult(active, q)
               f == MemResult(frozen, q)
               r == Results(q)
    <3>1. group # Null => g.count = gc /\ g.sum = gs
      BY <2>5 DEF GroupResult, PartResult
    <3>2. a.count = ac /\ a.sum = as
      BY DEF MemResult, PartResult
    <3>3. frozen # Null => f.count = fc /\ f.sum = fs
      BY DEF MemResult, PartResult, Frozen
    <3>4. frozen = Null => fc = 0 /\ fs = 0
      <4>1. ASSUME frozen = Null PROVE fc = 0 /\ fs = 0
        <5>1. Frozen = <<>>
          BY <4>1 DEF Frozen
        <5>2. Matching(Frozen, q) = {}
          BY <5>1 DEF Matching
        <5>3. DOMAIN MemValues(Frozen, q) = {}
          BY <5>2 DEF MemValues
        <5> DEFINE v == MemValues(Frozen, q)
        <5>4. v \in [{} -> Int] /\ IsFiniteSet({})
          BY <1>1, <5>3, MemValuesTyped, FS_EmptySet
        <5> HIDE DEF v
        <5>5. SumOver(v) = PartSum(v, {}) /\ PartSum(v, {}) = 0
          BY <5>4, PartSums
        <5>6. fc = 0
          BY <5>2, FS_EmptySet
        <5>7. QED
          BY <5>5, <5>6 DEF v
      <4>2. QED
        BY <4>1
    <3>5. /\ group = Null /\ frozen = Null => r = <<a>>
          /\ group # Null /\ frozen = Null => r = <<g, a>>
          /\ group = Null /\ frozen # Null => r = <<a, f>>
          /\ group # Null /\ frozen # Null => r = <<g, a, f>>
      BY ResultsOfParts
    <3>6. QueryResult(q) = Merge(r)
      BY DEF QueryResult
    <3> HIDE DEF g, a, f, r, gs, as, fs, gc, ac, fc, s
    <3>7. CASE group = Null /\ frozen = Null
      <4>1. Merge(<<a>>).count = a.count /\ Merge(<<a>>).sum = a.sum
        BY <2>3, <3>2, MergedOne
      <4>2. Merge(r) = Merge(<<a>>)
        BY <3>5, <3>7, Zenon
      <4>4. gc = 0 /\ gs = 0 /\ fc = 0 /\ fs = 0
        BY <2>2, <3>4, <3>7
      <4>5. FoundCount(q) = ac /\ s = as
        BY <2>2, <2>3, <2>4, <4>4
      <4>6. Merge(r).count = ac /\ Merge(r).sum = as
        BY <3>2, <4>1, <4>2
      <4>7. QED
        BY <3>6, <4>5, <4>6
    <3>8. CASE group # Null /\ frozen = Null
      <4>1. /\ Merge(<<g, a>>).count = g.count + a.count
            /\ Merge(<<g, a>>).sum = g.sum + a.sum
        BY <2>2, <2>3, <3>1, <3>2, <3>8, MergedTwo
      <4>2. Merge(r) = Merge(<<g, a>>)
        BY <3>5, <3>8, Zenon
      <4>4. fc = 0 /\ fs = 0
        BY <3>4, <3>8
      <4>5. FoundCount(q) = gc + ac /\ s = gs + as
        BY <2>2, <2>3, <2>4, <4>4
      <4>6. Merge(r).count = gc + ac /\ Merge(r).sum = gs + as
        BY <3>1, <3>2, <3>8, <4>1, <4>2
      <4>7. QED
        BY <3>6, <4>5, <4>6
    <3>9. CASE group = Null /\ frozen # Null
      <4>1. /\ Merge(<<a, f>>).count = a.count + f.count
            /\ Merge(<<a, f>>).sum = a.sum + f.sum
        BY <2>3, <3>2, <3>3, <3>9, MergedTwo
      <4>2. Merge(r) = Merge(<<a, f>>)
        BY <3>5, <3>9, Zenon
      <4>4. gc = 0 /\ gs = 0
        BY <2>2, <3>9
      <4>5. FoundCount(q) = ac + fc /\ s = as + fs
        BY <2>2, <2>3, <2>4, <4>4
      <4>6. Merge(r).count = ac + fc /\ Merge(r).sum = as + fs
        BY <3>2, <3>3, <3>9, <4>1, <4>2
      <4>7. QED
        BY <3>6, <4>5, <4>6
    <3>10. CASE group # Null /\ frozen # Null
      <4>0. /\ g.count \in Int /\ a.count \in Int /\ f.count \in Int
            /\ g.sum \in Int /\ a.sum \in Int /\ f.sum \in Int
        BY <2>2, <2>3, <3>1, <3>2, <3>3, <3>10
      <4>1. /\ Merge(<<g, a, f>>).count = g.count + a.count + f.count
            /\ Merge(<<g, a, f>>).sum = g.sum + a.sum + f.sum
        BY <4>0, MergedThree
      <4>2. Merge(r) = Merge(<<g, a, f>>)
        BY <3>5, <3>10, Zenon
      <4>3. QED
        BY <2>2, <2>3, <2>4, <3>1, <3>2, <3>3, <3>6, <3>10, <4>1, <4>2
    <3>11. QED
      BY <3>7, <3>8, <3>9, <3>10
  <2>8. QED
    BY <2>6, <2>7
<1>3. QED
  BY <1>2 DEF SumsAreOfFoundRows

\* Both executions of a query, the one that adds bit planes up and the one
\* that transposes them back (ExecuteQueryResult), count the rows found and
\* add their values up modulo the word size, whatever the rows and queries.
THEOREM SumsCorrect == Spec => []SumsAreOfFoundRows
<1>1. QED
  BY Invariance, InvSums, PTL

(***************************************************************************)
(* Least, greatest and distinct values.                                    *)
(***************************************************************************)

\* A least member is the minimum, a greatest one the maximum.
LEMMA LeastIsMin ==
  ASSUME NEW S \in SUBSET Int, NEW m \in S
  PROVE  /\ (\A y \in S : m <= y) => Min(S) = m
         /\ (\A y \in S : m >= y) => Max(S) = m
<1>1. ASSUME \A y \in S : m <= y PROVE Min(S) = m
  <2> DEFINE c == CHOOSE x \in S : \A y \in S : x <= y
  <2>1. c \in S /\ \A y \in S : c <= y
    BY <1>1
  <2>2. Min(S) = c
    BY DEF Min
  <2> HIDE DEF c
  <2>3. QED
    BY <1>1, <2>1, <2>2
<1>2. ASSUME \A y \in S : m >= y PROVE Max(S) = m
  <2> DEFINE c == CHOOSE x \in S : \A y \in S : x >= y
  <2>1. c \in S /\ \A y \in S : c >= y
    BY <1>2
  <2>2. Max(S) = c
    BY DEF Max
  <2> HIDE DEF c
  <2>3. QED
    BY <1>2, <2>1, <2>2
<1>3. QED
  BY <1>1, <1>2

\* Finitely many values have a least and a greatest one.
LEMMA ExtremesAttained ==
  ASSUME NEW S, IsFiniteSet(S), S # {}, NEW v \in [S -> Int]
  PROVE  /\ \E x \in S : \A y \in S : v[x] <= v[y]
         /\ \E x \in S : \A y \in S : v[x] >= v[y]
<1> DEFINE Low(T) == \E x \in T : \A y \in T : v[x] <= v[y]
           High(T) == \E x \in T : \A y \in T : v[x] >= v[y]
           B == {T \in SUBSET S : T = {} \/ (Low(T) /\ High(T))}
<1>1. {} \in B
  OBVIOUS
<1>2. ASSUME NEW T \in SUBSET S, NEW x \in S \ T, T \in B
      PROVE  T \cup {x} \in B
  <2>1. CASE T = {}
    BY <2>1
  <2>2. CASE T # {}
    <3>1. PICK l \in T : \A y \in T : v[l] <= v[y]
      BY <1>2, <2>2
    <3>2. PICK h \in T : \A y \in T : v[h] >= v[y]
      BY <1>2, <2>2
    <3>3. \A y \in T \cup {x} : v[y] \in Int
      OBVIOUS
    <3>4. Low(T \cup {x})
      <4>1. CASE v[l] <= v[x]
        BY <3>1, <3>3, <4>1
      <4>2. CASE v[x] <= v[l]
        BY <3>1, <3>3, <4>2
      <4>3. QED
        BY <3>3, <4>1, <4>2
    <3>5. High(T \cup {x})
      <4>1. CASE v[h] >= v[x]
        BY <3>2, <3>3, <4>1
      <4>2. CASE v[x] >= v[h]
        BY <3>2, <3>3, <4>2
      <4>3. QED
        BY <3>3, <4>1, <4>2
    <3>6. QED
      BY <3>4, <3>5
  <2>3. QED
    BY <2>1, <2>2
<1> HIDE DEF B
<1>3. \A T \in SUBSET S : T \in B
  BY <1>1, <1>2, SubsetInduction
<1>4. QED
  BY <1>3 DEF B

\* A result counts values exactly if it has some, and names the extreme ones.
Extremal(r) ==
    /\ r.count \in Nat /\ r.distinct \in SUBSET Int
    /\ r.count > 0 <=> r.distinct # {}
    /\ r.distinct # {} =>
         /\ r.min_val \in r.distinct /\ \A y \in r.distinct : r.min_val <= y
         /\ r.max_val \in r.distinct /\ \A y \in r.distinct : r.max_val >= y

\* The result computed from finitely many values is extremal.
LEMMA PartExtremal ==
  ASSUME NEW D, IsFiniteSet(D), NEW v \in [D -> Int], NEW c \in Nat, c > 0 <=> D # {}
  PROVE  /\ Extremal(PartResult(c, v))
         /\ PartResult(c, v).distinct = {v[x] : x \in D}
<1> DEFINE V == {v[x] : x \in D}
           r == PartResult(c, v)
<1>1. /\ r.count = c /\ r.distinct = V
      /\ V # {} => r.min_val = Min(V) /\ r.max_val = Max(V)
  BY DEF PartResult
<1>2. /\ V \in SUBSET Int
      /\ V # {} <=> D # {}
  OBVIOUS
<1>3. ASSUME D # {}
      PROVE  /\ Min(V) \in V /\ \A y \in V : Min(V) <= y
             /\ Max(V) \in V /\ \A y \in V : Max(V) >= y
  <2>1. PICK l \in D : \A y \in D : v[l] <= v[y]
    BY <1>3, ExtremesAttained
  <2>2. PICK h \in D : \A y \in D : v[h] >= v[y]
    BY <1>3, ExtremesAttained
  <2>3. v[l] \in V /\ \A y \in V : v[l] <= y
    BY <2>1
  <2>4. v[h] \in V /\ \A y \in V : v[h] >= y
    BY <2>2
  <2> HIDE DEF V
  <2>5. Min(V) = v[l]
    BY <1>2, <2>3, LeastIsMin
  <2>6. Max(V) = v[h]
    BY <1>2, <2>4, LeastIsMin
  <2>7. QED
    BY <2>3, <2>4, <2>5, <2>6
<1> HIDE DEF V, r
<1>4. Extremal(r)
  BY <1>1, <1>2, <1>3 DEF Extremal
<1>5. QED
  BY <1>1, <1>4 DEF r, V

\* Merging extremal results gives the extremes of all values.
LEMMA MergeExtremal ==
  ASSUME NEW results, IsFiniteSet(DOMAIN results),
         \A k \in DOMAIN results : Extremal(results[k]),
         NEW V, V = UNION {results[k].distinct : k \in DOMAIN results}, V # {}
  PROVE  /\ Merge(results).min_val = Min(V)
         /\ Merge(results).max_val = Max(V)
         /\ Merge(results).distinct = V
<1> DEFINE K == {k \in DOMAIN results : results[k].count > 0}
           mins == {results[k].min_val : k \in K}
           maxs == {results[k].max_val : k \in K}
           lo == [k \in K |-> results[k].min_val]
           hi == [k \in K |-> results[k].max_val]
<1>1. /\ V \in SUBSET Int
      /\ \A y \in V : \E k \in K : y \in results[k].distinct
      /\ \A k \in K : results[k].distinct \subseteq V
  BY DEF Extremal
<1>2. K # {} /\ IsFiniteSet(K)
  <2>1. K \subseteq DOMAIN results /\ K # {}
    BY <1>1
  <2>2. QED
    BY <2>1, FS_Subset
<1>3. \A k \in K : /\ results[k].min_val \in results[k].distinct
                   /\ \A y \in results[k].distinct : results[k].min_val <= y
                   /\ results[k].max_val \in results[k].distinct
                   /\ \A y \in results[k].distinct : results[k].max_val >= y
  BY DEF Extremal
<1>4. lo \in [K -> Int] /\ hi \in [K -> Int]
  BY <1>1, <1>3
<1>5. Merge(results).distinct = V
  <2>1. Merge(results).distinct = UNION {results[k].distinct : k \in K}
    BY DEF Merge
  <2>2. UNION {results[k].distinct : k \in K} = V
    BY <1>1
  <2>3. QED
    BY <2>1, <2>2
<1>6. mins # {} /\ maxs # {}
  BY <1>2
<1>7. Merge(results).min_val = Min(mins) /\ Merge(results).max_val = Max(maxs)
  BY <1>6 DEF Merge
<1>8. Min(mins) = Min(V)
  <2> HIDE DEF K
  <2>1. PICK l \in K : \A k \in K : lo[l] <= lo[k]
    BY <1>2, <1>4, ExtremesAttained
  <2> DEFINE m == results[l].min_val
  <2>2. \A k \in K : results[k].min_val \in Int /\ m <= results[k].min_val
    BY <1>4, <2>1
  <2>3. m \in mins /\ mins \in SUBSET Int /\ \A y \in mins : m <= y
    BY <2>2
  <2>4. m \in V
    BY <1>1, <1>3
  <2>5. ASSUME NEW y \in V PROVE m <= y
    <3>1. PICK k \in K : y \in results[k].distinct
      BY <1>1
    <3>2. results[k].min_val <= y /\ results[k].min_val \in Int /\ m <= results[k].min_val
      BY <1>3, <2>2, <3>1
    <3>3. m \in Int /\ y \in Int
      BY <1>1, <2>4
    <3>4. QED
      BY <3>2, <3>3
  <2> HIDE DEF m, mins
  <2>6. Min(mins) = m
    BY <2>3, LeastIsMin
  <2>7. Min(V) = m
    BY <1>1, <2>4, <2>5, LeastIsMin
  <2>8. QED
    BY <2>6, <2>7
<1>9. Max(maxs) = Max(V)
  <2> HIDE DEF K
  <2>1. PICK l \in K : \A k \in K : hi[l] >= hi[k]
    BY <1>2, <1>4, ExtremesAttained
  <2> DEFINE m == results[l].max_val
  <2>2. \A k \in K : results[k].max_val \in Int /\ m >= results[k].max_val
    BY <1>4, <2>1
  <2>3. m \in maxs /\ maxs \in SUBSET Int /\ \A y \in maxs : m >= y
    BY <2>2
  <2>4. m \in V
    BY <1>1, <1>3
  <2>5. ASSUME NEW y \in V PROVE m >= y
    <3>1. PICK k \in K : y \in results[k].distinct
      BY <1>1
    <3>2. results[k].max_val >= y /\ results[k].max_val \in Int /\ m >= results[k].max_val
      BY <1>3, <2>2, <3>1
    <3>3. m \in Int /\ y \in Int
      BY <1>1, <2>4
    <3>4. QED
      BY <3>2, <3>3
  <2> HIDE DEF m, maxs
  <2>6. Max(maxs) = m
    BY <2>3, LeastIsMin
  <2>7. Max(V) = m
    BY <1>1, <2>4, <2>5, LeastIsMin
  <2>8. QED
    BY <2>6, <2>7
<1>10. QED
  BY <1>5, <1>7, <1>8, <1>9

\* Where no null was found, every row found has a value.
LEMMA NoNulls ==
  ASSUME Layout, MemtablesOK, NEW q, NoNullFound(q)
  PROVE  /\ DOMAIN FoundNumbers(q) = Found(q)
         /\ DOMAIN MemValues(active, q) = Matching(active, q)
         /\ DOMAIN MemValues(Frozen, q) = Matching(Frozen, q)
<1> DEFINE G == DOMAIN FoundNumbers(q)
           A == DOMAIN MemValues(active, q)
           F == DOMAIN MemValues(Frozen, q)
           P == Found(q)
           M == Matching(active, q)
           N == Matching(Frozen, q)
           g1 == {1} \X G
           a1 == {2} \X A
           f1 == {3} \X F
<1>1. active \in Seq(AllRows) /\ Frozen \in Seq(AllRows)
  BY FrozenTyped DEF MemtablesOK
<1>2. /\ G \subseteq P /\ IsFiniteSet(P)
      /\ A \subseteq M /\ IsFiniteSet(M)
      /\ F \subseteq N /\ IsFiniteSet(N)
  <2>1. G \subseteq P /\ IsFiniteSet(P)
    BY GroupPart DEF FoundNumbers
  <2>2. A \subseteq M /\ IsFiniteSet(M)
    BY <1>1, MemValuesTyped
  <2>3. F \subseteq N /\ IsFiniteSet(N)
    BY <1>1, MemValuesTyped
  <2>4. QED
    BY <2>1, <2>2, <2>3
<1>3. Cardinality(g1 \cup a1 \cup f1) = Cardinality(P) + Cardinality(M) + Cardinality(N)
  <2>1. DOMAIN FoundValues(q) = g1 \cup a1 \cup f1
    BY FoundParts
  <2>2. QED
    BY <2>1 DEF NoNullFound, FoundCount
<1> HIDE DEF G, A, F, P, M, N
<1>4. /\ IsFiniteSet(G) /\ Cardinality(G) \in Nat /\ Cardinality(G) <= Cardinality(P)
      /\ IsFiniteSet(A) /\ Cardinality(A) \in Nat /\ Cardinality(A) <= Cardinality(M)
      /\ IsFiniteSet(F) /\ Cardinality(F) \in Nat /\ Cardinality(F) <= Cardinality(N)
      /\ Cardinality(P) \in Nat /\ Cardinality(M) \in Nat /\ Cardinality(N) \in Nat
  BY <1>2, FS_Subset, FS_CardinalityType
<1>5. \A X, k : IsFiniteSet(X) => /\ IsFiniteSet({k} \X X)
                                  /\ Cardinality({k} \X X) = Cardinality(X)
  <2>1. ASSUME NEW X, NEW k, IsFiniteSet(X)
        PROVE  /\ IsFiniteSet({k} \X X) /\ Cardinality({k} \X X) = Cardinality(X)
    <3>1. IsFiniteSet({k}) /\ Cardinality({k}) = 1
      BY FS_Singleton
    <3>2. /\ IsFiniteSet({k} \X X)
          /\ Cardinality({k} \X X) = Cardinality({k}) * Cardinality(X)
      BY <2>1, <3>1, FS_Product
    <3>3. Cardinality(X) \in Nat
      BY <2>1, FS_CardinalityType
    <3>4. QED
      BY <3>1, <3>2, <3>3
  <2>2. QED
    BY <2>1
<1>6. /\ IsFiniteSet(g1) /\ Cardinality(g1) = Cardinality(G)
      /\ IsFiniteSet(a1) /\ Cardinality(a1) = Cardinality(A)
      /\ IsFiniteSet(f1) /\ Cardinality(f1) = Cardinality(F)
  BY <1>4, <1>5
<1>7. g1 \cap a1 = {} /\ (g1 \cup a1) \cap f1 = {}
  OBVIOUS
<1> HIDE DEF g1, a1, f1
<1>8. Cardinality(g1 \cup a1) = Cardinality(G) + Cardinality(A) /\ IsFiniteSet(g1 \cup a1)
  <2>1. /\ IsFiniteSet(g1 \cup a1)
        /\ Cardinality(g1 \cup a1) = Cardinality(g1) + Cardinality(a1) - Cardinality(g1 \cap a1)
    BY <1>6, FS_Union
  <2>2. Cardinality(g1 \cap a1) = 0
    BY <1>7, FS_EmptySet
  <2>3. QED
    BY <1>4, <1>6, <2>1, <2>2
<1>9. Cardinality(g1 \cup a1 \cup f1) = Cardinality(G) + Cardinality(A) + Cardinality(F)
  <2> DEFINE u == g1 \cup a1
  <2>1. IsFiniteSet(u) /\ u \cap f1 = {} /\ Cardinality(u) = Cardinality(G) + Cardinality(A)
    BY <1>7, <1>8
  <2> HIDE DEF u
  <2>2. Cardinality(u \cup f1) = Cardinality(u) + Cardinality(f1) - Cardinality(u \cap f1)
    BY <1>6, <2>1, FS_Union
  <2>3. Cardinality(u \cap f1) = 0
    BY <2>1, FS_EmptySet
  <2>4. Cardinality(u \cup f1) = Cardinality(G) + Cardinality(A) + Cardinality(F)
    BY <1>4, <1>6, <2>1, <2>2, <2>3
  <2>5. QED
    BY <2>4 DEF u
<1>10. /\ Cardinality(G) = Cardinality(P) /\ Cardinality(A) = Cardinality(M)
       /\ Cardinality(F) = Cardinality(N)
  <2> DEFINE all == Cardinality(g1 \cup a1 \cup f1)
             cg == Cardinality(G)
             ca == Cardinality(A)
             cf == Cardinality(F)
             cp == Cardinality(P)
             cm == Cardinality(M)
             cn == Cardinality(N)
  <2>1. /\ cg \in Nat /\ ca \in Nat /\ cf \in Nat /\ cp \in Nat /\ cm \in Nat /\ cn \in Nat
        /\ cg <= cp /\ ca <= cm /\ cf <= cn
    BY <1>4
  <2>2. all = cp + cm + cn
    BY <1>3
  <2>3. all = cg + ca + cf
    BY <1>9
  <2> HIDE DEF all, cg, ca, cf, cp, cm, cn
  <2>4. cg = cp /\ ca = cm /\ cf = cn
    BY <2>1, <2>2, <2>3
  <2>5. QED
    BY <2>4 DEF cg, ca, cf, cp, cm, cn
<1>11. G = P /\ A = M /\ F = N
  BY <1>2, <1>10, FS_Subset
<1>12. QED
  BY <1>11 DEF G, A, F, P, M, N

\* The values of a row group's matched rows, where none is null.
LEMMA GroupValues ==
  ASSUME Layout, group # Null, NEW q, DOMAIN FoundNumbers(q) = Found(q)
  PROVE  LET values == MatchedValues(group, q)
             g == FoundNumbers(q)
         IN  /\ IsFiniteSet(DOMAIN values) /\ values \in [DOMAIN values -> Int]
             /\ DOMAIN values # {} <=> DOMAIN g # {}
             /\ \A y : (\E x \in DOMAIN values : y = values[x])
                         <=> (\E n \in DOMAIN g : y = g[n])
<1> DEFINE v == MatchedValues(group, q)
           D == DOMAIN v
           g == FoundNumbers(q)
           F == Found(q)
           h == [n \in F |-> <<BlockOf(n), PlaceOf(n)>>]
<1>1. PICK rows : LaidOut(group, rows)
  BY DEF Layout
<1> DEFINE y == RowNumbers(rows)
<1>2. /\ \A x \in D : \E n \in F : x = h[n]
      /\ \A n \in F : h[n] \in D /\ v[h[n]] = y[n]
      /\ IsFiniteSet(D) /\ v \in [D -> Int]
  BY <1>1, MatchedRows
<1>3. ASSUME NEW n \in F PROVE g[n] = y[n]
  <2>1. n \in 1..Len(rows)
    BY <1>1, GroupCounts
  <2>2. GroupCells[n].row = rows[n]
    BY <1>1, <2>1, CellsOfLayout DEF GroupCells
  <2>3. g[n] = rows[n].num /\ rows[n].num # Null
    BY <2>2 DEF FoundNumbers
  <2>4. y[n] = NumberOf(rows[n])
    BY <2>1 DEF RowNumbers
  <2>5. QED
    BY <2>3, <2>4 DEF NumberOf
<1>4. DOMAIN g = F
  OBVIOUS
<1> HIDE DEF v, D, g, F, h, y
<1>5. D # {} <=> F # {}
  BY <1>2
<1>6. \A z : (\E x \in D : z = v[x]) <=> (\E n \in F : z = g[n])
  BY <1>2, <1>3
<1>7. QED
  BY <1>2, <1>4, <1>5, <1>6 DEF v, D, g, F

\* The extremes of the merged answers, in every state of the invariant.
LEMMA InvExtremes == IInv => MergedExtremes
<1> SUFFICES ASSUME IInv PROVE MergedExtremes
  OBVIOUS
<1>1. Layout /\ MemtablesOK /\ active \in Seq(AllRows) /\ Frozen \in Seq(AllRows)
  BY FrozenTyped DEF IInv, MemtablesOK
<1>2. ASSUME NEW q, NoNullFound(q), NEW V,
             V = {FoundValues(q)[x] : x \in DOMAIN FoundValues(q)}, V # {}
      PROVE  /\ QueryResult(q).min_val = Min(V)
             /\ QueryResult(q).max_val = Max(V)
             /\ QueryResult(q).distinct = V
  <2> DEFINE vg == FoundNumbers(q)
             va == MemValues(active, q)
             vf == MemValues(Frozen, q)
             G == DOMAIN vg
             A == DOMAIN va
             F == DOMAIN vf
             g == GroupResult(q)
             a == MemResult(active, q)
             f == MemResult(frozen, q)
             r == Results(q)
  <2>1. G = Found(q) /\ A = Matching(active, q) /\ F = Matching(Frozen, q)
    BY <1>1, <1>2, NoNulls
  <2>2. \A y : y \in V <=> \/ \E n \in G : y = vg[n]
                           \/ \E n \in A : y = va[n]
                           \/ \E n \in F : y = vf[n]
    <3> DEFINE v == FoundValues(q)
               D == ({1} \X G) \cup ({2} \X A) \cup ({3} \X F)
    <3>1. /\ v \in [D -> Int]
          /\ \A n \in G : v[<<1, n>>] = vg[n]
          /\ \A n \in A : v[<<2, n>>] = va[n]
          /\ \A n \in F : v[<<3, n>>] = vf[n]
      BY <1>1, FoundParts
    <3>2. \A y : y \in V <=> \E x \in D : y = v[x]
      BY <1>2, <3>1
    <3> HIDE DEF v, G, A, F, vg, va, vf
    <3>3. \A x : x \in D <=> \/ \E n \in G : x = <<1, n>>
                             \/ \E n \in A : x = <<2, n>>
                             \/ \E n \in F : x = <<3, n>>
      OBVIOUS
    <3> HIDE DEF D
    <3>4. ASSUME NEW y \in V
          PROVE  \/ \E n \in G : y = vg[n]
                 \/ \E n \in A : y = va[n]
                 \/ \E n \in F : y = vf[n]
      <4>1. PICK x \in D : y = v[x]
        BY <3>2
      <4>2. CASE \E n \in G : x = <<1, n>>
        BY <3>1, <4>1, <4>2
      <4>3. CASE \E n \in A : x = <<2, n>>
        BY <3>1, <4>1, <4>3
      <4>4. CASE \E n \in F : x = <<3, n>>
        BY <3>1, <4>1, <4>4
      <4>5. QED
        BY <3>3, <4>2, <4>3, <4>4
    <3>5. ASSUME NEW n \in G PROVE vg[n] \in V
      BY <3>1, <3>2, <3>3
    <3>6. ASSUME NEW n \in A PROVE va[n] \in V
      BY <3>1, <3>2, <3>3
    <3>7. ASSUME NEW n \in F PROVE vf[n] \in V
      BY <3>1, <3>2, <3>3
    <3>8. QED
      BY <3>4, <3>5, <3>6, <3>7
  <2>3. /\ a.distinct = {va[n] : n \in A} /\ Extremal(a)
    <3> DEFINE c == Cardinality(Matching(active, q))
    <3>1. /\ va \in [A -> Int] /\ IsFiniteSet(A) /\ c \in Nat
          /\ IsFiniteSet(Matching(active, q))
      BY <1>1, MemValuesTyped
    <3>2. c > 0 <=> A # {}
      BY <2>1, <3>1, FS_EmptySet
    <3>3. a = PartResult(c, va)
      BY DEF MemResult
    <3> HIDE DEF c, va, a, A
    <3>4. QED
      BY <3>1, <3>2, <3>3, PartExtremal
  <2>4. frozen # Null => f.distinct = {vf[n] : n \in F} /\ Extremal(f)
    <3> DEFINE c == Cardinality(Matching(Frozen, q))
    <3>1. /\ vf \in [F -> Int] /\ IsFiniteSet(F) /\ c \in Nat
          /\ IsFiniteSet(Matching(Frozen, q))
      BY <1>1, MemValuesTyped
    <3>2. c > 0 <=> F # {}
      BY <2>1, <3>1, FS_EmptySet
    <3>3. frozen # Null => f = PartResult(c, vf)
      BY DEF MemResult, Frozen
    <3> HIDE DEF c, vf, f, F
    <3>4. Extremal(PartResult(c, vf)) /\ PartResult(c, vf).distinct = {vf[n] : n \in F}
      BY <3>1, <3>2, PartExtremal
    <3>5. QED
      BY <3>3, <3>4
  <2>5. group # Null => /\ \A y : y \in g.distinct <=> \E n \in G : y = vg[n]
                        /\ Extremal(g)
    <3> SUFFICES ASSUME group # Null
                 PROVE  /\ \A y : y \in g.distinct <=> \E n \in G : y = vg[n]
                        /\ Extremal(g)
      OBVIOUS
    <3> DEFINE c == GroupExecute(group, q).count
               v == MatchedValues(group, q)
               D == DOMAIN v
    <3>1. c = Cardinality(G) /\ c \in Nat /\ IsFiniteSet(G)
      BY <1>1, <2>1, GroupPart
    <3>2. /\ IsFiniteSet(D) /\ v \in [D -> Int]
          /\ D # {} <=> G # {}
          /\ \A y : (\E x \in D : y = v[x]) <=> (\E n \in G : y = vg[n])
      BY <1>1, <2>1, GroupValues
    <3>3. c > 0 <=> G # {}
      BY <3>1, FS_EmptySet
    <3>4. g = PartResult(c, v)
      BY DEF GroupResult
    <3> HIDE DEF c, v, D, g, G, vg
    <3>5. c > 0 <=> D # {}
      BY <3>2, <3>3
    <3>6. Extremal(g) /\ g.distinct = {v[x] : x \in D}
      BY <3>1, <3>2, <3>4, <3>5, PartExtremal
    <3>7. QED
      BY <3>2, <3>6
  <2>6. group = Null => G = {}
    BY <2>1 DEF Found, GroupRows
  <2>7. frozen = Null => F = {}
    BY <2>1 DEF Frozen, Matching
  <2>8. /\ group = Null /\ frozen = Null => r = <<a>>
        /\ group # Null /\ frozen = Null => r = <<g, a>>
        /\ group = Null /\ frozen # Null => r = <<a, f>>
        /\ group # Null /\ frozen # Null => r = <<g, a, f>>
    BY ResultsOfParts
  <2> HIDE DEF vg, va, vf, G, A, F, g, a, f, r
  <2>9. /\ IsFiniteSet(DOMAIN r)
        /\ \A k \in DOMAIN r : \/ r[k] = a
                               \/ group # Null /\ r[k] = g
                               \/ frozen # Null /\ r[k] = f
        /\ \E k \in DOMAIN r : r[k] = a
        /\ group # Null => \E k \in DOMAIN r : r[k] = g
        /\ frozen # Null => \E k \in DOMAIN r : r[k] = f
    <3>0. IsFiniteSet(1..2) /\ IsFiniteSet(1..3)
      <4>1. \A m \in Nat : IsFiniteSet(1..m)
        BY FS_Interval
      <4>2. QED
        BY <4>1
    <3>1. CASE group = Null /\ frozen = Null
      <4>1. r = <<a>>
        BY <2>8, <3>1
      <4>2. DOMAIN r = {1} /\ r[1] = a
        BY <4>1
      <4>3. QED
        BY <3>1, <4>2, FS_Singleton
    <3>2. CASE group # Null /\ frozen = Null
      <4>1. r = <<g, a>>
        BY <2>8, <3>2
      <4>2. DOMAIN r = 1..2 /\ r[1] = g /\ r[2] = a
        BY <4>1
      <4>3. 1 \in 1..2 /\ 2 \in 1..2 /\ \A k \in 1..2 : k = 1 \/ k = 2
        OBVIOUS
      <4>4. QED
        BY <3>0, <3>2, <4>2, <4>3
    <3>3. CASE group = Null /\ frozen # Null
      <4>1. r = <<a, f>>
        BY <2>8, <3>3
      <4>2. DOMAIN r = 1..2 /\ r[1] = a /\ r[2] = f
        BY <4>1
      <4>3. 1 \in 1..2 /\ 2 \in 1..2 /\ \A k \in 1..2 : k = 1 \/ k = 2
        OBVIOUS
      <4>4. QED
        BY <3>0, <3>3, <4>2, <4>3
    <3>4. CASE group # Null /\ frozen # Null
      <4>1. r = <<g, a, f>>
        BY <2>8, <3>4
      <4>2. DOMAIN r = 1..3 /\ r[1] = g /\ r[2] = a /\ r[3] = f
        BY <4>1
      <4>3. /\ 1 \in 1..3 /\ 2 \in 1..3 /\ 3 \in 1..3
            /\ \A k \in 1..3 : k = 1 \/ k = 2 \/ k = 3
        OBVIOUS
      <4>4. QED
        BY <3>0, <3>4, <4>2, <4>3
    <3>5. QED
      BY <3>1, <3>2, <3>3, <3>4
  <2>10. \A k \in DOMAIN r : Extremal(r[k])
    BY <2>3, <2>4, <2>5, <2>9
  <2>11. V = UNION {r[k].distinct : k \in DOMAIN r}
    <3>1. ASSUME NEW y \in V PROVE \E k \in DOMAIN r : y \in r[k].distinct
      <4>1. CASE \E n \in G : y = vg[n]
        BY <2>5, <2>6, <2>9, <4>1
      <4>2. CASE \E n \in A : y = va[n]
        BY <2>3, <2>9, <4>2
      <4>3. CASE \E n \in F : y = vf[n]
        BY <2>4, <2>7, <2>9, <4>3
      <4>4. QED
        BY <2>2, <4>1, <4>2, <4>3
    <3>2. ASSUME NEW k \in DOMAIN r, NEW y \in r[k].distinct PROVE y \in V
      <4>1. CASE r[k] = a
        BY <2>2, <2>3, <4>1
      <4>2. CASE group # Null /\ r[k] = g
        BY <2>2, <2>5, <4>2
      <4>3. CASE frozen # Null /\ r[k] = f
        BY <2>2, <2>4, <4>3
      <4>4. QED
        BY <2>9, <4>1, <4>2, <4>3
    <3>3. QED
      BY <3>1, <3>2
  <2>12. /\ Merge(r).min_val = Min(V) /\ Merge(r).max_val = Max(V)
         /\ Merge(r).distinct = V
    BY <1>2, <2>9, <2>10, <2>11, MergeExtremal
  <2>13. QED
    BY <2>12 DEF QueryResult, r
<1>3. QED
  BY <1>2 DEF MergedExtremes

\* Merging the results of the parts (ExecuteQueryResult) gives the least, the
\* greatest and the distinct values of all rows found where none is null,
\* whichever parts found nothing.
THEOREM ExtremesCorrect == Spec => []MergedExtremes
<1>1. QED
  BY Invariance, InvExtremes, PTL

-----------------------------------------------------------------------------
(* The file of a row group (RowGroupFile): reading goes through the fields   *)
(* in step with how they were written, and once it is out of step it fails.  *)

(* The loops of Deserialize.  A loop is a recursive function; one proof that  *)
(* there is such a function serves them all.                                 *)

Turn(loop, file, m, r, k) ==
    CASE loop = "columns" -> RowFile!ReadColumn(file, r)
      [] loop = "tiles"   -> RowFile!Take(file, r, RowFile!TileSize)
      [] loop = "blocks"  -> RowFile!ReadBlock(file, r, m)
      [] loop = "data"    -> IF file.fields[k].data
                             THEN Append(r, RowFile!FieldBytes(file, k)) ELSE r

\* What there is after n turns and before.
Loop(h, loop, file, m, start, n) ==
    h = [k \in 0..n |-> IF k = 0 THEN start ELSE Turn(loop, file, m, h[k - 1], k)]

\* There is a function that loops so.
LEMMA LoopDefined ==
  ASSUME NEW loop, NEW file, NEW m, NEW start, NEW n \in Nat
  PROVE  \E h : Loop(h, loop, file, m, start, n)
<1> USE DEF Loop
<1> DEFINE Solves(h, j) == Loop(h, loop, file, m, start, j)
           B == {j \in Nat : \E h : Solves(h, j)}
<1>1. 0 \in B
  <2>1. Solves([k \in 0..0 |-> start], 0)
    OBVIOUS
  <2>2. QED
    BY <2>1
<1>2. ASSUME NEW j \in 1..n, j - 1 \in B PROVE j \in B
  <2>1. PICK f : Solves(f, j - 1)
    BY <1>2
  <2> DEFINE g == [k \in 0..j |-> IF k = j THEN Turn(loop, file, m, f[j - 1], j) ELSE f[k]]
  <2>2. ASSUME NEW k \in 0..j
        PROVE  g[k] = IF k = 0 THEN start ELSE Turn(loop, file, m, g[k - 1], k)
    <3>1. CASE k = j
      <4>1. k # 0 /\ k - 1 \in 0..j /\ k - 1 # j /\ g[k - 1] = f[j - 1]
        BY <3>1
      <4>2. QED
        BY <3>1, <4>1
    <3>2. CASE k # j
      <4>1. k \in 0..(j - 1) /\ g[k] = f[k]
        BY <3>2
      <4>2. f[k] = IF k = 0 THEN start ELSE Turn(loop, file, m, f[k - 1], k)
        BY <2>1, <4>1
      <4>3. k # 0 => k - 1 \in 0..j /\ k - 1 # j /\ g[k - 1] = f[k - 1]
        BY <4>1
      <4>4. QED
        BY <4>1, <4>2, <4>3
    <3>3. QED
      BY <3>1, <3>2
  <2>3. Solves(g, j)
    <3> HIDE DEF Turn
    <3>1. g = [k \in 0..j |-> g[k]]
      OBVIOUS
    <3> HIDE DEF g
    <3>2. QED
      BY <2>2, <3>1
  <2> HIDE DEF g, Solves
  <2>4. j \in Nat
    OBVIOUS
  <2>5. QED
    BY <2>3, <2>4
<1> HIDE DEF B
<1>3. n \in B
  BY <1>1, <1>2, UptoInduction
<1>4. QED
  BY <1>3 DEF B

\* The loop over the columns of the schema.
LEMMA ColumnsLoop ==
  ASSUME NEW file, NEW r, NEW n \in Nat
  PROVE  \E h : /\ RowFile!ReadColumns(file, r, n) = h[n]
                /\ h[0] = r
                /\ \A c \in 1..n : h[c] = RowFile!ReadColumn(file, h[c - 1])
<1> DEFINE Eq(h) == h = [c \in 0..n |-> IF c = 0 THEN r
                                        ELSE RowFile!ReadColumn(file, h[c - 1])]
           F == CHOOSE h : Eq(h)
<1>1. RowFile!ReadColumns(file, r, n) = F[n]
  BY DEF RowFile!ReadColumns
<1>2. \E h : Eq(h)
  <2>1. PICK h : Loop(h, "columns", file, 0, r, n)
    BY LoopDefined
  <2>2. \A x, c : Turn("columns", file, 0, x, c) = RowFile!ReadColumn(file, x)
    BY DEF Turn
  <2>3. Eq(h)
    BY <2>1, <2>2 DEF Loop
  <2>4. QED
    BY <2>3
<1>3. Eq(F)
  BY <1>2
<1> HIDE DEF F
<1>4. QED
  BY <1>1, <1>3

\* The loop over the tiles of a block.
LEMMA TilesLoop ==
  ASSUME NEW file, NEW r, NEW n \in Nat
  PROVE  \E h : /\ RowFile!ReadTiles(file, r, n) = h[n]
                /\ h[0] = r
                /\ \A c \in 1..n : h[c] = RowFile!Take(file, h[c - 1], RowFile!TileSize)
<1> DEFINE Eq(h) == h = [c \in 0..n |-> IF c = 0 THEN r
                                ELSE RowFile!Take(file, h[c - 1], RowFile!TileSize)]
           F == CHOOSE h : Eq(h)
<1>1. RowFile!ReadTiles(file, r, n) = F[n]
  BY DEF RowFile!ReadTiles
<1>2. \E h : Eq(h)
  <2>1. PICK h : Loop(h, "tiles", file, 0, r, n)
    BY LoopDefined
  <2>2. \A x, c : Turn("tiles", file, 0, x, c) = RowFile!Take(file, x, RowFile!TileSize)
    BY DEF Turn
  <2>3. Eq(h)
    BY <2>1, <2>2 DEF Loop
  <2>4. QED
    BY <2>3
<1>3. Eq(F)
  BY <1>2
<1> HIDE DEF F
<1>4. QED
  BY <1>1, <1>3

BlocksUpTo(h, file, r, m, n) ==
    /\ h[0] = r
    /\ \A b \in 1..n : h[b] = RowFile!ReadBlock(file, h[b - 1], m)

\* The loop over the blocks.
LEMMA BlocksLoop ==
  ASSUME NEW file, NEW r, NEW m, NEW n \in Nat
  PROVE  \E h : /\ RowFile!ReadBlocks(file, r, m, n) = h[n]
                /\ BlocksUpTo(h, file, r, m, n)
<1> DEFINE Eq(h) == h = [b \in 0..n |-> IF b = 0 THEN r
                                        ELSE RowFile!ReadBlock(file, h[b - 1], m)]
           F == CHOOSE h : Eq(h)
<1>1. RowFile!ReadBlocks(file, r, m, n) = F[n]
  BY DEF RowFile!ReadBlocks
<1>2. \E h : Eq(h)
  <2>1. PICK h : Loop(h, "blocks", file, m, r, n)
    BY LoopDefined
  <2>2. \A x, b : Turn("blocks", file, m, x, b) = RowFile!ReadBlock(file, x, m)
    BY DEF Turn
  <2>3. Eq(h)
    BY <2>1, <2>2 DEF Loop
  <2>4. QED
    BY <2>3
<1>3. Eq(F)
  BY <1>2
<1> HIDE DEF F
<1>4. QED
  BY <1>1, <1>3 DEF BlocksUpTo

\* The bytes of the data among the first k fields are got[k], for k up to n.
Gathered(got, file, n) ==
    /\ got[0] = <<>>
    /\ \A k \in 1..n : got[k] = IF file.fields[k].data
                                THEN Append(got[k - 1], RowFile!FieldBytes(file, k))
                                ELSE got[k - 1]

\* The bytes of the data, collected field by field.
LEMMA DataLoop ==
  ASSUME NEW file, NEW n, n = Len(file.fields), n \in Nat
  PROVE  \E h : RowFile!Data(file) = h[n] /\ Gathered(h, file, n)
<1> DEFINE Eq(h) == h = [k \in 0..n |-> IF k = 0 THEN <<>> ELSE
                                        IF file.fields[k].data
                                        THEN Append(h[k - 1], RowFile!FieldBytes(file, k))
                                        ELSE h[k - 1]]
           F == CHOOSE h : Eq(h)
<1>1. RowFile!Data(file) = F[n]
  BY DEF RowFile!Data
<1>2. \E h : Eq(h)
  <2>1. PICK h : Loop(h, "data", file, 0, <<>>, n)
    BY LoopDefined
  <2>2. \A x, k : Turn("data", file, 0, x, k) = IF file.fields[k].data
                     THEN Append(x, RowFile!FieldBytes(file, k)) ELSE x
    BY DEF Turn
  <2>3. Eq(h)
    BY <2>1, <2>2 DEF Loop
  <2>4. QED
    BY <2>3
<1>3. Eq(F)
  BY <1>2
<1> HIDE DEF F
<1>4. 0 \in 0..n /\ \A k \in 1..n : k \in 0..n /\ k # 0
  OBVIOUS
<1>5. QED
  BY <1>1, <1>3, <1>4 DEF Gathered

(* Fields and their offsets. *)

FieldList(F) ==
    /\ Len(F) \in Nat /\ DOMAIN F = 1..Len(F)
    /\ \A k \in 1..Len(F) : F[k].len \in Nat /\ F[k].data \in BOOLEAN

\* The bytes of the first k fields.
Ahead(F, k) == SumOver([i \in 1..k |-> F[i].len])

\* Each field adds its length to what is ahead of the next.
LEMMA AheadSteps ==
  ASSUME NEW F, FieldList(F)
  PROVE  /\ Ahead(F, 0) = 0
         /\ \A k \in 0..Len(F) : Ahead(F, k) \in Nat
         /\ \A k \in 1..Len(F) : Ahead(F, k) = Ahead(F, k - 1) + F[k].len
<1> DEFINE n == Len(F)
<1>1. n \in Nat /\ \A k \in 1..n : F[k].len \in Nat
  BY DEF FieldList
<1> HIDE DEF n
<1>2. ASSUME NEW k \in 1..n
      PROVE  /\ Ahead(F, k) = Ahead(F, k - 1) + F[k].len /\ Ahead(F, k - 1) \in Int
  <2> DEFINE v == [i \in 1..((k - 1) + 1) |-> F[i].len]
             w == [i \in 1..(k - 1) |-> F[i].len]
  <2>1. k - 1 \in Nat /\ (k - 1) + 1 = k /\ \A i \in 1..k : F[i].len \in Nat
    BY <1>1
  <2>2. v \in [1..((k - 1) + 1) -> Int]
    BY <2>1
  <2>3. v[(k - 1) + 1] = F[k].len /\ [i \in 1..(k - 1) |-> v[i]] = w
    BY <2>1
  <2>4. v = [i \in 1..k |-> F[i].len]
    BY <2>1
  <2> HIDE DEF v, w
  <2>5. /\ SumOver(v) = v[(k - 1) + 1] + SumOver([i \in 1..(k - 1) |-> v[i]])
        /\ SumOver([i \in 1..(k - 1) |-> v[i]]) \in Int
    BY <2>1, <2>2, SumSteps
  <2>6. SumOver(v) = F[k].len + SumOver(w) /\ SumOver(w) \in Int
    BY <2>3, <2>5
  <2>7. SumOver(v) = Ahead(F, k) /\ SumOver(w) = Ahead(F, k - 1)
    BY <2>4, Zenon DEF Ahead, w
  <2>8. F[k].len \in Int
    BY <1>1
  <2>9. QED
    BY <2>6, <2>7, <2>8
<1>3. Ahead(F, 0) = 0
  <2>1. [i \in 1..0 |-> F[i].len] = [i \in {} |-> F[i].len]
    OBVIOUS
  <2>2. SumOver([i \in {} |-> F[i].len]) = 0
    BY PartSumZero, PartSums, FS_EmptySet DEF PartSum
  <2>3. QED
    BY <2>1, <2>2, Zenon DEF Ahead
<1> DEFINE B == {k \in 0..n : Ahead(F, k) \in Nat}
<1>4. 0 \in B /\ \A k \in 1..n : k - 1 \in B => k \in B
  BY <1>1, <1>2, <1>3
<1> HIDE DEF B
<1>5. \A k \in 0..n : k \in B
  BY <1>1, <1>4, UptoInduction
<1>6. QED
  BY <1>2, <1>3, <1>5 DEF B, n

\* No field is longer than what is left of the file.
LEMMA AheadGrows ==
  ASSUME NEW F, FieldList(F), NEW i \in 0..Len(F), NEW j \in 0..Len(F), i <= j
  PROVE  Ahead(F, i) <= Ahead(F, j)
<1> DEFINE n == Len(F)
           B == {k \in 0..n : i <= k => Ahead(F, i) <= Ahead(F, k)}
<1>1. n \in Nat /\ \A k \in 1..n : F[k].len \in Nat
  BY DEF FieldList
<1>2. /\ \A k \in 0..n : Ahead(F, k) \in Nat
      /\ \A k \in 1..n : Ahead(F, k) = Ahead(F, k - 1) + F[k].len
  BY AheadSteps
<1> HIDE DEF n
<1>3. 0 \in B
  BY <1>1, <1>2 DEF n
<1>4. ASSUME NEW k \in 1..n, k - 1 \in B PROVE k \in B
  <2>1. F[k].len \in Nat /\ Ahead(F, k) = Ahead(F, k - 1) + F[k].len
        /\ Ahead(F, k - 1) \in Nat /\ Ahead(F, k) \in Nat /\ Ahead(F, i) \in Nat
    BY <1>1, <1>2 DEF n
  <2>2. k - 1 \in 0..n /\ (i <= k - 1 => Ahead(F, i) <= Ahead(F, k - 1))
    BY <1>4
  <2>3. i <= k => i = k \/ i <= k - 1
    BY <1>1 DEF n
  <2>4. QED
    BY <1>1, <2>1, <2>2, <2>3
<1> HIDE DEF B
<1>5. j \in B
  BY <1>1, <1>3, <1>4, UptoInduction DEF n
<1>6. QED
  BY <1>5 DEF B

\* The size of a list of fields, and the offset of each.
LEMMA SizeIsAhead ==
  ASSUME NEW S, NEW F \in Seq(S), FieldList(F)
  PROVE  /\ RowFile!Size(F) = Ahead(F, Len(F))
         /\ \A k \in 1..Len(F) : RowFile!Size(SubSeq(F, 1, k - 1)) = Ahead(F, k - 1)
<1>1. \A v : RowFile!SumOver(v) = SumOver(v)
  BY DEF RowFile!SumOver, RowFile!MapThenSumSet, RowFile!MapThenFoldSet,
         SumOver, MapThenSumSet, MapThenFoldSet
<1>2. \A s : RowFile!Size(s) = SumOver([k \in DOMAIN s |-> s[k].len])
  BY <1>1, Zenon DEF RowFile!Size
<1>3. RowFile!Size(F) = Ahead(F, Len(F))
  BY <1>2, Zenon DEF Ahead, FieldList
<1>4. ASSUME NEW k \in 1..Len(F)
      PROVE  RowFile!Size(SubSeq(F, 1, k - 1)) = Ahead(F, k - 1)
  <2> DEFINE s == SubSeq(F, 1, k - 1)
  <2>1. Len(F) \in Nat
    BY DEF FieldList
  <2>2. DOMAIN s = 1..(k - 1) /\ \A i \in 1..(k - 1) : s[i] = F[i]
    BY <2>1
  <2> HIDE DEF s
  <2>3. [i \in DOMAIN s |-> s[i].len] = [i \in 1..(k - 1) |-> F[i].len]
    BY <2>2
  <2>4. QED
    BY <1>2, <2>3, Zenon DEF s, Ahead
<1>5. QED
  BY <1>3, <1>4

(* Reading in step with the fields.                                          *)

\* The bytes of the first k fields that hold data are got[k].
Gathers(got, F, file) ==
    /\ got[0] = <<>>
    /\ \A k \in 0..Len(F) : got[k] \in Seq(Nat \X Nat)
    /\ \A k \in 1..Len(F) : got[k] = IF F[k].data
                                     THEN Append(got[k - 1], RowFile!FieldBytes(file, k))
                                     ELSE got[k - 1]

\* A file of the fields F, or of a beginning of them.
FileOf(F, file) ==
    /\ FieldList(F)
    /\ file.fields = F
    /\ file.at = [k \in 1..Len(F) |-> Ahead(F, k - 1)]
    /\ file.size \in 0..Ahead(F, Len(F))

Reading(F, file, got) == FileOf(F, file) /\ Gathers(got, F, file)

\* The first k fields have been read, or the file is not whole.
Read(F, file, got, k, r) ==
    /\ r = [offset |-> r.offset, got |-> r.got, ok |-> r.ok]
    /\ r.ok \in BOOLEAN
    /\ r.ok => r.offset = Ahead(F, k) /\ r.got = got[k]
    /\ ~r.ok => file.size < Ahead(F, Len(F))

\* The data of a file, up to each field.
LEMMA GathersDefined ==
  ASSUME NEW F, NEW file, FileOf(F, file)
  PROVE  \E got : Gathers(got, F, file) /\ RowFile!Data(file) = got[Len(F)]
<1>1. file.fields = F /\ Len(F) \in Nat /\ \A k \in 1..Len(F) : F[k].len \in Nat
  BY DEF FileOf, FieldList
<1>2. PICK h : /\ RowFile!Data(file) = h[Len(F)]
               /\ h[0] = <<>>
               /\ \A k \in 1..Len(F) :
                    h[k] = IF F[k].data THEN Append(h[k - 1], RowFile!FieldBytes(file, k))
                           ELSE h[k - 1]
  <2>1. Len(F) = Len(file.fields) /\ Len(F) \in Nat
    BY <1>1
  <2> DEFINE n == Len(F)
  <2>2. n = Len(file.fields) /\ n \in Nat
    BY <2>1
  <2> HIDE DEF n
  <2>3. PICK h : RowFile!Data(file) = h[n] /\ Gathered(h, file, n)
    BY <2>2, DataLoop
  <2>4. QED
    BY <1>1, <2>3 DEF n, Gathered
<1>3. \A k \in 1..Len(F) : RowFile!FieldBytes(file, k) \in Nat \X Nat
  <2> SUFFICES ASSUME NEW k \in 1..Len(F)
               PROVE  RowFile!FieldBytes(file, k) \in Nat \X Nat
    OBVIOUS
  <2>1. FieldList(F)
    BY DEF FileOf
  <2>2. k - 1 \in 0..Len(F)
    BY <1>1
  <2>3. Ahead(F, k - 1) \in Nat /\ F[k].len \in Nat
    BY <1>1, <2>1, <2>2, AheadSteps
  <2>4. RowFile!FieldBytes(file, k) = <<Ahead(F, k - 1), F[k].len>>
    BY <1>1 DEF RowFile!FieldBytes, FileOf
  <2>5. QED
    BY <2>3, <2>4
<1> DEFINE B == {k \in 0..Len(F) : h[k] \in Seq(Nat \X Nat)}
<1>4. 0 \in B
  <2>1. <<>> \in Seq(Nat \X Nat) /\ 0 \in 0..Len(F)
    BY <1>1
  <2>2. QED
    BY <1>2, <2>1
<1>5. ASSUME NEW k \in 1..Len(F), k - 1 \in B PROVE k \in B
  <2>1. h[k - 1] \in Seq(Nat \X Nat) /\ RowFile!FieldBytes(file, k) \in Nat \X Nat
    BY <1>3, <1>5
  <2>2. Append(h[k - 1], RowFile!FieldBytes(file, k)) \in Seq(Nat \X Nat)
    BY <2>1, AppendProperties
  <2>3. h[k] \in Seq(Nat \X Nat)
    BY <1>2, <2>1, <2>2
  <2>4. QED
    BY <2>3
<1> HIDE DEF B
<1>6. \A k \in 0..Len(F) : k \in B
  BY <1>1, <1>4, <1>5, UptoInduction
<1>7. \A k \in 0..Len(F) : h[k] \in Seq(Nat \X Nat)
  BY <1>6 DEF B
<1>8. QED
  BY <1>2, <1>7 DEF Gathers

\* Taking as many bytes as the next field has reads that field, or fails.
LEMMA TakeReads ==
  ASSUME NEW F, NEW file, NEW got, Reading(F, file, got), NEW k \in 1..Len(F),
         F[k].data, NEW r, Read(F, file, got, k - 1, r)
  PROVE  Read(F, file, got, k, RowFile!Take(file, r, F[k].len))
<1> DEFINE n == F[k].len
           t == RowFile!Take(file, r, n)
           L == Len(F)
<1>1. L \in Nat /\ n \in Nat /\ FieldList(F)
  BY DEF Reading, FileOf, FieldList
<1>2. /\ Ahead(F, k) = Ahead(F, k - 1) + n
      /\ Ahead(F, k) \in Nat /\ Ahead(F, k - 1) \in Nat /\ Ahead(F, L) \in Nat
  BY <1>1, AheadSteps
<1>3. Ahead(F, k) <= Ahead(F, L)
  BY <1>1, AheadGrows
<1>4. file.size \in Nat
  BY <1>2 DEF Reading, FileOf
<1>5. RowFile!FieldBytes(file, k) = <<Ahead(F, k - 1), n>>
  BY <1>1 DEF RowFile!FieldBytes, Reading, FileOf
<1>6. got[k] = Append(got[k - 1], RowFile!FieldBytes(file, k))
  BY <1>1 DEF Reading, Gathers
<1> HIDE DEF n, L
<1>7. CASE ~r.ok
  <2>1. t = RowFile!Failed
    BY <1>7 DEF RowFile!Take
  <2>2. file.size < Ahead(F, L)
    BY <1>7 DEF Read, L
  <2> HIDE DEF t
  <2>3. QED
    BY <2>1, <2>2 DEF Read, RowFile!Failed, t, n, L
<1>8. CASE r.ok /\ Ahead(F, k) > file.size
  <2>1. r.offset = Ahead(F, k - 1)
    BY <1>8 DEF Read
  <2>2. t = RowFile!Failed
    BY <1>2, <1>8, <2>1 DEF RowFile!Take, RowFile!OutOfBounds
  <2>3. file.size < Ahead(F, L)
    BY <1>2, <1>3, <1>4, <1>8
  <2> HIDE DEF t
  <2>4. QED
    BY <2>2, <2>3 DEF Read, RowFile!Failed, t, n, L
<1>9. CASE r.ok /\ Ahead(F, k) <= file.size
  <2>1. r.offset = Ahead(F, k - 1) /\ r.got = got[k - 1]
    BY <1>9 DEF Read
  <2>2. ~ RowFile!OutOfBounds(file, r.offset, n)
    BY <1>2, <1>4, <1>9, <2>1 DEF RowFile!OutOfBounds
  <2>3. RowFile!Bytes(file, r.offset, n) = <<Ahead(F, k - 1), n>>
    BY <1>2, <1>4, <1>9, <2>1 DEF RowFile!Bytes
  <2>4. t = [offset |-> Ahead(F, k), got |-> got[k], ok |-> TRUE]
    BY <1>2, <1>5, <1>6, <1>9, <2>1, <2>2, <2>3 DEF RowFile!Take
  <2> HIDE DEF t
  <2>5. QED
    BY <2>4 DEF Read, t, n
<1>10. QED
  BY <1>2, <1>4, <1>7, <1>8, <1>9 DEF Read

\* Skipping as many bytes as the next field of zeros has.
LEMMA SkipReads ==
  ASSUME NEW F, NEW file, NEW got, Reading(F, file, got), NEW k \in 1..Len(F),
         ~F[k].data, NEW r, Read(F, file, got, k - 1, r)
  PROVE  Read(F, file, got, k, RowFile!Skip(r, F[k].len))
<1>1. Ahead(F, k) = Ahead(F, k - 1) + F[k].len
  BY AheadSteps DEF Reading, FileOf
<1>2. got[k] = got[k - 1]
  BY DEF Reading, Gathers
<1>3. RowFile!Skip(r, F[k].len) = [offset |-> r.offset + F[k].len, got |-> r.got, ok |-> r.ok]
  BY DEF RowFile!Skip, Read
<1>4. QED
  BY <1>1, <1>2, <1>3 DEF Read

\* Skipping nothing.
LEMMA SkipNothing ==
  ASSUME NEW F, NEW file, NEW got, Reading(F, file, got), NEW k \in 0..Len(F),
         NEW r, Read(F, file, got, k, r)
  PROVE  Read(F, file, got, k, RowFile!Skip(r, 0))
<1>1. Ahead(F, k) \in Nat
  BY AheadSteps DEF Reading, FileOf
<1>2. RowFile!Skip(r, 0) = [offset |-> r.offset + 0, got |-> r.got, ok |-> r.ok]
  BY DEF RowFile!Skip, Read
<1>3. QED
  BY <1>1, <1>2 DEF Read

\* A read that has failed stays failed.
LEMMA FailedReads ==
  ASSUME NEW F, NEW file, NEW got, NEW k, NEW r, Read(F, file, got, k, r), ~r.ok
  PROVE  /\ \A j, n : Read(F, file, got, j, RowFile!Take(file, r, n))
                      /\ ~RowFile!Take(file, r, n).ok
         /\ \A j, n : Read(F, file, got, j, RowFile!Skip(r, n)) /\ ~RowFile!Skip(r, n).ok
         /\ RowFile!LengthRead(file, r) = 0
<1>1. \A n : RowFile!Take(file, r, n) = RowFile!Failed
  BY DEF RowFile!Take
<1>2. \A n : RowFile!Skip(r, n) = [offset |-> r.offset + n, got |-> r.got, ok |-> r.ok]
  BY DEF RowFile!Skip, Read
<1>3. file.size < Ahead(F, Len(F))
  BY DEF Read
<1>4. RowFile!LengthRead(file, r) = 0
  BY DEF RowFile!LengthRead
<1>5. \A j, n : Read(F, file, got, j, RowFile!Take(file, r, n))
                /\ ~RowFile!Take(file, r, n).ok
  <2>1. \A j : Read(F, file, got, j, RowFile!Failed) /\ ~RowFile!Failed.ok
    BY <1>3 DEF Read, RowFile!Failed
  <2>2. QED
    BY <1>1, <2>1
<1>6. ASSUME NEW j, NEW n
      PROVE  Read(F, file, got, j, RowFile!Skip(r, n)) /\ ~RowFile!Skip(r, n).ok
  <2> DEFINE s == [offset |-> r.offset + n, got |-> r.got, ok |-> r.ok]
  <2>1. Read(F, file, got, j, s) /\ ~s.ok
    BY <1>3 DEF Read
  <2>2. RowFile!Skip(r, n) = s
    BY <1>2
  <2> HIDE DEF s
  <2>3. QED
    BY <2>1, <2>2
<1>7. QED
  BY <1>4, <1>5, <1>6

\* The number that was read last is the one that was written there.
LEMMA LengthIsRead ==
  ASSUME NEW F, NEW file, NEW got, Reading(F, file, got), NEW k \in 1..Len(F),
         F[k].data, F[k].len > 0, NEW r, Read(F, file, got, k, r), r.ok
  PROVE  RowFile!LengthRead(file, r) = F[k].val
<1> DEFINE L == Len(F)
<1>1. L \in Nat /\ FieldList(F) /\ (\A i \in 1..L : F[i].len \in Nat) /\ file.fields = F
      /\ DOMAIN F = 1..L
  BY DEF Reading, FileOf, FieldList
<1>2. \A i \in 1..L : RowFile!FieldBytes(file, i) = <<Ahead(F, i - 1), F[i].len>>
  BY <1>1 DEF RowFile!FieldBytes, Reading, FileOf
<1>3. RowFile!Last(r.got) = RowFile!FieldBytes(file, k)
  <2>1. r.got = Append(got[k - 1], RowFile!FieldBytes(file, k))
    BY DEF Read, Reading, Gathers
  <2>2. got[k - 1] \in Seq(Nat \X Nat) /\ RowFile!FieldBytes(file, k) \in Nat \X Nat
    <3>1. k - 1 \in 0..L
      BY <1>1
    <3>2. Ahead(F, k - 1) \in Nat
      BY <1>1, <3>1, AheadSteps
    <3>3. QED
      BY <1>1, <1>2, <3>1, <3>2 DEF Reading, Gathers
  <2>3. /\ Len(r.got) = Len(got[k - 1]) + 1
        /\ r.got[Len(got[k - 1]) + 1] = RowFile!FieldBytes(file, k)
    BY <2>1, <2>2, AppendProperties
  <2>4. QED
    BY <2>3 DEF RowFile!Last
<1>4. ASSUME NEW i \in 1..L, RowFile!FieldBytes(file, i) = RowFile!FieldBytes(file, k)
      PROVE  i = k
  <2>1. Ahead(F, i - 1) = Ahead(F, k - 1) /\ F[i].len = F[k].len
    BY <1>2, <1>4
  <2>2. /\ Ahead(F, i) = Ahead(F, i - 1) + F[i].len
        /\ Ahead(F, k) = Ahead(F, k - 1) + F[k].len
        /\ Ahead(F, k) \in Nat /\ Ahead(F, i) \in Nat
        /\ Ahead(F, k - 1) \in Nat /\ Ahead(F, i - 1) \in Nat
    BY <1>1, AheadSteps
  <2>3. CASE i < k
    <3>1. Ahead(F, i) <= Ahead(F, k - 1)
      BY <1>1, <2>3, AheadGrows
    <3>2. QED
      BY <1>1, <2>1, <2>2, <3>1
  <2>4. CASE k < i
    <3>1. Ahead(F, k) <= Ahead(F, i - 1)
      BY <1>1, <2>4, AheadGrows
    <3>2. QED
      BY <1>1, <2>1, <2>2, <3>1
  <2>5. QED
    BY <1>1, <2>3, <2>4
<1> DEFINE Here(i) == RowFile!FieldBytes(file, i) = RowFile!Last(r.got)
<1>5. k \in DOMAIN F /\ Here(k) /\ \A i \in DOMAIN F : Here(i) => i = k
  BY <1>1, <1>3, <1>4
<1>6. (CHOOSE i \in DOMAIN F : Here(i)) = k
  BY <1>5
<1>7. RowFile!LengthRead(file, r) = F[CHOOSE i \in DOMAIN F : Here(i)].val
  BY <1>1, <1>5 DEF RowFile!LengthRead
<1>8. QED
  BY <1>6, <1>7

(* Where the parts of a file are.                                            *)

\* The fields s come after the first k.
Segment(F, k, s) ==
    /\ k \in Nat /\ Len(s) \in Nat /\ k + Len(s) <= Len(F)
    /\ \A i \in 1..Len(s) : F[k + i] = s[i]

\* Two segments that follow each other.
LEMMA SegmentSplits ==
  ASSUME NEW F, NEW k, NEW S, NEW s \in Seq(S), NEW t \in Seq(S), Segment(F, k, s \o t),
         Len(F) \in Nat
  PROVE  /\ Segment(F, k, s) /\ Segment(F, k + Len(s), t)
         /\ Len(s \o t) = Len(s) + Len(t) /\ Len(s) \in Nat /\ Len(t) \in Nat
<1>1. /\ Len(s \o t) = Len(s) + Len(t) /\ Len(s) \in Nat /\ Len(t) \in Nat
      /\ \A i \in 1..Len(s) : (s \o t)[i] = s[i]
      /\ \A i \in 1..Len(t) : (s \o t)[Len(s) + i] = t[i]
  OBVIOUS
<1>2. /\ k \in Nat /\ k + Len(s \o t) <= Len(F)
      /\ \A i \in 1..Len(s \o t) : F[k + i] = (s \o t)[i]
  BY DEF Segment
<1> DEFINE a == Len(s)
           b == Len(t)
           u == s \o t
<1> HIDE DEF a, b, u
<1>3. a \in Nat /\ b \in Nat /\ Len(u) = a + b
  BY <1>1 DEF a, b, u
<1>4. \A i \in 1..a : F[k + i] = s[i]
  <2> SUFFICES ASSUME NEW i \in 1..a PROVE F[k + i] = s[i]
    OBVIOUS
  <2>1. i \in 1..(a + b)
    BY <1>3
  <2>2. F[k + i] = u[i]
    BY <1>2, <1>3, <2>1 DEF u
  <2>3. QED
    BY <1>1, <2>2 DEF u, a
<1>5. \A i \in 1..b : F[(k + a) + i] = t[i]
  <2> SUFFICES ASSUME NEW i \in 1..b PROVE F[(k + a) + i] = t[i]
    OBVIOUS
  <2>1. a + i \in 1..(a + b) /\ k + (a + i) = (k + a) + i
    BY <1>2, <1>3
  <2>2. F[k + (a + i)] = u[a + i]
    BY <1>2, <1>3, <2>1 DEF u
  <2>3. u[a + i] = t[i]
    BY <1>1 DEF u, a, b
  <2>4. QED
    BY <2>1, <2>2, <2>3
<1>6. k + a <= Len(F) /\ (k + a) + b <= Len(F)
  BY <1>2, <1>3 DEF u
<1>7. Segment(F, k, s)
  BY <1>2, <1>3, <1>4, <1>6 DEF Segment, a
<1>8. Segment(F, k + a, t)
  BY <1>2, <1>3, <1>5, <1>6 DEF Segment, b
<1>9. QED
  BY <1>1, <1>7, <1>8 DEF a

\* Where the parts of a flattened sequence of parts are: part c is after at[c - 1].
Flat(F, k, ss, at) ==
    /\ at[0] = k /\ at[Len(ss)] = k + Len(RowFile!FlattenSeq(ss))
    /\ \A c \in 1..Len(ss) : /\ Segment(F, at[c - 1], ss[c]) /\ Len(ss[c]) \in Nat
                             /\ at[c] = at[c - 1] + Len(ss[c])

\* Flattening joins the parts one by one.
LEMMA FlattenTyped ==
  ASSUME NEW S, NEW ss \in Seq(Seq(S))
  PROVE  /\ RowFile!FlattenSeq(ss) \in Seq(S)
         /\ \E e : /\ e[0] = <<>> /\ e[Len(ss)] = RowFile!FlattenSeq(ss)
                   /\ \A c \in 1..Len(ss) : e[c] = e[c - 1] \o ss[c]
                   /\ \A c \in 0..Len(ss) : e[c] \in Seq(S)
<1> DEFINE n == Len(ss)
<1>1. n \in Nat /\ \A c \in 1..n : ss[c] \in Seq(S)
  OBVIOUS
<1>2. CASE n = 0
  <2>1. RowFile!FlattenSeq(ss) = ss /\ ss = <<>>
    BY <1>2 DEF RowFile!FlattenSeq
  <2> DEFINE e == [c \in 0..0 |-> <<>>]
  <2>2. /\ e[0] = <<>> /\ e[n] = ss
        /\ \A c \in 1..n : e[c] = e[c - 1] \o ss[c]
        /\ \A c \in 0..n : e[c] \in Seq(S)
    BY <1>2, <2>1
  <2> HIDE DEF e, n
  <2>3. QED
    BY <2>1, <2>2 DEF n
<1>3. CASE n # 0
  <2> DEFINE Eq(f) == f = [i \in 1..n |-> IF i = 1 THEN ss[i] ELSE f[i - 1] \o ss[i]]
             f == CHOOSE f : Eq(f)
  <2>1. RowFile!FlattenSeq(ss) = f[n]
    BY <1>3 DEF RowFile!FlattenSeq
  <2>2. Eq(f)
    BY <1>1, FlattenDefined
  <2> HIDE DEF f
  <2> DEFINE e == [c \in 0..n |-> IF c = 0 THEN <<>> ELSE f[c]]
  <2>3. e[0] = <<>> /\ e[n] = RowFile!FlattenSeq(ss)
    BY <1>1, <1>3, <2>1
  <2>4. ASSUME NEW c \in 1..n PROVE e[c] = e[c - 1] \o ss[c]
    <3>1. CASE c = 1
      <4>1. e[c] = ss[c] /\ e[c - 1] = <<>>
        BY <2>2, <3>1
      <4>2. <<>> \o ss[c] = ss[c]
        BY <1>1, ConcatEmptySeq
      <4>3. QED
        BY <4>1, <4>2
    <3>2. CASE c # 1
      <4>1. c - 1 \in 0..n /\ c - 1 # 0 /\ c # 0
        BY <1>1, <3>2
      <4>2. e[c] = f[c] /\ e[c - 1] = f[c - 1]
        BY <4>1
      <4>3. f[c] = f[c - 1] \o ss[c]
        BY <2>2, <3>2
      <4>4. QED
        BY <4>2, <4>3
    <3>3. QED
      BY <3>1, <3>2
  <2> HIDE DEF e
  <2> DEFINE B == {c \in 0..n : e[c] \in Seq(S)}
  <2>5. 0 \in B /\ \A c \in 1..n : c - 1 \in B => c \in B
    <3>1. <<>> \in Seq(S) /\ 0 \in 0..n
      BY <1>1
    <3>2. 0 \in B
      BY <2>3, <3>1
    <3>3. ASSUME NEW c \in 1..n, c - 1 \in B PROVE c \in B
      <4>1. e[c - 1] \in Seq(S) /\ ss[c] \in Seq(S)
        BY <1>1, <3>3
      <4>2. e[c - 1] \o ss[c] \in Seq(S)
        BY <4>1
      <4>3. e[c] = e[c - 1] \o ss[c]
        BY <2>4
      <4>4. e[c] \in Seq(S)
        BY <4>2, <4>3, Zenon
      <4>5. c \in 0..n
        BY <1>1
      <4>6. QED
        BY <4>4, <4>5
    <3>4. QED
      BY <3>2, <3>3
  <2> HIDE DEF B
  <2>6. \A c \in 0..n : c \in B
    BY <1>1, <2>5, UptoInduction
  <2>7. \A c \in 0..n : e[c] \in Seq(S)
    BY <2>6 DEF B
  <2>8. RowFile!FlattenSeq(ss) \in Seq(S)
    BY <1>1, <2>3, <2>7
  <2>9. QED
    BY <2>3, <2>4, <2>7, <2>8
<1>4. QED
  BY <1>2, <1>3

\* Where each of the parts is that a file was flattened from.
LEMMA SegmentFlattens ==
  ASSUME NEW F, NEW k, NEW S, NEW ss \in Seq(Seq(S)), Len(F) \in Nat,
         Segment(F, k, RowFile!FlattenSeq(ss))
  PROVE  \E at : Flat(F, k, ss, at)
<1> DEFINE n == Len(ss)
<1>1. n \in Nat /\ \A c \in 1..n : ss[c] \in Seq(S)
  OBVIOUS
<1>2. PICK e : /\ e[0] = <<>> /\ e[n] = RowFile!FlattenSeq(ss)
               /\ \A c \in 1..n : e[c] = e[c - 1] \o ss[c]
               /\ \A c \in 0..n : e[c] \in Seq(S)
  BY FlattenTyped
<1> HIDE DEF n
<1> DEFINE B == {i \in 0..n : Segment(F, k, e[n - i])}
<1>3. 0 \in B
  <2>1. n - 0 = n /\ 0 \in 0..n
    BY <1>1
  <2>2. QED
    BY <1>2, <2>1
<1>4. ASSUME NEW i \in 1..n, i - 1 \in B PROVE i \in B
  <2>1. n - (i - 1) \in 1..n /\ (n - (i - 1)) - 1 = n - i /\ n - i \in 0..n
    BY <1>1
  <2>2. e[n - (i - 1)] = e[n - i] \o ss[n - (i - 1)]
    BY <1>2, <2>1
  <2>3. Segment(F, k, e[n - i] \o ss[n - (i - 1)])
    BY <1>4, <2>2
  <2>4. e[n - i] \in Seq(S) /\ ss[n - (i - 1)] \in Seq(S)
    BY <1>1, <1>2, <2>1
  <2>5. Segment(F, k, e[n - i])
    BY <2>3, <2>4, SegmentSplits
  <2>6. QED
    BY <2>5
<1> HIDE DEF B
<1>5. \A i \in 0..n : i \in B
  BY <1>1, <1>3, <1>4, UptoInduction
<1>6. \A c \in 0..n : Segment(F, k, e[c])
  <2> SUFFICES ASSUME NEW c \in 0..n PROVE Segment(F, k, e[c])
    OBVIOUS
  <2>1. n - c \in 0..n /\ n - (n - c) = c
    BY <1>1
  <2>2. QED
    BY <1>5, <2>1 DEF B
<1> DEFINE at == [c \in 0..n |-> k + Len(e[c])]
<1>7. k \in Nat
  BY <1>1, <1>6 DEF Segment
<1>8. at[0] = k /\ at[n] = k + Len(RowFile!FlattenSeq(ss))
  <2>1. 0 \in 0..n /\ n \in 0..n
    BY <1>1
  <2>2. at[0] = k + Len(e[0]) /\ at[n] = k + Len(e[n])
    BY <2>1
  <2>3. Len(e[0]) = 0
    BY <1>2
  <2>4. k + 0 = k
    BY <1>7
  <2> HIDE DEF at
  <2>5. at[0] = k
    BY <2>2, <2>3, <2>4
  <2>6. QED
    BY <1>2, <2>2, <2>5
<1>9. ASSUME NEW c \in 1..n
      PROVE  /\ Segment(F, at[c - 1], ss[c]) /\ Len(ss[c]) \in Nat
             /\ at[c] = at[c - 1] + Len(ss[c])
  <2>1. c - 1 \in 0..n /\ c \in 0..n
    BY <1>1
  <2>2. Segment(F, k, e[c - 1] \o ss[c]) /\ e[c - 1] \in Seq(S) /\ ss[c] \in Seq(S)
    BY <1>1, <1>2, <1>6, <2>1
  <2> DEFINE a == e[c - 1]
             b == ss[c]
  <2> HIDE DEF a, b
  <2>3. Segment(F, k, a \o b) /\ a \in Seq(S) /\ b \in Seq(S)
    BY <2>2 DEF a, b
  <2>4. /\ Segment(F, k + Len(a), b) /\ Len(a \o b) = Len(a) + Len(b)
        /\ Len(a) \in Nat /\ Len(b) \in Nat
    <3>1. Segment(F, k + Len(a), b)
      BY <2>3, SegmentSplits
    <3>2. Len(a \o b) = Len(a) + Len(b)
      BY <2>3, ConcatProperties
    <3>3. Len(a) \in Nat /\ Len(b) \in Nat
      BY <2>3, LenProperties
    <3>4. QED
      BY <3>1, <3>2, <3>3
  <2>5. at[c] = k + Len(e[c]) /\ at[c - 1] = k + Len(a)
    BY <2>1 DEF a
  <2>6. e[c] = a \o b
    BY <1>2 DEF a, b
  <2> HIDE DEF at
  <2>7. at[c] = at[c - 1] + Len(b)
    BY <1>7, <2>4, <2>5, <2>6
  <2>8. QED
    BY <2>4, <2>5, <2>7 DEF b
<1> HIDE DEF at
<1>10. Flat(F, k, ss, at)
  BY <1>8, <1>9 DEF Flat, n
<1>11. QED
  BY <1>10

(* What is read of the parts of a file.                                      *)

\* A column of the schema is read: two numbers and as many bytes of a name.
LEMMA ColumnIsRead ==
  ASSUME NEW F, NEW file, NEW got, Reading(F, file, got), NEW k, NEW column,
         Segment(F, k, RowFile!ColumnFields(column)), column.len \in Nat,
         NEW r, Read(F, file, got, k, r)
  PROVE  /\ Len(RowFile!ColumnFields(column)) = 3
         /\ Read(F, file, got, k + 3, RowFile!ReadColumn(file, r))
<1> DEFINE n == column.len
           a == RowFile!Take(file, r, 4)
           b == RowFile!Take(file, a, 4)
<1>1. Len(RowFile!ColumnFields(column)) = 3
  BY DEF RowFile!ColumnFields
<1>2. k \in Nat /\ k + 3 <= Len(F) /\ Len(F) \in Nat
  BY <1>1 DEF Segment, Reading, FileOf, FieldList
<1>3. /\ F[k + 1] = RowFile!Field(4, column.type) /\ F[k + 2] = RowFile!Field(4, n)
      /\ F[k + 3] = RowFile!Field(n, column.name)
  BY <1>1 DEF Segment, RowFile!ColumnFields
<1>4. /\ F[k + 1].len = 4 /\ F[k + 1].data /\ F[k + 2].len = 4 /\ F[k + 2].data
      /\ F[k + 2].val = n /\ F[k + 3].len = n /\ F[k + 3].data
  BY <1>3 DEF RowFile!Field
<1>5. /\ k + 1 \in 1..Len(F) /\ k + 2 \in 1..Len(F) /\ k + 3 \in 1..Len(F)
      /\ (k + 1) - 1 = k /\ (k + 2) - 1 = k + 1 /\ (k + 3) - 1 = k + 2
  BY <1>2
<1> HIDE DEF n
<1>6. Read(F, file, got, k + 1, a)
  BY <1>4, <1>5, TakeReads
<1> HIDE DEF a
<1>7. Read(F, file, got, k + 2, b)
  BY <1>4, <1>5, <1>6, TakeReads
<1> HIDE DEF b
<1>8. RowFile!ReadColumn(file, r) = RowFile!Take(file, b, RowFile!LengthRead(file, b))
  BY DEF RowFile!ReadColumn, a, b
<1>9. CASE b.ok
  <2>1. RowFile!LengthRead(file, b) = n
    BY <1>4, <1>5, <1>7, <1>9, LengthIsRead
  <2>2. Read(F, file, got, k + 3, RowFile!Take(file, b, n))
    BY <1>4, <1>5, <1>7, TakeReads
  <2>3. QED
    BY <1>1, <1>8, <2>1, <2>2
<1>10. CASE ~b.ok
  BY <1>1, <1>7, <1>8, <1>10, FailedReads
<1>11. QED
  BY <1>9, <1>10

\* All columns of the schema are read.
LEMMA ColumnsAreRead ==
  ASSUME NEW F, NEW file, NEW got, Reading(F, file, got), NEW k, NEW S, NEW ss \in Seq(Seq(S)),
         NEW columns, Len(columns) = Len(ss),
         \A c \in 1..Len(ss) : /\ ss[c] = RowFile!ColumnFields(columns[c])
                               /\ columns[c].len \in Nat,
         Segment(F, k, RowFile!FlattenSeq(ss)), NEW r, Read(F, file, got, k, r)
  PROVE  Read(F, file, got, k + Len(RowFile!FlattenSeq(ss)),
              RowFile!ReadColumns(file, r, Len(columns)))
<1> DEFINE n == Len(ss)
<1>1. n \in Nat /\ Len(F) \in Nat
  BY DEF Reading, FileOf, FieldList
<1>2. PICK at : Flat(F, k, ss, at)
  BY <1>1, SegmentFlattens
<1> HIDE DEF n
<1>3. PICK h : /\ RowFile!ReadColumns(file, r, n) = h[n] /\ h[0] = r
               /\ \A c \in 1..n : h[c] = RowFile!ReadColumn(file, h[c - 1])
  BY <1>1, ColumnsLoop
<1> DEFINE B == {c \in 0..n : Read(F, file, got, at[c], h[c])}
<1>4. 0 \in B
  BY <1>1, <1>2, <1>3 DEF Flat
<1>5. ASSUME NEW c \in 1..n, c - 1 \in B PROVE c \in B
  <2>1. Read(F, file, got, at[c - 1], h[c - 1])
    BY <1>5
  <2>2. /\ Segment(F, at[c - 1], ss[c]) /\ at[c] = at[c - 1] + Len(ss[c])
        /\ ss[c] = RowFile!ColumnFields(columns[c]) /\ columns[c].len \in Nat
    BY <1>2 DEF Flat, n
  <2>3. /\ Len(ss[c]) = 3
        /\ Read(F, file, got, at[c - 1] + 3, RowFile!ReadColumn(file, h[c - 1]))
    BY <2>1, <2>2, ColumnIsRead
  <2>4. Read(F, file, got, at[c], h[c]) /\ c \in 0..n
    BY <1>1, <1>3, <2>2, <2>3
  <2>5. QED
    BY <2>4
<1> HIDE DEF B
<1>6. \A c \in 0..n : c \in B
  BY <1>1, <1>4, <1>5, UptoInduction
<1>7. QED
  <2>1. Read(F, file, got, at[n], h[n])
    BY <1>1, <1>6 DEF B
  <2>2. QED
    BY <1>2, <1>3, <2>1 DEF Flat, n

\* All tiles of a block are read.
LEMMA TilesAreRead ==
  ASSUME NEW F, NEW file, NEW got, Reading(F, file, got), NEW k, NEW ts, Segment(F, k, ts),
         \A c \in 1..Len(ts) : ts[c].len = RowFile!TileSize /\ ts[c].data,
         NEW r, Read(F, file, got, k, r)
  PROVE  Read(F, file, got, k + Len(ts), RowFile!ReadTiles(file, r, Len(ts)))
<1> DEFINE n == Len(ts)
<1>1. /\ n \in Nat /\ k \in Nat /\ k + n <= Len(F) /\ Len(F) \in Nat
      /\ \A c \in 1..n : F[k + c] = ts[c]
  BY DEF Segment, Reading, FileOf, FieldList
<1>2. \A c \in 1..n : F[k + c].len = RowFile!TileSize /\ F[k + c].data
  BY <1>1
<1>3. PICK h : /\ RowFile!ReadTiles(file, r, n) = h[n] /\ h[0] = r
               /\ \A c \in 1..n : h[c] = RowFile!Take(file, h[c - 1], RowFile!TileSize)
  BY <1>1, TilesLoop
<1> HIDE DEF n
<1> DEFINE B == {c \in 0..n : Read(F, file, got, k + c, h[c])}
<1>4. 0 \in B
  <2>1. k + 0 = k /\ 0 \in 0..n
    BY <1>1
  <2>2. QED
    BY <1>3, <2>1
<1>5. ASSUME NEW c \in 1..n, c - 1 \in B PROVE c \in B
  <2>1. k + c \in 1..Len(F) /\ (k + c) - 1 = k + (c - 1) /\ c \in 0..n
    BY <1>1
  <2>2. Read(F, file, got, (k + c) - 1, h[c - 1])
    BY <1>5, <2>1
  <2>3. Read(F, file, got, k + c, RowFile!Take(file, h[c - 1], F[k + c].len))
    BY <1>2, <2>1, <2>2, TakeReads
  <2>4. Read(F, file, got, k + c, h[c])
    BY <1>2, <1>3, <2>3
  <2>5. QED
    BY <2>1, <2>4
<1> HIDE DEF B
<1>6. \A c \in 0..n : c \in B
  BY <1>1, <1>4, <1>5, UptoInduction
<1>7. QED
  <2>1. Read(F, file, got, k + n, h[n])
    BY <1>1, <1>6 DEF B
  <2>2. QED
    BY <1>3, <2>1 DEF n

\* No padding is negative.
LEMMA PaddingRange ==
  ASSUME NEW n \in Nat
  PROVE  RowFile!Padding(n) \in Nat
<1>1. n % 64 \in 0..63
  OBVIOUS
<1> DEFINE a == 64 - (n % 64)
<1>2. a \in Nat
  BY <1>1
<1> HIDE DEF a
<1>3. a % 64 \in Nat
  BY <1>2
<1>4. QED
  BY <1>3 DEF RowFile!Padding, RowFile!Line, a

\* A part with padding behind it.
LEMMA PaddedPart ==
  ASSUME NEW F, NEW k, NEW S, NEW s \in Seq(S), NEW n \in Nat,
         Segment(F, k, RowFile!Padded(s, n)), Len(F) \in Nat
  PROVE  /\ Segment(F, k, s) /\ Len(s) \in Nat
         /\ IF RowFile!Padding(n) = 0 THEN Len(RowFile!Padded(s, n)) = Len(s)
            ELSE /\ Len(RowFile!Padded(s, n)) = Len(s) + 1
                 /\ k + Len(s) + 1 <= Len(F)
                 /\ F[k + Len(s) + 1] = RowFile!Zeros(RowFile!Padding(n))
<1> DEFINE z == RowFile!Zeros(RowFile!Padding(n))
           p == RowFile!Padded(s, n)
<1> HIDE DEF z
<1>1. Len(s) \in Nat
  OBVIOUS
<1>2. CASE RowFile!Padding(n) = 0
  BY <1>1, <1>2 DEF RowFile!Padded
<1>3. CASE RowFile!Padding(n) # 0
  <2>1. p = Append(s, z)
    BY <1>3 DEF RowFile!Padded, z
  <2>2. /\ Len(p) = Len(s) + 1 /\ p[Len(s) + 1] = z
        /\ \A i \in 1..Len(s) : p[i] = s[i]
    BY <2>1
  <2>3. /\ k \in Nat /\ k + Len(p) <= Len(F) /\ \A i \in 1..Len(p) : F[k + i] = p[i]
    BY DEF Segment
  <2> HIDE DEF p
  <2>4. Segment(F, k, s)
    <3>1. k \in Nat /\ k + Len(s) <= Len(F)
      BY <1>1, <2>2, <2>3
    <3>2. \A i \in 1..Len(s) : i \in 1..Len(p)
      BY <1>1, <2>2
    <3>3. \A i \in 1..Len(s) : F[k + i] = s[i]
      BY <2>2, <2>3, <3>2
    <3>4. QED
      BY <1>1, <3>1, <3>3 DEF Segment
  <2>5. F[k + (Len(s) + 1)] = z /\ k + (Len(s) + 1) = k + Len(s) + 1
    BY <1>1, <2>2, <2>3
  <2>6. k + Len(s) + 1 <= Len(F)
    BY <1>1, <2>2, <2>3
  <2>7. QED
    BY <1>1, <1>3, <2>2, <2>4, <2>5, <2>6 DEF p, z
<1>4. QED
  BY <1>2, <1>3

\* Padding is a field like others.
LEMMA PaddedTyped ==
  ASSUME NEW V, 0 \in V, NEW s \in Seq([len : Nat, val : V, data : BOOLEAN]), NEW n \in Nat
  PROVE  RowFile!Padded(s, n) \in Seq([len : Nat, val : V, data : BOOLEAN])
<1> DEFINE z == RowFile!Zeros(RowFile!Padding(n))
           S == [len : Nat, val : V, data : BOOLEAN]
<1>1. z \in S
  BY PaddingRange DEF RowFile!Zeros
<1> HIDE DEF z, S
<1>2. Append(s, z) \in Seq(S)
  BY <1>1, AppendProperties DEF S
<1>3. QED
  BY <1>2 DEF RowFile!Padded, z, S

\* Reading a part and skipping the padding behind it.
LEMMA PaddingIsSkipped ==
  ASSUME NEW F, NEW file, NEW got, Reading(F, file, got), NEW k, NEW S, NEW s \in Seq(S),
         NEW n \in Nat, Segment(F, k, RowFile!Padded(s, n)),
         NEW r, Read(F, file, got, k + Len(s), r)
  PROVE  Read(F, file, got, k + Len(RowFile!Padded(s, n)), RowFile!Skip(r, RowFile!Padding(n)))
<1> DEFINE P == RowFile!Padding(n)
           L == Len(s)
           M == Len(RowFile!Padded(s, n))
<1>1. Len(F) \in Nat /\ k \in Nat
  BY DEF Reading, FileOf, FieldList, Segment
<1>2. /\ Segment(F, k, s) /\ L \in Nat
      /\ IF P = 0 THEN M = L
         ELSE M = L + 1 /\ k + L + 1 <= Len(F) /\ F[k + L + 1] = RowFile!Zeros(P)
  BY <1>1, PaddedPart
<1> HIDE DEF P, M
<1>3. CASE P = 0
  <2>1. k + L \in 0..Len(F)
    BY <1>1, <1>2 DEF Segment
  <2>2. Read(F, file, got, k + L, RowFile!Skip(r, 0))
    BY <2>1, SkipNothing
  <2>3. QED
    BY <1>2, <1>3, <2>2 DEF P, M
<1>4. CASE P # 0
  <2>1. k + L + 1 \in 1..Len(F) /\ (k + L + 1) - 1 = k + L /\ k + L + 1 = k + M
    BY <1>1, <1>2, <1>4
  <2>2. F[k + L + 1].len = P /\ ~F[k + L + 1].data
    BY <1>2, <1>4 DEF RowFile!Zeros
  <2>3. Read(F, file, got, k + L + 1, RowFile!Skip(r, F[k + L + 1].len))
    BY <2>1, <2>2, SkipReads
  <2>4. QED
    BY <2>1, <2>2, <2>3 DEF P, M
<1>5. QED
  BY <1>3, <1>4

\* The fields of a block that follow its tiles, without the padding.
TailFields(block) ==
    <<RowFile!Field(8, block.delete_mask), RowFile!Field(8, block.tail_size)>>
      \o (IF block.tail_size = 0 THEN <<>>
          ELSE <<RowFile!Field(block.tail_size, block.tail)>>)

\* There are two fields behind the tiles, or three.
LEMMA TailFieldsAre ==
  ASSUME NEW block, block.tail_size \in Nat
  PROVE  /\ TailFields(block)
              = IF block.tail_size = 0
                THEN <<RowFile!Field(8, block.delete_mask), RowFile!Field(8, block.tail_size)>>
                ELSE <<RowFile!Field(8, block.delete_mask), RowFile!Field(8, block.tail_size),
                       RowFile!Field(block.tail_size, block.tail)>>
         /\ Len(TailFields(block)) = IF block.tail_size = 0 THEN 2 ELSE 3
<1> DEFINE a == RowFile!Field(8, block.delete_mask)
           b == RowFile!Field(8, block.tail_size)
           c == RowFile!Field(block.tail_size, block.tail)
           S == {a, b, c}
<1> HIDE DEF a, b, c
<1>1. <<a, b>> \in Seq(S) /\ <<c>> \in Seq(S) /\ <<>> \in Seq(S)
  OBVIOUS
<1>2. <<a, b>> \o <<>> = <<a, b>>
  BY <1>1, ConcatEmptySeq
<1>3. <<a, b>> \o <<c>> = <<a, b, c>>
  <2> DEFINE t == <<a, b>> \o <<c>>
             u == <<a, b, c>>
  <2>1. u \in Seq(S) /\ Len(u) = 3 /\ u[1] = a /\ u[2] = b /\ u[3] = c
    OBVIOUS
  <2>2. /\ t \in Seq(S) /\ Len(t) = 3
        /\ t[1] = a /\ t[2] = b /\ t[3] = c
    BY <1>1, ConcatProperties
  <2> HIDE DEF t, u, S
  <2>3. \A i \in 1..Len(t) : t[i] = u[i]
    BY <2>1, <2>2
  <2>4. t = u
    BY <2>1, <2>2, <2>3, SeqEqual
  <2>5. QED
    BY <2>4 DEF t, u
<1>4. QED
  BY <1>2, <1>3 DEF TailFields, a, b, c

\* The delete mask, the size of the tail, the tail and its padding are read.
LEMMA TailIsRead ==
  ASSUME NEW F, NEW file, NEW got, Reading(F, file, got), NEW k, NEW block, NEW S,
         TailFields(block) \in Seq(S), block.tail_size \in Nat,
         Segment(F, k, RowFile!Padded(TailFields(block), 16 + block.tail_size)),
         NEW r, Read(F, file, got, k, r)
  PROVE  Read(F, file, got,
              k + Len(RowFile!Padded(TailFields(block), 16 + block.tail_size)),
              RowFile!ReadTail(file, RowFile!Take(file, r, 8)))
<1> DEFINE n == block.tail_size
           s == TailFields(block)
           K == k + Len(RowFile!Padded(s, 16 + n))
           m == RowFile!Take(file, r, 8)
           head == RowFile!Take(file, m, 8)
           x == RowFile!LengthRead(file, head)
           tail == IF x = 0 THEN head ELSE RowFile!Take(file, head, x)
<1>1. Len(F) \in Nat /\ n \in Nat /\ 16 + n \in Nat
  BY DEF Reading, FileOf, FieldList
<1>2. Segment(F, k, s) /\ Len(s) \in Nat
  BY <1>1, PaddedPart
<1>3. /\ Len(s) = (IF n = 0 THEN 2 ELSE 3)
      /\ s[1] = RowFile!Field(8, block.delete_mask) /\ s[2] = RowFile!Field(8, n)
      /\ n # 0 => s[3] = RowFile!Field(n, block.tail)
  BY TailFieldsAre
<1> HIDE DEF s
<1>4. /\ k \in Nat /\ k + 1 \in 1..Len(F) /\ k + 2 \in 1..Len(F)
      /\ (k + 1) - 1 = k /\ (k + 2) - 1 = k + 1
      /\ n # 0 => k + 3 \in 1..Len(F) /\ (k + 3) - 1 = k + 2
      /\ F[k + 1] = s[1] /\ F[k + 2] = s[2] /\ (n # 0 => F[k + 3] = s[3])
  BY <1>1, <1>2, <1>3 DEF Segment
<1>5. /\ F[k + 1].len = 8 /\ F[k + 1].data /\ F[k + 2].len = 8 /\ F[k + 2].data
      /\ F[k + 2].val = n /\ (n # 0 => F[k + 3].len = n /\ F[k + 3].data)
  BY <1>3, <1>4 DEF RowFile!Field
<1> HIDE DEF n, K
<1>6. Read(F, file, got, k + 1, m)
  BY <1>4, <1>5, TakeReads
<1> HIDE DEF m
<1>7. Read(F, file, got, k + 2, head)
  BY <1>4, <1>5, <1>6, TakeReads
<1> HIDE DEF head
<1>8. RowFile!ReadTail(file, m) = RowFile!Skip(tail, RowFile!Padding(16 + x))
  BY DEF RowFile!ReadTail, head
<1>9. CASE ~head.ok
  <2>1. x = 0
    BY <1>7, <1>9, FailedReads
  <2>2. tail = head
    BY <2>1
  <2> HIDE DEF tail, x
  <2>3. Read(F, file, got, K, RowFile!Skip(head, RowFile!Padding(16 + x)))
    BY <1>7, <1>9, FailedReads
  <2>4. QED
    BY <1>8, <2>2, <2>3 DEF K, m, s, n
<1>10. CASE head.ok
  <2>1. x = n
    BY <1>4, <1>5, <1>7, <1>10, LengthIsRead
  <2> HIDE DEF x
  <2>2. Read(F, file, got, k + Len(s), tail)
    <3>1. CASE n = 0
      BY <1>3, <1>7, <2>1, <3>1 DEF n
    <3>2. CASE n # 0
      <4>1. Read(F, file, got, k + 3, RowFile!Take(file, head, F[k + 3].len))
        BY <1>4, <1>5, <1>7, <3>2, TakeReads
      <4>2. Len(s) = 3
        BY <1>3, <3>2 DEF n
      <4>3. QED
        BY <1>5, <2>1, <3>2, <4>1, <4>2
    <3>3. QED
      BY <3>1, <3>2
  <2> HIDE DEF tail
  <2>3. s \in Seq(S) /\ Segment(F, k, RowFile!Padded(s, 16 + n))
    BY DEF s, n
  <2>4. Read(F, file, got, k + Len(RowFile!Padded(s, 16 + n)),
             RowFile!Skip(tail, RowFile!Padding(16 + n)))
    BY <1>1, <2>2, <2>3, PaddingIsSkipped DEF n
  <2>5. QED
    BY <1>8, <2>1, <2>4 DEF m, s, n
<1>11. QED
  BY <1>9, <1>10

(* Groups that can be stored; V is the set of what their fields hold. *)

FieldOf(V) == [len : Nat, val : V, data : BOOLEAN]

StorableColumn(V, column) ==
    column.type \in V /\ column.name \in V /\ column.len \in Nat

StorableBlock(V, block, m) ==
    /\ block.tiles \in Seq(V) /\ Len(block.tiles) = m
    /\ block.delete_mask \in V /\ block.tail \in V /\ block.tail_size \in Nat

Storable(V, g) ==
    /\ Nat \subseteq V /\ RowFile!Magic \in V /\ g.num_rows \in V
    /\ Len(g.columns) \in Nat /\ DOMAIN g.columns = 1..Len(g.columns)
    /\ \A c \in DOMAIN g.columns : StorableColumn(V, g.columns[c])
    /\ Len(g.blocks) \in Nat /\ DOMAIN g.blocks = 1..Len(g.blocks)
    /\ \A b \in DOMAIN g.blocks : StorableBlock(V, g.blocks[b], Len(g.columns))

TileFields(block) ==
    [c \in DOMAIN block.tiles |-> RowFile!Field(RowFile!TileSize, block.tiles[c])]

\* A field.
LEMMA FieldTyped ==
  ASSUME NEW V, NEW n \in Nat, NEW v \in V
  PROVE  RowFile!Field(n, v) \in FieldOf(V)
<1>1. QED
  BY DEF RowFile!Field, FieldOf

\* The fields of a column.
LEMMA ColumnTyped ==
  ASSUME NEW V, Nat \subseteq V, NEW column, StorableColumn(V, column)
  PROVE  RowFile!ColumnFields(column) \in Seq(FieldOf(V))
<1>1. /\ RowFile!Field(4, column.type) \in FieldOf(V)
      /\ RowFile!Field(4, column.len) \in FieldOf(V)
      /\ RowFile!Field(column.len, column.name) \in FieldOf(V)
  BY FieldTyped DEF StorableColumn
<1>2. QED
  BY <1>1 DEF RowFile!ColumnFields

\* The fields of a block.
LEMMA BlockTyped ==
  ASSUME NEW V, Nat \subseteq V, NEW m \in Nat, NEW block, StorableBlock(V, block, m)
  PROVE  /\ TileFields(block) \in Seq(FieldOf(V)) /\ Len(TileFields(block)) = m
         /\ \A c \in 1..m : TileFields(block)[c].len = RowFile!TileSize /\ TileFields(block)[c].data
         /\ TailFields(block) \in Seq(FieldOf(V))
         /\ RowFile!Padded(TailFields(block), 16 + block.tail_size) \in Seq(FieldOf(V))
         /\ RowFile!BlockFields(block) \in Seq(FieldOf(V))
         /\ RowFile!BlockFields(block)
              = TileFields(block) \o RowFile!Padded(TailFields(block), 16 + block.tail_size)
<1> DEFINE n == block.tail_size
           S == FieldOf(V)
           p == RowFile!Padded(TailFields(block), 16 + n)
<1>1. n \in Nat /\ 16 + n \in Nat /\ block.delete_mask \in V /\ block.tail \in V
  BY DEF StorableBlock
<1>2. block.tiles \in Seq(V) /\ Len(block.tiles) = m
  BY DEF StorableBlock
<1>3. /\ TileFields(block) \in Seq(S) /\ Len(TileFields(block)) = m
      /\ \A c \in 1..m : TileFields(block)[c].len = RowFile!TileSize /\ TileFields(block)[c].data
  <2> DEFINE t == TileFields(block)
  <2>1. DOMAIN block.tiles = 1..m /\ \A c \in 1..m : block.tiles[c] \in V
    BY <1>2
  <2>2. t = [c \in 1..m |-> RowFile!Field(RowFile!TileSize, block.tiles[c])]
    BY <2>1 DEF TileFields
  <2>3. \A c \in 1..m : RowFile!Field(RowFile!TileSize, block.tiles[c]) \in S
    BY <2>1, FieldTyped DEF RowFile!TileSize
  <2>4. t \in [1..m -> S]
    BY <2>2, <2>3
  <2>5. \A c \in 1..m : t[c].len = RowFile!TileSize /\ t[c].data
    BY <2>2 DEF RowFile!Field
  <2> HIDE DEF t, S
  <2>6. t \in Seq(S) /\ Len(t) = m
    BY <2>4
  <2>7. QED
    BY <2>5, <2>6 DEF t
<1>4. TailFields(block) \in Seq(S)
  <2>1. /\ RowFile!Field(8, block.delete_mask) \in S /\ RowFile!Field(8, n) \in S
        /\ RowFile!Field(n, block.tail) \in S
    BY <1>1, FieldTyped
  <2> HIDE DEF S
  <2>2. QED
    <3> DEFINE a == RowFile!Field(8, block.delete_mask)
               b == RowFile!Field(8, n)
               c == RowFile!Field(n, block.tail)
    <3>1. TailFields(block) = IF n = 0 THEN <<a, b>> ELSE <<a, b, c>>
      BY <1>1, TailFieldsAre
    <3>2. a \in S /\ b \in S /\ c \in S
      BY <2>1
    <3> HIDE DEF a, b, c
    <3>3. <<a, b>> \in Seq(S) /\ <<a, b, c>> \in Seq(S)
      BY <3>2
    <3>4. QED
      BY <3>1, <3>3
<1>5. p \in Seq(S)
  BY <1>1, <1>4, PaddedTyped DEF FieldOf
<1>6. RowFile!BlockFields(block) = TileFields(block) \o p
  BY DEF RowFile!BlockFields, TileFields, TailFields
<1>7. RowFile!BlockFields(block) \in Seq(S)
  <2> HIDE DEF p, S
  <2>1. QED
    BY <1>3, <1>5, <1>6, ConcatProperties
<1>8. QED
  BY <1>3, <1>4, <1>5, <1>6, <1>7

\* A block is read.
LEMMA BlockIsRead ==
  ASSUME NEW F, NEW file, NEW got, Reading(F, file, got), NEW k, NEW V, Nat \subseteq V,
         NEW m \in Nat, NEW block, StorableBlock(V, block, m),
         Segment(F, k, RowFile!BlockFields(block)), NEW r, Read(F, file, got, k, r)
  PROVE  Read(F, file, got, k + Len(RowFile!BlockFields(block)), RowFile!ReadBlock(file, r, m))
<1> DEFINE t == TileFields(block)
           p == RowFile!Padded(TailFields(block), 16 + block.tail_size)
           tiles == RowFile!ReadTiles(file, r, m)
<1>1. /\ t \in Seq(FieldOf(V)) /\ Len(t) = m
      /\ \A c \in 1..m : t[c].len = RowFile!TileSize /\ t[c].data
      /\ TailFields(block) \in Seq(FieldOf(V)) /\ p \in Seq(FieldOf(V))
      /\ RowFile!BlockFields(block) = t \o p
  BY BlockTyped
<1>2. Len(F) \in Nat /\ k \in Nat /\ block.tail_size \in Nat
  BY DEF Reading, FileOf, FieldList, StorableBlock, Segment
<1> HIDE DEF t
<1>3. Segment(F, k, t \o p)
  BY <1>1
<1>4. /\ Segment(F, k, t) /\ Segment(F, k + m, p)
      /\ Len(t \o p) = m + Len(p) /\ Len(p) \in Nat
  <2> HIDE DEF p
  <2>1. t \in Seq(FieldOf(V)) /\ p \in Seq(FieldOf(V)) /\ Len(t) = m
    BY <1>1
  <2>2. Segment(F, k, t)
    BY <1>2, <1>3, <2>1, SegmentSplits
  <2>3. Segment(F, k + Len(t), p)
    BY <1>2, <1>3, <2>1, SegmentSplits
  <2>4. Len(t \o p) = Len(t) + Len(p) /\ Len(p) \in Nat
    BY <2>1, ConcatProperties, LenProperties
  <2>5. QED
    BY <2>1, <2>2, <2>3, <2>4
<1>5. Read(F, file, got, k + m, tiles)
  <2>1. Read(F, file, got, k + Len(t), RowFile!ReadTiles(file, r, Len(t)))
    BY <1>1, <1>4, TilesAreRead
  <2>2. QED
    BY <1>1, <2>1
<1> HIDE DEF tiles
<1>6. Read(F, file, got, (k + m) + Len(p),
           RowFile!ReadTail(file, RowFile!Take(file, tiles, 8)))
  BY <1>1, <1>2, <1>4, <1>5, TailIsRead
<1> HIDE DEF p
<1>7. (k + m) + Len(p) = k + Len(RowFile!BlockFields(block))
  BY <1>1, <1>2, <1>4
<1>8. QED
  BY <1>6, <1>7 DEF RowFile!ReadBlock, tiles

\* All blocks are read.
LEMMA BlocksAreRead ==
  ASSUME NEW F, NEW file, NEW got, Reading(F, file, got), NEW k, NEW V, Nat \subseteq V,
         NEW m \in Nat, NEW ss \in Seq(Seq(FieldOf(V))),
         NEW blocks, Len(blocks) = Len(ss),
         \A b \in 1..Len(ss) : /\ ss[b] = RowFile!BlockFields(blocks[b])
                               /\ StorableBlock(V, blocks[b], m),
         Segment(F, k, RowFile!FlattenSeq(ss)), NEW r, Read(F, file, got, k, r)
  PROVE  Read(F, file, got, k + Len(RowFile!FlattenSeq(ss)),
              RowFile!ReadBlocks(file, r, m, Len(blocks)))
<1> DEFINE n == Len(ss)
<1>1. n \in Nat /\ Len(F) \in Nat
  BY DEF Reading, FileOf, FieldList
<1>2. PICK at : Flat(F, k, ss, at)
  BY <1>1, SegmentFlattens
<1> HIDE DEF n
<1>3. PICK h : RowFile!ReadBlocks(file, r, m, n) = h[n] /\ BlocksUpTo(h, file, r, m, n)
  BY <1>1, BlocksLoop
<1> USE DEF BlocksUpTo
<1> DEFINE B == {b \in 0..n : Read(F, file, got, at[b], h[b])}
<1>4. 0 \in B
  BY <1>1, <1>2, <1>3 DEF Flat
<1>5. ASSUME NEW b \in 1..n, b - 1 \in B PROVE b \in B
  <2>1. Read(F, file, got, at[b - 1], h[b - 1])
    BY <1>5
  <2>2. /\ Segment(F, at[b - 1], ss[b]) /\ at[b] = at[b - 1] + Len(ss[b])
        /\ ss[b] = RowFile!BlockFields(blocks[b]) /\ StorableBlock(V, blocks[b], m)
    BY <1>2 DEF Flat, n
  <2>3. Segment(F, at[b - 1], RowFile!BlockFields(blocks[b]))
    BY <2>2
  <2>4. Read(F, file, got, at[b - 1] + Len(RowFile!BlockFields(blocks[b])),
             RowFile!ReadBlock(file, h[b - 1], m))
    BY <2>1, <2>2, <2>3, BlockIsRead
  <2>5. Read(F, file, got, at[b], h[b]) /\ b \in 0..n
    BY <1>1, <1>3, <2>2, <2>4
  <2>6. QED
    BY <2>5
<1> HIDE DEF B
<1>6. \A b \in 0..n : b \in B
  BY <1>1, <1>4, <1>5, UptoInduction
<1>7. QED
  <2>1. Read(F, file, got, at[n], h[n])
    BY <1>1, <1>6 DEF B
  <2>2. QED
    BY <1>2, <1>3, <2>1 DEF Flat, n

ColumnParts(g) == [c \in DOMAIN g.columns |-> RowFile!ColumnFields(g.columns[c])]
BlockParts(g) == [b \in DOMAIN g.blocks |-> RowFile!BlockFields(g.blocks[b])]
SchemaFields(g) == RowFile!Header(g) \o RowFile!FlattenSeq(ColumnParts(g))

\* Fields have lengths.
LEMMA TypedFieldList ==
  ASSUME NEW V, NEW F \in Seq(FieldOf(V))
  PROVE  FieldList(F)
<1>1. Len(F) \in Nat /\ DOMAIN F = 1..Len(F) /\ \A k \in 1..Len(F) : F[k] \in FieldOf(V)
  OBVIOUS
<1>2. \A x \in FieldOf(V) : x.len \in Nat /\ x.data \in BOOLEAN
  BY DEF FieldOf
<1>3. QED
  BY <1>1, <1>2 DEF FieldList

\* The fields of a group that can be stored.
LEMMA FieldsTyped ==
  ASSUME NEW V, NEW g, Storable(V, g)
  PROVE  /\ RowFile!Header(g) \in Seq(FieldOf(V)) /\ Len(RowFile!Header(g)) = 5
         /\ ColumnParts(g) \in Seq(Seq(FieldOf(V))) /\ Len(ColumnParts(g)) = Len(g.columns)
         /\ BlockParts(g) \in Seq(Seq(FieldOf(V))) /\ Len(BlockParts(g)) = Len(g.blocks)
         /\ RowFile!FlattenSeq(ColumnParts(g)) \in Seq(FieldOf(V))
         /\ RowFile!FlattenSeq(BlockParts(g)) \in Seq(FieldOf(V))
         /\ SchemaFields(g) \in Seq(FieldOf(V))
         /\ RowFile!Size(SchemaFields(g)) = Ahead(SchemaFields(g), Len(SchemaFields(g)))
         /\ RowFile!Size(SchemaFields(g)) \in Nat
         /\ RowFile!Padded(SchemaFields(g), RowFile!Size(SchemaFields(g))) \in Seq(FieldOf(V))
         /\ RowFile!Fields(g) \in Seq(FieldOf(V))
         /\ RowFile!Fields(g)
              = RowFile!Padded(SchemaFields(g), RowFile!Size(SchemaFields(g)))
                  \o RowFile!FlattenSeq(BlockParts(g))
<1> DEFINE S == FieldOf(V)
           H == RowFile!Header(g)
           C == ColumnParts(g)
           B == BlockParts(g)
           m == Len(g.columns)
           n == Len(g.blocks)
           schema == SchemaFields(g)
           size == RowFile!Size(schema)
<1>1. /\ Nat \subseteq V /\ RowFile!Magic \in V /\ g.num_rows \in V
      /\ m \in Nat /\ DOMAIN g.columns = 1..m /\ n \in Nat /\ DOMAIN g.blocks = 1..n
      /\ \A c \in 1..m : StorableColumn(V, g.columns[c])
      /\ \A b \in 1..n : StorableBlock(V, g.blocks[b], m)
  BY DEF Storable
<1>2. H \in Seq(S) /\ Len(H) = 5
  <2> DEFINE h1 == RowFile!Field(4, RowFile!Magic)
             h2 == RowFile!Field(8, g.num_rows)
             h3 == RowFile!Field(8, m)
             h4 == RowFile!Field(8, n)
             h5 == RowFile!Zeros(36)
  <2>1. h1 \in S /\ h2 \in S /\ h3 \in S /\ h4 \in S
    BY <1>1, FieldTyped
  <2>2. h5 \in S
    BY <1>1 DEF RowFile!Zeros, FieldOf
  <2>3. H = <<h1, h2, h3, h4, h5>>
    BY DEF RowFile!Header
  <2> HIDE DEF h1, h2, h3, h4, h5, S, H
  <2>4. QED
    BY <2>1, <2>2, <2>3
<1>3. C \in Seq(Seq(S)) /\ Len(C) = m
  <2>1. C = [c \in 1..m |-> RowFile!ColumnFields(g.columns[c])]
    BY <1>1 DEF ColumnParts
  <2>2. \A c \in 1..m : RowFile!ColumnFields(g.columns[c]) \in Seq(S)
    BY <1>1, ColumnTyped
  <2>3. C \in [1..m -> Seq(S)]
    BY <2>1, <2>2
  <2> HIDE DEF C, S, m
  <2>4. QED
    BY <1>1, <2>3
<1>4. B \in Seq(Seq(S)) /\ Len(B) = n
  <2>1. B = [b \in 1..n |-> RowFile!BlockFields(g.blocks[b])]
    BY <1>1 DEF BlockParts
  <2>2. \A b \in 1..n : RowFile!BlockFields(g.blocks[b]) \in Seq(S)
    BY <1>1, BlockTyped
  <2>3. B \in [1..n -> Seq(S)]
    BY <2>1, <2>2
  <2> HIDE DEF B, S, n
  <2>4. QED
    BY <1>1, <2>3
<1> HIDE DEF H, C, B
<1>5. RowFile!FlattenSeq(C) \in Seq(S) /\ RowFile!FlattenSeq(B) \in Seq(S)
  BY <1>3, <1>4, FlattenTyped
<1>6. schema \in Seq(S)
  <2> HIDE DEF S
  <2>1. H \o RowFile!FlattenSeq(C) \in Seq(S)
    BY <1>2, <1>5, ConcatProperties
  <2>2. QED
    BY <2>1 DEF SchemaFields, H, C
<1> HIDE DEF schema
<1>7. FieldList(schema)
  BY <1>6, TypedFieldList
<1>8. size = Ahead(schema, Len(schema)) /\ size \in Nat
  <2>1. size = Ahead(schema, Len(schema))
    BY <1>6, <1>7, SizeIsAhead
  <2>2. Len(schema) \in 0..Len(schema)
    BY <1>6
  <2>3. QED
    BY <1>7, <2>1, <2>2, AheadSteps
<1> HIDE DEF size
<1>9. RowFile!Padded(schema, size) \in Seq(S)
  BY <1>1, <1>6, <1>8, PaddedTyped DEF FieldOf
<1>10. RowFile!Fields(g) = RowFile!Padded(schema, size) \o RowFile!FlattenSeq(B)
  BY DEF RowFile!Fields, schema, size, B, BlockParts, SchemaFields, ColumnParts
<1>11. RowFile!Fields(g) \in Seq(S)
  <2> HIDE DEF S
  <2>1. QED
    BY <1>5, <1>9, <1>10, ConcatProperties
<1>12. QED
  BY <1>2, <1>3, <1>4, <1>5, <1>6, <1>8, <1>9, <1>10, <1>11 DEF H, C, B, schema, size

\* The four numbers of the header are read, and tell how much is to be read.
LEMMA HeaderIsRead ==
  ASSUME NEW F, NEW file, NEW got, Reading(F, file, got), NEW g, Segment(F, 0, RowFile!Header(g))
  PROVE  /\ 5 <= Len(F) /\ F[3].val = Len(g.columns) /\ F[4].val = Len(g.blocks)
         /\ Read(F, file, got, 5,
                 [offset |-> RowFile!Line,
                  got    |-> [k \in 1..4 |-> RowFile!FieldBytes(file, k)],
                  ok     |-> file.size >= RowFile!Line])
<1> DEFINE L == Len(F)
           fb(k) == RowFile!FieldBytes(file, k)
<1>1. L \in Nat /\ FieldList(F)
  BY DEF Reading, FileOf, FieldList
<1>2. Len(RowFile!Header(g)) = 5
  BY DEF RowFile!Header
<1>3. /\ 5 <= L
      /\ F[1] = RowFile!Field(4, RowFile!Magic) /\ F[2] = RowFile!Field(8, g.num_rows)
      /\ F[3] = RowFile!Field(8, Len(g.columns)) /\ F[4] = RowFile!Field(8, Len(g.blocks))
      /\ F[5] = RowFile!Zeros(36)
  <2>1. /\ 0 + 5 <= L
        /\ \A i \in 1..5 : F[0 + i] = RowFile!Header(g)[i]
    BY <1>1, <1>2 DEF Segment
  <2>2. \A i \in 1..5 : F[i] = RowFile!Header(g)[i]
    <3> SUFFICES ASSUME NEW i \in 1..5 PROVE F[i] = RowFile!Header(g)[i]
      OBVIOUS
    <3>1. 0 + i = i
      OBVIOUS
    <3>2. QED
      BY <2>1, <3>1
  <2>3. 5 <= L
    BY <1>1, <2>1
  <2>4. QED
    BY <2>2, <2>3 DEF RowFile!Header
<1>4. /\ F[1].len = 4 /\ F[2].len = 8 /\ F[3].len = 8 /\ F[4].len = 8 /\ F[5].len = 36
      /\ F[1].data /\ F[2].data /\ F[3].data /\ F[4].data /\ ~F[5].data
      /\ F[3].val = Len(g.columns) /\ F[4].val = Len(g.blocks)
  BY <1>3 DEF RowFile!Field, RowFile!Zeros
<1>5. 1 \in 1..L /\ 2 \in 1..L /\ 3 \in 1..L /\ 4 \in 1..L /\ 5 \in 1..L
  BY <1>1, <1>3
<1>6. Ahead(F, 5) = 64
  <2>1. /\ Ahead(F, 0) = 0
        /\ \A k \in 1..L : Ahead(F, k) = Ahead(F, k - 1) + F[k].len
    BY <1>1, AheadSteps
  <2>2. /\ Ahead(F, 1) = Ahead(F, 0) + 4 /\ Ahead(F, 2) = Ahead(F, 1) + 8
        /\ Ahead(F, 3) = Ahead(F, 2) + 8 /\ Ahead(F, 4) = Ahead(F, 3) + 8
        /\ Ahead(F, 5) = Ahead(F, 4) + 36
    <3>1. /\ Ahead(F, 1) = Ahead(F, 1 - 1) + F[1].len /\ Ahead(F, 2) = Ahead(F, 2 - 1) + F[2].len
          /\ Ahead(F, 3) = Ahead(F, 3 - 1) + F[3].len /\ Ahead(F, 4) = Ahead(F, 4 - 1) + F[4].len
          /\ Ahead(F, 5) = Ahead(F, 5 - 1) + F[5].len
      BY <1>5, <2>1
    <3>2. 1 - 1 = 0 /\ 2 - 1 = 1 /\ 3 - 1 = 2 /\ 4 - 1 = 3 /\ 5 - 1 = 4
      OBVIOUS
    <3>3. QED
      BY <1>4, <3>1, <3>2
  <2>3. QED
    BY <2>1, <2>2
<1>7. got[5] = [k \in 1..4 |-> fb(k)]
  <2>1. /\ got[0] = <<>>
        /\ \A k \in 1..L : got[k] = IF F[k].data THEN Append(got[k - 1], fb(k)) ELSE got[k - 1]
    BY DEF Reading, Gathers
  <2>2. /\ got[1] = Append(got[1 - 1], fb(1)) /\ got[2] = Append(got[2 - 1], fb(2))
        /\ got[3] = Append(got[3 - 1], fb(3)) /\ got[4] = Append(got[4 - 1], fb(4))
        /\ got[5] = got[5 - 1]
    BY <1>4, <1>5, <2>1
  <2>3. 1 - 1 = 0 /\ 2 - 1 = 1 /\ 3 - 1 = 2 /\ 4 - 1 = 3 /\ 5 - 1 = 4
    OBVIOUS
  <2> DEFINE T == Nat \X Nat
             u == [k \in 1..4 |-> fb(k)]
  <2>4. \A k \in 1..4 : fb(k) \in T
    <3> SUFFICES ASSUME NEW k \in 1..4 PROVE fb(k) \in T
      OBVIOUS
    <3>1. k \in 1..L /\ k - 1 \in 0..L
      BY <1>1, <1>3
    <3>2. fb(k) = <<Ahead(F, k - 1), F[k].len>>
      BY <3>1 DEF RowFile!FieldBytes, Reading, FileOf
    <3>3. Ahead(F, k - 1) \in Nat /\ F[k].len \in Nat
      BY <1>1, <3>1, AheadSteps DEF FieldList
    <3>4. QED
      BY <3>2, <3>3
  <2> HIDE DEF fb, T
  <2>5. fb(1) \in T /\ fb(2) \in T /\ fb(3) \in T /\ fb(4) \in T /\ <<>> \in Seq(T)
        /\ Len(<<>>) = 0
    BY <2>4
  <2>6. ASSUME NEW i \in 0..3, got[i] \in Seq(T), Len(got[i]) = i, NEW w \in T,
               NEW q, q = Append(got[i], w)
        PROVE  /\ q \in Seq(T) /\ Len(q) = i + 1 /\ q[i + 1] = w
               /\ \A j \in 1..i : q[j] = got[i][j]
    BY <2>6, AppendProperties
  <2>7. got[1] \in Seq(T) /\ Len(got[1]) = 1 /\ got[1][1] = fb(1)
    <3>a. 0 \in 0..3 /\ 0 + 1 = 1
      OBVIOUS
    <3>b. got[0] \in Seq(T) /\ Len(got[0]) = 0
      BY <2>1, <2>5, Zenon
    <3>c. got[1] = Append(got[0], fb(1))
      BY <2>2, <2>3, Zenon
    <3>1. 0 \in 0..3 /\ got[0] \in Seq(T) /\ Len(got[0]) = 0 /\ got[1] = Append(got[0], fb(1))
          /\ 0 + 1 = 1
      BY <3>a, <3>b, <3>c
    <3>2. /\ got[1] \in Seq(T) /\ Len(got[1]) = 0 + 1 /\ got[1][0 + 1] = fb(1)
      BY <2>5, <2>6, <3>1
    <3>3. QED
      BY <3>1, <3>2
  <2>8. got[2] \in Seq(T) /\ Len(got[2]) = 2 /\ got[2][1] = fb(1) /\ got[2][2] = fb(2)
    <3>a. 1 \in 0..3 /\ 1 + 1 = 2 /\ 1 \in 1..1
      OBVIOUS
    <3>b. got[2] = Append(got[1], fb(2))
      BY <2>2, <2>3, Zenon
    <3>1. 1 \in 0..3 /\ got[2] = Append(got[1], fb(2)) /\ 1 + 1 = 2 /\ 1 \in 1..1
      BY <3>a, <3>b
    <3>2. /\ got[2] \in Seq(T) /\ Len(got[2]) = 1 + 1 /\ got[2][1 + 1] = fb(2)
          /\ \A j \in 1..1 : got[2][j] = got[1][j]
      BY <2>5, <2>7, <2>6, <3>1
    <3>3. QED
      BY <2>7, <3>1, <3>2
  <2>9. /\ got[3] \in Seq(T) /\ Len(got[3]) = 3
        /\ got[3][1] = fb(1) /\ got[3][2] = fb(2) /\ got[3][3] = fb(3)
    <3>a. 2 \in 0..3 /\ 2 + 1 = 3 /\ 1 \in 1..2 /\ 2 \in 1..2
      OBVIOUS
    <3>b. got[3] = Append(got[2], fb(3))
      BY <2>2, <2>3, Zenon
    <3>1. 2 \in 0..3 /\ got[3] = Append(got[2], fb(3)) /\ 2 + 1 = 3 /\ 1 \in 1..2 /\ 2 \in 1..2
      BY <3>a, <3>b
    <3>2. /\ got[3] \in Seq(T) /\ Len(got[3]) = 2 + 1 /\ got[3][2 + 1] = fb(3)
          /\ \A j \in 1..2 : got[3][j] = got[2][j]
      BY <2>5, <2>8, <2>6, <3>1
    <3>3. QED
      BY <2>8, <3>1, <3>2
  <2>10. /\ got[4] \in Seq(T) /\ Len(got[4]) = 4
        /\ got[4][1] = fb(1) /\ got[4][2] = fb(2) /\ got[4][3] = fb(3) /\ got[4][4] = fb(4)
    <3>1. /\ 3 \in 0..3 /\ got[4] = Append(got[3], fb(4)) /\ 3 + 1 = 4
          /\ 1 \in 1..3 /\ 2 \in 1..3 /\ 3 \in 1..3
      <4>1. /\ 3 \in 0..3 /\ 3 + 1 = 4 /\ 1 \in 1..3 /\ 2 \in 1..3 /\ 3 \in 1..3
        OBVIOUS
      <4>2. got[4] = Append(got[3], fb(4))
        BY <2>2, <2>3, Zenon
      <4>3. QED
        BY <4>1, <4>2
    <3>2. /\ got[4] \in Seq(T) /\ Len(got[4]) = 3 + 1 /\ got[4][3 + 1] = fb(4)
          /\ \A j \in 1..3 : got[4][j] = got[3][j]
      BY <2>5, <2>9, <2>6, <3>1
    <3>3. QED
      BY <2>9, <3>1, <3>2
  <2>11. u \in Seq(T) /\ Len(u) = 4 /\ \A i \in 1..4 : u[i] = fb(i)
    BY <2>4
  <2> HIDE DEF u
  <2>12. got[4] = u
    <3>1. \A i \in 1..4 : got[4][i] = u[i]
      BY <2>10, <2>11
    <3>2. QED
      BY <2>10, <2>11, <3>1, SeqEqual
  <2>13. QED
    BY <2>2, <2>3, <2>12 DEF u
<1>8. Ahead(F, 5) <= Ahead(F, L) /\ Ahead(F, L) \in Nat
  <2>1. L \in 0..L /\ 5 \in 0..L /\ 5 <= L
    BY <1>1, <1>3
  <2>2. QED
    BY <1>1, <2>1, AheadGrows, AheadSteps
<1>9. file.size \in Nat
  BY <1>8 DEF Reading, FileOf
<1> DEFINE r == [offset |-> 64, got |-> [k \in 1..4 |-> fb(k)], ok |-> file.size >= 64]
<1> HIDE DEF fb, L
<1>10. Read(F, file, got, 5, r)
  <2> DEFINE A == [k \in 1..4 |-> fb(k)]
  <2>1. CASE file.size >= 64
    <3>1. r = [offset |-> 64, got |-> A, ok |-> TRUE]
      BY <2>1
    <3> HIDE DEF r, A
    <3>2. r.offset = 64 /\ r.got = A /\ r.ok = TRUE /\ got[5] = A
      BY <1>7, <3>1 DEF A
    <3>3. QED
      BY <1>6, <3>1, <3>2 DEF Read
  <2>2. CASE ~(file.size >= 64)
    <3>a. file.size < Ahead(F, L)
      BY <1>6, <1>8, <1>9, <2>2
    <3>b. (file.size >= 64) = FALSE
      BY <2>2
    <3>c. r = [offset |-> 64, got |-> A, ok |-> FALSE]
      BY <3>b
    <3>1. r = [offset |-> 64, got |-> A, ok |-> FALSE] /\ file.size < Ahead(F, L)
      BY <3>a, <3>c
    <3> HIDE DEF r, A
    <3>2. r.offset = 64 /\ r.got = A /\ r.ok = FALSE
      BY <3>1
    <3>3. QED
      BY <3>1, <3>2 DEF Read, L
  <2>3. QED
    BY <2>1, <2>2
<1>11. QED
  BY <1>3, <1>4, <1>10 DEF RowFile!Line, fb, L

\* Everything is read.
LEMMA FileIsRead ==
  ASSUME NEW V, NEW g, Storable(V, g), NEW file, NEW got,
         Reading(RowFile!Fields(g), file, got)
  PROVE  Read(RowFile!Fields(g), file, got, Len(RowFile!Fields(g)), RowFile!Deserialize(file))
<1> DEFINE F == RowFile!Fields(g)
           S == FieldOf(V)
           H == RowFile!Header(g)
           C == ColumnParts(g)
           B == BlockParts(g)
           m == Len(g.columns)
           n == Len(g.blocks)
           schema == SchemaFields(g)
           size == RowFile!Size(schema)
           P == RowFile!Padded(schema, size)
           start == [offset |-> RowFile!Line,
                     got    |-> [k \in 1..4 |-> RowFile!FieldBytes(file, k)],
                     ok     |-> file.size >= RowFile!Line]
           s == RowFile!ReadColumns(file, start, m)
           t == RowFile!Skip(s, RowFile!Padding(s.offset))
<1>1. /\ H \in Seq(S) /\ Len(H) = 5 /\ C \in Seq(Seq(S)) /\ Len(C) = m
      /\ B \in Seq(Seq(S)) /\ Len(B) = n
      /\ RowFile!FlattenSeq(C) \in Seq(S) /\ RowFile!FlattenSeq(B) \in Seq(S)
      /\ schema \in Seq(S) /\ size = Ahead(schema, Len(schema)) /\ size \in Nat
      /\ P \in Seq(S) /\ F \in Seq(S) /\ F = P \o RowFile!FlattenSeq(B)
  BY FieldsTyped
<1>2. /\ Nat \subseteq V /\ m \in Nat /\ n \in Nat
      /\ \A c \in 1..m : StorableColumn(V, g.columns[c]) /\ C[c] = RowFile!ColumnFields(g.columns[c])
      /\ \A b \in 1..n : StorableBlock(V, g.blocks[b], m) /\ B[b] = RowFile!BlockFields(g.blocks[b])
  BY DEF Storable, ColumnParts, BlockParts
<1>3. schema = H \o RowFile!FlattenSeq(C)
  BY DEF SchemaFields
<1>4. Reading(F, file, got)
  OBVIOUS
<1> HIDE DEF F, S, H, C, B, schema, size
<1>5. Len(F) \in Nat /\ file.fields = F
  BY <1>1, <1>4 DEF Reading, FileOf
<1>6. Segment(F, 0, F)
  <2>1. \A i \in 1..Len(F) : 0 + i = i
    BY <1>5
  <2>2. QED
    BY <1>5, <2>1 DEF Segment
<1>7. /\ Segment(F, 0, P) /\ Segment(F, Len(P), RowFile!FlattenSeq(B))
      /\ Len(F) = Len(P) + Len(RowFile!FlattenSeq(B))
  <2> DEFINE a == P
             b == RowFile!FlattenSeq(B)
  <2>1. a \in Seq(S) /\ b \in Seq(S) /\ F = a \o b
    BY <1>1
  <2> HIDE DEF P, a, b
  <2>2. Segment(F, 0, a \o b)
    BY <1>6, <2>1
  <2>3. Segment(F, 0, a)
    BY <1>5, <2>1, <2>2, SegmentSplits
  <2>4. Segment(F, 0 + Len(a), b)
    BY <1>5, <2>1, <2>2, SegmentSplits
  <2>5. Len(a \o b) = Len(a) + Len(b) /\ Len(a) \in Nat
    BY <2>1, ConcatProperties, LenProperties
  <2>6. 0 + Len(a) = Len(a)
    BY <2>5
  <2>7. QED
    BY <2>1, <2>3, <2>4, <2>5, <2>6 DEF a, b
<1>8. Segment(F, 0, schema)
  BY <1>1, <1>5, <1>7, PaddedPart
<1> HIDE DEF P
<1>9. /\ Segment(F, 0, H) /\ Segment(F, 5, RowFile!FlattenSeq(C))
      /\ Len(schema) = 5 + Len(RowFile!FlattenSeq(C))
  <2> DEFINE a == H
             b == RowFile!FlattenSeq(C)
  <2>1. a \in Seq(S) /\ b \in Seq(S) /\ schema = a \o b /\ Len(a) = 5
    BY <1>1, <1>3
  <2> HIDE DEF a, b
  <2>2. Segment(F, 0, a \o b)
    BY <1>8, <2>1
  <2>3. Segment(F, 0, a)
    BY <1>5, <2>1, <2>2, SegmentSplits
  <2>4. Segment(F, 0 + Len(a), b)
    BY <1>5, <2>1, <2>2, SegmentSplits
  <2>5. Len(a \o b) = Len(a) + Len(b)
    BY <2>1, ConcatProperties
  <2>6. 0 + Len(a) = 5
    BY <2>1
  <2>7. QED
    BY <2>1, <2>3, <2>4, <2>5, <2>6 DEF a, b
<1>10. /\ 5 <= Len(F) /\ F[3].val = m /\ F[4].val = n /\ Read(F, file, got, 5, start)
  BY <1>4, <1>9, HeaderIsRead DEF H
<1> HIDE DEF start
<1>11. Read(F, file, got, Len(schema), s)
  <2>1. Len(g.columns) = Len(C) /\ \A c \in 1..Len(C) :
           C[c] = RowFile!ColumnFields(g.columns[c]) /\ g.columns[c].len \in Nat
    BY <1>1, <1>2 DEF StorableColumn
  <2>2. Read(F, file, got, 5 + Len(RowFile!FlattenSeq(C)),
             RowFile!ReadColumns(file, start, Len(g.columns)))
    BY <1>1, <1>4, <1>9, <1>10, <2>1, ColumnsAreRead
  <2>3. QED
    BY <1>9, <2>2
<1> HIDE DEF s
<1>12. Read(F, file, got, Len(P), t)
  <2>1. CASE ~s.ok
    BY <1>11, <2>1, FailedReads
  <2>2. CASE s.ok
    <3>1. Len(schema) \in Nat /\ \A i \in 1..Len(schema) : F[i] = schema[i]
      <4>1. \A i \in 1..Len(schema) : F[0 + i] = schema[i]
        BY <1>8 DEF Segment
      <4>2. Len(schema) \in Nat /\ \A i \in 1..Len(schema) : 0 + i = i
        BY <1>1
      <4>3. QED
        BY <4>1, <4>2
    <3>2. [i \in 1..Len(schema) |-> F[i].len] = [i \in 1..Len(schema) |-> schema[i].len]
      BY <3>1
    <3>3. Ahead(F, Len(schema)) = Ahead(schema, Len(schema))
      BY <3>2, Zenon DEF Ahead
    <3>4. s.offset = size
      BY <1>1, <1>11, <2>2, <3>3 DEF Read
    <3>5. Segment(F, 0, RowFile!Padded(schema, size)) /\ 0 + Len(schema) = Len(schema)
      BY <1>7, <3>1 DEF P
    <3>6. Read(F, file, got, 0 + Len(RowFile!Padded(schema, size)),
               RowFile!Skip(s, RowFile!Padding(size)))
      BY <1>1, <1>4, <1>11, <3>5, PaddingIsSkipped
    <3>7. 0 + Len(P) = Len(P)
      BY <1>1
    <3>8. QED
      BY <3>4, <3>6, <3>7 DEF P
  <2>3. QED
    BY <2>1, <2>2
<1> HIDE DEF t
<1>13. Read(F, file, got, Len(F), RowFile!ReadBlocks(file, t, m, n))
  <2>1. Len(g.blocks) = Len(B) /\ \A b \in 1..Len(B) :
           B[b] = RowFile!BlockFields(g.blocks[b]) /\ StorableBlock(V, g.blocks[b], m)
    BY <1>1, <1>2
  <2>2. B \in Seq(Seq(FieldOf(V)))
    BY <1>1 DEF S
  <2>3. Read(F, file, got, Len(P) + Len(RowFile!FlattenSeq(B)),
             RowFile!ReadBlocks(file, t, m, Len(g.blocks)))
    BY <1>2, <1>4, <1>7, <1>12, <2>1, <2>2, BlocksAreRead
  <2>4. QED
    BY <1>7, <2>3
<1>14. RowFile!Deserialize(file) = RowFile!ReadBlocks(file, t, m, n)
  BY <1>5, <1>10 DEF RowFile!Deserialize, start, s, t
<1>15. QED
  BY <1>13, <1>14 DEF F

\* Any group that can be stored reads back from every cut of its file.
LEMMA StorableReadsBack ==
  ASSUME NEW V, NEW g, Storable(V, g)
  PROVE  RowFile!ReadsBack(g)
<1> DEFINE F == RowFile!Fields(g)
           L == Len(F)
           file == RowFile!Serialize(g)
<1>1. F \in Seq(FieldOf(V)) /\ FieldList(F) /\ L \in Nat
  BY FieldsTyped, TypedFieldList
<1>2. /\ RowFile!Size(F) = Ahead(F, L)
      /\ \A k \in 1..L : RowFile!Size(SubSeq(F, 1, k - 1)) = Ahead(F, k - 1)
  BY <1>1, SizeIsAhead
<1>3. DOMAIN F = 1..L /\ \A k \in 0..L : Ahead(F, k) \in Nat
  BY <1>1, AheadSteps DEF FieldList
<1>4. file = [size |-> Ahead(F, L), fields |-> F, at |-> [k \in 1..L |-> Ahead(F, k - 1)]]
  <2>1. file = [size |-> RowFile!Size(F), fields |-> F,
                at |-> [k \in DOMAIN F |-> RowFile!Size(SubSeq(F, 1, k - 1))]]
    BY DEF RowFile!Serialize
  <2> HIDE DEF F, file, L
  <2>2. [k \in DOMAIN F |-> RowFile!Size(SubSeq(F, 1, k - 1))] = [k \in 1..L |-> Ahead(F, k - 1)]
    BY <1>2, <1>3
  <2>3. QED
    BY <1>2, <2>1, <2>2
<1> HIDE DEF file, F, L
<1>5. FileOf(F, file)
  BY <1>1, <1>3, <1>4 DEF FileOf, L
<1>6. PICK got : Gathers(got, F, file) /\ RowFile!Data(file) = got[L]
  BY <1>5, GathersDefined DEF L
<1>7. \A n \in RowFile!Cuts(file) : n \in 0..file.size
  <2> DEFINE Ends == {file.at[k] : k \in DOMAIN file.at} \cup {file.size}
  <2>1. \A o \in Ends : o \in 0..file.size
    <3>1. file.size = Ahead(F, L) /\ L \in 0..L
      BY <1>1, <1>4
    <3>2. ASSUME NEW k \in DOMAIN file.at PROVE file.at[k] \in 0..file.size
      <4>1. k \in 1..L /\ file.at[k] = Ahead(F, k - 1)
        BY <1>4
      <4>2. k - 1 \in 0..L /\ k - 1 <= L
        BY <1>1, <4>1
      <4>3. Ahead(F, k - 1) <= Ahead(F, L)
        BY <1>1, <3>1, <4>2, AheadGrows DEF L
      <4>4. QED
        BY <1>3, <3>1, <4>1, <4>2, <4>3
    <3>3. file.size \in 0..file.size
      BY <1>3, <3>1
    <3>4. QED
      BY <3>2, <3>3
  <2>2. RowFile!Cuts(file) = UNION {{o - 1, o} : o \in Ends \ {0}}
    BY DEF RowFile!Cuts
  <2>3. file.size \in Nat
    BY <1>1, <1>3, <1>4
  <2> HIDE DEF Ends
  <2>4. ASSUME NEW o \in Ends \ {0}, NEW n \in {o - 1, o} PROVE n \in 0..file.size
    BY <2>1, <2>3
  <2>5. QED
    BY <2>2, <2>4
<1>8. ASSUME NEW n \in RowFile!Cuts(file)
      PROVE  LET r == RowFile!Deserialize([file EXCEPT !.size = n])
             IN  IF n = file.size THEN r.ok /\ r.got = RowFile!Data(file)
                 ELSE r.ok => r.got = RowFile!Data(file)
  <2> DEFINE cut == [file EXCEPT !.size = n]
             r == RowFile!Deserialize(cut)
  <2>1. cut = [size |-> n, fields |-> F, at |-> [k \in 1..L |-> Ahead(F, k - 1)]]
    <3> DEFINE A == [k \in 1..L |-> Ahead(F, k - 1)]
               Z == Ahead(F, L)
    <3>1. file = [size |-> Z, fields |-> F, at |-> A]
      BY <1>4
    <3> HIDE DEF A, Z
    <3>2. [file EXCEPT !.size = n] = [size |-> n, fields |-> F, at |-> A]
      BY <3>1
    <3>3. QED
      BY <3>2 DEF A
  <2>2. n \in 0..Ahead(F, L)
    BY <1>4, <1>7
  <2> HIDE DEF cut
  <2>3. FileOf(F, cut)
    BY <1>1, <2>1, <2>2 DEF FileOf, L
  <2>4. \A k : RowFile!FieldBytes(cut, k) = RowFile!FieldBytes(file, k)
    BY <1>4, <2>1 DEF RowFile!FieldBytes
  <2>5. Reading(F, cut, got)
    BY <1>6, <2>3, <2>4 DEF Reading, Gathers
  <2>6. Read(F, cut, got, L, r)
    BY <2>5, FileIsRead DEF F, L
  <2> HIDE DEF r
  <2>7. r.ok => r.got = RowFile!Data(file)
    BY <1>6, <2>6 DEF Read
  <2>8. n = file.size => r.ok
    BY <1>1, <1>3, <1>4, <2>1, <2>2, <2>6 DEF Read, L
  <2>9. QED
    BY <2>7, <2>8 DEF r, cut
<1>9. QED
  BY <1>8 DEF RowFile!ReadsBack, file

(* The exported file of whatever row group is published.                     *)

\* What the fields of an exported group hold.
Storables ==
    Nat \cup Tiles \cup (SUBSET Pos) \cup Seq(Seq(Chars))
      \cup {RowFile!Magic, "num", "str", "str_kim"}

\* A tail has a size.
LEMMA TailSizeTyped ==
  ASSUME NEW S, NEW tail \in Seq(Seq(S))
  PROVE  TailSize(tail) \in Nat
<1> DEFINE n == Len(tail)
           v == [i \in DOMAIN tail |-> Len(tail[i]) + 1]
           s == SumOver(v)
<1>1. n \in Nat /\ DOMAIN tail = 1..n /\ IsFiniteSet(1..n)
  BY FS_Interval
<1>2. v \in [1..n -> Int] /\ \A i \in 1..n : 0 <= v[i]
  <2>1. \A i \in 1..n : Len(tail[i]) \in Nat
    BY <1>1
  <2>2. QED
    BY <1>1, <2>1
<1> HIDE DEF v, n
<1>3. SumOver(v) = PartSum(v, 1..n) /\ PartSum(v, 1..n) \in Int
  BY <1>1, <1>2, PartSums
<1>4. 0 <= PartSum(v, 1..n)
  BY <1>1, <1>2, PartSumNatural
<1>5. s \in Nat
  BY <1>3, <1>4
<1>6. TailSize(tail) = 64 * ((16 + 8 * n + s + 63) \div 64)
  BY DEF TailSize, v, n
<1> HIDE DEF s
<1> DEFINE t == 16 + 8 * n + s + 63
<1>7. t \in Nat
  BY <1>1, <1>5
<1> HIDE DEF t
<1>8. t \div 64 \in Nat
  BY <1>7
<1>9. QED
  BY <1>6, <1>8 DEF t

\* The exported form of a row group can be stored.
LEMMA ExportedStorable ==
  ASSUME NEW g \in RowGroups, NEW a \in Nat, NEW b \in Nat
  PROVE  Storable(Storables, Exported(g, a, b))
<1> DEFINE V == Storables
           e == Exported(g, a, b)
           col1 == [type |-> 9, name |-> "num", len |-> a]
           col2 == [type |-> 13, name |-> "str", len |-> b]
           col3 == [type |-> 8, name |-> "str_kim", len |-> b + 4]
           Stored(block) ==
             [tiles |-> <<block.num, block.skel, block.kim>>,
              delete_mask |-> block.delete_mask, tail |-> block.tail,
              tail_size |-> TailSize(block.tail)]
           blocks == [i \in DOMAIN g.blocks |-> Stored(g.blocks[i])]
<1>1. /\ e = [num_rows |-> g.num_rows, columns |-> <<col1, col2, col3>>, blocks |-> blocks]
  BY DEF Exported
<1>2. /\ g.num_rows \in Nat /\ Len(g.blocks) \in Nat /\ DOMAIN g.blocks = 1..Len(g.blocks)
      /\ \A i \in 1..Len(g.blocks) : g.blocks[i] \in Blocks
  BY DEF RowGroups
<1>3. /\ Nat \subseteq V /\ RowFile!Magic \in V /\ Tiles \subseteq V /\ SUBSET Pos \subseteq V
      /\ Seq(Seq(Chars)) \subseteq V /\ "num" \in V /\ "str" \in V /\ "str_kim" \in V
  <2> DEFINE S == Seq(Seq(Chars))
             P == SUBSET Pos
             c == RowFile!Magic
             T == Tiles
             v == Nat \cup T \cup P \cup S \cup {c, "num", "str", "str_kim"}
  <2> HIDE DEF S, P, c, T
  <2>1. Nat \subseteq v /\ T \subseteq v /\ P \subseteq v /\ S \subseteq v
    OBVIOUS
  <2>2. c \in v /\ "num" \in v /\ "str" \in v /\ "str_kim" \in v
    OBVIOUS
  <2>3. V = v
    BY Zenon DEF Storables, S, P, c, T
  <2> HIDE DEF v
  <2>4. QED
    BY <2>1, <2>2, <2>3, Zenon DEF S, P, c, T
<1> HIDE DEF V
<1>4. StorableColumn(V, col1) /\ StorableColumn(V, col2) /\ StorableColumn(V, col3)
  BY <1>3 DEF StorableColumn
<1>5. ASSUME NEW block \in Blocks PROVE StorableBlock(V, Stored(block), 3)
  <2>1. /\ block.num \in V /\ block.skel \in V /\ block.kim \in V
        /\ block.delete_mask \in V /\ block.tail \in V /\ block.tail \in Seq(Seq(Chars))
    BY <1>3 DEF Blocks
  <2>2. TailSize(block.tail) \in Nat
    BY <2>1, TailSizeTyped
  <2> DEFINE ts == <<block.num, block.skel, block.kim>>
  <2>3. ts \in Seq(V) /\ Len(ts) = 3
    BY <2>1
  <2>4. /\ Stored(block).tiles = ts /\ Stored(block).delete_mask = block.delete_mask
        /\ Stored(block).tail = block.tail /\ Stored(block).tail_size = TailSize(block.tail)
    OBVIOUS
  <2> HIDE DEF ts, Stored
  <2>5. QED
    BY <2>1, <2>2, <2>3, <2>4 DEF StorableBlock
<1>6. \A c \in 1..3 : StorableColumn(V, <<col1, col2, col3>>[c])
  <2> HIDE DEF col1, col2, col3
  <2>1. QED
    BY <1>4
<1>7. /\ Len(blocks) = Len(g.blocks) /\ DOMAIN blocks = 1..Len(g.blocks)
      /\ \A i \in 1..Len(g.blocks) : StorableBlock(V, blocks[i], 3)
  <2>1. blocks = [i \in 1..Len(g.blocks) |-> Stored(g.blocks[i])]
    BY <1>2
  <2>2. DOMAIN blocks = 1..Len(g.blocks) /\ Len(blocks) = Len(g.blocks)
    <3> DEFINE n == Len(g.blocks)
    <3>1. blocks = [i \in 1..n |-> Stored(g.blocks[i])] /\ n \in Nat
      BY <1>2, <2>1
    <3> HIDE DEF blocks, Stored, n
    <3>2. DOMAIN blocks = 1..n
      BY <3>1
    <3>3. Len(blocks) = n
      BY <3>1, <3>2, LenProperties
    <3>4. QED
      BY <3>2, <3>3 DEF n
  <2> HIDE DEF Stored
  <2>3. QED
    BY <1>2, <1>5, <2>1, <2>2
<1> DEFINE cols == <<col1, col2, col3>>
<1>8. Len(cols) = 3 /\ DOMAIN cols = 1..3
  OBVIOUS
<1> HIDE DEF cols, blocks, Stored
<1>9. e.num_rows = g.num_rows /\ e.columns = cols /\ e.blocks = blocks
  BY <1>1 DEF cols
<1>10. \A c \in 1..3 : StorableColumn(V, cols[c])
  BY <1>6 DEF cols
<1> HIDE DEF e
<1>11. Storable(V, e)
  <2>1. /\ Nat \subseteq V /\ RowFile!Magic \in V /\ e.num_rows \in V
    BY <1>2, <1>3, <1>9
  <2>2. Len(e.columns) = 3 /\ DOMAIN e.columns = 1..3
    BY <1>8, <1>9
  <2>3. /\ Len(e.columns) \in Nat /\ DOMAIN e.columns = 1..Len(e.columns)
        /\ \A c \in DOMAIN e.columns : StorableColumn(V, e.columns[c])
    BY <1>9, <1>10, <2>2
  <2>4. /\ Len(e.blocks) \in Nat /\ DOMAIN e.blocks = 1..Len(e.blocks)
        /\ \A i \in DOMAIN e.blocks : StorableBlock(V, e.blocks[i], Len(e.columns))
    BY <1>2, <1>7, <1>9, <2>2
  <2>5. QED
    BY <2>1, <2>3, <2>4, Zenon DEF Storable
<1>12. QED
  BY <1>11 DEF V, e

LEMMA InvFiles == IInv => FilesReadBack
<1> SUFFICES ASSUME IInv, group # Null, NEW n \in NameLengths
             PROVE  RowFile!ReadsBack(Exported(group, n[1], n[2]))
  BY DEF FilesReadBack
<1>1. group \in RowGroups
  BY DEF IInv, Layout, LaidOut
<1>2. n[1] \in Nat /\ n[2] \in Nat
  BY NameAssumption
<1>3. Storable(Storables, Exported(group, n[1], n[2]))
  BY <1>1, <1>2, ExportedStorable
<1>4. QED
  BY <1>3, StorableReadsBack

\* Whatever row group is exported, however long its columns' names: a file of it
\* that was written in full is read back field by field (Exporter::Deserialize),
\* and a file whose writing was cut off yields the same group or an exception.
THEOREM FilesAreReadBack == Spec => []FilesReadBack
<1>1. QED
  BY Invariance, InvFiles, PTL
==============================================================================
