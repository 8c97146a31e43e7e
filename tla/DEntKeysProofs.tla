--------------------------- MODULE DEntKeysProofs ---------------------------
(***************************************************************************)
(* Proofs about DEntKeys: for every width of an id, every base and all      *)
(* names, the byte strings of the dir entries sort like the pairs they      *)
(* stand for, and a listing's range is exact.                               *)
(***************************************************************************)
EXTENDS DEntKeys, DirTableProofs, SequenceTheorems, WellFoundedInduction

Byte == 0..Base - 1

LEMMA ByteIsNat == Byte \subseteq Nat /\ Base - 1 \in Byte /\ Width \in Nat
BY BytesAssumption DEF Byte

\* Every set of naturals that is not empty has a least element.
LEMMA LeastNatural ==
    ASSUME NEW T \in SUBSET Nat, T # {}
    PROVE  \E x \in T : \A y \in T : x <= y
<1> DEFINE R == {ss \in Nat \X Nat : ss[1] < ss[2]}
<1>1. IsWellFoundedOn(R, Nat)
  BY NatLessThanWellFounded, Zenon DEF OpToRel
<1> HIDE DEF R
<1>2. PICK x \in T : \A y \in T : ~(<<y, x>> \in R)
  BY <1>1, WFMin, Zenon
<1>3. ASSUME NEW y \in T PROVE x <= y
  <2>1. <<y, x>> \notin R
    BY <1>2, Zenon
  <2>2. x \in Nat /\ y \in Nat
    OBVIOUS
  <2>3. ~(y < x)
    BY <2>1, <2>2 DEF R
  <2> QED
    BY <2>2, <2>3
<1> QED
  BY <1>3, Zenon

\* Division, as the bytes of a number need it.
LEMMA DivOrder ==
    ASSUME NEW d \in Nat, d > 0, NEW x \in Nat, NEW y \in Nat
    PROVE  /\ x \div d \in Nat /\ x % d \in 0..d - 1
           /\ x < d => x \div d = 0
           /\ x <= y => x \div d <= y \div d
           /\ x < y /\ x \div d = y \div d => x % d < y % d
<1>1. x \div d \in Nat /\ x % d \in 0..d - 1
  OBVIOUS
<1>2. x < d => x \div d = 0
  OBVIOUS
<1>3. x <= y => x \div d <= y \div d
  OBVIOUS
<1>4. x < y /\ x \div d = y \div d => x % d < y % d
  OBVIOUS
<1> QED
  BY <1>1, <1>2, <1>3, <1>4

LEMMA DivTwice ==
    ASSUME NEW d \in Nat, d > 0, NEW e \in Nat, e > 0, NEW x \in Nat
    PROVE  x \div (d * e) = (x \div e) \div d
OBVIOUS

\* The powers of the base are positive.
LEMMA PowersPositive == \A n \in 0..Width : Base ^ n \in Nat /\ Base ^ n > 0
<1> DEFINE P(n) == Base ^ n
           T == {n \in 0..Width : ~(P(n) \in Nat /\ P(n) > 0)}
<1>1. /\ P(0) = 1 /\ Base \in Nat /\ Base > 1 /\ Width \in Nat
      /\ \A n \in 0..Width - 1 : P(n + 1) = Base * P(n)
  BY BytesAssumption, PowersAssumption
<1> HIDE DEF P
<1> SUFFICES ASSUME T # {}
             PROVE  FALSE
  BY DEF P
<1>2. T \in SUBSET Nat
  BY <1>1
<1>3. PICK n \in T : \A m \in T : n <= m
  BY <1>2, LeastNatural, Zenon
<1>4. n \in 0..Width /\ n # 0
  BY <1>1
<1>5. n - 1 \in 0..Width - 1 /\ n - 1 \in 0..Width /\ ~(n <= n - 1) /\ (n - 1) + 1 = n
  BY <1>1, <1>4
<1>6. P(n - 1) \in Nat /\ P(n - 1) > 0 /\ P(n) = Base * P(n - 1)
  <2>1. n - 1 \notin T
    BY <1>3, <1>5, Zenon
  <2>2. P((n - 1) + 1) = Base * P(n - 1)
    BY <1>1, <1>5, Zenon
  <2> QED
    BY <1>5, <2>1, <2>2, Zenon
<1>7. P(n) \in Nat /\ P(n) > 0
  BY <1>1, <1>6
<1> QED
  BY <1>7

\* What is left of an id without its last n bytes.
Left(id, n) == id \div Base ^ n

LEMMA LeftOf ==
    ASSUME NEW a \in Ids
    PROVE  /\ \A n \in 0..Width : Left(a, n) \in Nat
           /\ Left(a, 0) = a /\ Left(a, Width) = 0
           /\ \A n \in 0..Width - 1 : Left(a, n + 1) = Left(a, n) \div Base
           /\ \A i \in 1..Width : Store64(a)[i] = Left(a, Width - i) % Base
<1> DEFINE P(n) == Base ^ n
<1>1. /\ P(0) = 1 /\ Base \in Nat /\ Base > 1 /\ Width \in Nat
      /\ \A n \in 0..Width - 1 : P(n + 1) = Base * P(n)
      /\ \A n \in 0..Width : P(n) \in Nat /\ P(n) > 0
  BY BytesAssumption, PowersAssumption, PowersPositive
<1>2. \A n : Left(a, n) = a \div P(n)
  BY DEF Left
<1>3. a \in 0..P(Width) - 1
  BY OrderAssumption, Zenon
<1>4. Store64(a) = [i \in 1..Width |-> Left(a, Width - i) % Base]
  BY Zenon DEF Store64, Left
<1> HIDE DEF P
<1>5. a \in Nat /\ a < P(Width) /\ Width \in 0..Width
  BY <1>1, <1>3
<1>6. ASSUME NEW n \in 0..Width
      PROVE  Left(a, n) \in Nat
  <2>1. P(n) \in Nat /\ P(n) > 0
    BY <1>1, Zenon
  <2>2. a \div P(n) \in Nat
    BY <1>5, <2>1, DivOrder, Zenon
  <2> QED
    BY <1>2, <2>2, Zenon
<1>7. Left(a, 0) = a
  <2>1. a \div 1 = a
    BY <1>5
  <2> QED
    BY <1>1, <1>2, <2>1, Zenon
<1>8. Left(a, Width) = 0
  BY <1>1, <1>2, <1>5, DivOrder, Zenon
<1>9. ASSUME NEW n \in 0..Width - 1
      PROVE  Left(a, n + 1) = Left(a, n) \div Base
  <2>1. n \in 0..Width /\ Base > 0
    BY <1>1
  <2>2. a \div (Base * P(n)) = (a \div P(n)) \div Base
    BY <1>1, <1>5, <2>1, DivTwice, Zenon
  <2> QED
    BY <1>1, <1>2, <2>2, Zenon
<1> QED
  BY <1>4, <1>6, <1>7, <1>8, <1>9, Zenon

\* absl::big_endian::Store64 keeps the order of the ids: of two ids that fit into
\* their bytes, the smaller one has the smaller byte where they first differ, so
\* RocksDB sorts the keys by the parent's id.
THEOREM Store64Sorts ==
    ASSUME NEW a \in Ids, NEW b \in Ids, a < b
    PROVE  Before(Store64(a), Store64(b))
<1> DEFINE T == {n \in 0..Width : \A k \in n..Width : Left(a, k) = Left(b, k)}
<1>1. Width \in Nat /\ Width > 0 /\ Base \in Nat /\ Base > 0
  BY BytesAssumption
<1>2. T \in SUBSET Nat /\ Width \in T
  <2>1. \A k \in Width..Width : Left(a, k) = Left(b, k)
    <3>1. \A k \in Width..Width : k = Width
      BY <1>1
    <3> QED
      BY <3>1, LeftOf, Zenon
  <2>2. Width \in 0..Width /\ 0..Width \subseteq Nat
    BY <1>1
  <2> QED
    BY <2>1, <2>2, Zenon
<1>3. PICK m \in T : \A n \in T : m <= n
  BY <1>2, LeastNatural, Zenon
<1>4. m \in 0..Width /\ \A k \in m..Width : Left(a, k) = Left(b, k)
  BY Zenon
<1>5. m # 0
  <2> SUFFICES ASSUME m = 0 PROVE FALSE
    OBVIOUS
  <2>1. 0 \in m..Width
    BY <1>1
  <2>2. a = b
    BY <1>4, <2>1, LeftOf, Zenon
  <2>3. a \in Nat
    BY LeftOf, <1>4, Zenon
  <2> QED
    BY <2>2, <2>3
<1> DEFINE l == m - 1
<1>6. /\ l \in 0..Width - 1 /\ l \in 0..Width /\ l + 1 = m /\ ~(m <= l) /\ l + 1 \in m..Width
      /\ \A k \in l..Width : k = l \/ k \in m..Width
  BY <1>1, <1>4, <1>5
<1> HIDE DEF l
<1>7. Left(a, l) # Left(b, l)
  BY <1>3, <1>4, <1>6, Zenon
<1> HIDE DEF T
<1>8. /\ Left(a, l) \in Nat /\ Left(b, l) \in Nat
      /\ Left(a, l) \div Base = Left(b, l) \div Base
  <2>1. Left(a, l + 1) = Left(b, l + 1)
    BY <1>4, <1>6, Zenon
  <2>2. Left(a, l + 1) = Left(a, l) \div Base /\ Left(a, l) \in Nat
    BY <1>6, LeftOf, Zenon
  <2>3. Left(b, l + 1) = Left(b, l) \div Base /\ Left(b, l) \in Nat
    BY <1>6, LeftOf, Zenon
  <2> QED
    BY <2>1, <2>2, <2>3, Zenon
<1>9. Left(a, l) < Left(b, l)
  <2>1. Base ^ l \in Nat /\ Base ^ l > 0
    BY <1>6, PowersPositive, Zenon
  <2>2. a \in Nat /\ b \in Nat
    <3>1. 0 \in 0..Width
      BY <1>1
    <3> QED
      BY <3>1, LeftOf, Zenon
  <2>3. a <= b
    BY <2>2
  <2>4. Left(a, l) <= Left(b, l)
    BY <2>1, <2>2, <2>3, DivOrder, Zenon DEF Left
  <2> QED
    BY <1>7, <1>8, <2>4
<1>10. Left(a, l) % Base < Left(b, l) % Base
  BY <1>1, <1>8, <1>9, DivOrder, Zenon
<1> DEFINE i == Width - l
<1>11. /\ i \in 1..Width /\ Width - i = l
       /\ \A j \in 1..i - 1 : j \in 1..Width /\ Width - j \in m..Width
  BY <1>1, <1>4, <1>5 DEF l
<1> HIDE DEF i
<1>12. Store64(a)[i] < Store64(b)[i]
  BY <1>10, <1>11, LeftOf, Zenon
<1>13. ASSUME NEW j \in 1..i - 1
       PROVE  Store64(a)[j] = Store64(b)[j]
  <2>1. j \in 1..Width /\ Left(a, Width - j) = Left(b, Width - j)
    BY <1>4, <1>11, Zenon
  <2>2. Store64(a)[j] = Left(a, Width - j) % Base
    BY <2>1, LeftOf, Zenon
  <2>3. Store64(b)[j] = Left(b, Width - j) % Base
    BY <2>1, LeftOf, Zenon
  <2> QED
    BY <2>1, <2>2, <2>3, Zenon
<1>14. Len(Store64(a)) = Width /\ Len(Store64(b)) = Width
  BY <1>1 DEF Store64
<1>15. i \in 1..Len(Store64(b)) /\ i <= Len(Store64(a)) + 1
  BY <1>1, <1>11, <1>14
<1> QED
  BY <1>12, <1>13, <1>15, Zenon DEF Before

\* Ids are stored in their order, and names are numbered in theirs.
LEMMA KeyOrder ==
    /\ \A id \in Ids : Store64(id) \in [1..Width -> 0..Base - 1]
    /\ \A a, b \in Ids : a < b => Before(Store64(a), Store64(b))
    /\ \A m, n \in Names \cup {0} : m < n <=> Before(Bytes[m], Bytes[n])
<1>1. ASSUME NEW id \in Ids PROVE Store64(id) \in [1..Width -> 0..Base - 1]
  <2> DEFINE s == [i \in 1..Width |-> Left(id, Width - i) % Base]
  <2>1. Base \in Nat /\ Base > 0 /\ \A i \in 1..Width : Width - i \in 0..Width
    BY BytesAssumption
  <2>2. \A i \in 1..Width : Left(id, Width - i) % Base \in 0..Base - 1
    BY <2>1, LeftOf, DivOrder, Zenon
  <2>3. s \in [1..Width -> 0..Base - 1]
    BY <2>2, Zenon
  <2> QED
    BY <2>3, Zenon DEF Store64, Left
<1> QED
  BY <1>1, Store64Sorts, OrderAssumption, Zenon

\* A key never comes before one that it follows.
LEMMA BeforeAsymmetric ==
    ASSUME NEW u \in Seq(Byte), NEW v \in Seq(Byte), Before(u, v)
    PROVE  ~Before(v, u)
<1> SUFFICES ASSUME Before(v, u) PROVE FALSE
  OBVIOUS
<1>1. Len(u) \in Nat /\ Len(v) \in Nat
  OBVIOUS
<1>2. PICK i \in 1..Len(v) : /\ i <= Len(u) + 1
                             /\ \A k \in 1..i - 1 : u[k] = v[k]
                             /\ i <= Len(u) => u[i] < v[i]
  BY DEF Before
<1>3. PICK j \in 1..Len(u) : /\ j <= Len(v) + 1
                             /\ \A k \in 1..j - 1 : v[k] = u[k]
                             /\ j <= Len(v) => v[j] < u[j]
  BY DEF Before
<1>4. (\A k \in 1..Len(u) : u[k] \in Nat) /\ (\A k \in 1..Len(v) : v[k] \in Nat)
  <2>1. (\A k \in 1..Len(u) : u[k] \in Byte) /\ (\A k \in 1..Len(v) : v[k] \in Byte)
    OBVIOUS
  <2> QED
    BY <2>1, ByteIsNat, Zenon
<1>5. CASE i < j
  <2>1. i \in 1..Len(u) /\ i \in 1..j - 1 /\ i <= Len(u)
    BY <1>1, <1>5
  <2> QED
    BY <1>2, <1>3, <1>4, <2>1
<1>6. CASE j < i
  <2>1. j \in 1..Len(v) /\ j \in 1..i - 1 /\ j <= Len(v)
    BY <1>1, <1>6
  <2> QED
    BY <1>2, <1>3, <1>4, <2>1
<1>7. CASE i = j
  <2>1. i <= Len(u) /\ j <= Len(v) /\ i \in 1..Len(u)
    BY <1>1, <1>7
  <2> QED
    BY <1>2, <1>3, <1>4, <1>7, <2>1
<1> QED
  BY <1>1, <1>5, <1>6, <1>7

\* SerKey puts the bytes of the name behind those of the id.
LEMMA KeyBytes ==
    ASSUME NEW p \in Ids, NEW a \in Seq(Byte)
    PROVE  /\ SerKey(p, a) \in Seq(Byte)
           /\ Len(SerKey(p, a)) = Width + Len(a)
           /\ \A i \in 1..Width : SerKey(p, a)[i] = Store64(p)[i]
           /\ \A i \in 1..Len(a) : SerKey(p, a)[Width + i] = a[i]
<1> DEFINE x == Store64(p)
           e == SerKey(p, a)
<1>1. x \in [1..Width -> Byte] /\ Width \in Nat
  BY KeyOrder, ByteIsNat DEF Byte
<1> HIDE DEF x
<1>2. x \in Seq(Byte) /\ Len(x) = Width /\ Len(a) \in Nat
  BY <1>1
<1>3. /\ e \in Seq(Byte) /\ Len(e) = Len(x) + Len(a)
      /\ \A i \in 1..Len(x) + Len(a) : e[i] = IF i <= Len(x) THEN x[i] ELSE a[i - Len(x)]
  BY <1>2, ConcatProperties, Zenon DEF SerKey, x
<1> HIDE DEF e
<1>4. \A i \in 1..Width : e[i] = x[i]
  BY <1>1, <1>2, <1>3
<1>5. \A i \in 1..Len(a) : e[Width + i] = a[i]
  <2> SUFFICES ASSUME NEW i \in 1..Len(a) PROVE e[Width + i] = a[i]
    OBVIOUS
  <2>1. Width + i \in 1..Width + Len(a) /\ ~(Width + i <= Width) /\ Width + i - Width = i
    BY <1>1, <1>2
  <2> QED
    BY <1>2, <1>3, <2>1
<1> QED
  BY <1>2, <1>3, <1>4, <1>5 DEF e, x

\* Within a directory the names decide.
LEMMA SameParent ==
    ASSUME NEW p \in Ids, NEW a \in Seq(Byte), NEW b \in Seq(Byte)
    PROVE  Before(SerKey(p, a), SerKey(p, b)) <=> Before(a, b)
<1> DEFINE e == SerKey(p, a)
           f == SerKey(p, b)
           x == Store64(p)
<1>1. /\ Width \in Nat /\ Len(a) \in Nat /\ Len(b) \in Nat
      /\ \A i \in 1..Width : x[i] \in Nat
  BY ByteIsNat, KeyOrder DEF Byte
<1>2. /\ Len(e) = Width + Len(a) /\ Len(f) = Width + Len(b)
      /\ \A i \in 1..Width : e[i] = x[i] /\ f[i] = x[i]
      /\ \A i \in 1..Len(a) : e[Width + i] = a[i]
      /\ \A i \in 1..Len(b) : f[Width + i] = b[i]
  BY KeyBytes, Zenon
<1> HIDE DEF e, f, x
<1>3. ASSUME Before(e, f)
      PROVE  Before(a, b)
  <2>1. PICK i \in 1..Len(f) : /\ i <= Len(e) + 1
                               /\ \A j \in 1..i - 1 : e[j] = f[j]
                               /\ i <= Len(e) => e[i] < f[i]
    BY <1>3 DEF Before
  <2>2. i > Width
    <3> SUFFICES ASSUME i <= Width PROVE FALSE
      BY <1>1, <1>2
    <3>1. i \in 1..Width /\ i <= Len(e)
      BY <1>1, <1>2
    <3> QED
      BY <1>1, <1>2, <2>1, <3>1
  <2> DEFINE n == i - Width
  <2>3. n \in 1..Len(b) /\ n <= Len(a) + 1 /\ i = Width + n
    BY <1>1, <1>2, <2>1, <2>2
  <2>4. \A j \in 1..n - 1 : a[j] = b[j]
    <3> SUFFICES ASSUME NEW j \in 1..n - 1 PROVE a[j] = b[j]
      OBVIOUS
    <3>1. j \in 1..Len(a) /\ j \in 1..Len(b) /\ Width + j \in 1..i - 1
      BY <1>1, <2>3
    <3> QED
      BY <1>2, <2>1, <3>1
  <2>5. n <= Len(a) => a[n] < b[n]
    <3> SUFFICES ASSUME n <= Len(a) PROVE a[n] < b[n]
      OBVIOUS
    <3>1. n \in 1..Len(a) /\ i <= Len(e)
      BY <1>1, <1>2, <2>3
    <3> QED
      BY <1>2, <2>1, <2>3, <3>1
  <2> HIDE DEF n
  <2> QED
    BY <2>3, <2>4, <2>5 DEF Before
<1>4. ASSUME Before(a, b)
      PROVE  Before(e, f)
  <2>1. PICK i \in 1..Len(b) : /\ i <= Len(a) + 1
                               /\ \A j \in 1..i - 1 : a[j] = b[j]
                               /\ i <= Len(a) => a[i] < b[i]
    BY <1>4 DEF Before
  <2> DEFINE n == Width + i
  <2>2. n \in 1..Len(f) /\ n <= Len(e) + 1
    BY <1>1, <1>2, <2>1
  <2>3. \A j \in 1..n - 1 : e[j] = f[j]
    <3> SUFFICES ASSUME NEW j \in 1..n - 1 PROVE e[j] = f[j]
      OBVIOUS
    <3>1. CASE j <= Width
      BY <1>1, <1>2, <3>1
    <3>2. CASE j > Width
      <4>1. j - Width \in 1..Len(a) /\ j - Width \in 1..Len(b) /\ j - Width \in 1..i - 1
            /\ j = Width + (j - Width)
        BY <1>1, <2>1, <3>2
      <4> QED
        BY <1>2, <2>1, <4>1
    <3> QED
      BY <1>1, <3>1, <3>2
  <2>4. n <= Len(e) => e[n] < f[n]
    <3> SUFFICES ASSUME n <= Len(e) PROVE e[n] < f[n]
      OBVIOUS
    <3>1. i \in 1..Len(a) /\ i <= Len(a)
      BY <1>1, <1>2
    <3> QED
      BY <1>2, <2>1, <3>1
  <2> HIDE DEF n
  <2> QED
    BY <2>2, <2>3, <2>4 DEF Before
<1> QED
  BY <1>3, <1>4 DEF e, f

\* Between directories the ids decide.
LEMMA OtherParent ==
    ASSUME NEW p \in Ids, NEW q \in Ids, Before(Store64(p), Store64(q)),
           NEW a \in Seq(Byte), NEW b \in Seq(Byte)
    PROVE  Before(SerKey(p, a), SerKey(q, b))
<1> DEFINE e == SerKey(p, a)
           f == SerKey(q, b)
           x == Store64(p)
           y == Store64(q)
<1>1. /\ Width \in Nat /\ Len(a) \in Nat /\ Len(b) \in Nat
      /\ x \in [1..Width -> Byte] /\ y \in [1..Width -> Byte] /\ Before(x, y)
  BY ByteIsNat, KeyOrder DEF Byte
<1>2. /\ e \in Seq(Byte) /\ f \in Seq(Byte)
      /\ Len(e) = Width + Len(a) /\ Len(f) = Width + Len(b)
      /\ \A i \in 1..Width : e[i] = x[i] /\ f[i] = y[i]
  BY KeyBytes, Zenon
<1> HIDE DEF e, f, x, y
<1>3. Len(x) = Width /\ Len(y) = Width
  BY <1>1
<1>4. PICK i \in 1..Len(y) : /\ \A j \in 1..i - 1 : x[j] = y[j]
                             /\ i <= Len(x) => x[i] < y[i]
  BY <1>1 DEF Before
<1>5. i \in 1..Len(f) /\ i <= Len(e) + 1 /\ i \in 1..Width
  BY <1>1, <1>2, <1>3
<1>6. (\A j \in 1..i - 1 : e[j] = f[j]) /\ e[i] < f[i]
  BY <1>1, <1>2, <1>3, <1>4, <1>5
<1>7. Before(e, f)
  BY <1>5, <1>6 DEF Before
<1> QED
  BY <1>7 DEF e, f

\* The keys in the column family, and the bytes of their names.
LEMMA NameBytes ==
    ASSUME NEW n \in Names \cup {0}
    PROVE  /\ n \in Nat /\ Bytes[n] \in Seq(Byte)
           /\ Before(Bytes[n], <<Base - 1>>)
<1> DEFINE b == Bytes[n]
           l == <<Base - 1>>
<1>1. n \in Nat /\ b \in Seq(0..Base - 2) /\ Base \in Nat \ {0, 1}
  BY BytesAssumption, DirTableAssumption
<1> HIDE DEF b
<1>2. b \in Seq(Byte)
  BY <1>1 DEF Byte
<1>3. Len(l) = 1 /\ l[1] = Base - 1
  OBVIOUS
<1>4. Len(b) \in Nat /\ (1 <= Len(b) => b[1] < Base - 1)
  BY <1>1
<1> HIDE DEF l
<1>5. Before(b, l)
  <2>1. 1 \in 1..Len(l) /\ 1 <= Len(b) + 1 /\ \A j \in 1..1 - 1 : b[j] = l[j]
    BY <1>3, <1>4
  <2> QED
    BY <1>3, <1>4, <2>1 DEF Before
<1> QED
  BY <1>1, <1>2, <1>5 DEF b, l

\* KVDEntView::List returns the entries of the directory from start_after on and
\* no others, for any table that KVDirTable has written.
THEOREM ListsExactly == Spec => []ListIsExact
<1>1. TypeOK => ListIsExact
  <2> SUFFICES ASSUME TypeOK, NEW p \in Ids, NEW s \in Names \cup {0},
                      NEW k \in DOMAIN db.dent
               PROVE  k \in List(p, s) <=> k[1] = p /\ k[2] >= s
    BY Zenon DEF ListIsExact, List, GetRange
  <2> DEFINE key == SerKey(k[1], Bytes[k[2]])
  <2>1. k[1] \in Ids /\ k[2] \in Names \cup {0} /\ Ids \subseteq Nat
    BY DirTableAssumption DEF TypeOK, CFTypeOK
  <2>2. k \in List(p, s)
            <=> ~Before(key, SerKey(p, Bytes[s])) /\ Before(key, SerKey(p, <<Base - 1>>))
    BY Zenon DEF List, GetRange, RangeEnd
  <2>3. /\ Bytes[s] \in Seq(Byte) /\ Bytes[k[2]] \in Seq(Byte)
        /\ k[2] \in Nat /\ s \in Nat /\ Before(Bytes[k[2]], <<Base - 1>>)
    BY <2>1, NameBytes, Zenon
  <2>4. <<Base - 1>> \in Seq(Byte)
    BY ByteIsNat
  <2>5. CASE k[1] = p
    <3>1. Before(key, SerKey(p, <<Base - 1>>))
      BY <2>3, <2>4, <2>5, SameParent, Zenon
    <3>2. Before(key, SerKey(p, Bytes[s])) <=> k[2] < s
      BY <2>1, <2>3, <2>5, SameParent, KeyOrder, Zenon
    <3> HIDE DEF key
    <3> QED
      BY <2>2, <2>3, <2>5, <3>1, <3>2
  <2>6. CASE k[1] < p
    <3>1. Before(Store64(k[1]), Store64(p))
      BY <2>1, <2>6, KeyOrder, Zenon
    <3>2. k[1] \in Ids /\ Bytes[k[2]] \in Seq(Byte) /\ Bytes[s] \in Seq(Byte)
      BY <2>1, <2>3
    <3>3. Before(key, SerKey(p, Bytes[s]))
      BY <3>1, <3>2, OtherParent
    <3> QED
      BY <2>1, <2>2, <2>6, <3>3
  <2>7. CASE p < k[1]
    <3>1. Before(Store64(p), Store64(k[1]))
      BY <2>1, <2>7, KeyOrder, Zenon
    <3>2. k[1] \in Ids /\ Bytes[k[2]] \in Seq(Byte)
      BY <2>1, <2>3
    <3>3. ~Before(key, SerKey(p, <<Base - 1>>))
      <4>1. Before(SerKey(p, <<Base - 1>>), key)
        BY <2>4, <3>1, <3>2, OtherParent, Zenon
      <4>2. SerKey(p, <<Base - 1>>) \in Seq(Byte) /\ key \in Seq(Byte)
        BY <2>4, <3>2, KeyBytes, Zenon
      <4> QED
        BY <4>1, <4>2, BeforeAsymmetric, Zenon
    <3> QED
      BY <2>1, <2>2, <2>7, <3>3
  <2>8. k[1] \in Nat /\ p \in Nat
    BY <2>1, Zenon
  <2>9. k[1] = p \/ k[1] < p \/ p < k[1]
    BY <2>8
  <2> QED
    BY <2>5, <2>6, <2>7, <2>9, Zenon
<1> QED
  BY <1>1, TypeCorrect, PTL

\* The byte strings of the entries sort like the pairs that Serde takes them for.
THEOREM KeysAreSorted == Spec => []KeysSortAsPairs
<1>1. TypeOK => KeysSortAsPairs
  <2> SUFFICES ASSUME TypeOK, NEW k \in DOMAIN db.dent, NEW l \in DOMAIN db.dent
               PROVE  Before(SerKey(k[1], Bytes[k[2]]), SerKey(l[1], Bytes[l[2]]))
                         <=> k[1] < l[1] \/ (k[1] = l[1] /\ k[2] < l[2])
    BY Zenon DEF KeysSortAsPairs
  <2> DEFINE before == Before(SerKey(k[1], Bytes[k[2]]), SerKey(l[1], Bytes[l[2]]))
  <2>1. /\ k[1] \in Ids /\ k[2] \in Names \cup {0} /\ Ids \subseteq Nat
        /\ l[1] \in Ids /\ l[2] \in Names \cup {0}
    BY DirTableAssumption DEF TypeOK, CFTypeOK
  <2>2. Bytes[k[2]] \in Seq(Byte) /\ Bytes[l[2]] \in Seq(Byte)
    BY <2>1, NameBytes, Zenon
  <2>3. k[1] = l[1] => (before <=> k[2] < l[2])
    BY <2>1, <2>2, SameParent, KeyOrder, Zenon
  <2>4. ASSUME k[1] < l[1]
        PROVE  before
    <3>1. Before(Store64(k[1]), Store64(l[1]))
      BY <2>1, <2>4, KeyOrder, Zenon
    <3>2. k[1] \in Ids /\ l[1] \in Ids
      BY <2>1
    <3> QED
      BY <2>2, <3>1, <3>2, OtherParent
  <2>5. ASSUME l[1] < k[1]
        PROVE  ~before
    <3>1. Before(Store64(l[1]), Store64(k[1]))
      BY <2>1, <2>5, KeyOrder, Zenon
    <3>2. k[1] \in Ids /\ l[1] \in Ids
      BY <2>1
    <3> QED
      <4>1. Before(SerKey(l[1], Bytes[l[2]]), SerKey(k[1], Bytes[k[2]]))
        BY <2>2, <3>1, <3>2, OtherParent
      <4>2. SerKey(l[1], Bytes[l[2]]) \in Seq(Byte) /\ SerKey(k[1], Bytes[k[2]]) \in Seq(Byte)
        BY <2>2, <3>2, KeyBytes, Zenon
      <4> QED
        BY <4>1, <4>2, BeforeAsymmetric, Zenon
  <2>6. k[1] \in Nat /\ l[1] \in Nat
    BY <2>1, Zenon
  <2>7. \/ k[1] = l[1] /\ ~(k[1] < l[1])
        \/ k[1] < l[1]
        \/ l[1] < k[1] /\ ~(k[1] < l[1]) /\ k[1] # l[1]
    BY <2>6
  <2> QED
    BY <2>3, <2>4, <2>5, <2>7, Zenon
<1> QED
  BY <1>1, TypeCorrect, PTL
=============================================================================
