-------------------------- MODULE VirtioDiskProofs --------------------------
(***************************************************************************)
(* Proofs about VirtioDisk, for every number of processes, every size of   *)
(* the rings and every range of their indices, any number of requests and  *)
(* of kills, and a device that serves in any order.                        *)
(***************************************************************************)
EXTENDS VirtioDisk, FiniteSetTheorems, FunctionTheorems, WellFoundedInduction,
        TLAPS

-----------------------------------------------------------------------------
(* Numbers modulo a size *)

LEMMA DivMod ==
  ASSUME NEW a \in Nat, NEW n \in Nat \ {0}
  PROVE  /\ a \div n \in Nat
         /\ a % n \in 0..(n - 1)
         /\ a = n * (a \div n) + (a % n)
  OBVIOUS

LEMMA TimesNat == ASSUME NEW x \in Nat, NEW y \in Nat PROVE x * y \in Nat
  BY Z3

LEMMA MoreTimes ==
  ASSUME NEW n \in Nat \ {0}, NEW x \in Nat, NEW y \in Nat, x < y
  PROVE  n * x + n <= n * y
<1>1. PICK d \in Nat : y = x + 1 + d
  <2>1. y - x - 1 \in Nat /\ y = x + 1 + (y - x - 1)
    OBVIOUS
  <2>2. QED
    BY <2>1
<1>2. n * y = n * x + n + n * d
  BY <1>1, Z3
<1>3. n * d >= 0 /\ n * d \in Nat /\ n * x \in Nat
  BY <1>1, Z3
<1>4. QED
  BY <1>2, <1>3, Z3

LEMMA Quotient ==
  ASSUME NEW n \in Nat \ {0}, NEW q \in Nat, NEW r \in 0..(n - 1), NEW a \in Nat, a = n * q + r
  PROVE  a % n = r
<1>1. /\ a \div n \in Nat /\ a % n \in 0..(n - 1)
      /\ a = n * (a \div n) + (a % n)
  BY DivMod
<1>2. /\ q < a \div n => n * q + n <= n * (a \div n)
      /\ a \div n < q => n * (a \div n) + n <= n * q
  BY <1>1, MoreTimes
<1>3. PICK x \in Nat, y \in Nat : x = n * q /\ y = n * (a \div n)
  BY <1>1, Z3
<1>4. q = a \div n
  BY <1>1, <1>2, <1>3, Z3
<1>5. QED
  BY <1>1, <1>3, <1>4, Z3

LEMMA Wrapped ==
  ASSUME NEW n \in Nat \ {0}, NEW i \in Nat, NEW u \in Nat, NEW m \in Nat, m = n * u
  PROVE  (i + m) % n = i % n
<1>1. PICK q \in Nat, r \in 0..(n - 1) : r = i % n /\ i = n * q + r
  <2>1. i \div n \in Nat /\ i % n \in 0..(n - 1) /\ i = n * (i \div n) + (i % n)
    BY DivMod, Zenon
  <2>2. QED
    BY <2>1, Zenon
<1>2. n * (q + u) = n * q + n * u /\ n * q \in Nat /\ n * u \in Nat
  BY Z3
<1>3. PICK c \in Nat, t \in Nat : c = i + m /\ t = q + u
  <2>1. i + m \in Nat /\ q + u \in Nat
    OBVIOUS
  <2>2. QED
    BY <2>1
<1>4. c = n * t + r
  BY <1>1, <1>2, <1>3
<1>5. c % n = r
  BY <1>4, Quotient
<1>6. QED
  BY <1>1, <1>3, <1>5

\* Numbers less than n apart differ modulo n.
LEMMA ModApart ==
  ASSUME NEW n \in Nat \ {0}, NEW i \in Nat, NEW d \in 1..(n - 1)
  PROVE  i % n # (i + d) % n
<1> DEFINE j == i + d
<1>0. n \in Nat \ {0} /\ j \in Nat
  OBVIOUS
<1>1. /\ i \div n \in Nat /\ i % n \in 0..(n - 1) /\ i = n * (i \div n) + (i % n)
      /\ j \div n \in Nat /\ j % n \in 0..(n - 1) /\ j = n * (j \div n) + (j % n)
  BY <1>0, DivMod
<1>2. /\ i \div n < j \div n => n * (i \div n) + n <= n * (j \div n)
      /\ j \div n < i \div n => n * (j \div n) + n <= n * (i \div n)
  BY <1>0, <1>1, MoreTimes
<1>3. PICK x \in Nat, y \in Nat : x = n * (i \div n) /\ y = n * (j \div n)
  <2>1. n * (i \div n) \in Nat /\ n * (j \div n) \in Nat
    BY <1>0, <1>1, TimesNat
  <2>2. QED
    BY <2>1
<1>4. i \div n = j \div n => x = y
  BY <1>3
<1>5. /\ i = x + (i % n) /\ j = y + (j % n)
      /\ i \div n < j \div n => x + n <= y
      /\ j \div n < i \div n => y + n <= x
  BY <1>1, <1>2, <1>3
<1>6. ASSUME i % n = j % n PROVE FALSE
  <2>1. y = x + d
    BY <1>0, <1>1, <1>3, <1>5, <1>6, Z3
  <2>2. y # x /\ y < x + n /\ x < y
    BY <1>0, <1>3, <2>1
  <2>3. ~(i \div n < j \div n) /\ ~(j \div n < i \div n)
    BY <1>0, <1>1, <1>3, <1>5, <2>2
  <2>4. i \div n = j \div n
    BY <1>1, <2>3
  <2>5. QED
    BY <1>4, <2>2, <2>4
<1>7. QED
  BY <1>6

\* Adding a multiple of n changes nothing modulo n.
LEMMA ModWraps ==
  ASSUME NEW n \in Nat \ {0}, NEW m \in Nat, m % n = 0, NEW i \in Nat
  PROVE  (i + m) % n = i % n
<1>1. PICK u \in Nat : m = n * u
  <2>1. m \div n \in Nat /\ m = n * (m \div n) + (m % n)
    BY DivMod
  <2>2. n * (m \div n) \in Nat
    BY <2>1, TimesNat
  <2>3. m = n * (m \div n)
    BY <2>1, <2>2
  <2>4. QED
    BY <2>1, <2>3
<1>2. \A k \in Nat : k = n * u => (i + k) % n = i % n
  BY <1>1, Wrapped, Zenon
<1>3. QED
  BY <1>1, <1>2, Zenon

LEMMA ModSmall ==
  ASSUME NEW n \in Nat \ {0}, NEW i \in 0..(n - 1)
  PROVE  i % n = i
<1>1. n * 0 = 0
  BY Z3
<1>2. i = n * 0 + i /\ i \in Nat
  BY <1>1
<1>3. QED
  BY <1>2, Quotient

LEMMA ModOnce ==
  ASSUME NEW n \in Nat \ {0}, NEW i \in 0..(n - 1)
  PROVE  (i + n) % n = i
<1>1. n * 1 = n
  BY Z3
<1>2. i + n = n * 1 + i /\ i + n \in Nat
  BY <1>1
<1>3. QED
  BY <1>2, Quotient

-----------------------------------------------------------------------------
LEMMA Constants ==
  /\ IsFiniteSet(Threads) /\ Nobody \notin Threads /\ Intr \notin Threads /\ Nobody # Intr
  /\ NBLOCK \in Nat /\ NBLOCK >= Cardinality(Threads) /\ NBLOCK > 0
  /\ NUM \in Nat /\ NUM >= 3 /\ IDX \in Nat /\ IDX > 0 /\ IDX % NUM = 0
  /\ NUM <= IDX
<1>1. IDX \in Nat \ {0} /\ NUM \in Nat \ {0} /\ IDX % NUM = 0
  BY DiskAssumption DEF DiskAssumption
<1>2. ASSUME IDX < NUM PROVE FALSE
  <2>1. IDX \in 0..(NUM - 1)
    BY <1>1, <1>2
  <2>2. IDX % NUM = IDX
    BY <1>1, <2>1, ModSmall
  <2>3. QED
    BY <1>1, <2>2
<1>3. QED
  BY <1>1, <1>2, DiskAssumption DEF DiskAssumption, Nobody, Intr

-----------------------------------------------------------------------------
(* The rings *)

\* The entries of ring r from index a up to index b, of which one adds and
\* the other one takes.
Dist(a, b) == IF a <= b THEN b - a ELSE b + IDX - a
Win(r, a, b) == {r[(a + m) % NUM] : m \in 0..(Dist(a, b) - 1)}
Once(r, a, b) ==
  \A m, n \in 0..(Dist(a, b) - 1) : r[(a + m) % NUM] = r[(a + n) % NUM] => m = n

LEMMA Indices ==
  ASSUME NEW a \in 0..(IDX - 1), NEW b \in 0..(IDX - 1)
  PROVE  /\ Succ(b) = (IF b + 1 = IDX THEN 0 ELSE b + 1)
         /\ Succ(b) \in 0..(IDX - 1)
         /\ Dist(a, b) \in 0..(IDX - 1)
         /\ Dist(a, b) = 0 <=> a = b
         /\ Dist(a, b) < IDX - 1 => Dist(a, Succ(b)) = Dist(a, b) + 1
         /\ a # b => Dist(Succ(a), b) = Dist(a, b) - 1
<1>1. IDX \in Nat \ {0}
  BY Constants
<1>2. \A c \in 0..(IDX - 1) : Succ(c) = IF c + 1 = IDX THEN 0 ELSE c + 1
  <2>1. ASSUME NEW c \in 0..(IDX - 1), c + 1 # IDX PROVE (c + 1) % IDX = c + 1
    <3>1. c + 1 \in 0..(IDX - 1)
      BY <1>1, <2>1
    <3>2. QED
      BY <1>1, <3>1, ModSmall, Zenon
  <2>2. ASSUME NEW c \in 0..(IDX - 1), c + 1 = IDX PROVE (c + 1) % IDX = 0
    <3>1. 0 \in 0..(IDX - 1) /\ 0 + IDX = c + 1
      BY <1>1, <2>2
    <3>2. (0 + IDX) % IDX = 0
      BY <1>1, <3>1, ModOnce, Zenon
    <3>3. QED
      BY <3>1, <3>2
  <2>3. QED
    BY <2>1, <2>2 DEF Succ
<1>3. QED
  BY <1>1, <1>2 DEF Dist

\* An index may be anything modulo NUM, where IDX makes no difference.
LEMMA Places ==
  ASSUME NEW a \in 0..(IDX - 1), NEW b \in 0..(IDX - 1)
  PROVE  /\ b % NUM = (a + Dist(a, b)) % NUM
         /\ a % NUM = (a + 0) % NUM
         /\ \A m \in Nat : (Succ(a) + m) % NUM = (a + (m + 1)) % NUM
         /\ \A m \in Nat : (a + m) % NUM \in Descs
<1>1. NUM \in Nat \ {0} /\ IDX \in Nat \ {0} /\ IDX % NUM = 0 /\ a \in Nat /\ b \in Nat
  BY Constants
<1>2. \A m \in Nat : (m + IDX) % NUM = m % NUM
  BY <1>1, ModWraps, Zenon
<1>3. b % NUM = (a + Dist(a, b)) % NUM
  <2>1. CASE a <= b
    <3>1. a + Dist(a, b) = b
      BY <1>1, <2>1 DEF Dist
    <3>2. QED
      BY <3>1
  <2>2. CASE ~(a <= b)
    <3>1. a + Dist(a, b) = b + IDX
      BY <1>1, <2>2 DEF Dist
    <3>2. QED
      BY <1>1, <1>2, <3>1, Zenon
  <2>3. QED
    BY <2>1, <2>2
<1>4. ASSUME NEW m \in Nat PROVE (Succ(a) + m) % NUM = (a + (m + 1)) % NUM
  <2>1. CASE a + 1 = IDX
    <3>1. Succ(a) + m = m /\ a + (m + 1) = m + IDX
      BY <1>1, <2>1, Indices
    <3>2. QED
      BY <1>2, <3>1, Zenon
  <2>2. CASE a + 1 # IDX
    <3>1. Succ(a) + m = a + (m + 1)
      BY <1>1, <2>2, Indices
    <3>2. QED
      BY <3>1
  <2>3. QED
    BY <2>1, <2>2
<1>5. ASSUME NEW m \in Nat PROVE (a + m) % NUM \in Descs
  <2>1. a + m \in Nat
    BY <1>1
  <2>2. QED
    BY <1>1, <2>1, DivMod, Zenon DEF Descs
<1>6. a + 0 = a
  BY <1>1
<1>7. QED
  BY <1>3, <1>4, <1>5, <1>6

LEMMA RingEmpty ==
  ASSUME NEW a \in 0..(IDX - 1), NEW r
  PROVE  Win(r, a, a) = {} /\ Once(r, a, a)
<1>1. a - a = 0 /\ 0..(0 - 1) = {} /\ a <= a
  BY Constants
<1>2. Dist(a, a) = 0
  BY <1>1 DEF Dist
<1>3. QED
  BY <1>1, <1>2 DEF Win, Once

\* Writing the entry after the last one leaves the others alone.
LEMMA RingWrite ==
  ASSUME NEW a \in 0..(IDX - 1), NEW b \in 0..(IDX - 1), NEW r, NEW s,
         Dist(a, b) < NUM, \A p \in Descs : p # b % NUM => s[p] = r[p]
  PROVE  /\ Win(s, a, b) = Win(r, a, b)
         /\ Once(r, a, b) => Once(s, a, b)
<1> DEFINE d == Dist(a, b)
<1>1. d \in Nat /\ d < NUM /\ NUM \in Nat \ {0} /\ a \in Nat
  BY Indices, Constants
<1>2. ASSUME NEW m \in 0..(d - 1) PROVE s[(a + m) % NUM] = r[(a + m) % NUM]
  <2>1. PICK i \in Nat, e \in 1..(NUM - 1) : i = a + m /\ i + e = a + d
    <3>1. a + m \in Nat /\ d - m \in 1..(NUM - 1) /\ (a + m) + (d - m) = a + d
      BY <1>1
    <3>2. QED
      BY <3>1
  <2>2. i % NUM # (i + e) % NUM
    BY <1>1, ModApart, Zenon
  <2>3. (a + m) % NUM # b % NUM
    <3>1. (a + m) % NUM # (a + d) % NUM
      BY <2>1, <2>2, Zenon
    <3>2. b % NUM = (a + d) % NUM
      BY Places
    <3>3. QED
      BY <3>1, <3>2, Zenon
  <2>4. (a + m) % NUM \in Descs
    <3>1. m \in Nat
      BY <1>1
    <3>2. QED
      BY <3>1, Places, Zenon
  <2>5. QED
    BY <2>3, <2>4
<1>3. Win(s, a, b) = Win(r, a, b)
  BY <1>2 DEF Win
<1>4. Once(r, a, b) => Once(s, a, b)
  BY <1>2 DEF Once
<1>5. QED
  BY <1>3, <1>4

\* Its index moves past it.
LEMMA RingAdd ==
  ASSUME NEW a \in 0..(IDX - 1), NEW b \in 0..(IDX - 1), NEW r,
         Dist(a, b) < IDX - 1, Once(r, a, b), r[b % NUM] \notin Win(r, a, b)
  PROVE  /\ Win(r, a, Succ(b)) = Win(r, a, b) \cup {r[b % NUM]}
         /\ Once(r, a, Succ(b))
<1> DEFINE d == Dist(a, b)
<1>1. d \in Nat /\ Dist(a, Succ(b)) = d + 1 /\ b % NUM = (a + d) % NUM
  BY Indices, Places
<1>2. \A m : m \in 0..((d + 1) - 1) <=> m \in 0..(d - 1) \/ m = d
  BY <1>1
<1>3. \A m \in 0..(d - 1) : r[(a + m) % NUM] # r[(a + d) % NUM]
  BY <1>1 DEF Win
<1>4. Win(r, a, Succ(b)) = Win(r, a, b) \cup {r[b % NUM]}
  BY <1>1, <1>2 DEF Win
<1>5. Once(r, a, Succ(b))
  BY <1>1, <1>2, <1>3 DEF Once
<1>6. QED
  BY <1>4, <1>5

\* The first entry is taken.
LEMMA RingDrop ==
  ASSUME NEW a \in 0..(IDX - 1), NEW b \in 0..(IDX - 1), NEW r, a # b, Once(r, a, b)
  PROVE  /\ r[a % NUM] \in Win(r, a, b)
         /\ Win(r, Succ(a), b) = Win(r, a, b) \ {r[a % NUM]}
         /\ Once(r, Succ(a), b)
<1> DEFINE d == Dist(a, b)
<1>1. d \in Nat /\ d > 0 /\ Dist(Succ(a), b) = d - 1 /\ a % NUM = (a + 0) % NUM
  BY Indices, Places
<1>2. \A m \in 0..((d - 1) - 1) : m + 1 \in 0..(d - 1) /\ (Succ(a) + m) % NUM = (a + (m + 1)) % NUM
  BY <1>1, Places
<1>3. 0 \in 0..(d - 1)
  BY <1>1
<1>4. r[a % NUM] \in Win(r, a, b)
  BY <1>1, <1>3 DEF Win
<1>5. ASSUME NEW x \in Win(r, Succ(a), b) PROVE x \in Win(r, a, b) /\ x # r[a % NUM]
  <2>1. PICK m \in 0..((d - 1) - 1) : x = r[(Succ(a) + m) % NUM]
    BY <1>1 DEF Win
  <2>2. x = r[(a + (m + 1)) % NUM] /\ m + 1 \in 0..(d - 1) /\ m + 1 # 0
    BY <1>1, <1>2, <2>1
  <2>3. QED
    BY <1>1, <1>3, <2>2 DEF Win, Once
<1>6. ASSUME NEW x \in Win(r, a, b), x # r[a % NUM] PROVE x \in Win(r, Succ(a), b)
  <2>1. PICK n \in 0..(d - 1) : x = r[(a + n) % NUM]
    BY DEF Win
  <2>2. n # 0
    BY <1>1, <1>6, <2>1
  <2>3. PICK m \in 0..((d - 1) - 1) : n = m + 1
    <3>1. n - 1 \in 0..((d - 1) - 1) /\ n = (n - 1) + 1
      BY <1>1, <2>2
    <3>2. QED
      BY <3>1
  <2>4. x = r[(Succ(a) + m) % NUM]
    BY <1>2, <2>1, <2>3
  <2>5. QED
    BY <1>1, <2>4 DEF Win
<1>7. Once(r, Succ(a), b)
  <2> SUFFICES ASSUME NEW m \in 0..((d - 1) - 1), NEW n \in 0..((d - 1) - 1),
                      r[(Succ(a) + m) % NUM] = r[(Succ(a) + n) % NUM]
               PROVE  m = n
    BY <1>1 DEF Once
  <2>1. m + 1 = n + 1
    BY <1>2 DEF Once
  <2>2. QED
    BY <1>1, <2>1
<1>8. QED
  BY <1>4, <1>5, <1>6, <1>7

LEMMA DescsFinite == IsFiniteSet(Descs) /\ Cardinality(Descs) = NUM
<1>1. 0 \in Int /\ NUM - 1 \in Int /\ ~(0 > NUM - 1) /\ (NUM - 1) - 0 + 1 = NUM
  BY Constants
<1>2. /\ IsFiniteSet(0..(NUM - 1))
      /\ Cardinality(0..(NUM - 1)) = IF 0 > NUM - 1 THEN 0 ELSE (NUM - 1) - 0 + 1
  BY <1>1, FS_Interval, Zenon
<1>3. QED
  BY <1>1, <1>2 DEF Descs

\* What three descriptors are not in leaves room for three.
LEMMA RingBound ==
  ASSUME NEW a \in 0..(IDX - 1), NEW b \in 0..(IDX - 1), NEW r, Once(r, a, b),
         NEW i \in Descs, NEW j \in Descs, NEW k \in Descs, i # j, i # k, j # k,
         Win(r, a, b) \subseteq Descs \ {i, j, k}
  PROVE  Dist(a, b) <= NUM - 3
<1> DEFINE d == Dist(a, b)
           T == Descs \ {i, j, k}
           f == [m \in 0..(d - 1) |-> r[(a + m) % NUM]]
<1>1. d \in Nat /\ NUM \in Nat /\ NUM >= 3
  BY Indices, Constants
<1>2. IsFiniteSet(Descs) /\ Cardinality(Descs) = NUM
  BY DescsFinite
<1>3. IsFiniteSet(T) /\ Cardinality(T) = NUM - 3
  <2>1. IsFiniteSet(Descs \ {i}) /\ Cardinality(Descs \ {i}) = NUM - 1
    BY <1>2, FS_RemoveElement
  <2>2. /\ j \in Descs \ {i} /\ IsFiniteSet((Descs \ {i}) \ {j})
        /\ Cardinality((Descs \ {i}) \ {j}) = (NUM - 1) - 1
    BY <2>1, FS_RemoveElement
  <2>3. /\ k \in (Descs \ {i}) \ {j}
        /\ IsFiniteSet(((Descs \ {i}) \ {j}) \ {k})
        /\ Cardinality(((Descs \ {i}) \ {j}) \ {k}) = ((NUM - 1) - 1) - 1
    BY <2>2, FS_RemoveElement
  <2>4. T = ((Descs \ {i}) \ {j}) \ {k}
    OBVIOUS
  <2>5. QED
    BY <1>1, <2>3, <2>4
<1>4. f \in Injection(0..(d - 1), T)
  <2>1. f \in [0..(d - 1) -> T]
    BY DEF Win
  <2>2. \A m, n \in 0..(d - 1) : f[m] = f[n] => m = n
    BY DEF Once
  <2>3. QED
    BY <2>1, <2>2 DEF Injection, IsInjective
<1>5. Cardinality(0..(d - 1)) <= Cardinality(T)
  BY <1>3, <1>4, FS_Injection
<1>6. Cardinality(0..(d - 1)) = d
  BY <1>1, FS_Interval
<1>7. QED
  BY <1>3, <1>5, <1>6

\* The indices from a up to b, as the properties name them.
LEMMA BetweenIs ==
  ASSUME NEW a \in 0..(IDX - 1), NEW b \in 0..(IDX - 1)
  PROVE  /\ Between(a, b) = {(a + m) % IDX : m \in 0..(Dist(a, b) - 1)}
         /\ \A m \in 0..(Dist(a, b) - 1) : ((a + m) % IDX) % NUM = (a + m) % NUM
<1>1. NUM \in Nat \ {0} /\ IDX \in Nat \ {0} /\ IDX % NUM = 0 /\ a \in Nat /\ b \in Nat
  BY Constants
<1>2. (b + IDX - a) % IDX = Dist(a, b)
  <2>1. CASE a <= b
    <3>1. b - a \in 0..(IDX - 1) /\ b + IDX - a = (b - a) + IDX
      BY <1>1, <2>1
    <3>2. ((b - a) + IDX) % IDX = b - a
      BY <1>1, <3>1, ModOnce, Zenon
    <3>3. QED
      BY <2>1, <3>1, <3>2 DEF Dist
  <2>2. CASE ~(a <= b)
    <3>1. b + IDX - a \in 0..(IDX - 1)
      BY <1>1, <2>2
    <3>2. (b + IDX - a) % IDX = b + IDX - a
      BY <1>1, <3>1, ModSmall, Zenon
    <3>3. QED
      BY <2>2, <3>2 DEF Dist
  <2>3. QED
    BY <2>1, <2>2
<1>3. ASSUME NEW m \in 0..(Dist(a, b) - 1) PROVE ((a + m) % IDX) % NUM = (a + m) % NUM
  <2>1. m \in 0..(IDX - 1)
    BY <1>1, Indices
  <2>2. CASE a + m < IDX
    <3>1. a + m \in 0..(IDX - 1)
      BY <1>1, <2>1, <2>2
    <3>2. (a + m) % IDX = a + m
      BY <1>1, <3>1, ModSmall, Zenon
    <3>3. QED
      BY <3>2
  <2>3. CASE ~(a + m < IDX)
    <3>1. PICK i \in 0..(IDX - 1) : a + m = i + IDX
      <4>1. a + m - IDX \in 0..(IDX - 1) /\ a + m = (a + m - IDX) + IDX
        BY <1>1, <2>1, <2>3
      <4>2. QED
        BY <4>1
    <3>2. (i + IDX) % IDX = i
      BY <1>1, ModOnce, Zenon
    <3>3. i \in Nat
      BY <1>1
    <3>4. (i + IDX) % NUM = i % NUM
      BY <1>1, <3>3, ModWraps, Zenon
    <3>5. QED
      BY <3>1, <3>2, <3>4
  <2>4. QED
    BY <2>2, <2>3
<1>4. QED
  BY <1>2, <1>3 DEF Between

-----------------------------------------------------------------------------
(* The invariant *)

HasChain(t) == pc[t] \in {"publish", "notify", "waiting", "woken"}
\* The request is the device's, or on the way to it or back.
Flying(t) == pc[t] \in {"notify", "waiting", "woken"} /\ buf_disk[t]
Offer == Win(avail.ring, seen, avail.idx)
Done == Win(used.ring, used_idx, used.idx)

\* Whether a call has its chain, and the device its buffer, by where it is.
Calls ==
  \A t \in Threads :
    /\ pc[t] # "panic"
    /\ ~HasChain(t) => idx[t] = NoChain /\ ~buf_disk[t]
    /\ pc[t] \in {"publish", "notify", "waiting"} => buf_disk[t]

\* The three descriptors of a call, and what the device reads in them.
IsChain ==
  \A t \in Threads : HasChain(t) =>
    /\ idx[t][1] \in Descs /\ idx[t][2] \in Descs /\ idx[t][3] \in Descs
    /\ idx[t][1] # idx[t][2] /\ idx[t][1] # idx[t][3] /\ idx[t][2] # idx[t][3]
    /\ desc[idx[t][1]] = [addr |-> <<"op", idx[t][1]>>, next |-> idx[t][2]]
    /\ desc[idx[t][2]] = [addr |-> <<"data", t>>, next |-> idx[t][3]]
    /\ desc[idx[t][3]] = [addr |-> <<"status", idx[t][1]>>, next |-> NoDesc]
    /\ ops[idx[t][1]] = [type |-> Type(t), sector |-> blockno[t]]
    /\ info[idx[t][1]].b = t

\* A descriptor is free or in one chain.
Owned ==
  /\ \A i \in Descs : free[i] <=> \A t \in Threads : \A k \in 1..3 : idx[t][k] # i
  /\ \A t, u \in Threads : \A k, l \in 1..3 :
       (idx[t][k] \in Descs /\ idx[t][k] = idx[u][l]) => t = u

\* No two calls are for one block.
OwnBlock ==
  \A t, u \in Threads :
    (t # u /\ pc[t] # "out" /\ pc[u] # "out") => blockno[t] # blockno[u]

Locks == \A t \in Threads : lock = t <=> pc[t] \in {"publish", "notify"}

\* A chain's head is offered, taken or done, once, from publish to interrupt.
Apart ==
  /\ Once(avail.ring, seen, avail.idx) /\ Once(used.ring, used_idx, used.idx)
  /\ Offer \cap taken = {} /\ Offer \cap Done = {} /\ taken \cap Done = {}
Serving ==
  /\ \A t \in Threads : Flying(t) => idx[t][1] \in Offer \cup taken \cup Done
  /\ \A h \in Offer \cup taken \cup Done :
       \E t \in Threads : Flying(t) /\ idx[t][1] = h
  /\ \A t \in Threads : pc[t] = "publish" => avail.ring[avail.idx % NUM] = idx[t][1]

\* What the device has done is done.
Served ==
  /\ \A h \in Done : info[h].status = 0
  /\ \A t \in Threads : (HasChain(t) /\ (~buf_disk[t] \/ idx[t][1] \in Done))
                          => data[t] = sectors[blockno[t]]

\* Somebody will look into a ring that is not empty.
Signals ==
  /\ Offer # {} => notified \/ \E u \in Threads : pc[u] = "notify"
  /\ Done # {} => isr \/ lock = Intr

Sleepers == \A t \in Threads : pc[t] = "no_desc" => Cardinality(FreeDescs) < 3

IInv == /\ TypeOK /\ Calls /\ IsChain /\ Owned /\ OwnBlock /\ Locks
        /\ Apart /\ Serving /\ Served /\ Signals /\ Sleepers

-----------------------------------------------------------------------------
(* What the calls choose *)

LEMMA LowestIn ==
  ASSUME NEW S, S \subseteq Nat, S # {}
  PROVE  Lowest(S) \in S
<1> DEFINE R == {p \in Nat \X Nat : p[1] < p[2]}
<1>1. IsWellFoundedOn(R, Nat)
  BY NatLessThanWellFounded DEF OpToRel
<1> HIDE DEF R
<1>2. PICK i \in S : \A j \in S : ~(<<j, i>> \in R)
  BY <1>1, WFMin, Zenon
<1>3. ASSUME NEW j \in S PROVE i <= j
  <2>1. i \in Nat /\ j \in Nat /\ <<j, i>> \notin R
    BY <1>2
  <2>2. <<j, i>>[1] = j /\ <<j, i>>[2] = i
    OBVIOUS
  <2>3. ~(j < i)
    BY <2>1, <2>2 DEF R
  <2>4. QED
    BY <2>1, <2>3
<1>4. QED
  BY <1>3 DEF Lowest

\* Taking one element out of a finite set.
LEMMA TakeAway ==
  ASSUME NEW S, IsFiniteSet(S), NEW x
  PROVE  /\ IsFiniteSet(S \ {x}) /\ Cardinality(S \ {x}) \in Nat
         /\ Cardinality(S \ {x}) >= Cardinality(S) - 1
<1>1. IsFiniteSet(S \ {x})
  BY FS_RemoveElement, Zenon
<1>2. Cardinality(S) \in Nat /\ Cardinality(S \ {x}) \in Nat
  BY <1>1, FS_CardinalityType, Zenon
<1>3. Cardinality(S \ {x}) = IF x \in S THEN Cardinality(S) - 1 ELSE Cardinality(S)
  BY FS_RemoveElement, Zenon
<1>4. QED
  BY <1>1, <1>2, <1>3

\* alloc_desc finds three different descriptors where three are free.
LEMMA AllocThree ==
  ASSUME Cardinality(FreeDescs) >= 3
  PROVE  \E i, j, k \in FreeDescs :
           /\ Alloc3 = <<i, j, k>>
           /\ i # j /\ i # k /\ j # k
<1> DEFINE F == FreeDescs
           i == Lowest(F)
           j == Lowest(F \ {i})
           k == Lowest(F \ {i, j})
<1>1. IsFiniteSet(F) /\ F \subseteq Nat
  BY DescsFinite, FS_Subset, Constants DEF FreeDescs, Descs
<1>2. F # {} /\ F \ {i} # {} /\ F \ {i, j} # {}
  <2>0. Cardinality(F) >= 3
    OBVIOUS
  <2> HIDE DEF F, i, j, k
  <2>1. Cardinality(F) \in Nat /\ Cardinality({}) = 0
    BY <1>1, FS_CardinalityType, FS_EmptySet, Zenon
  <2>2. /\ IsFiniteSet(F \ {i}) /\ Cardinality(F \ {i}) \in Nat
        /\ Cardinality(F \ {i}) >= Cardinality(F) - 1
    BY <1>1, TakeAway, Zenon
  <2>3. Cardinality(F \ {i}) >= 2 /\ Cardinality(F \ {i}) \in Nat
    BY <2>0, <2>1, <2>2
  <2>4. Cardinality((F \ {i}) \ {j}) >= 1
    <3>1. /\ Cardinality((F \ {i}) \ {j}) \in Nat
          /\ Cardinality((F \ {i}) \ {j}) >= Cardinality(F \ {i}) - 1
      BY <2>2, TakeAway, Zenon
    <3>2. QED
      BY <2>3, <3>1
  <2>5. (F \ {i}) \ {j} = F \ {i, j}
    OBVIOUS
  <2>6. QED
    BY <2>1, <2>3, <2>4, <2>5
<1>3. i \in F
  BY <1>1, <1>2, LowestIn, Zenon
<1>4. j \in F \ {i}
  <2>1. F \ {i} \subseteq Nat
    BY <1>1
  <2>2. QED
    BY <1>2, <2>1, LowestIn, Zenon
<1>5. k \in F \ {i, j}
  <2>1. F \ {i, j} \subseteq Nat
    BY <1>1
  <2>2. QED
    BY <1>2, <2>1, LowestIn, Zenon
<1>6. Alloc3 = <<i, j, k>>
  BY DEF Alloc3
<1>7. QED
  BY <1>3, <1>4, <1>5, <1>6

\* There are enough blocks for every call to have its own.
LEMMA OtherBlock ==
  ASSUME blockno \in [Threads -> Blocks], NEW t \in Threads
  PROVE  Lowest(OtherBlocks(t)) \in OtherBlocks(t)
<1> DEFINE U == Threads \ {t}
           B == {blockno[u] : u \in U}
<1>1. /\ IsFiniteSet(U)
      /\ Cardinality(U) < NBLOCK
      /\ Cardinality(U) \in Nat
  <2>1. /\ IsFiniteSet(Threads) /\ Cardinality(Threads) \in Nat
        /\ NBLOCK \in Nat /\ NBLOCK >= Cardinality(Threads)
    BY Constants, FS_CardinalityType
  <2>2. IsFiniteSet(U) /\ Cardinality(U) = Cardinality(Threads) - 1
    BY <2>1, FS_RemoveElement
  <2>3. Cardinality(U) \in Nat
    BY <2>2, FS_CardinalityType
  <2>4. QED
    BY <2>1, <2>2, <2>3
<1>2. IsFiniteSet(B) /\ Cardinality(B) <= Cardinality(U) /\ Cardinality(B) \in Nat
  <2>1. [u \in U |-> blockno[u]] \in Surjection(U, B)
    BY DEF Surjection
  <2>2. IsFiniteSet(B) /\ Cardinality(B) <= Cardinality(U)
    BY <1>1, <2>1, FS_Surjection
  <2>3. QED
    BY <2>2, FS_CardinalityType
<1>3. IsFiniteSet(Blocks) /\ Cardinality(Blocks) = NBLOCK
  <2>1. 1 \in Int /\ NBLOCK \in Int /\ ~(1 > NBLOCK) /\ NBLOCK - 1 + 1 = NBLOCK
    BY Constants
  <2>2. QED
    BY <2>1, FS_Interval DEF Blocks
<1>4. Blocks # B
  BY <1>1, <1>2, <1>3, Constants
<1>5. B \subseteq Blocks
  OBVIOUS
<1>6. PICK n \in Blocks : n \notin B
  BY <1>4, <1>5
<1>7. n \in OtherBlocks(t)
  BY <1>6 DEF OtherBlocks
<1>8. OtherBlocks(t) \subseteq Nat /\ OtherBlocks(t) # {}
  BY <1>7 DEF OtherBlocks, Blocks
<1>9. QED
  BY <1>8, LowestIn, Zenon

-----------------------------------------------------------------------------
(* The steps *)

\* What a step keeps that leaves chains and rings alone.
LEMMA Quiet ==
  ASSUME IInv,
         UNCHANGED <<desc, avail, used, ops, info, free, used_idx, buf_disk,
                     idx, sectors, seen, taken>>,
         \A t \in Threads :
           /\ pc'[t] # "panic"
           /\ pc'[t] = "publish" <=> pc[t] = "publish"
           /\ pc'[t] \in {"notify", "waiting", "woken"} <=> pc[t] \in {"notify", "waiting", "woken"}
           /\ pc'[t] \in {"notify", "waiting"} => buf_disk[t]
           /\ HasChain(t) => /\ write'[t] = write[t] /\ blockno'[t] = blockno[t]
                             /\ data'[t] = data[t]
  PROVE  Calls' /\ IsChain' /\ Owned' /\ Apart' /\ Serving' /\ Served'
<1>1. /\ Offer' = Offer /\ Done' = Done
      /\ \A t \in Threads : (HasChain(t)' <=> HasChain(t)) /\ (Flying(t)' <=> Flying(t))
  BY DEF Offer, Done, HasChain, Flying
<1>2. Calls'
  BY <1>1 DEF IInv, Calls, HasChain
<1>3. IsChain'
  <2>1. \A t \in Threads : HasChain(t) => Type(t)' = Type(t)
    BY DEF Type
  <2>2. QED
    BY <1>1, <2>1 DEF IInv, IsChain
<1>4. Owned'
  BY DEF IInv, Owned
<1>5. Apart'
  BY <1>1 DEF IInv, Apart
<1>6. Serving'
  BY <1>1 DEF IInv, Serving
<1>7. Served'
  BY <1>1 DEF IInv, Served
<1>8. QED
  BY <1>2, <1>3, <1>4, <1>5, <1>6, <1>7

LEMMA CallStep ==
  ASSUME IInv, NEW t \in Threads, NEW w \in BOOLEAN, Call(t, w)
  PROVE  IInv'
<1>1. pc \in [Threads -> PCs] /\ blockno \in [Threads -> Blocks]
  BY DEF IInv, TypeOK
<1>2. /\ pc[t] = "out" /\ pc' = [pc EXCEPT ![t] = "alloc"]
      /\ blockno' = [blockno EXCEPT ![t] = Lowest(OtherBlocks(t))]
  BY DEF Call, At, Goto
<1>3. Lowest(OtherBlocks(t)) \in OtherBlocks(t)
  BY <1>1, OtherBlock
<1>4. TypeOK'
  <2>1. Lowest(OtherBlocks(t)) \in Blocks
    BY <1>3 DEF OtherBlocks
  <2>2. blockno' \in [Threads -> Blocks] /\ pc' \in [Threads -> PCs]
    BY <1>1, <1>2, <2>1 DEF PCs
  <2>3. /\ write' \in [Threads -> BOOLEAN] /\ {reqs', kills'} \subseteq Nat
        /\ data' \in [Threads -> Threads \cup {Nobody, Junk}]
    BY DEF IInv, TypeOK, Call
  <2>4. QED
    BY <2>2, <2>3 DEF IInv, TypeOK, Call, deviceVars
<1>5. Calls' /\ IsChain' /\ Owned' /\ Apart' /\ Serving' /\ Served'
  <2>1. UNCHANGED <<desc, avail, used, ops, info, free, used_idx, buf_disk,
                    idx, sectors, seen, taken>>
    BY DEF Call, deviceVars
  <2>2. ASSUME NEW u \in Threads
        PROVE  /\ pc'[u] # "panic"
               /\ pc'[u] = "publish" <=> pc[u] = "publish"
               /\ pc'[u] \in {"notify", "waiting", "woken"} <=> pc[u] \in {"notify", "waiting", "woken"}
               /\ pc'[u] \in {"notify", "waiting"} => buf_disk[u]
    BY <1>1, <1>2 DEF IInv, Calls
  <2>3. ASSUME NEW u \in Threads, HasChain(u)
        PROVE  write'[u] = write[u] /\ blockno'[u] = blockno[u] /\ data'[u] = data[u]
    BY <1>1, <1>2, <2>3 DEF HasChain, Call, IInv, TypeOK
  <2>4. QED
    BY <2>1, <2>2, <2>3, Quiet
<1>6. OwnBlock'
  <2>1. \A u \in Threads \ {t} : pc[u] # "out" => blockno[u] # Lowest(OtherBlocks(t))
    BY <1>3 DEF OtherBlocks, At
  <2>2. QED
    BY <1>1, <1>2, <2>1 DEF IInv, OwnBlock
<1>7. Locks' /\ Sleepers'
  BY <1>1, <1>2 DEF IInv, Locks, Sleepers, Call, FreeDescs
<1>8. Signals'
  BY <1>1, <1>2 DEF IInv, Signals, Call, deviceVars, Offer, Done
<1>9. QED
  BY <1>4, <1>5, <1>6, <1>7, <1>8 DEF IInv

LEMMA AllocFailsStep ==
  ASSUME IInv, NEW t \in Threads, AllocFails(t)
  PROVE  IInv'
<1>1. pc \in [Threads -> PCs]
  BY DEF IInv, TypeOK
<1>2. /\ pc[t] = "alloc" /\ Cardinality(FreeDescs) < 3 /\ pc'[t] = "no_desc"
      /\ \A u \in Threads \ {t} : pc'[u] = pc[u] \/ (pc[u] = "no_desc" /\ pc'[u] = "alloc")
      /\ pc' \in [Threads -> PCs]
  BY <1>1 DEF AllocFails, At, WakeAllocators, PCs
<1>3. UNCHANGED <<sharedVars, driverVars, deviceVars, lock, bounds>>
  BY DEF AllocFails
<1>4. TypeOK'
  BY <1>2, <1>3 DEF IInv, TypeOK, sharedVars, driverVars, deviceVars, bounds
<1>5. Calls' /\ IsChain' /\ Owned' /\ Apart' /\ Serving' /\ Served'
  <2>1. UNCHANGED <<desc, avail, used, ops, info, free, used_idx, buf_disk,
                    idx, sectors, seen, taken, write, blockno, data>>
    BY <1>3 DEF sharedVars, driverVars, deviceVars
  <2>2. ASSUME NEW u \in Threads
        PROVE  /\ pc'[u] # "panic"
               /\ pc'[u] = "publish" <=> pc[u] = "publish"
               /\ pc'[u] \in {"notify", "waiting", "woken"} <=> pc[u] \in {"notify", "waiting", "woken"}
               /\ pc'[u] \in {"notify", "waiting"} => buf_disk[u]
    BY <1>2 DEF IInv, Calls
  <2>3. QED
    BY <2>1, <2>2, Quiet
<1>6. OwnBlock' /\ Locks' /\ Sleepers'
  BY <1>2, <1>3 DEF IInv, OwnBlock, Locks, Sleepers, FreeDescs, driverVars
<1>7. Signals'
  BY <1>2, <1>3 DEF IInv, Signals, sharedVars, driverVars, deviceVars, Offer, Done
<1>8. QED
  BY <1>4, <1>5, <1>6, <1>7 DEF IInv

LEMMA NotifyStep ==
  ASSUME IInv, NEW t \in Threads, Notify(t)
  PROVE  IInv'
<1>1. /\ pc \in [Threads -> PCs] /\ pc[t] = "notify" /\ lock = t /\ buf_disk[t]
      /\ pc' = [pc EXCEPT ![t] = "waiting"]
      /\ notified' /\ notified' = TRUE /\ lock' = Nobody
      /\ UNCHANGED <<sharedVars, driverVars, sectors, seen, taken, isr, bounds>>
  BY DEF IInv, TypeOK, Notify, At, Goto, Locks, Calls
<1>2. TypeOK'
  BY <1>1 DEF IInv, TypeOK, sharedVars, driverVars, bounds, PCs
<1>3. Calls' /\ IsChain' /\ Owned' /\ Apart' /\ Serving' /\ Served'
  <2>1. UNCHANGED <<desc, avail, used, ops, info, free, used_idx, buf_disk,
                    idx, sectors, seen, taken, write, blockno, data>>
    BY <1>1 DEF sharedVars, driverVars
  <2>2. ASSUME NEW u \in Threads
        PROVE  /\ pc'[u] # "panic"
               /\ pc'[u] = "publish" <=> pc[u] = "publish"
               /\ pc'[u] \in {"notify", "waiting", "woken"} <=> pc[u] \in {"notify", "waiting", "woken"}
               /\ pc'[u] \in {"notify", "waiting"} => buf_disk[u]
    BY <1>1 DEF IInv, Calls
  <2>3. QED
    BY <2>1, <2>2, Quiet
<1>4. OwnBlock' /\ Sleepers'
  BY <1>1 DEF IInv, OwnBlock, Sleepers, FreeDescs, driverVars
<1>5. Locks'
  BY <1>1, Constants DEF IInv, Locks
<1>6. Signals'
  BY <1>1, Constants DEF IInv, Signals, sharedVars, driverVars, Offer, Done
<1>7. QED
  BY <1>2, <1>3, <1>4, <1>5, <1>6 DEF IInv

LEMMA WakingStep ==
  ASSUME IInv, NEW t \in Threads, SleepAgain(t) \/ Kill(t)
  PROVE  IInv'
<1>1. /\ pc \in [Threads -> PCs] /\ pc' \in [Threads -> PCs]
      /\ \A u \in Threads \ {t} : pc'[u] = pc[u]
      /\ \/ pc[t] = "woken" /\ pc'[t] = "waiting" /\ buf_disk[t]
         \/ pc[t] = "no_desc" /\ pc'[t] = "alloc"
         \/ pc[t] = "waiting" /\ pc'[t] = "woken"
      /\ UNCHANGED <<sharedVars, driverVars, deviceVars, lock>>
  <2>1. pc \in [Threads -> PCs]
    BY DEF IInv, TypeOK
  <2>2. CASE SleepAgain(t)
    BY <2>1, <2>2 DEF SleepAgain, At, Goto, Completed, PCs
  <2>3. CASE Kill(t)
    BY <2>1, <2>3 DEF Kill, At, Goto, PCs
  <2>4. QED
    BY <2>2, <2>3
<1>2. TypeOK'
  <2>1. {reqs', kills'} \subseteq Nat
    BY DEF IInv, TypeOK, SleepAgain, Kill, bounds
  <2>2. QED
    BY <1>1, <2>1 DEF IInv, TypeOK, sharedVars, driverVars, deviceVars
<1>3. Calls' /\ IsChain' /\ Owned' /\ Apart' /\ Serving' /\ Served'
  <2>1. UNCHANGED <<desc, avail, used, ops, info, free, used_idx, buf_disk,
                    idx, sectors, seen, taken, write, blockno, data>>
    BY <1>1 DEF sharedVars, driverVars, deviceVars
  <2>2. ASSUME NEW u \in Threads
        PROVE  /\ pc'[u] # "panic"
               /\ pc'[u] = "publish" <=> pc[u] = "publish"
               /\ pc'[u] \in {"notify", "waiting", "woken"} <=> pc[u] \in {"notify", "waiting", "woken"}
               /\ pc'[u] \in {"notify", "waiting"} => buf_disk[u]
    BY <1>1 DEF IInv, Calls
  <2>3. QED
    BY <2>1, <2>2, Quiet
<1>4. OwnBlock' /\ Locks' /\ Sleepers'
  BY <1>1 DEF IInv, OwnBlock, Locks, Sleepers, FreeDescs, driverVars
<1>5. Signals'
  BY <1>1 DEF IInv, Signals, sharedVars, driverVars, deviceVars, Offer, Done
<1>6. QED
  BY <1>2, <1>3, <1>4, <1>5 DEF IInv

\* The handler has acknowledged the interrupt, but not yet looked; when it
\* leaves, it has seen every entry.  The device rests with no more offers.
LEMMA SignalStep ==
  ASSUME IInv, IntrAck \/ IntrDone \/ DeviceRest
  PROVE  IInv'
<1>1. /\ lock' \in {lock, Nobody, Intr} /\ notified' \in BOOLEAN /\ isr' \in BOOLEAN
      /\ lock' # lock => lock \in {Nobody, Intr}
      /\ UNCHANGED <<sharedVars, driverVars, sectors, seen, taken, pc, bounds>>
  BY DEF IInv, TypeOK, IntrAck, IntrDone, DeviceRest, deviceVars
<1>2. TypeOK'
  BY <1>1 DEF IInv, TypeOK, sharedVars, driverVars, bounds
<1>3. Calls' /\ IsChain' /\ Owned' /\ Apart' /\ Serving' /\ Served'
  <2>1. UNCHANGED <<desc, avail, used, ops, info, free, used_idx, buf_disk,
                    idx, sectors, seen, taken, write, blockno, data, pc>>
    BY <1>1 DEF sharedVars, driverVars
  <2>2. QED
    BY <2>1, Quiet DEF IInv, Calls
<1>4. OwnBlock' /\ Sleepers'
  BY <1>1 DEF IInv, OwnBlock, Sleepers, FreeDescs, driverVars
<1>5. Locks'
  BY <1>1, Constants DEF IInv, Locks
<1>6. Signals'
  <2>1. Offer' = Offer /\ Done' = Done
    BY <1>1 DEF sharedVars, driverVars, Offer, Done
  <2>2. CASE IntrAck
    BY <1>1, <2>1, <2>2 DEF IInv, Signals, IntrAck
  <2>3. CASE IntrDone
    <3>1. Done = {}
      BY <2>3, RingEmpty DEF Done, IntrDone, IInv, TypeOK
    <3>2. QED
      BY <1>1, <2>1, <2>3, <3>1 DEF IInv, Signals, IntrDone, deviceVars
  <2>4. CASE DeviceRest
    <3>1. Offer = {}
      BY <2>4, RingEmpty DEF Offer, DeviceRest, IInv, TypeOK
    <3>2. QED
      BY <1>1, <2>1, <2>4, <3>1 DEF IInv, Signals, DeviceRest
  <2>5. QED
    BY <2>2, <2>3, <2>4
<1>7. QED
  BY <1>2, <1>3, <1>4, <1>5, <1>6 DEF IInv

LEMMA DeviceTakeStep ==
  ASSUME IInv, DeviceTake
  PROVE  IInv'
<1> DEFINE h == avail.ring[seen % NUM]
<1>1. /\ notified /\ seen # avail.idx /\ taken' = taken \cup {h} /\ seen' = Succ(seen)
      /\ UNCHANGED <<sharedVars, driverVars, sectors, notified, isr, lock, pc, bounds>>
  BY DEF DeviceTake
<1>2. seen \in 0..(IDX - 1) /\ avail.idx \in 0..(IDX - 1) /\ avail.ring \in [Descs -> Descs]
  BY DEF IInv, TypeOK, Rings
<1>3. Done' = Done /\ h \in Offer /\ Offer' = Offer \ {h} /\ Once(avail.ring, seen, avail.idx)'
  <2>1. Once(avail.ring, seen, avail.idx)
    BY DEF IInv, Apart
  <2>2. /\ h \in Win(avail.ring, seen, avail.idx)
        /\ Win(avail.ring, Succ(seen), avail.idx) = Win(avail.ring, seen, avail.idx) \ {h}
        /\ Once(avail.ring, Succ(seen), avail.idx)
    BY <1>1, <1>2, <2>1, RingDrop
  <2>3. QED
    BY <1>1, <2>2 DEF Offer, Done, sharedVars, driverVars, Once
<1>4. TypeOK'
  <2>1. h \in Descs
    BY <1>2, Places
  <2>2. Succ(seen) \in 0..(IDX - 1)
    BY <1>2, Indices
  <2>3. QED
    BY <1>1, <2>1, <2>2 DEF IInv, TypeOK, sharedVars, driverVars, bounds
<1>5. Apart'
  BY <1>1, <1>3 DEF IInv, Apart, Once, sharedVars, driverVars
<1>6. Serving'
  <2>1. Offer' \cup taken' \cup Done' = Offer \cup taken \cup Done
    BY <1>1, <1>3
  <2>2. \A t \in Threads : Flying(t)' <=> Flying(t)
    BY <1>1 DEF Flying, driverVars
  <2>3. QED
    BY <1>1, <2>1, <2>2 DEF IInv, Serving, sharedVars, driverVars
<1>7. Calls' /\ Owned' /\ OwnBlock' /\ Locks' /\ Sleepers'
  BY <1>1 DEF IInv, Calls, Owned, OwnBlock, Locks, Sleepers, FreeDescs, HasChain, driverVars
<1>8. IsChain'
  BY <1>1 DEF IInv, IsChain, HasChain, Type, driverVars, sharedVars
<1>9. Served'
  BY <1>1, <1>3 DEF IInv, Served, HasChain, driverVars, sharedVars
<1>10. Signals'
  BY <1>1, <1>3 DEF IInv, Signals
<1>11. QED
  BY <1>4, <1>5, <1>6, <1>7, <1>8, <1>9, <1>10 DEF IInv

LEMMA ChainOf ==
  ASSUME IInv, NEW t \in Threads, HasChain(t)
  PROVE  /\ idx[t][1] \in Descs /\ idx[t][2] \in Descs /\ idx[t][3] \in Descs
         /\ idx[t][1] # idx[t][2] /\ idx[t][1] # idx[t][3] /\ idx[t][2] # idx[t][3]
         /\ info[idx[t][1]].b = t
         /\ \A u \in Threads : \A k, l \in 1..3 : idx[t][k] = idx[u][l] => u = t
<1>1. /\ idx[t][1] \in Descs /\ idx[t][2] \in Descs /\ idx[t][3] \in Descs
      /\ idx[t][1] # idx[t][2] /\ idx[t][1] # idx[t][3] /\ idx[t][2] # idx[t][3]
      /\ info[idx[t][1]].b = t
  BY Zenon DEF IInv, IsChain
<1>2. \A k \in 1..3 : k = 1 \/ k = 2 \/ k = 3
  OBVIOUS
<1>3. \A k \in 1..3 : idx[t][k] \in Descs
  BY <1>1, <1>2, Zenon
<1>4. \A u \in Threads : \A k, l \in 1..3 : idx[t][k] = idx[u][l] => u = t
  BY <1>3, Zenon DEF IInv, Owned
<1>5. QED
  BY <1>1, <1>4

\* No entry of the rings, nor what the device works on, is in the chain of a
\* call whose head is none of them.
LEMMA Elsewhere ==
  ASSUME IInv, NEW t \in Threads, HasChain(t),
         NEW S, S \subseteq Offer \cup taken \cup Done, idx[t][1] \notin S
  PROVE  S \subseteq Descs \ {idx[t][1], idx[t][2], idx[t][3]}
<1> SUFFICES ASSUME NEW h \in S
             PROVE  h \in Descs /\ h # idx[t][1] /\ h # idx[t][2] /\ h # idx[t][3]
  OBVIOUS
<1>1. PICK u \in Threads : Flying(u) /\ idx[u][1] = h
  BY DEF IInv, Serving
<1>2. HasChain(u) /\ h \in Descs
  <2>1. HasChain(u)
    BY <1>1 DEF Flying, HasChain
  <2>2. QED
    BY <1>1, <2>1, ChainOf
<1>3. ASSUME NEW k \in 1..3, h = idx[t][k] PROVE FALSE
  <2>1. idx[t][k] = idx[u][1] /\ 1 \in 1..3
    BY <1>1, <1>3
  <2>2. u = t
    BY <2>1, ChainOf
  <2>3. QED
    BY <1>1, <2>2
<1>4. QED
  BY <1>2, <1>3

LEMMA PublishStep ==
  ASSUME IInv, NEW t \in Threads, Publish(t)
  PROVE  IInv'
<1> DEFINE h == idx[t][1]
<1>1. /\ pc \in [Threads -> PCs] /\ pc[t] = "publish" /\ buf_disk[t] /\ HasChain(t)
      /\ pc' = [pc EXCEPT ![t] = "notify"]
      /\ avail' = [avail EXCEPT !.idx = Succ(avail.idx)]
      /\ UNCHANGED <<desc, used, ops, info, data, driverVars, deviceVars, lock, bounds>>
  BY DEF IInv, TypeOK, Publish, At, Goto, Calls, HasChain
<1>2. /\ seen \in 0..(IDX - 1) /\ avail.idx \in 0..(IDX - 1) /\ avail \in Rings
      /\ avail.ring[avail.idx % NUM] = h
      /\ avail'.ring = avail.ring /\ avail'.idx = Succ(avail.idx)
      /\ Succ(avail.idx) \in 0..(IDX - 1)
  <2>1. avail \in Rings /\ seen \in 0..(IDX - 1) /\ avail.ring[avail.idx % NUM] = h
    BY <1>1 DEF IInv, TypeOK, Serving
  <2>2. avail.idx \in 0..(IDX - 1) /\ avail'.ring = avail.ring /\ avail'.idx = Succ(avail.idx)
    BY <1>1, <2>1 DEF Rings
  <2>3. QED
    BY <2>1, <2>2, Indices
<1>3. h \notin Offer \cup taken \cup Done
  <2>1. ASSUME h \in Offer \cup taken \cup Done PROVE FALSE
    <3>1. PICK u \in Threads : Flying(u) /\ idx[u][1] = h
      BY <2>1 DEF IInv, Serving
    <3>2. u = t
      <4>1. idx[t][1] = idx[u][1] /\ 1 \in 1..3
        BY <3>1
      <4>2. QED
        BY <1>1, <4>1, ChainOf
    <3>3. QED
      BY <1>1, <3>1, <3>2 DEF Flying
  <2>2. QED
    BY <2>1
<1>4. /\ Done' = Done /\ Offer' = Offer \cup {h}
      /\ Once(avail.ring, seen, avail.idx)'
  <2>1. Once(avail.ring, seen, avail.idx) /\ h \notin Win(avail.ring, seen, avail.idx)
    BY <1>3 DEF IInv, Apart, Offer
  <2>2. Dist(seen, avail.idx) < IDX - 1
    <3>1. /\ idx[t][1] \in Descs /\ idx[t][2] \in Descs /\ idx[t][3] \in Descs
          /\ idx[t][1] # idx[t][2] /\ idx[t][1] # idx[t][3] /\ idx[t][2] # idx[t][3]
      BY <1>1, ChainOf
    <3>2. Win(avail.ring, seen, avail.idx) \subseteq Descs \ {idx[t][1], idx[t][2], idx[t][3]}
      <4>1. /\ Win(avail.ring, seen, avail.idx) \subseteq Offer \cup taken \cup Done
            /\ idx[t][1] \notin Win(avail.ring, seen, avail.idx)
        BY <2>1 DEF Offer
      <4>2. QED
        BY <1>1, <4>1, Elsewhere
    <3>3. Dist(seen, avail.idx) <= NUM - 3
      BY <1>2, <2>1, <3>1, <3>2, RingBound
    <3>4. NUM <= IDX /\ NUM \in Nat /\ IDX \in Nat /\ Dist(seen, avail.idx) \in 0..(IDX - 1)
      BY <1>2, Constants, Indices
    <3>5. QED
      BY <3>3, <3>4
  <2>3. /\ Win(avail.ring, seen, Succ(avail.idx)) = Win(avail.ring, seen, avail.idx) \cup {h}
        /\ Once(avail.ring, seen, Succ(avail.idx))
    BY <1>2, <2>1, <2>2, RingAdd
  <2>4. seen' = seen /\ used' = used /\ used_idx' = used_idx
    BY <1>1 DEF deviceVars, driverVars
  <2>5. QED
    BY <1>2, <2>3, <2>4 DEF Offer, Done, Once
<1>5. TypeOK'
  <2>1. avail' \in Rings
    BY <1>1, <1>2 DEF Rings
  <2>2. pc' \in [Threads -> PCs]
    BY <1>1 DEF PCs
  <2>3. QED
    BY <1>1, <2>1, <2>2 DEF IInv, TypeOK, driverVars, deviceVars, bounds
<1>6. Calls' /\ Owned' /\ OwnBlock' /\ Sleepers'
  BY <1>1 DEF IInv, Calls, Owned, OwnBlock, Sleepers, FreeDescs, HasChain, driverVars
<1>7. \A u \in Threads : HasChain(u)' <=> HasChain(u)
  BY <1>1 DEF HasChain
<1>8. IsChain'
  <2>1. \A u \in Threads : Type(u)' = Type(u)
    BY <1>1 DEF Type, driverVars
  <2>2. QED
    BY <1>1, <1>7, <2>1 DEF IInv, IsChain, driverVars
<1>9. Locks'
  BY <1>1 DEF IInv, Locks
<1>10. Apart'
  BY <1>1, <1>3, <1>4 DEF IInv, Apart, Once, deviceVars, driverVars
<1>11. Serving'
  <2>1. \A u \in Threads : Flying(u)' <=> (Flying(u) \/ u = t)
    BY <1>1 DEF Flying, driverVars
  <2>2. \A u \in Threads : pc'[u] # "publish"
    BY <1>1 DEF IInv, Locks
  <2>3. QED
    BY <1>1, <1>4, <2>1, <2>2 DEF IInv, Serving, deviceVars, driverVars
<1>12. Served'
  BY <1>1, <1>4, <1>7 DEF IInv, Served, driverVars, deviceVars
<1>13. Signals'
  <2>1. pc'[t] = "notify"
    BY <1>1
  <2>2. QED
    BY <1>1, <1>4, <2>1 DEF IInv, Signals, deviceVars
<1>14. QED
  BY <1>5, <1>6, <1>8, <1>9, <1>10, <1>11, <1>12, <1>13 DEF IInv

LEMMA IntrEntryStep ==
  ASSUME IInv, IntrEntry
  PROVE  IInv'
<1> DEFINE h == used.ring[used_idx % NUM]
<1>1. /\ lock = Intr /\ used_idx # used.idx
      /\ UNCHANGED <<sharedVars, free, blockno, write, idx, deviceVars, lock, bounds>>
  BY DEF IntrEntry
<1>2. /\ used_idx \in 0..(IDX - 1) /\ used.idx \in 0..(IDX - 1)
      /\ Once(used.ring, used_idx, used.idx) /\ Succ(used_idx) \in 0..(IDX - 1)
  <2>1. used_idx \in 0..(IDX - 1) /\ used.idx \in 0..(IDX - 1)
    BY DEF IInv, TypeOK, Rings
  <2>2. QED
    BY <2>1, Indices DEF IInv, Apart
<1>3. /\ h \in Done
      /\ Win(used.ring, Succ(used_idx), used.idx) = Done \ {h}
      /\ Once(used.ring, Succ(used_idx), used.idx)
  BY <1>1, <1>2, RingDrop DEF Done
<1>4. PICK t \in Threads : Flying(t) /\ idx[t][1] = h
  BY <1>3 DEF IInv, Serving
<1>5. HasChain(t) /\ info[h].b = t /\ info[h].status = 0 /\ t # Nobody
  <2>1. HasChain(t)
    BY <1>4 DEF Flying, HasChain
  <2>2. info[h].b = t /\ t # Nobody
    BY <1>4, <2>1, ChainOf, Constants
  <2>3. info[h].status = 0
    BY <1>3 DEF IInv, Served
  <2>4. QED
    BY <2>1, <2>2, <2>3
<1>6. /\ buf_disk' = [buf_disk EXCEPT ![t] = FALSE]
      /\ pc' = IF pc[t] = "waiting" THEN [pc EXCEPT ![t] = "woken"] ELSE pc
      /\ used_idx' = Succ(used_idx)
  BY <1>5 DEF IntrEntry, At
<1>7. /\ pc \in [Threads -> PCs] /\ buf_disk \in [Threads -> BOOLEAN]
      /\ pc[t] = "waiting" \/ pc[t] = "woken"
  <2>1. pc \in [Threads -> PCs] /\ buf_disk \in [Threads -> BOOLEAN]
    BY DEF IInv, TypeOK
  <2>2. pc[t] # "notify"
    BY <1>1, Constants DEF IInv, Locks
  <2>3. QED
    BY <1>4, <2>1, <2>2 DEF Flying
<1>8. /\ pc' \in [Threads -> PCs] /\ buf_disk' \in [Threads -> BOOLEAN]
      /\ pc'[t] = "woken" /\ buf_disk'[t] = FALSE
      /\ \A u \in Threads \ {t} : pc'[u] = pc[u] /\ buf_disk'[u] = buf_disk[u]
  BY <1>6, <1>7 DEF PCs
<1>9. Offer' = Offer /\ Done' = Done \ {h}
  BY <1>1, <1>3, <1>6 DEF Offer, Done, sharedVars, deviceVars
<1>10. \A u \in Threads : /\ HasChain(u)' <=> HasChain(u)
                          /\ Flying(u)' <=> Flying(u) /\ u # t
  BY <1>7, <1>8 DEF HasChain, Flying
<1>11. TypeOK'
  BY <1>1, <1>2, <1>6, <1>8 DEF IInv, TypeOK, sharedVars, deviceVars, bounds
<1>12. Calls'
  BY <1>1, <1>5, <1>8, <1>10 DEF IInv, Calls, HasChain
<1>13. IsChain'
  <2>1. \A u \in Threads : Type(u)' = Type(u)
    BY <1>1 DEF Type
  <2>2. QED
    BY <1>1, <1>10, <2>1 DEF IInv, IsChain, sharedVars
<1>14. Owned' /\ OwnBlock' /\ Sleepers'
  BY <1>1, <1>7, <1>8 DEF IInv, Owned, OwnBlock, Sleepers, FreeDescs
<1>15. Locks'
  BY <1>1, <1>7, <1>8, Constants DEF IInv, Locks
<1>16. Apart'
  BY <1>1, <1>3, <1>6, <1>9 DEF IInv, Apart, Once, sharedVars, deviceVars
<1>17. Serving'
  <2>1. ASSUME NEW u \in Threads, Flying(u), u # t PROVE idx[u][1] # h
    <3>1. 1 \in 1..3 /\ \A k, l \in 1..3 : idx[t][k] = idx[u][l] => u = t
      BY <1>5, ChainOf
    <3>2. QED
      BY <1>4, <2>1, <3>1
  <2>2. h \notin Offer \cup taken
    BY <1>3 DEF IInv, Apart
  <2>3. \A u \in Threads : Flying(u)' => idx'[u][1] \in Offer' \cup taken' \cup Done'
    BY <1>1, <1>9, <1>10, <2>1 DEF IInv, Serving, deviceVars
  <2>4. \A g \in Offer' \cup taken' \cup Done' :
          \E u \in Threads : Flying(u)' /\ idx'[u][1] = g
    <3>1. ASSUME NEW g \in Offer' \cup taken' \cup Done'
          PROVE  \E u \in Threads : Flying(u)' /\ idx'[u][1] = g
      <4>1. g \in Offer \cup taken \cup Done /\ g # h
        BY <1>1, <1>9, <2>2 DEF deviceVars
      <4>2. PICK u \in Threads : Flying(u) /\ idx[u][1] = g
        BY <4>1 DEF IInv, Serving
      <4>3. u # t
        BY <1>4, <4>1, <4>2
      <4>4. QED
        BY <1>1, <1>10, <4>2, <4>3
    <3>2. QED
      BY <3>1
  <2>5. \A u \in Threads : pc'[u] = "publish" => avail'.ring[avail'.idx % NUM] = idx'[u][1]
    BY <1>1, <1>7, <1>8 DEF IInv, Serving, sharedVars
  <2>6. QED
    BY <2>3, <2>4, <2>5 DEF Serving
<1>18. Served'
  BY <1>1, <1>3, <1>4, <1>8, <1>9, <1>10 DEF IInv, Served, sharedVars, deviceVars
<1>19. Signals'
  BY <1>1, <1>7, <1>8, <1>9 DEF IInv, Signals, deviceVars
<1>20. QED
  BY <1>11, <1>12, <1>13, <1>14, <1>15, <1>16, <1>17, <1>18, <1>19 DEF IInv

LEMMA AllocStep ==
  ASSUME IInv, NEW t \in Threads, Alloc(t)
  PROVE  IInv'
<1>1. PICK i, j, k \in FreeDescs : Alloc3 = <<i, j, k>> /\ i # j /\ i # k /\ j # k
  <2>1. Cardinality(FreeDescs) >= 3
    BY DEF Alloc
  <2>2. QED
    BY <2>1, AllocThree
<1> DEFINE c == <<i, j, k>>
           C == {i, j, k}
<1>2. /\ C \subseteq Descs /\ i \in Descs /\ j \in Descs /\ k \in Descs
      /\ c[1] = i /\ c[2] = j /\ c[3] = k /\ c \in [1..3 -> Descs]
      /\ \A x \in C : free[x]
  BY DEF FreeDescs
<1>3. /\ pc[t] = "alloc" /\ lock = Nobody /\ lock' = t
      /\ free' = [x \in Descs |-> free[x] /\ x \notin C]
      /\ idx' = [idx EXCEPT ![t] = c]
      /\ desc' = [x \in Descs |-> Format(x, c, t)]
      /\ ops' = [ops EXCEPT ![i] = [type |-> Type(t), sector |-> blockno[t]]]
      /\ info' = [info EXCEPT ![i] = [b |-> t, status |-> 255]]
      /\ avail' = [avail EXCEPT !.ring[avail.idx % NUM] = i]
      /\ buf_disk' = [buf_disk EXCEPT ![t] = TRUE]
      /\ pc' = [pc EXCEPT ![t] = "publish"]
      /\ UNCHANGED <<used, data, used_idx, blockno, write, deviceVars, bounds>>
  <2>1. Alloc3[1] = i /\ Alloc3[2] = j /\ Alloc3[3] = k /\ Alloc3 = c
    BY <1>1, <1>2
  <2>2. QED
    BY <2>1 DEF Alloc, At, Goto, Tracked
<1> HIDE DEF c
<1>4. /\ pc \in [Threads -> PCs] /\ free \in [Descs -> BOOLEAN]
      /\ idx \in [Threads -> [1..3 -> Descs \cup {NoDesc}]]
      /\ info \in [Descs -> [b : Threads \cup {Nobody}, status : {0, 255}]]
      /\ ops \in [Descs -> [type : {"in", "out"}, sector : Blocks]]
      /\ avail \in Rings /\ seen \in 0..(IDX - 1) /\ blockno \in [Threads -> Blocks]
      /\ buf_disk \in [Threads -> BOOLEAN]
  BY DEF IInv, TypeOK
<1>5. /\ avail.ring \in [Descs -> Descs] /\ avail.idx \in 0..(IDX - 1) /\ avail.idx % NUM \in Descs
      /\ avail'.ring = [avail.ring EXCEPT ![avail.idx % NUM] = i] /\ avail'.idx = avail.idx
      /\ avail' \in Rings
  <2>1. avail.ring \in [Descs -> Descs] /\ avail.idx \in 0..(IDX - 1)
    BY <1>4 DEF Rings
  <2>2. avail.idx % NUM \in Descs
    <3>1. avail.idx \in Nat /\ 0 \in Nat /\ avail.idx + 0 = avail.idx
      BY <2>1
    <3>2. (avail.idx + 0) % NUM \in Descs
      BY <2>1, <3>1, Places, Zenon
    <3>3. QED
      BY <3>1, <3>2
  <2>3. QED
    BY <1>2, <1>3, <1>4, <2>1, <2>2 DEF Rings
\* The other calls, their chains and the rings are where the new chain is not.
<1>6. /\ \A u \in Threads : pc[u] # "publish"
      /\ \A u \in Threads : \A l \in 1..3 : idx[u][l] \notin C
      /\ idx[t] = NoChain /\ ~HasChain(t)
  <2>1. \A u \in Threads : pc[u] # "publish"
    BY <1>3, Constants DEF IInv, Locks
  <2>2. \A u \in Threads : \A l \in 1..3 : idx[u][l] \notin C
    BY <1>2 DEF IInv, Owned
  <2>3. QED
    BY <1>3, <2>1, <2>2 DEF IInv, Calls, HasChain
<1>7. \A h \in Offer \cup taken \cup Done : h \in Descs \ C
  <2>1. ASSUME NEW h \in Offer \cup taken \cup Done PROVE h \in Descs \ C
    <3>1. PICK u \in Threads : Flying(u) /\ idx[u][1] = h
      BY DEF IInv, Serving
    <3>2. HasChain(u) /\ 1 \in 1..3
      BY <3>1 DEF Flying, HasChain
    <3>3. h \in Descs
      BY <3>1, <3>2, ChainOf
    <3>4. QED
      BY <1>6, <3>1, <3>2, <3>3
  <2>2. QED
    BY <2>1
<1>8. /\ Done' = Done /\ Offer' = Offer /\ Once(avail.ring, seen, avail.idx)'
      /\ avail'.ring[avail'.idx % NUM] = i
  <2>1. Once(avail.ring, seen, avail.idx)
    BY DEF IInv, Apart
  <2>2. Dist(seen, avail.idx) < NUM
    <3>1. Win(avail.ring, seen, avail.idx) \subseteq Descs \ {i, j, k}
      BY <1>7 DEF Offer
    <3>2. Dist(seen, avail.idx) <= NUM - 3
      BY <1>1, <1>2, <1>4, <1>5, <2>1, <3>1, RingBound
    <3>3. NUM \in Nat /\ Dist(seen, avail.idx) \in 0..(IDX - 1)
      BY <1>4, <1>5, Constants, Indices
    <3>4. QED
      BY <3>2, <3>3
  <2>3. /\ Win(avail'.ring, seen, avail.idx) = Win(avail.ring, seen, avail.idx)
        /\ Once(avail'.ring, seen, avail.idx)
        /\ avail'.ring[avail.idx % NUM] = i
    <3>1. /\ seen \in 0..(IDX - 1) /\ avail.idx \in 0..(IDX - 1) /\ avail.ring \in [Descs -> Descs]
          /\ avail'.ring = [avail.ring EXCEPT ![avail.idx % NUM] = i]
      BY <1>4, <1>5
    <3>2. avail'.ring[avail.idx % NUM] = i
      BY <1>5, <3>1
    <3>3. \A p \in Descs : p # avail.idx % NUM => avail'.ring[p] = avail.ring[p]
      BY <3>1
    <3>4. QED
      BY <2>1, <2>2, <3>1, <3>2, <3>3, RingWrite
  <2>4. seen' = seen /\ used' = used /\ used_idx' = used_idx
    BY <1>3 DEF deviceVars
  <2>5. QED
    BY <1>5, <2>3, <2>4 DEF Offer, Done, Once
<1>9. /\ desc'[i] = [addr |-> <<"op", i>>, next |-> j]
      /\ desc'[j] = [addr |-> <<"data", t>>, next |-> k]
      /\ desc'[k] = [addr |-> <<"status", i>>, next |-> NoDesc]
      /\ \A x \in Descs \ C : desc'[x] = desc[x] /\ ops'[x] = ops[x] /\ info'[x] = info[x]
  <2>1. ASSUME NEW x \in Descs \ C PROVE desc'[x] = desc[x]
    BY <1>2, <1>3 DEF Format, c
  <2>2. ASSUME NEW x \in Descs \ C PROVE ops'[x] = ops[x] /\ info'[x] = info[x]
    BY <1>3, <1>4
  <2>3. desc'[i] = [addr |-> <<"op", i>>, next |-> j]
    BY <1>1, <1>2, <1>3 DEF Format, c
  <2>4. desc'[j] = [addr |-> <<"data", t>>, next |-> k]
    BY <1>1, <1>2, <1>3 DEF Format, c
  <2>5. desc'[k] = [addr |-> <<"status", i>>, next |-> NoDesc]
    BY <1>1, <1>2, <1>3 DEF Format, c
  <2>6. QED
    BY <2>1, <2>2, <2>3, <2>4, <2>5
<1>10. /\ idx' \in [Threads -> [1..3 -> Descs \cup {NoDesc}]] /\ idx'[t] = c
       /\ \A u \in Threads \ {t} : idx'[u] = idx[u] /\ pc'[u] = pc[u] /\ buf_disk'[u] = buf_disk[u]
       /\ pc'[t] = "publish" /\ buf_disk'[t] /\ pc' \in [Threads -> PCs]
  <2>1. c \in [1..3 -> Descs \cup {NoDesc}]
    BY <1>2
  <2>2. QED
    BY <1>3, <1>4, <2>1 DEF PCs
<1>11. \A u \in Threads : /\ HasChain(u)' <=> HasChain(u) \/ u = t
                          /\ Flying(u)' <=> Flying(u)
  BY <1>3, <1>10 DEF HasChain, Flying
<1>12. TypeOK'
  <2>1. desc' \in [Descs -> [addr : {<<"none", Nobody>>} \cup ({"op", "status"} \X Descs)
                                     \cup ({"data"} \X Threads),
                             next : Descs \cup {NoDesc}]]
    <3>1. ASSUME NEW x \in Descs
          PROVE  Format(x, c, t) \in [addr : {<<"none", Nobody>>} \cup ({"op", "status"} \X Descs)
                                              \cup ({"data"} \X Threads),
                                      next : Descs \cup {NoDesc}]
      <4>1. CASE x = i
        BY <1>2, <1>3, <1>9, <4>1
      <4>2. CASE x = j
        BY <1>2, <1>3, <1>9, <4>2
      <4>3. CASE x = k
        BY <1>2, <1>3, <1>9, <4>3
      <4>4. CASE x \notin C
        <5>1. Format(x, c, t) = desc[x]
          BY <1>3, <1>9, <4>4
        <5>2. QED
          BY <5>1 DEF IInv, TypeOK
      <4>5. QED
        BY <4>1, <4>2, <4>3, <4>4
    <3>2. QED
      BY <1>3, <3>1
  <2>2. /\ ops' \in [Descs -> [type : {"in", "out"}, sector : Blocks]]
        /\ info' \in [Descs -> [b : Threads \cup {Nobody}, status : {0, 255}]]
        /\ free' \in [Descs -> BOOLEAN]
        /\ buf_disk' \in [Threads -> BOOLEAN]
    BY <1>2, <1>3, <1>4 DEF Type
  <2>3. lock' \in Threads
    BY <1>3
  <2>4. QED
    BY <1>3, <1>5, <1>10, <2>1, <2>2, <2>3 DEF IInv, TypeOK, deviceVars, bounds
<1>13. Calls'
  BY <1>10, <1>11 DEF IInv, Calls, HasChain
<1>14. IsChain'
  <2>1. \A u \in Threads : Type(u)' = Type(u)
    BY <1>3 DEF Type
  <2>2. ops'[i] = [type |-> Type(t), sector |-> blockno[t]] /\ info'[i].b = t
    BY <1>2, <1>3, <1>4
  <2>3. ASSUME NEW u \in Threads, u # t, HasChain(u)
        PROVE  {idx[u][1], idx[u][2], idx[u][3]} \subseteq Descs \ C
    <3>1. 1 \in 1..3 /\ 2 \in 1..3 /\ 3 \in 1..3
      OBVIOUS
    <3>2. idx[u][1] \in Descs /\ idx[u][2] \in Descs /\ idx[u][3] \in Descs
      BY <2>3, ChainOf
    <3>3. QED
      BY <1>6, <3>1, <3>2
  <2>4. ASSUME NEW u \in Threads, u # t, HasChain(u)'
        PROVE  /\ idx'[u] = idx[u] /\ blockno'[u] = blockno[u]
               /\ desc'[idx[u][1]] = desc[idx[u][1]]
               /\ desc'[idx[u][2]] = desc[idx[u][2]]
               /\ desc'[idx[u][3]] = desc[idx[u][3]]
               /\ ops'[idx[u][1]] = ops[idx[u][1]]
               /\ info'[idx[u][1]] = info[idx[u][1]]
               /\ HasChain(u)
    BY <1>3, <1>9, <1>10, <1>11, <2>3, <2>4
  <2>5. blockno' = blockno /\ idx'[t][1] = i /\ idx'[t][2] = j /\ idx'[t][3] = k
    BY <1>2, <1>3, <1>10
  <2>6. ASSUME NEW u \in Threads, HasChain(u)'
        PROVE  /\ idx'[u][1] \in Descs /\ idx'[u][2] \in Descs /\ idx'[u][3] \in Descs
               /\ idx'[u][1] # idx'[u][2] /\ idx'[u][1] # idx'[u][3] /\ idx'[u][2] # idx'[u][3]
               /\ desc'[idx'[u][1]] = [addr |-> <<"op", idx'[u][1]>>, next |-> idx'[u][2]]
               /\ desc'[idx'[u][2]] = [addr |-> <<"data", u>>, next |-> idx'[u][3]]
               /\ desc'[idx'[u][3]] = [addr |-> <<"status", idx'[u][1]>>, next |-> NoDesc]
               /\ ops'[idx'[u][1]] = [type |-> Type(u)', sector |-> blockno'[u]]
               /\ info'[idx'[u][1]].b = u
    <3>1. CASE u = t
      BY <1>1, <1>2, <1>9, <2>1, <2>2, <2>5, <3>1
    <3>2. CASE u # t
      BY <2>1, <2>4, <2>6, <3>2 DEF IInv, IsChain
    <3>3. QED
      BY <3>1, <3>2
  <2>7. QED
    BY <2>6, Zenon DEF IsChain
<1>15. Owned'
  <2>1. \A l \in 1..3 : l = 1 \/ l = 2 \/ l = 3
    OBVIOUS
  <2>2. \A l \in 1..3 : idx'[t][l] \in C
    BY <1>2, <1>10, <2>1
  <2>3. \A x \in C : \E l \in 1..3 : idx'[t][l] = x
    BY <1>2, <1>10
  <2>4. \A x \in Descs : \A l \in 1..3 : idx[t][l] # x
    BY <1>6, Constants DEF NoChain, NoDesc, Descs
  <2>5. ASSUME NEW x \in Descs
        PROVE  free'[x] <=> \A u \in Threads : \A l \in 1..3 : idx'[u][l] # x
    <3>1. CASE x \in C
      BY <1>3, <2>3, <3>1
    <3>2. CASE x \notin C
      <4>1. free'[x] <=> free[x]
        BY <1>3, <1>4, <3>2
      <4>2. free[x] <=> \A u \in Threads : \A l \in 1..3 : idx[u][l] # x
        BY DEF IInv, Owned
      <4>3. QED
        BY <1>10, <2>2, <2>4, <3>2, <4>1, <4>2
    <3>3. QED
      BY <3>1, <3>2
  <2>6. ASSUME NEW u \in Threads, NEW v \in Threads, NEW l \in 1..3, NEW m \in 1..3,
               idx'[u][l] \in Descs, idx'[u][l] = idx'[v][m]
        PROVE  u = v
    <3>1. CASE u # t /\ v # t
      <4>1. idx[u][l] \in Descs /\ idx[u][l] = idx[v][m]
        BY <1>10, <2>6, <3>1
      <4>2. QED
        BY <4>1 DEF IInv, Owned
    <3>2. CASE u = t /\ v # t
      BY <1>6, <1>10, <2>2, <2>6, <3>2
    <3>3. CASE u # t /\ v = t
      BY <1>6, <1>10, <2>2, <2>6, <3>3
    <3>4. QED
      BY <3>1, <3>2, <3>3
  <2>7. QED
    BY <2>5, <2>6 DEF Owned
<1>16. OwnBlock'
  BY <1>3, <1>10 DEF IInv, OwnBlock
<1>17. Locks'
  BY <1>3, <1>10, Constants DEF IInv, Locks
<1>18. Apart'
  BY <1>3, <1>8 DEF IInv, Apart, Once, deviceVars
<1>19. Serving'
  <2>1. \A u \in Threads : Flying(u) => u # t
    BY <1>6 DEF Flying, HasChain
  <2>2. \A u \in Threads : pc'[u] = "publish" => avail'.ring[avail'.idx % NUM] = idx'[u][1]
    BY <1>2, <1>6, <1>8, <1>10
  <2>3. QED
    BY <1>3, <1>8, <1>10, <1>11, <2>1, <2>2 DEF IInv, Serving, deviceVars
<1>20. Served'
  <2>1. \A h \in Done' : info'[h].status = 0
    BY <1>7, <1>8, <1>9 DEF IInv, Served
  <2>2. idx'[t][1] \notin Done' /\ buf_disk'[t]
    BY <1>2, <1>7, <1>8, <1>10
  <2>3. \A u \in Threads : (HasChain(u)' /\ (~buf_disk'[u] \/ idx'[u][1] \in Done'))
                             => data'[u] = sectors'[blockno'[u]]
    BY <1>3, <1>8, <1>10, <1>11, <2>2 DEF IInv, Served, deviceVars
  <2>4. QED
    BY <2>1, <2>3 DEF Served
<1>21. Signals'
  <2>1. \A u \in Threads : pc[u] # "notify"
    BY <1>3, Constants DEF IInv, Locks
  <2>2. QED
    BY <1>3, <1>8, <2>1, Constants DEF IInv, Signals, deviceVars
<1>22. Sleepers'
  <2>1. \A u \in Threads : pc'[u] # "no_desc"
    <3>1. Cardinality(FreeDescs) \in Nat /\ Cardinality(FreeDescs) >= 3
      <4>1. IsFiniteSet(FreeDescs)
        BY DescsFinite, FS_Subset DEF FreeDescs
      <4>2. QED
        BY <4>1, FS_CardinalityType DEF Alloc
    <3>2. \A u \in Threads : pc[u] # "no_desc"
      BY <3>1 DEF IInv, Sleepers
    <3>3. QED
      BY <1>10, <3>2
  <2>2. QED
    BY <2>1 DEF Sleepers
<1>23. QED
  BY <1>12, <1>13, <1>14, <1>15, <1>16, <1>17, <1>18, <1>19, <1>20, <1>21, <1>22 DEF IInv

LEMMA FinishStep ==
  ASSUME IInv, NEW t \in Threads, Finish(t)
  PROVE  IInv'
<1> DEFINE i == idx[t][1]
           j == idx[t][2]
           k == idx[t][3]
           C == {i, j, k}
<1>1. /\ pc \in [Threads -> PCs] /\ pc[t] = "woken" /\ lock = Nobody /\ ~buf_disk[t] /\ HasChain(t)
      /\ free \in [Descs -> BOOLEAN]
      /\ idx \in [Threads -> [1..3 -> Descs \cup {NoDesc}]]
      /\ info \in [Descs -> [b : Threads \cup {Nobody}, status : {0, 255}]]
  BY DEF IInv, TypeOK, Finish, At, HasChain, Completed
<1>2. /\ i \in Descs /\ j \in Descs /\ k \in Descs /\ i # j /\ i # k /\ j # k
      /\ \A u \in Threads : \A l, m \in 1..3 : idx[t][l] = idx[u][m] => u = t
  BY <1>1, ChainOf, Zenon
<1>3. Chain(i) = C
  <2>1. desc[i].next = j /\ desc[j].next = k
    <3>1. /\ desc[i] = [addr |-> <<"op", i>>, next |-> j]
          /\ desc[j] = [addr |-> <<"data", t>>, next |-> k]
      BY <1>1, Zenon DEF IInv, IsChain
    <3>2. QED
      BY <3>1
  <2>2. i # NoDesc /\ j # NoDesc /\ k # NoDesc
    BY <1>2, Constants DEF Descs, NoDesc
  <2>3. QED
    BY <2>1, <2>2 DEF Chain
<1>4. /\ info' = [info EXCEPT ![i].b = Nobody]
      /\ free' = [x \in Descs |-> free[x] \/ x \in C]
      /\ desc' = [x \in Descs |-> IF x \in C THEN NoEntry ELSE desc[x]]
      /\ idx' = [idx EXCEPT ![t] = NoChain]
      /\ pc' = [WakeAllocators(pc) EXCEPT ![t] = "out"]
      /\ UNCHANGED <<avail, used, ops, data, used_idx, buf_disk, blockno, write,
                     deviceVars, lock, bounds>>
  BY <1>3 DEF Finish, FreeChain
<1> HIDE DEF i, j, k
<1>5. /\ pc' \in [Threads -> PCs] /\ pc'[t] = "out"
      /\ \A u \in Threads \ {t} : pc'[u] = pc[u] \/ (pc[u] = "no_desc" /\ pc'[u] = "alloc")
      /\ \A u \in Threads : pc'[u] # "no_desc"
      /\ \A u \in Threads \ {t} : idx'[u] = idx[u]
      /\ idx'[t] = NoChain /\ NoChain \in [1..3 -> Descs \cup {NoDesc}]
      /\ idx' \in [Threads -> [1..3 -> Descs \cup {NoDesc}]]
  <2>1. NoChain \in [1..3 -> Descs \cup {NoDesc}]
    BY DEF NoChain
  <2>2. /\ idx'[t] = NoChain /\ \A u \in Threads \ {t} : idx'[u] = idx[u]
        /\ idx' \in [Threads -> [1..3 -> Descs \cup {NoDesc}]]
    BY <1>1, <1>4, <2>1
  <2>3. /\ pc' \in [Threads -> PCs] /\ pc'[t] = "out"
        /\ \A u \in Threads \ {t} : pc'[u] = pc[u] \/ (pc[u] = "no_desc" /\ pc'[u] = "alloc")
        /\ \A u \in Threads : pc'[u] # "no_desc"
    BY <1>1, <1>4 DEF PCs, WakeAllocators
  <2>4. QED
    BY <2>1, <2>2, <2>3
<1>6. \A u \in Threads : /\ HasChain(u)' <=> HasChain(u) /\ u # t
                         /\ Flying(u)' <=> Flying(u)
                         /\ Flying(u) => u # t
  BY <1>1, <1>4, <1>5 DEF HasChain, Flying
<1>7. Offer' = Offer /\ Done' = Done
  BY <1>4 DEF Offer, Done, deviceVars
\* Nothing that is still on its way is in the chain.
<1>8. ASSUME NEW u \in Threads, u # t
      PROVE  /\ \A l \in 1..3 : idx[u][l] \notin C
             /\ HasChain(u) => {idx[u][1], idx[u][2], idx[u][3]} \subseteq Descs \ C
  <2>1. ASSUME NEW l \in 1..3, idx[u][l] \in C PROVE FALSE
    <3>1. PICK m \in 1..3 : idx[t][m] = idx[u][l]
      <4>1. 1 \in 1..3 /\ 2 \in 1..3 /\ 3 \in 1..3
        OBVIOUS
      <4>2. QED
        BY <2>1, <4>1 DEF i, j, k
    <3>2. QED
      BY <1>2, <1>8, <3>1
  <2>2. 1 \in 1..3 /\ 2 \in 1..3 /\ 3 \in 1..3
    OBVIOUS
  <2>3. ASSUME HasChain(u) PROVE idx[u][1] \in Descs /\ idx[u][2] \in Descs /\ idx[u][3] \in Descs
    BY <2>3, ChainOf, Zenon
  <2>4. QED
    BY <2>1, <2>2, <2>3
<1>9. /\ \A x \in Descs \ C : desc'[x] = desc[x] /\ info'[x] = info[x]
      /\ \A x \in Descs : info'[x].status = info[x].status
  BY <1>1, <1>2, <1>4
<1>10. TypeOK'
  <2>1. desc' \in [Descs -> [addr : {<<"none", Nobody>>} \cup ({"op", "status"} \X Descs)
                                     \cup ({"data"} \X Threads),
                             next : Descs \cup {NoDesc}]]
    BY <1>4 DEF IInv, TypeOK, NoEntry
  <2>2. /\ info' \in [Descs -> [b : Threads \cup {Nobody}, status : {0, 255}]]
        /\ free' \in [Descs -> BOOLEAN]
    BY <1>1, <1>2, <1>4
  <2>3. QED
    BY <1>4, <1>5, <2>1, <2>2 DEF IInv, TypeOK, deviceVars, bounds
<1>11. Calls'
  BY <1>1, <1>4, <1>5, <1>6 DEF IInv, Calls, HasChain
<1>12. IsChain'
  <2>1. \A u \in Threads : Type(u)' = Type(u)
    BY <1>4 DEF Type
  <2>2. ASSUME NEW u \in Threads, HasChain(u)'
        PROVE  /\ idx'[u] = idx[u] /\ blockno'[u] = blockno[u] /\ ops' = ops
               /\ desc'[idx[u][1]] = desc[idx[u][1]]
               /\ desc'[idx[u][2]] = desc[idx[u][2]]
               /\ desc'[idx[u][3]] = desc[idx[u][3]]
               /\ info'[idx[u][1]] = info[idx[u][1]]
               /\ HasChain(u)
    BY <1>4, <1>5, <1>6, <1>8, <1>9, <2>2
  <2>3. QED
    BY <2>1, <2>2 DEF IInv, IsChain
<1>13. Owned'
  <2>1. \A x \in Descs : \A l \in 1..3 : idx'[t][l] # x
    BY <1>5, Constants DEF NoChain, NoDesc, Descs
  <2>2. ASSUME NEW x \in Descs
        PROVE  free'[x] <=> \A u \in Threads : \A l \in 1..3 : idx'[u][l] # x
    <3>1. free[x] <=> \A u \in Threads : \A l \in 1..3 : idx[u][l] # x
      BY DEF IInv, Owned
    <3>2. CASE x \in C
      <4>1. \A u \in Threads : \A l \in 1..3 : idx'[u][l] # x
        BY <1>5, <1>8, <2>1, <3>2
      <4>2. free'[x]
        BY <1>4, <3>2
      <4>3. QED
        BY <4>1, <4>2
    <3>3. CASE x \notin C
      <4>1. free'[x] <=> free[x]
        BY <1>1, <1>4, <3>3
      <4>2. \A l \in 1..3 : idx[t][l] # x
        <5>1. \A l \in 1..3 : l = 1 \/ l = 2 \/ l = 3
          OBVIOUS
        <5>2. QED
          BY <3>3, <5>1 DEF i, j, k
      <4>3. QED
        BY <1>5, <2>1, <3>1, <4>1, <4>2
    <3>4. QED
      BY <3>2, <3>3
  <2>3. ASSUME NEW u \in Threads, NEW v \in Threads, NEW l \in 1..3, NEW m \in 1..3,
               idx'[u][l] \in Descs, idx'[u][l] = idx'[v][m]
        PROVE  u = v
    <3>1. u # t /\ v # t
      BY <2>1, <2>3
    <3>2. idx[u][l] \in Descs /\ idx[u][l] = idx[v][m]
      BY <1>5, <2>3, <3>1
    <3>3. QED
      BY <3>2 DEF IInv, Owned
  <2>4. QED
    BY <2>2, <2>3 DEF Owned
<1>14. OwnBlock' /\ Sleepers'
  BY <1>4, <1>5 DEF IInv, OwnBlock, Sleepers
<1>15. Locks'
  BY <1>1, <1>4, <1>5, Constants DEF IInv, Locks
<1>16. Apart'
  BY <1>4, <1>7 DEF IInv, Apart, Once, deviceVars
<1>17. Serving'
  BY <1>4, <1>5, <1>6, <1>7 DEF IInv, Serving, deviceVars
<1>18. Served'
  <2>1. \A h \in Done' : info'[h].status = 0
    <3>1. \A h \in Done : h \in Descs
      <4>1. ASSUME NEW h \in Done PROVE h \in Descs
        <5>1. PICK u \in Threads : Flying(u) /\ idx[u][1] = h
          BY DEF IInv, Serving
        <5>2. HasChain(u)
          BY <5>1 DEF Flying, HasChain
        <5>3. QED
          BY <5>1, <5>2, ChainOf
      <4>2. QED
        BY <4>1
    <3>2. QED
      BY <1>7, <1>9, <3>1 DEF IInv, Served
  <2>2. \A u \in Threads : (HasChain(u)' /\ (~buf_disk'[u] \/ idx'[u][1] \in Done'))
                             => data'[u] = sectors'[blockno'[u]]
    BY <1>4, <1>5, <1>6, <1>7 DEF IInv, Served, deviceVars
  <2>3. QED
    BY <2>1, <2>2 DEF Served
<1>19. Signals'
  <2>1. \A u \in Threads : pc[u] = "notify" => pc'[u] = "notify"
    BY <1>1, <1>5
  <2>2. QED
    BY <1>4, <1>7, <2>1 DEF IInv, Signals, deviceVars
<1>20. QED
  BY <1>10, <1>11, <1>12, <1>13, <1>14, <1>15, <1>16, <1>17, <1>18, <1>19 DEF IInv

LEMMA DeviceServeStep ==
  ASSUME IInv, NEW h \in Descs, DeviceServe(h)
  PROVE  IInv'
<1>1. PICK t \in Threads : Flying(t) /\ idx[t][1] = h
  BY DEF DeviceServe, IInv, Serving
<1>2. /\ HasChain(t) /\ h \in taken
      /\ \A u \in Threads : \A l, m \in 1..3 : idx[t][l] = idx[u][m] => u = t
  <2>1. HasChain(t)
    BY <1>1 DEF Flying, HasChain
  <2>2. QED
    BY <2>1, ChainOf, Zenon DEF DeviceServe
<1>3. /\ desc[h].addr[2] = h /\ ops[h].type = Type(t) /\ ops[h].sector = blockno[t]
      /\ desc[desc[h].next].addr[2] = t
      /\ desc[desc[desc[h].next].next].addr[2] = h
  <2>1. /\ desc[h] = [addr |-> <<"op", h>>, next |-> idx[t][2]]
        /\ desc[idx[t][2]] = [addr |-> <<"data", t>>, next |-> idx[t][3]]
        /\ desc[idx[t][3]] = [addr |-> <<"status", h>>, next |-> NoDesc]
        /\ ops[h] = [type |-> Type(t), sector |-> blockno[t]]
    BY <1>1, <1>2, Zenon DEF IInv, IsChain
  <2>2. QED
    BY <2>1
<1>4. /\ IF Type(t) = "out"
           THEN sectors' = [sectors EXCEPT ![blockno[t]] = data[t]] /\ UNCHANGED data
           ELSE data' = [data EXCEPT ![t] = sectors[blockno[t]]] /\ UNCHANGED sectors
      /\ info' = [info EXCEPT ![h].status = 0]
      /\ taken' = taken \ {h}
      /\ used' = [ring |-> [used.ring EXCEPT ![used.idx % NUM] = h], idx |-> Succ(used.idx)]
      /\ isr' /\ isr' = TRUE
      /\ UNCHANGED <<desc, avail, ops, driverVars, seen, notified, lock, pc, bounds>>
  BY <1>3 DEF DeviceServe
<1>5. /\ used.ring \in [Descs -> Descs] /\ used.idx \in 0..(IDX - 1) /\ used_idx \in 0..(IDX - 1)
      /\ used.idx % NUM \in Descs /\ Succ(used.idx) \in 0..(IDX - 1)
      /\ info \in [Descs -> [b : Threads \cup {Nobody}, status : {0, 255}]]
      /\ sectors \in [Blocks -> Threads \cup {Nobody, Junk}]
      /\ data \in [Threads -> Threads \cup {Nobody, Junk}]
      /\ blockno \in [Threads -> Blocks]
  <2>1. /\ used.ring \in [Descs -> Descs] /\ used.idx \in 0..(IDX - 1) /\ used_idx \in 0..(IDX - 1)
        /\ info \in [Descs -> [b : Threads \cup {Nobody}, status : {0, 255}]]
        /\ sectors \in [Blocks -> Threads \cup {Nobody, Junk}]
        /\ data \in [Threads -> Threads \cup {Nobody, Junk}]
        /\ blockno \in [Threads -> Blocks]
    BY DEF IInv, TypeOK, Rings
  <2>2. used.idx % NUM \in Descs
    <3>1. used.idx \in Nat /\ 0 \in Nat /\ used.idx + 0 = used.idx
      BY <2>1
    <3>2. (used.idx + 0) % NUM \in Descs
      BY <2>1, <3>1, Places, Zenon
    <3>3. QED
      BY <3>1, <3>2
  <2>3. QED
    BY <2>1, <2>2, Indices
<1>6. h \notin Offer /\ h \notin Done
  BY <1>2 DEF IInv, Apart
<1>7. /\ Offer' = Offer /\ Done' = Done \cup {h} /\ Once(used.ring, used_idx, used.idx)'
  <2>1. Once(used.ring, used_idx, used.idx)
    BY DEF IInv, Apart
  <2>2. Dist(used_idx, used.idx) <= NUM - 3
    <3>1. /\ idx[t][1] \in Descs /\ idx[t][2] \in Descs /\ idx[t][3] \in Descs
          /\ idx[t][1] # idx[t][2] /\ idx[t][1] # idx[t][3] /\ idx[t][2] # idx[t][3]
      BY <1>2, ChainOf, Zenon
    <3>2. Win(used.ring, used_idx, used.idx) \subseteq Descs \ {idx[t][1], idx[t][2], idx[t][3]}
      <4>1. Done \subseteq Offer \cup taken \cup Done /\ idx[t][1] \notin Done
        BY <1>1, <1>6
      <4>2. QED
        BY <1>2, <4>1, Elsewhere, Zenon DEF Done
    <3>3. QED
      BY <1>5, <2>1, <3>1, <3>2, RingBound
  <2>3. Dist(used_idx, used.idx) < NUM /\ Dist(used_idx, used.idx) < IDX - 1
    <3>1. NUM <= IDX /\ NUM \in Nat /\ IDX \in Nat /\ Dist(used_idx, used.idx) \in 0..(IDX - 1)
      BY <1>5, Constants, Indices
    <3>2. QED
      BY <2>2, <3>1
  <2>4. /\ used'.ring = [used.ring EXCEPT ![used.idx % NUM] = h]
        /\ used'.idx = Succ(used.idx) /\ used_idx' = used_idx
    BY <1>4 DEF driverVars
  <2>5. /\ Win(used'.ring, used_idx, used.idx) = Win(used.ring, used_idx, used.idx)
        /\ Once(used'.ring, used_idx, used.idx)
        /\ used'.ring[used.idx % NUM] = h
    <3>1. used'.ring[used.idx % NUM] = h
      BY <1>5, <2>4
    <3>2. \A p \in Descs : p # used.idx % NUM => used'.ring[p] = used.ring[p]
      BY <1>5, <2>4
    <3>3. used_idx \in 0..(IDX - 1) /\ used.idx \in 0..(IDX - 1) /\ Dist(used_idx, used.idx) < NUM
      BY <1>5, <2>3
    <3>4. /\ Win(used'.ring, used_idx, used.idx) = Win(used.ring, used_idx, used.idx)
          /\ Once(used.ring, used_idx, used.idx) => Once(used'.ring, used_idx, used.idx)
      BY <3>2, <3>3, RingWrite
    <3>5. QED
      BY <2>1, <3>1, <3>4
  <2>6. used'.ring[used.idx % NUM] \notin Win(used'.ring, used_idx, used.idx)
    BY <1>6, <2>5 DEF Done
  <2>7. /\ Win(used'.ring, used_idx, Succ(used.idx)) = Win(used'.ring, used_idx, used.idx) \cup {h}
        /\ Once(used'.ring, used_idx, Succ(used.idx))
    BY <1>5, <2>3, <2>5, <2>6, RingAdd
  <2>8. Offer' = Offer
    BY <1>4 DEF Offer
  <2>9. QED
    BY <2>4, <2>5, <2>7, <2>8 DEF Done, Once
<1>8. TypeOK'
  <2>1. used' \in Rings
    BY <1>4, <1>5 DEF Rings
  <2>2. info' \in [Descs -> [b : Threads \cup {Nobody}, status : {0, 255}]]
    BY <1>4, <1>5
  <2>3. /\ sectors' \in [Blocks -> Threads \cup {Nobody, Junk}]
        /\ data' \in [Threads -> Threads \cup {Nobody, Junk}]
    BY <1>4, <1>5
  <2>4. taken' \subseteq Descs
    BY <1>4 DEF IInv, TypeOK
  <2>5. QED
    BY <1>4, <2>1, <2>2, <2>3, <2>4 DEF IInv, TypeOK, driverVars, bounds
<1>9. Calls' /\ Owned' /\ OwnBlock' /\ Locks' /\ Sleepers'
  BY <1>4 DEF IInv, Calls, Owned, OwnBlock, Locks, Sleepers, FreeDescs, HasChain, driverVars
<1>10. \A u \in Threads : (HasChain(u)' <=> HasChain(u)) /\ (Flying(u)' <=> Flying(u))
  BY <1>4 DEF HasChain, Flying, driverVars
<1>11. IsChain'
  <2>1. \A u \in Threads : Type(u)' = Type(u)
    BY <1>4 DEF Type, driverVars
  <2>2. \A x \in Descs : info'[x].b = info[x].b
    BY <1>4, <1>5
  <2>3. QED
    BY <1>4, <1>10, <2>1, <2>2 DEF IInv, IsChain, driverVars
<1>12. Apart'
  BY <1>4, <1>6, <1>7 DEF IInv, Apart, Once, driverVars
<1>13. Serving'
  <2>1. Offer' \cup taken' \cup Done' = Offer \cup taken \cup Done
    BY <1>2, <1>4, <1>7
  <2>2. QED
    BY <1>4, <1>10, <2>1 DEF IInv, Serving, driverVars
<1>14. Served'
  <2>1. \A g \in Done' : info'[g].status = 0
    BY <1>4, <1>5, <1>7 DEF IInv, Served
  <2>2. data'[t] = sectors'[blockno[t]]
    BY <1>4, <1>5
  <2>3. ASSUME NEW u \in Threads, u # t, HasChain(u)
        PROVE  data'[u] = data[u] /\ sectors'[blockno[u]] = sectors[blockno[u]] /\ idx[u][1] # h
    <3>1. blockno[u] # blockno[t]
      BY <1>2, <2>3 DEF IInv, OwnBlock, HasChain
    <3>2. idx[u][1] # h
      <4>1. 1 \in 1..3
        OBVIOUS
      <4>2. QED
        BY <1>1, <1>2, <2>3, <4>1
    <3>3. QED
      BY <1>4, <1>5, <2>3, <3>1, <3>2
  <2>4. \A u \in Threads : (HasChain(u)' /\ (~buf_disk'[u] \/ idx'[u][1] \in Done'))
                             => data'[u] = sectors'[blockno'[u]]
    BY <1>4, <1>7, <1>10, <2>2, <2>3 DEF IInv, Served, driverVars
  <2>5. QED
    BY <2>1, <2>4 DEF Served
<1>15. Signals'
  BY <1>4, <1>7 DEF IInv, Signals
<1>16. QED
  BY <1>8, <1>9, <1>11, <1>12, <1>13, <1>14, <1>15 DEF IInv

LEMMA InitInv == Init => IInv
<1> SUFFICES ASSUME Init PROVE IInv
  OBVIOUS
<1>1. /\ 0 \in Descs /\ 1 \in Blocks /\ NoDesc \notin Descs
      /\ Start % IDX \in 0..(IDX - 1)
  <2>1. IDX \in Nat \ {0} /\ Start \in Nat
    BY DiskAssumption DEF DiskAssumption
  <2>2. Start % IDX \in 0..(IDX - 1)
    BY <2>1, DivMod
  <2>3. QED
    BY <2>2, Constants DEF Descs, Blocks, NoDesc
<1>2. /\ avail \in Rings /\ used = avail /\ used_idx = used.idx /\ seen = avail.idx
      /\ used_idx \in 0..(IDX - 1)
  BY <1>1 DEF Init, Rings
<1>3. TypeOK
  <2>1. NoEntry \in [addr : {<<"none", Nobody>>} \cup ({"op", "status"} \X Descs)
                            \cup ({"data"} \X Threads),
                     next : Descs \cup {NoDesc}]
    BY DEF NoEntry
  <2>2. NoChain \in [1..3 -> Descs \cup {NoDesc}]
    BY DEF NoChain
  <2>3. desc \in [Descs -> [addr : {<<"none", Nobody>>} \cup ({"op", "status"} \X Descs)
                                     \cup ({"data"} \X Threads),
                             next : Descs \cup {NoDesc}]]
    BY <2>1 DEF Init
  <2>4. idx \in [Threads -> [1..3 -> Descs \cup {NoDesc}]]
    BY <2>2 DEF Init
  <2>5. /\ ops \in [Descs -> [type : {"in", "out"}, sector : Blocks]]
        /\ info \in [Descs -> [b : Threads \cup {Nobody}, status : {0, 255}]]
        /\ data \in [Threads -> Threads \cup {Nobody, Junk}]
        /\ sectors \in [Blocks -> Threads \cup {Nobody, Junk}]
        /\ free \in [Descs -> BOOLEAN] /\ buf_disk \in [Threads -> BOOLEAN]
        /\ blockno \in [Threads -> Blocks] /\ write \in [Threads -> BOOLEAN]
        /\ pc \in [Threads -> PCs]
    BY <1>1 DEF Init, PCs
  <2>6. taken \subseteq Descs /\ lock \in Threads \cup {Nobody, Intr}
    BY DEF Init
  <2>7. notified \in BOOLEAN /\ isr \in BOOLEAN
    BY Zenon DEF Init
  <2>8. {reqs, kills} \subseteq Nat
    <3>1. reqs = 0 /\ kills = 0
      BY Zenon DEF Init
    <3>2. QED
      BY <3>1
  <2>9. QED
    BY <1>2, <2>3, <2>4, <2>5, <2>6, <2>7, <2>8 DEF TypeOK
<1>4. /\ Offer = {} /\ Done = {} /\ taken = {}
      /\ Once(avail.ring, seen, avail.idx) /\ Once(used.ring, used_idx, used.idx)
  BY <1>2, RingEmpty DEF Init, Offer, Done
<1>5. \A t \in Threads : pc[t] = "out" /\ idx[t] = NoChain /\ ~buf_disk[t] /\ ~HasChain(t)
  BY DEF Init, HasChain
<1>6. Owned
  <2>1. \A t \in Threads : \A k \in 1..3 : idx[t][k] \notin Descs
    BY <1>1, <1>5 DEF NoChain
  <2>2. \A i \in Descs : free[i]
    BY DEF Init
  <2>3. QED
    BY <2>1, <2>2 DEF Owned
<1>7. Calls /\ IsChain /\ OwnBlock /\ Sleepers
  BY <1>5 DEF Calls, IsChain, OwnBlock, Sleepers
<1>8. Locks
  BY <1>5, Constants DEF Init, Locks
<1>9. Apart /\ Serving /\ Served /\ Signals
  BY <1>4, <1>5 DEF Apart, Serving, Served, Signals, Flying
<1>10. QED
  BY <1>3, <1>6, <1>7, <1>8, <1>9 DEF IInv

LEMMA StepInv == IInv /\ [Next]_vars => IInv'
<1> SUFFICES ASSUME IInv, [Next]_vars PROVE IInv'
  OBVIOUS
<1>1. ASSUME NEW t \in Threads, Rw(t) PROVE IInv'
  BY <1>1, AllocFailsStep, AllocStep, PublishStep, NotifyStep, WakingStep, FinishStep DEF Rw
<1>2. ASSUME NEW t \in Threads, Kill(t) PROVE IInv'
  BY <1>2, WakingStep
<1>3. ASSUME NEW t \in Threads, NEW w \in BOOLEAN, Call(t, w) PROVE IInv'
  BY <1>3, CallStep
<1>4. CASE Interrupt
  BY <1>4, SignalStep, IntrEntryStep DEF Interrupt
<1>5. CASE Device
  BY <1>5, SignalStep, DeviceTakeStep, DeviceServeStep DEF Device
<1>6. CASE UNCHANGED vars
  <2>1. UNCHANGED <<desc, avail, used, ops, info, data, free, used_idx, buf_disk, blockno,
                    write, idx, sectors, seen, taken, notified, isr, lock, pc, reqs, kills>>
    BY <1>6 DEF vars, sharedVars, driverVars, deviceVars, bounds
  <2>2. TypeOK' /\ Locks' /\ OwnBlock' /\ Sleepers' /\ Signals'
    BY <2>1 DEF IInv, TypeOK, Locks, OwnBlock, Sleepers, FreeDescs, Signals, Offer, Done
  <2>3. Calls' /\ IsChain' /\ Owned' /\ Apart' /\ Serving' /\ Served'
    BY <2>1, Quiet DEF IInv, Calls
  <2>4. QED
    BY <2>2, <2>3 DEF IInv
<1>7. QED
  BY <1>1, <1>2, <1>3, <1>4, <1>5, <1>6 DEF Next

-----------------------------------------------------------------------------
(* The theorems *)

\* The invariant: where each request is, whose its descriptors are, and who
\* will look for it.
THEOREM Invariance == Spec => []IInv
<1>1. QED
  BY InitInv, StepInv, PTL DEF Spec

\* Every variable keeps its type.
THEOREM TypeCorrect == Spec => []TypeOK
<1>1. IInv => TypeOK
  BY DEF IInv
<1>2. QED
  BY <1>1, Invariance, PTL

\* A descriptor is free or in one request's chain (free_chain, alloc3_desc).
THEOREM DescsOnce == Spec => []EachDescOnce
<1>1. IInv => EachDescOnce
  <2> SUFFICES ASSUME IInv, NEW i \in Descs
               PROVE  Cardinality(Users(i)) = IF free[i] THEN 0 ELSE 1
    BY DEF EachDescOnce
  <2>1. CASE free[i]
    <3>1. Users(i) = {}
      BY <2>1 DEF IInv, Owned, Users
    <3>2. QED
      BY <2>1, <3>1, FS_EmptySet
  <2>2. CASE ~free[i]
    <3>1. PICK t \in Threads, k \in 1..3 : idx[t][k] = i
      BY <2>2 DEF IInv, Owned
    <3>2. \A u \in Threads : \A l \in 1..3 : idx[u][l] = i => u = t
      BY <3>1 DEF IInv, Owned
    <3>3. Users(i) = {t}
      BY <3>1, <3>2 DEF Users
    <3>4. QED
      BY <2>2, <3>3, FS_Singleton
  <2>3. QED
    BY <2>1, <2>2
<1>2. QED
  BY <1>1, Invariance, PTL

\* The driver never panics: virtio_disk_intr finds no status but success and
\* no request without a buffer, at which it would.
THEOREM NeverPanics == Spec => []\A t \in Threads : pc[t] # "panic"
<1>1. IInv => \A t \in Threads : pc[t] # "panic"
  BY DEF IInv, Calls
<1>2. QED
  BY <1>1, Invariance, PTL

\* The indices the handler has still to look at, and what it finds there.
LEMMA UnseenIs ==
  ASSUME IInv
  PROVE  /\ \A k \in Unseen : Entry(k) \in Done
         /\ \A k, m \in Unseen : Entry(k) = Entry(m) => k = m
         /\ \A h \in Done : \E k \in Unseen : Entry(k) = h
         /\ Offered = Offer
<1>1. /\ used_idx \in 0..(IDX - 1) /\ used.idx \in 0..(IDX - 1)
      /\ seen \in 0..(IDX - 1) /\ avail.idx \in 0..(IDX - 1)
  BY DEF IInv, TypeOK, Rings
<1> DEFINE M == 0..(Dist(used_idx, used.idx) - 1)
           N == 0..(Dist(seen, avail.idx) - 1)
<1>2. /\ Unseen = {(used_idx + m) % IDX : m \in M}
      /\ \A m \in M : Entry((used_idx + m) % IDX) = used.ring[(used_idx + m) % NUM]
  BY <1>1, BetweenIs DEF Unseen, Entry
<1>3. Done = {used.ring[(used_idx + m) % NUM] : m \in M}
  BY DEF Done, Win
<1>4. Once(used.ring, used_idx, used.idx)
  BY DEF IInv, Apart
<1>5. /\ \A k \in Unseen : Entry(k) \in Done
      /\ \A h \in Done : \E k \in Unseen : Entry(k) = h
  BY <1>2, <1>3
<1>6. ASSUME NEW k \in Unseen, NEW m \in Unseen, Entry(k) = Entry(m) PROVE k = m
  <2>1. PICK x \in M, y \in M : k = (used_idx + x) % IDX /\ m = (used_idx + y) % IDX
    BY <1>2
  <2>2. used.ring[(used_idx + x) % NUM] = used.ring[(used_idx + y) % NUM]
    BY <1>2, <1>6, <2>1
  <2>3. x = y
    BY <1>4, <2>2 DEF Once
  <2>4. QED
    BY <2>1, <2>3
<1>7. Offered = Offer
  <2>1. /\ Between(seen, avail.idx) = {(seen + m) % IDX : m \in N}
        /\ \A m \in N : ((seen + m) % IDX) % NUM = (seen + m) % NUM
    BY <1>1, BetweenIs
  <2>2. QED
    BY <2>1 DEF Offered, Offer, Win
<1>8. QED
  BY <1>5, <1>6, <1>7

\* What virtio_disk_intr finds in the used ring is done, and each once.
THEOREM CompletionsFound == Spec => []CompletionsMatch
<1>1. IInv => CompletionsMatch
  <2> SUFFICES ASSUME IInv PROVE CompletionsMatch
    OBVIOUS
  <2>1. ASSUME NEW k \in Unseen
        PROVE  LET b == info[Entry(k)].b
               IN  /\ info[Entry(k)].status = 0
                   /\ b # Nobody /\ buf_disk[b] /\ idx[b][1] = Entry(k)
    <3>1. Entry(k) \in Done
      BY UnseenIs
    <3>2. PICK t \in Threads : Flying(t) /\ idx[t][1] = Entry(k)
      BY <3>1 DEF IInv, Serving
    <3>3. HasChain(t) /\ buf_disk[t] /\ t # Nobody
      BY <3>2, Constants DEF Flying, HasChain
    <3>4. info[Entry(k)].b = t
      BY <3>2, <3>3, ChainOf, Zenon
    <3>5. info[Entry(k)].status = 0
      BY <3>1 DEF IInv, Served
    <3>6. QED
      BY <3>2, <3>3, <3>4, <3>5
  <2>2. QED
    BY <2>1, UnseenIs DEF CompletionsMatch
<1>2. QED
  BY <1>1, Invariance, PTL

\* No notification, interrupt or wakeup is lost.
THEOREM NoneForgotten == Spec => []NoRequestLost
<1>1. IInv => NoRequestLost
  <2> SUFFICES ASSUME IInv, NEW t \in Threads
               PROVE  /\ pc[t] = "waiting" =>
                           /\ buf_disk[t]
                           /\ \/ /\ idx[t][1] \in Offered
                                 /\ notified \/ \E u \in Threads : pc[u] = "notify"
                              \/ idx[t][1] \in taken
                              \/ /\ \E k \in Unseen : Entry(k) = idx[t][1]
                                 /\ isr \/ lock = Intr
                      /\ pc[t] = "no_desc" => Cardinality(FreeDescs) < 3
    BY DEF NoRequestLost, At
  <2>1. pc[t] = "no_desc" => Cardinality(FreeDescs) < 3
    BY DEF IInv, Sleepers
  <2>2. ASSUME pc[t] = "waiting"
        PROVE  /\ buf_disk[t]
               /\ \/ /\ idx[t][1] \in Offered
                     /\ notified \/ \E u \in Threads : pc[u] = "notify"
                  \/ idx[t][1] \in taken
                  \/ /\ \E k \in Unseen : Entry(k) = idx[t][1]
                     /\ isr \/ lock = Intr
    <3>1. buf_disk[t] /\ idx[t][1] \in Offer \cup taken \cup Done
      BY <2>2 DEF IInv, Calls, Serving, Flying
    <3>2. /\ idx[t][1] \in Offer => notified \/ \E u \in Threads : pc[u] = "notify"
          /\ idx[t][1] \in Done => isr \/ lock = Intr
      BY DEF IInv, Signals
    <3>3. QED
      BY <3>1, <3>2, UnseenIs
  <2>3. QED
    BY <2>1, <2>2
<1>2. QED
  BY <1>1, Invariance, PTL

\* When virtio_disk_rw returns, the buffer and the disk hold the same.
THEOREM TransfersDone == Spec => Transferred
<1>1. ASSUME IInv, [Next]_vars
      PROVE  [\A t \in Threads : At(t, "woken") /\ At(t, "out")'
                                   => data[t] = sectors[blockno[t]]]_vars
  <2> SUFFICES ASSUME NEW t \in Threads, Next, pc[t] = "woken", pc'[t] = "out"
               PROVE  data[t] = sectors[blockno[t]]
    BY <1>1 DEF At
  <2>1. pc \in [Threads -> PCs]
    BY <1>1 DEF IInv, TypeOK
  <2>2. ASSUME NEW u \in Threads, Finish(u) PROVE data[t] = sectors[blockno[t]]
    <3>1. ~buf_disk[u] /\ pc' = [WakeAllocators(pc) EXCEPT ![u] = "out"]
      BY <2>2 DEF Finish, Completed
    <3>2. u = t
      BY <2>1, <3>1 DEF WakeAllocators
    <3>3. QED
      BY <1>1, <3>1, <3>2 DEF IInv, Served, HasChain
  <2>3. ASSUME NEW u \in Threads,
               AllocFails(u) \/ Alloc(u) \/ Publish(u) \/ Notify(u) \/ SleepAgain(u) \/ Kill(u)
        PROVE  FALSE
    BY <2>1, <2>3 DEF AllocFails, Alloc, Publish, Notify, SleepAgain, Kill, Goto, At, WakeAllocators
  <2>4. ASSUME NEW u \in Threads, NEW w \in BOOLEAN, Call(u, w) PROVE FALSE
    BY <2>1, <2>4 DEF Call, Goto, At
  <2>5. CASE Interrupt
    BY <2>1, <2>5 DEF Interrupt, IntrAck, IntrEntry, IntrDone, At
  <2>6. CASE Device
    BY <2>6 DEF Device, DeviceTake, DeviceRest, DeviceServe
  <2>7. QED
    BY <2>2, <2>3, <2>4, <2>5, <2>6 DEF Next, Rw
<1>2. QED
  BY <1>1, Invariance, PTL DEF Spec, Transferred

=============================================================================
