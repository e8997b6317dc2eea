------------------------------ MODULE UnitSums -------------------------------
(***************************************************************************)
(* Sums of natural amounts over finite sets: the seats of a set of         *)
(* bookings, the tokens behind a set of escrows.  The sum counts the pairs *)
(* of an element and the number of one of its units, so that the theorems  *)
(* about the cardinality of finite sets apply to it.  The lemmas hold for  *)
(* every finite set and every assignment of natural numbers to it.         *)
(***************************************************************************)
EXTENDS Integers, FiniteSets, FiniteSetTheorems, TLAPS

Units(S, amount) == UNION {{x} \X (1..amount[x]) : x \in S}

Total(S, amount) == Cardinality(Units(S, amount))

-----------------------------------------------------------------------------
\* Only finitely many units belong to a finite set.
LEMMA UnitsFinite ==
  ASSUME NEW S, IsFiniteSet(S), NEW f, \A x \in S : f[x] \in Nat
  PROVE  IsFiniteSet(Units(S, f))
<1> DEFINE Block(x) == {x} \X (1..f[x])
           g == [x \in S |-> Block(x)]
           Blocks == {Block(x) : x \in S}
<1>1. g \in Surjection(S, Blocks)
  BY DEF Surjection
<1>2. IsFiniteSet(Blocks)
  BY <1>1, FS_Surjection
<1>3. ASSUME NEW x \in S
      PROVE  IsFiniteSet(Block(x))
  <2>1. IsFiniteSet({x})
    BY FS_Singleton
  <2>2. IsFiniteSet(1..f[x])
    BY FS_Interval
  <2> QED
    BY <2>1, <2>2, FS_Product
<1>4. \A T \in Blocks : IsFiniteSet(T)
  BY <1>3
<1>5. IsFiniteSet(UNION Blocks)
  BY <1>2, <1>4, FS_UNION
<1> QED
  BY <1>5 DEF Units

\* A sum is a natural number.
LEMMA TotalType ==
  ASSUME NEW S, IsFiniteSet(S), NEW f, \A x \in S : f[x] \in Nat
  PROVE  Total(S, f) \in Nat
BY UnitsFinite, FS_CardinalityType DEF Total

\* Nothing sums to zero.
LEMMA TotalEmpty == \A f : Total({}, f) = 0
<1>1. \A f : Units({}, f) = {}
  BY DEF Units
<1> QED
  BY <1>1, FS_EmptySet DEF Total

\* A part never sums to more than the whole.
LEMMA TotalMonotone ==
  ASSUME NEW S, IsFiniteSet(S), NEW f, \A x \in S : f[x] \in Nat,
         NEW R, R \subseteq S
  PROVE  Total(R, f) <= Total(S, f)
<1>1. Units(R, f) \subseteq Units(S, f)
  BY DEF Units
<1> QED
  BY <1>1, UnitsFinite, FS_Subset DEF Total

\* The sum depends on the amounts of its elements only.
LEMMA TotalAgree ==
  ASSUME NEW S, NEW f, NEW g, \A x \in S : f[x] = g[x]
  PROVE  Total(S, f) = Total(S, g)
BY DEF Total, Units

\* A new element adds exactly its own amount.
LEMMA TotalAdd ==
  ASSUME NEW S, IsFiniteSet(S), NEW x, x \notin S,
         NEW f, \A y \in S \cup {x} : f[y] \in Nat
  PROVE  Total(S \cup {x}, f) = Total(S, f) + f[x]
<1> DEFINE U == Units(S, f)
           T == {x} \X (1..f[x])
<1>1. /\ f[x] \in Nat
      /\ Cardinality(1..f[x]) = f[x] /\ IsFiniteSet(1..f[x])
  <2>1. f[x] \in Nat
    OBVIOUS
  <2>2. \A n \in Nat : IsFiniteSet(1..n) /\ Cardinality(1..n) = n
    <3> TAKE n \in Nat
    <3>1. 1 \in Int /\ n \in Int
      OBVIOUS
    <3>2. IsFiniteSet(1..n) /\ Cardinality(1..n) = IF 1 > n THEN 0 ELSE n - 1 + 1
      BY <3>1, FS_Interval
    <3> QED
      BY <3>2
  <2> QED
    BY <2>1, <2>2
<1>2. IsFiniteSet({x}) /\ Cardinality({x}) = 1
  BY FS_Singleton
<1>3. IsFiniteSet(T) /\ Cardinality(T) = Cardinality({x}) * Cardinality(1..f[x])
  BY <1>1, <1>2, FS_Product
<1>4. Cardinality(T) = f[x]
  BY <1>1, <1>2, <1>3
<1>5. IsFiniteSet(U) /\ Cardinality(U) \in Nat
  BY UnitsFinite, FS_CardinalityType
<1>6. Units(S \cup {x}, f) = U \cup T
  BY DEF Units
<1>7. U \cap T = {}
  BY DEF Units
<1>8. Cardinality(U \cup T) = Cardinality(U) + Cardinality(T) - Cardinality(U \cap T)
  BY <1>3, <1>5, FS_Union
<1>9. Cardinality(U \cap T) = 0
  BY <1>7, FS_EmptySet
<1> HIDE DEF U, T
<1>10. Cardinality(U \cup T) = Cardinality(U) + f[x]
  BY <1>1, <1>4, <1>5, <1>8, <1>9
<1> QED
  BY <1>6, <1>10 DEF U, Total

\* Removing an element takes exactly its amount away.
LEMMA TotalRemove ==
  ASSUME NEW S, IsFiniteSet(S), NEW x \in S, NEW f, \A y \in S : f[y] \in Nat
  PROVE  Total(S \ {x}, f) = Total(S, f) - f[x]
<1> DEFINE R == S \ {x}
<1>1. IsFiniteSet(R) /\ x \notin R /\ R \cup {x} = S
  BY FS_Subset
<1> HIDE DEF R
<1>2. Total(R \cup {x}, f) = Total(R, f) + f[x]
  BY <1>1, TotalAdd
<1>3. Total(R, f) \in Nat /\ f[x] \in Nat
  BY <1>1, TotalType
<1>4. Total(R, f) = Total(S, f) - f[x]
  BY <1>1, <1>2, <1>3
<1> QED
  BY <1>4 DEF R

\* Changing one amount changes the sum by the difference.
LEMMA TotalExcept ==
  ASSUME NEW S, IsFiniteSet(S), NEW x \in S, NEW f, NEW g,
         \A y \in S : f[y] \in Nat /\ g[y] \in Nat,
         \A y \in S \ {x} : g[y] = f[y]
  PROVE  Total(S, g) = Total(S, f) - f[x] + g[x]
<1>1. Total(S \ {x}, f) = Total(S, f) - f[x]
  BY TotalRemove
<1>2. Total(S \ {x}, g) = Total(S, g) - g[x]
  BY TotalRemove
<1>3. Total(S \ {x}, f) = Total(S \ {x}, g)
  BY TotalAgree
<1>4. Total(S, f) \in Nat /\ Total(S, g) \in Nat /\ f[x] \in Nat /\ g[x] \in Nat
  BY TotalType
<1> QED
  BY <1>1, <1>2, <1>3, <1>4
\* Pointwise smaller amounts sum to at most as much.
LEMMA TotalLeq ==
  ASSUME NEW S, IsFiniteSet(S), NEW f, NEW g,
         \A x \in S : f[x] \in Nat /\ g[x] \in Nat /\ f[x] <= g[x]
  PROVE  Total(S, f) <= Total(S, g)
<1>1. Units(S, f) \subseteq Units(S, g)
  <2>1. \A x \in S : 1..f[x] \subseteq 1..g[x]
    OBVIOUS
  <2> QED
    BY <2>1 DEF Units
<1> QED
  BY <1>1, UnitsFinite, FS_Subset DEF Total

\* Some element has a unit of a sum that is not zero.
LEMMA TotalPositive ==
  ASSUME NEW S, IsFiniteSet(S), NEW f, \A x \in S : f[x] \in Nat, Total(S, f) # 0
  PROVE  \E x \in S : f[x] > 0
<1>1. Units(S, f) # {}
  BY FS_EmptySet DEF Total
<1>2. PICK x \in S : 1..f[x] # {}
  BY <1>1 DEF Units
<1> QED
  BY <1>2

\* The sum of sums.
LEMMA TotalPlus ==
  ASSUME NEW S, IsFiniteSet(S), NEW f, NEW g, NEW h,
         \A x \in S : f[x] \in Nat /\ g[x] \in Nat /\ h[x] = f[x] + g[x]
  PROVE  Total(S, h) = Total(S, f) + Total(S, g)
<1> DEFINE U == Units(S, f)
           V == Units(S, g)
           W == Units(S, h) \ U
           shift == [u \in W |-> <<u[1], u[2] - f[u[1]]>>]
<1>1. /\ IsFiniteSet(U) /\ IsFiniteSet(V) /\ IsFiniteSet(W)
      /\ U \subseteq Units(S, h) /\ U \cup W = Units(S, h) /\ U \cap W = {}
  <2>1. \A x \in S : h[x] \in Nat /\ 1..f[x] \subseteq 1..h[x]
    OBVIOUS
  <2>2. IsFiniteSet(U) /\ IsFiniteSet(V) /\ IsFiniteSet(Units(S, h))
    BY <2>1, UnitsFinite
  <2>3. U \subseteq Units(S, h)
    BY <2>1 DEF Units
  <2> QED
    BY <2>2, <2>3, FS_Subset
<1>2. \A u : u \in W <=> /\ u = <<u[1], u[2]>> /\ u[1] \in S
                         /\ u[2] \in 1..h[u[1]] /\ u[2] \notin 1..f[u[1]]
  BY DEF Units
<1>3. \A u : u \in V <=> u = <<u[1], u[2]>> /\ u[1] \in S /\ u[2] \in 1..g[u[1]]
  BY DEF Units
<1> HIDE DEF U, V, W
<1>4. \A u \in W : /\ u[2] \in Int /\ u[1] \in S
                   /\ u[2] - f[u[1]] \in 1..g[u[1]]
  BY <1>2
<1>5. shift \in [W -> V]
  BY <1>3, <1>4
<1>6. \A u, v \in W : shift[u] = shift[v] => u = v
  <2>1. SUFFICES ASSUME NEW u \in W, NEW v \in W, shift[u] = shift[v]
                 PROVE  u = v
    OBVIOUS
  <2>2. u[1] = v[1] /\ u[2] - f[u[1]] = v[2] - f[v[1]]
    BY <2>1
  <2>3. u[2] = v[2]
    BY <2>2, <1>4
  <2> QED
    BY <2>2, <2>3, <1>2
<1>7. \A v \in V : \E u \in W : shift[u] = v
  <2>1. SUFFICES ASSUME NEW v \in V
                 PROVE  \E u \in W : shift[u] = v
    OBVIOUS
  <2> DEFINE u == <<v[1], v[2] + f[v[1]]>>
  <2>2. v[1] \in S /\ v[2] \in 1..g[v[1]] /\ v = <<v[1], v[2]>>
    BY <1>3
  <2>3. u[2] \in 1..h[v[1]] /\ u[2] \notin 1..f[v[1]] /\ u[2] - f[v[1]] = v[2]
    BY <2>2
  <2>4. u \in W
    BY <1>2, <2>2, <2>3
  <2> QED
    BY <2>2, <2>3, <2>4
<1> HIDE DEF shift
<1>8. shift \in Bijection(W, V)
  BY <1>5, <1>6, <1>7 DEF Bijection, Injection, Surjection, IsInjective
<1>9. Cardinality(V) = Cardinality(W)
  BY <1>1, <1>8, FS_Bijection DEF ExistsBijection
<1>10. Cardinality(Units(S, h)) = Cardinality(U) + Cardinality(W)
  <2>1. /\ Cardinality(U) \in Nat /\ Cardinality(W) \in Nat
        /\ Cardinality(U \cup W) = Cardinality(U) + Cardinality(W) - Cardinality(U \cap W)
    BY <1>1, FS_Union, FS_CardinalityType
  <2>2. Cardinality(U \cap W) = 0
    BY <1>1, FS_EmptySet
  <2>3. Cardinality(U \cup W) = Cardinality(U) + Cardinality(W)
    BY <2>1, <2>2
  <2> QED
    BY <1>1, <2>3
<1> QED
  BY <1>9, <1>10 DEF Total, U, V

\* A remainder is smaller than its divisor.
LEMMA Division ==
  ASSUME NEW a \in Nat, NEW c \in Nat \ {0}
  PROVE  a \div c \in Nat /\ a % c \in 0..(c - 1) /\ a = c * (a \div c) + (a % c)
OBVIOUS

\* Multiplying by a positive number keeps the order.
LEMMA TimesMonotone ==
  ASSUME NEW a \in Nat, NEW b \in Nat, NEW c \in Nat \ {0}, c * a < c * b
  PROVE  a < b
<1>1. ASSUME a >= b PROVE FALSE
  <2>1. a - b \in Nat /\ a = b + (a - b)
    BY <1>1
  <2>2. c * (b + (a - b)) = c * b + c * (a - b) /\ c * (a - b) >= 0
    BY <2>1
  <2> QED
    BY <2>1, <2>2
<1> QED
  BY <1>1

\* c units for every unit.
LEMMA TotalTimes ==
  ASSUME NEW S, IsFiniteSet(S), NEW c \in Nat \ {0}, NEW f, NEW g,
         \A x \in S : f[x] \in Nat /\ g[x] = c * f[x]
  PROVE  Total(S, g) = c * Total(S, f)
<1> DEFINE U == Units(S, f)
           V == Units(S, g)
           C == 0..(c - 1)
           unit == [u \in U \X C |-> <<u[1][1], c * (u[1][2] - 1) + u[2] + 1>>]
<1>1. \A u : u \in U <=> u = <<u[1], u[2]>> /\ u[1] \in S /\ u[2] \in 1..f[u[1]]
  BY DEF Units
<1>2. \A u : u \in V <=> u = <<u[1], u[2]>> /\ u[1] \in S /\ u[2] \in 1..g[u[1]]
  BY DEF Units
<1>3. \A x \in S : f[x] \in Nat /\ c * f[x] \in Nat /\ g[x] = c * f[x]
  OBVIOUS
<1>4. IsFiniteSet(U) /\ IsFiniteSet(V) /\ IsFiniteSet(C) /\ Cardinality(C) = c
  <2>1. 0 \in Int /\ c - 1 \in Int /\ c - 1 - 0 + 1 = c /\ ~(0 > c - 1)
    OBVIOUS
  <2> QED
    BY <1>3, <2>1, UnitsFinite, FS_Interval
<1> HIDE DEF U, V
<1>5. ASSUME NEW m \in Nat, NEW k \in 1..m, NEW j \in C
      PROVE  c * (k - 1) + j + 1 \in 1..(c * m)
  <2>1. k - 1 \in Nat /\ m - k \in Nat /\ m = (k - 1) + (m - k) + 1
    OBVIOUS
  <2>2. c * m = c * (k - 1) + c * (m - k) + c
    BY <2>1
  <2>3. c * (k - 1) \in Nat /\ c * (m - k) \in Nat
    BY <2>1
  <2> QED
    BY <2>2, <2>3
<1>6. ASSUME NEW k \in Nat \ {0}, NEW l \in Nat \ {0}, NEW i \in C, NEW j \in C,
             c * (k - 1) + i + 1 = c * (l - 1) + j + 1
      PROVE  k = l /\ i = j
  <2>1. ASSUME NEW a \in Nat, NEW b \in Nat, NEW p \in C, NEW q \in C, a < b,
               c * a + p = c * b + q
        PROVE  FALSE
    <3>1. b - a - 1 \in Nat /\ b = a + (b - a - 1) + 1
      BY <2>1
    <3>2. c * b = c * a + c * (b - a - 1) + c /\ c * (b - a - 1) \in Nat /\ c * a \in Nat
      BY <3>1
    <3> QED
      BY <2>1, <3>2
  <2>2. k - 1 \in Nat /\ l - 1 \in Nat /\ c * (k - 1) + i = c * (l - 1) + j
    <3>1. c * (k - 1) \in Nat /\ c * (l - 1) \in Nat
      OBVIOUS
    <3> QED
      BY <1>6, <3>1
  <2>3. ~(k - 1 < l - 1) /\ ~(l - 1 < k - 1)
    BY <2>1, <2>2
  <2>4. k = l
    BY <2>2, <2>3
  <2>5. c * (k - 1) \in Nat
    BY <2>2
  <2> QED
    BY <2>2, <2>4, <2>5
<1>7. ASSUME NEW m \in Nat, NEW i \in 1..(c * m)
      PROVE  \E k \in 1..m, j \in C : c * (k - 1) + j + 1 = i
  <2> DEFINE a == i - 1
             q == a \div c
             j == a % c
  <2>1. a \in Nat /\ c * m \in Nat /\ a < c * m
    OBVIOUS
  <2>2. q \in Nat /\ j \in C /\ a = c * q + j
    BY <2>1, Division
  <2> HIDE DEF q, j
  <2>3. c * q \in Nat /\ c * q < c * m
    BY <2>1, <2>2
  <2>4. q < m
    BY <2>2, <2>3, TimesMonotone
  <2>5. q + 1 \in 1..m /\ c * ((q + 1) - 1) + j + 1 = i
    <3>1. (q + 1) - 1 = q /\ q + 1 \in 1..m
      BY <2>2, <2>4
    <3>2. c * q + j + 1 = i
      BY <2>2, <2>3
    <3> QED
      BY <3>1, <3>2
  <2> QED
    BY <2>2, <2>5
<1>8. \A u \in U \X C : /\ u = <<u[1], u[2]>> /\ u[1] = <<u[1][1], u[1][2]>> /\ u[2] \in C
                        /\ u[1][1] \in S /\ u[1][2] \in 1..f[u[1][1]]
  BY <1>1
<1> HIDE DEF C
<1>9. unit \in [U \X C -> V]
  BY <1>2, <1>3, <1>5, <1>8
<1>10. \A u, v \in U \X C : unit[u] = unit[v] => u = v
  <2>1. SUFFICES ASSUME NEW u \in U \X C, NEW v \in U \X C, unit[u] = unit[v]
                 PROVE  u = v
    OBVIOUS
  <2>2. /\ u[1][1] = v[1][1]
        /\ c * (u[1][2] - 1) + u[2] + 1 = c * (v[1][2] - 1) + v[2] + 1
    BY <2>1
  <2>3. u[1][2] \in Nat \ {0} /\ v[1][2] \in Nat \ {0} /\ u[2] \in C /\ v[2] \in C
    BY <1>3, <1>8
  <2>4. u[1][2] = v[1][2] /\ u[2] = v[2]
    <3> DEFINE k == u[1][2]  l == v[1][2]  i == u[2]  j == v[2]
    <3>1. k \in Nat \ {0} /\ l \in Nat \ {0} /\ i \in C /\ j \in C
      BY <2>3
    <3>2. c * (k - 1) + i + 1 = c * (l - 1) + j + 1
      BY <2>2
    <3> HIDE DEF k, l, i, j
    <3>3. k = l /\ i = j
      BY <1>6, <3>1, <3>2
    <3> QED
      BY <3>3 DEF k, l, i, j
  <2> QED
    BY <1>8, <2>2, <2>4
<1>11. \A v \in V : \E u \in U \X C : unit[u] = v
  <2>1. SUFFICES ASSUME NEW v \in V
                 PROVE  \E u \in U \X C : unit[u] = v
    OBVIOUS
  <2>2. v = <<v[1], v[2]>> /\ v[1] \in S /\ v[2] \in 1..(c * f[v[1]]) /\ f[v[1]] \in Nat
    BY <1>2, <1>3
  <2>3. PICK k \in 1..f[v[1]], j \in C : c * (k - 1) + j + 1 = v[2]
    BY <1>7, <2>2
  <2>4. <<v[1], k>> \in U
    BY <1>1, <2>2
  <2>5. /\ <<<<v[1], k>>, j>> \in U \X C
        /\ unit[<<<<v[1], k>>, j>>] = v
    BY <2>2, <2>3, <2>4
  <2> QED
    BY <2>5
<1> HIDE DEF unit
<1>12. unit \in Bijection(U \X C, V)
  BY <1>9, <1>10, <1>11 DEF Bijection, Injection, Surjection, IsInjective
<1>13. /\ IsFiniteSet(U \X C)
       /\ Cardinality(U \X C) = Cardinality(U) * Cardinality(C)
  BY <1>4, FS_Product
<1>14. Cardinality(V) = Cardinality(U) * c
  BY <1>4, <1>12, <1>13, FS_Bijection DEF ExistsBijection
<1>15. Cardinality(U) \in Nat /\ Cardinality(U) * c = c * Cardinality(U)
  BY <1>4, FS_CardinalityType
<1> QED
  BY <1>14, <1>15 DEF Total, U, V
=============================================================================
