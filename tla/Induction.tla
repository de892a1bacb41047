----------------------------- MODULE Induction ------------------------------
(***************************************************************************)
(* Induction over the natural numbers, for sets instead of predicates:     *)
(* derived from the fact that < is well-founded.  It shows that a function *)
(* can be iterated for ever, and what a sum is.  The last section is about *)
(* quotients and remainders.                                               *)
(***************************************************************************)
EXTENDS Integers, Sums, WellFoundedInduction, TLAPS

Lower == OpToRel(<, Nat)

\* A set of numbers has a least element.
LEMMA Least ==
  ASSUME NEW S \in SUBSET Nat, S # {}
  PROVE  \E n \in S : \A m \in S : n <= m
<1>1. \A x, y \in Nat : <<x, y>> \in Lower <=> x < y
  BY DEF Lower, OpToRel
<1>2. IsWellFoundedOn(Lower, Nat)
  BY NatLessThanWellFounded DEF Lower
<1>3. \E n \in S : \A m \in S : ~ (<<m, n>> \in Lower)
  BY <1>2, WFMin
<1>4. PICK n \in S : \A m \in S : ~ (<<m, n>> \in Lower)
  BY <1>3
<1>5. n \in Nat /\ \A m \in S : m \in Nat
  OBVIOUS
<1>6. ASSUME NEW m \in S PROVE n <= m
  <2>1. ~ (m < n)
    BY <1>1, <1>4, <1>5
  <2>. QED
    BY <1>5, <2>1
<1>. QED
  BY <1>6

\* A set that contains 0, and n + 1 with n, contains every number.
LEMMA SetInduction ==
  ASSUME NEW S, 0 \in S, \A n \in Nat : n \in S => n + 1 \in S
  PROVE  Nat \subseteq S
<1> SUFFICES ASSUME Nat \ S # {} PROVE FALSE
  OBVIOUS
<1>1. PICK n \in Nat \ S : \A m \in Nat \ S : n <= m
  BY Least
<1>2. n # 0 /\ n - 1 \in Nat /\ n - 1 \in S
  BY <1>1
<1>. QED
  BY <1>1, <1>2

\* h iterates g from x on, n times.
Iterates(h, g, x, T, n) ==
  h \in [0 .. n -> T] /\ h[0] = x /\ \A i \in 0 .. n - 1 : h[i + 1] = g[h[i]]

LEMMA IteratesExist ==
  ASSUME NEW T, NEW x \in T, NEW g \in [T -> T], NEW n \in Nat
  PROVE  \E h : Iterates(h, g, x, T, n)
<1> DEFINE S == {m \in Nat : \E h : Iterates(h, g, x, T, m)}
<1>1. 0 \in S
  <2>1. Iterates([i \in 0 .. 0 |-> x], g, x, T, 0)
    BY DEF Iterates
  <2>. QED
    BY <2>1
<1>2. ASSUME NEW m \in Nat, m \in S PROVE m + 1 \in S
  <2>1. PICK h : Iterates(h, g, x, T, m)
    BY <1>2
  <2> DEFINE k == [i \in 0 .. m + 1 |-> IF i <= m THEN h[i] ELSE g[h[m]]]
  <2>2. Iterates(k, g, x, T, m + 1)
    <3>1. k \in [0 .. m + 1 -> T]
      BY <2>1 DEF Iterates
    <3>2. k[0] = x
      BY <2>1 DEF Iterates
    <3>3. ASSUME NEW i \in 0 .. m PROVE k[i + 1] = g[k[i]]
      BY <2>1 DEF Iterates
    <3>. QED
      BY <3>1, <3>2, <3>3 DEF Iterates
  <2>. QED
    BY <2>2
<1> HIDE DEF S
<1>3. n \in S
  BY <1>1, <1>2, SetInduction
<1>. QED
  BY <1>3 DEF S

LEMMA IteratesAgree ==
  ASSUME NEW T, NEW x \in T, NEW g \in [T -> T], NEW n \in Nat, NEW m \in Nat,
         NEW h, NEW k, Iterates(h, g, x, T, n), Iterates(k, g, x, T, m), n <= m
  PROVE  \A i \in 0 .. n : h[i] = k[i]
<1> DEFINE S == {i \in Nat : i <= n => h[i] = k[i]}
<1>1. 0 \in S
  BY DEF Iterates
<1>2. ASSUME NEW i \in Nat, i \in S PROVE i + 1 \in S
  <2>1. CASE i + 1 <= n
    <3>1. i \in 0 .. n - 1 /\ i \in 0 .. m - 1 /\ h[i] = k[i]
      BY <1>2, <2>1
    <3>. QED
      BY <3>1 DEF Iterates
  <2>. QED
    BY <2>1
<1> HIDE DEF S
<1>3. Nat \subseteq S
  BY <1>1, <1>2, SetInduction
<1>. QED
  BY <1>3 DEF S

\* A function can be iterated for ever.
LEMMA Iteration ==
  ASSUME NEW T, NEW x \in T, NEW g \in [T -> T]
  PROVE  \E f \in [Nat -> T] : f[0] = x /\ \A n \in Nat : f[n + 1] = g[f[n]]
<1> DEFINE h(n) == CHOOSE k : Iterates(k, g, x, T, n)
           f == [n \in Nat |-> h(n)[n]]
<1>1. \A n \in Nat : Iterates(h(n), g, x, T, n)
  BY IteratesExist
<1> HIDE DEF h
<1>2. f \in [Nat -> T]
  BY <1>1 DEF Iterates
<1>3. f[0] = x
  BY <1>1 DEF Iterates
<1>4. ASSUME NEW n \in Nat PROVE f[n + 1] = g[f[n]]
  <2>1. h(n)[n] = h(n + 1)[n]
    BY <1>1, IteratesAgree
  <2>2. h(n + 1)[n + 1] = g[h(n + 1)[n]]
    BY <1>1 DEF Iterates
  <2>. QED
    BY <2>1, <2>2
<1>. QED
  BY <1>2, <1>3, <1>4
-----------------------------------------------------------------------------
(***************************************************************************)
(* Sums.                                                                   *)
(***************************************************************************)
\* s[k] is the sum of the first k values of f, for k up to n.
IsTotal(s, f, n) ==
  s \in [0 .. n -> Int] /\ s[0] = 0 /\ \A k \in 0 .. n - 1 : s[k + 1] = s[k] + f[k]

LEMMA TotalExists ==
  ASSUME NEW n \in Nat, NEW f \in [0 .. n - 1 -> Int]
  PROVE  \E s : IsTotal(s, f, n)
<1> DEFINE S == {m \in Nat : m <= n => \E s : IsTotal(s, f, m)}
<1>1. 0 \in S
  <2>1. IsTotal([k \in 0 .. 0 |-> 0], f, 0)
    BY DEF IsTotal
  <2>. QED
    BY <2>1
<1>2. ASSUME NEW m \in Nat, m \in S PROVE m + 1 \in S
  <2> SUFFICES ASSUME m + 1 <= n PROVE \E s : IsTotal(s, f, m + 1)
    OBVIOUS
  <2>1. PICK s : IsTotal(s, f, m)
    BY <1>2
  <2> DEFINE t == [k \in 0 .. m + 1 |-> IF k <= m THEN s[k] ELSE s[m] + f[m]]
  <2>2. t \in [0 .. m + 1 -> Int] /\ t[0] = 0
    BY <2>1 DEF IsTotal
  <2>3. ASSUME NEW k \in 0 .. m PROVE t[k + 1] = t[k] + f[k]
    BY <2>1 DEF IsTotal
  <2> HIDE DEF t
  <2>4. (m + 1) - 1 = m
    OBVIOUS
  <2>5. IsTotal(t, f, m + 1)
    BY <2>2, <2>3, <2>4 DEF IsTotal
  <2>. QED
    BY <2>5
<1> HIDE DEF S
<1>3. n \in S
  BY <1>1, <1>2, SetInduction
<1>. QED
  BY <1>3 DEF S

\* A sum is what its definition says.
LEMMA TotalDef ==
  ASSUME NEW n \in Nat, NEW f \in [0 .. n - 1 -> Int]
  PROVE  \E s : IsTotal(s, f, n) /\ Total(f, n) = s[n]
<1> DEFINE F(a) == [k \in 0 .. n |-> IF k = 0 THEN 0 ELSE a[k - 1] + f[k - 1]]
           s == CHOOSE a : a = F(a)
<1>1. PICK t : IsTotal(t, f, n)
  BY TotalExists
<1>2. t = F(t)
  <2>1. ASSUME NEW k \in 0 .. n PROVE t[k] = F(t)[k]
    <3>1. CASE k = 0
      BY <1>1, <3>1 DEF IsTotal
    <3>2. CASE k # 0
      <4>1. k - 1 \in 0 .. n - 1 /\ (k - 1) + 1 = k
        BY <3>2
      <4>. QED
        BY <1>1, <3>2, <4>1 DEF IsTotal
    <3>. QED
      BY <3>1, <3>2
  <2>. QED
    BY <1>1, <2>1 DEF IsTotal
<1>3. s = F(s)
  <2> HIDE DEF F
  <2>. QED
    BY <1>2
<1>4. Total(f, n) = s[n]
  BY DEF Total
<1> HIDE DEF s
<1>5. s[0] = 0 /\ \A k \in 0 .. n - 1 : s[k + 1] = s[k] + f[k]
  BY <1>3
<1>6. \A k \in 0 .. n : s[k] \in Int
  <2> DEFINE S == {k \in Nat : k <= n => s[k] \in Int}
  <2>1. 0 \in S
    BY <1>5
  <2>2. ASSUME NEW k \in Nat, k \in S PROVE k + 1 \in S
    BY <1>5, <2>2
  <2> HIDE DEF S
  <2>3. Nat \subseteq S
    BY <2>1, <2>2, SetInduction
  <2>. QED
    BY <2>3 DEF S
<1>7. s \in [0 .. n -> Int]
  BY <1>3, <1>6
<1>8. IsTotal(s, f, n)
  BY <1>5, <1>7 DEF IsTotal
<1>. QED
  BY <1>4, <1>8

LEMMA TotalType ==
  ASSUME NEW n \in Nat, NEW f \in [0 .. n - 1 -> Int]
  PROVE  Total(f, n) \in Int
BY TotalDef DEF IsTotal

\* The sum changes with one of its terms.
LEMMA TotalUpdate ==
  ASSUME NEW n \in Nat, NEW f \in [0 .. n - 1 -> Int], NEW g \in [0 .. n - 1 -> Int],
         NEW i \in 0 .. n - 1, NEW d \in Int, g[i] = f[i] + d,
         \A j \in 0 .. n - 1 : j # i => g[j] = f[j]
  PROVE  Total(g, n) = Total(f, n) + d
<1>1. PICK s : IsTotal(s, f, n) /\ Total(f, n) = s[n]
  BY TotalDef
<1>2. PICK t : IsTotal(t, g, n) /\ Total(g, n) = t[n]
  BY TotalDef
<1> DEFINE S == {k \in Nat : k <= n => t[k] = IF k <= i THEN s[k] ELSE s[k] + d}
<1>3. 0 \in S
  BY <1>1, <1>2 DEF IsTotal
<1>4. ASSUME NEW k \in Nat, k \in S PROVE k + 1 \in S
  <2> SUFFICES ASSUME k + 1 <= n
               PROVE  t[k + 1] = IF k + 1 <= i THEN s[k + 1] ELSE s[k + 1] + d
    OBVIOUS
  <2>1. k \in 0 .. n - 1 /\ k \in 0 .. n
    OBVIOUS
  <2>2. /\ t[k + 1] = t[k] + g[k] /\ s[k + 1] = s[k] + f[k]
        /\ s[k] \in Int /\ t[k] \in Int /\ f[k] \in Int /\ g[k] \in Int
    BY <1>1, <1>2, <2>1 DEF IsTotal
  <2>3. t[k] = IF k <= i THEN s[k] ELSE s[k] + d
    BY <1>4
  <2>4. CASE k = i
    BY <2>2, <2>3, <2>4
  <2>5. CASE k # i
    BY <2>1, <2>2, <2>3, <2>5
  <2>. QED
    BY <2>4, <2>5
<1> HIDE DEF S
<1>5. Nat \subseteq S
  BY <1>3, <1>4, SetInduction
<1>6. t[n] = s[n] + d
  BY <1>5 DEF S
<1>. QED
  BY <1>1, <1>2, <1>6

\* The sum of n equal terms.
LEMMA TotalConstant ==
  ASSUME NEW n \in Nat, NEW f \in [0 .. n - 1 -> Int], NEW c \in Int,
         \A j \in 0 .. n - 1 : f[j] = c
  PROVE  Total(f, n) = n * c
<1>1. PICK s : IsTotal(s, f, n) /\ Total(f, n) = s[n]
  BY TotalDef
<1> DEFINE S == {k \in Nat : k <= n => s[k] = k * c}
<1>2. 0 \in S
  BY <1>1 DEF IsTotal
<1>3. ASSUME NEW k \in Nat, k \in S PROVE k + 1 \in S
  <2> SUFFICES ASSUME k + 1 <= n PROVE s[k + 1] = (k + 1) * c
    OBVIOUS
  <2>1. k \in 0 .. n - 1
    OBVIOUS
  <2>2. s[k + 1] = s[k] + c /\ s[k] = k * c
    BY <1>1, <1>3, <2>1 DEF IsTotal
  <2>3. (k + 1) * c = k * c + c
    OBVIOUS
  <2>. QED
    BY <2>2, <2>3
<1> HIDE DEF S
<1>4. Nat \subseteq S
  BY <1>2, <1>3, SetInduction
<1>. QED
  BY <1>1, <1>4 DEF S

\* A sum of terms that are not negative is no less than any of them.
LEMMA TotalBounds ==
  ASSUME NEW n \in Nat, NEW f \in [0 .. n - 1 -> Int], \A j \in 0 .. n - 1 : f[j] >= 0
  PROVE  Total(f, n) >= 0 /\ \A j \in 0 .. n - 1 : f[j] <= Total(f, n)
<1>1. ASSUME NEW g \in [0 .. n - 1 -> Int], \A j \in 0 .. n - 1 : g[j] >= 0
      PROVE  Total(g, n) >= 0
  <2>1. PICK s : IsTotal(s, g, n) /\ Total(g, n) = s[n]
    BY TotalDef
  <2> DEFINE S == {k \in Nat : k <= n => s[k] >= 0}
  <2>2. 0 \in S
    BY <2>1 DEF IsTotal
  <2>3. ASSUME NEW k \in Nat, k \in S PROVE k + 1 \in S
    <3> SUFFICES ASSUME k + 1 <= n PROVE s[k + 1] >= 0
      OBVIOUS
    <3>1. k \in 0 .. n - 1 /\ k \in 0 .. n
      OBVIOUS
    <3>2. s[k + 1] = s[k] + g[k] /\ s[k] \in Int /\ g[k] \in Int /\ g[k] >= 0
      BY <1>1, <2>1, <3>1 DEF IsTotal
    <3>. QED
      BY <2>3, <3>2
  <2> HIDE DEF S
  <2>4. Nat \subseteq S
    BY <2>2, <2>3, SetInduction
  <2>. QED
    BY <2>1, <2>4 DEF S
<1>2. ASSUME NEW j \in 0 .. n - 1 PROVE f[j] <= Total(f, n)
  <2> DEFINE g == [f EXCEPT ![j] = 0]
  <2>1. g \in [0 .. n - 1 -> Int] /\ \A k \in 0 .. n - 1 : g[k] >= 0
    OBVIOUS
  <2>2. /\ g[j] = f[j] + (- f[j]) /\ - f[j] \in Int
        /\ \A k \in 0 .. n - 1 : k # j => g[k] = f[k]
    OBVIOUS
  <2> HIDE DEF g
  <2>3. Total(g, n) = Total(f, n) + (- f[j])
    BY <2>1, <2>2, TotalUpdate
  <2>4. Total(g, n) >= 0
    BY <1>1, <2>1
  <2>5. Total(f, n) \in Int
    BY TotalType
  <2>. QED
    BY <2>3, <2>4, <2>5
<1>. QED
  BY <1>1, <1>2

\* A sum of n terms that are at most c.
LEMMA TotalAtMost ==
  ASSUME NEW n \in Nat, NEW f \in [0 .. n - 1 -> Int], NEW c \in Int,
         \A j \in 0 .. n - 1 : f[j] <= c
  PROVE  Total(f, n) <= n * c
<1>1. PICK s : IsTotal(s, f, n) /\ Total(f, n) = s[n]
  BY TotalDef
<1> DEFINE S == {k \in Nat : k <= n => s[k] <= k * c}
<1>2. 0 \in S
  BY <1>1 DEF IsTotal
<1>3. ASSUME NEW k \in Nat, k \in S PROVE k + 1 \in S
  <2> SUFFICES ASSUME k + 1 <= n PROVE s[k + 1] <= (k + 1) * c
    OBVIOUS
  <2>1. k \in 0 .. n - 1 /\ k \in 0 .. n
    OBVIOUS
  <2>2. s[k + 1] = s[k] + f[k] /\ s[k] <= k * c /\ f[k] <= c
    BY <1>1, <1>3, <2>1 DEF IsTotal
  <2>3. (k + 1) * c = k * c + c /\ k * c \in Int
    OBVIOUS
  <2>4. s[k] \in Int /\ f[k] \in Int
    BY <1>1, <2>1 DEF IsTotal
  <2>. QED
    BY <2>2, <2>3, <2>4
<1> HIDE DEF S
<1>4. Nat \subseteq S
  BY <1>2, <1>3, SetInduction
<1>. QED
  BY <1>1, <1>4 DEF S
-----------------------------------------------------------------------------
\* The quotient and the remainder of a number.
LEMMA DivMod ==
  ASSUME NEW n \in Nat \ {0}, NEW k \in Nat
  PROVE  /\ k % n \in 0 .. n - 1 /\ k \div n \in Nat /\ k = n * (k \div n) + (k % n)
<1>1. k % n \in Int /\ k % n >= 0
  OBVIOUS
<1>2. k % n < n
  OBVIOUS
<1>3. k \div n \in Int
  OBVIOUS
<1>4. k \div n >= 0
  OBVIOUS
<1>5. k = n * (k \div n) + (k % n)
  OBVIOUS
<1> DEFINE q == k \div n
           r == k % n
<1> HIDE DEF q, r
<1>. QED
  BY <1>1, <1>2, <1>3, <1>4, <1>5 DEF q, r

\* The quotient of a number below a product ...
LEMMA Below ==
  ASSUME NEW n \in Nat \ {0}, NEW m \in Nat, NEW q \in Nat, NEW i \in Nat, n * q + i < m * n
  PROVE  q < m
<1> SUFFICES ASSUME q >= m PROVE FALSE
  OBVIOUS
<1> DEFINE d == q - m
<1>1. d \in Nat /\ q = m + d
  OBVIOUS
<1> HIDE DEF d
<1>2. n * q = m * n + n * d
  BY <1>1
<1>3. n * d \in Nat /\ n * q \in Nat /\ m * n \in Nat
  BY <1>1
<1>. QED
  BY <1>2, <1>3

\* ... and the numbers that a quotient and a remainder give.
LEMMA Above ==
  ASSUME NEW n \in Nat \ {0}, NEW m \in Nat, NEW q \in 0 .. m - 1, NEW i \in 0 .. n - 1
  PROVE  n * q + i \in 0 .. m * n - 1
<1> DEFINE d == m - 1 - q
<1>1. d \in Nat /\ m = q + 1 + d
  OBVIOUS
<1> HIDE DEF d
<1>2. m * n = n * q + n + n * d
  BY <1>1
<1>3. n * d \in Nat /\ n * q \in Nat /\ m * n \in Nat
  BY <1>1
<1>. QED
  BY <1>2, <1>3

\* Different quotients, different products.
LEMMA Grows ==
  ASSUME NEW n \in Nat \ {0}, NEW q \in Nat, NEW d \in Nat \ {0}
  PROVE  n * (q + d) > n * q
<1>1. n * (q + d) = n * q + n * d /\ n * q \in Nat
  OBVIOUS
<1>2. n * d \in Nat /\ n * d # 0
  OBVIOUS
<1>. QED
  BY <1>1, <1>2

\* The remainder is what was added to a multiple.
LEMMA ModOf ==
  ASSUME NEW n \in Nat \ {0}, NEW q \in Nat, NEW i \in 0 .. n - 1
  PROVE  (n * q + i) % n = i
<1> DEFINE k == n * q + i
           d == k \div n
           r == k % n
<1>1. k \in Nat
  OBVIOUS
<1>2. r \in 0 .. n - 1 /\ d \in Nat /\ k = n * d + r
  BY <1>1, DivMod
<1>3. k = n * q + i
  OBVIOUS
<1> HIDE DEF k, d, r
<1>4. CASE d > q
  <2> DEFINE e == d - q - 1
  <2>1. e \in Nat /\ d = q + 1 + e
    BY <1>2, <1>4
  <2> HIDE DEF e
  <2>2. n * d = n * q + n + n * e /\ n * e \in Nat /\ n * q \in Nat
    BY <2>1
  <2>. QED
    BY <1>2, <1>3, <2>2
<1>5. CASE d < q
  <2> DEFINE e == q - d - 1
  <2>1. e \in Nat /\ q = d + 1 + e
    BY <1>2, <1>5
  <2> HIDE DEF e
  <2>2. n * q = n * d + n + n * e /\ n * e \in Nat /\ n * d \in Nat
    BY <1>2, <2>1
  <2>. QED
    BY <1>2, <1>3, <2>2
<1>6. CASE d = q
  BY <1>2, <1>3, <1>6 DEF k, r
<1>. QED
  BY <1>2, <1>4, <1>5, <1>6 DEF k, r
=============================================================================
