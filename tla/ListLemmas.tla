----------------------------- MODULE ListLemmas -----------------------------
(***************************************************************************)
(* What Select returns, and the induction that the proofs of the project   *)
(* need: a property of natural numbers that fails somewhere has a least    *)
(* number for which it fails.  And division by a modulus.                  *)
(***************************************************************************)
EXTENDS Lists, WellFoundedInduction, SequenceTheorems, TLAPS

\* Division with remainder by a modulus that is not a literal.
LEMMA Division ==
    ASSUME NEW a \in Int, NEW m \in Nat \ {0}
    PROVE  /\ a % m \in 0 .. m - 1
           /\ a \div m \in Int
           /\ a = (a \div m) * m + (a % m)
  BY SMT

\* The remainder is the only number below the modulus that differs from a by a
\* multiple of it.
LEMMA Remainder ==
    ASSUME NEW a \in Int, NEW m \in Nat \ {0}, NEW q \in Int,
           NEW r \in 0 .. m - 1, a = q * m + r
    PROVE  a % m = r
  BY SMT

\* A non-empty set of natural numbers has a least element, which a CHOOSE that
\* asks for it takes.
LEMMA LeastElement ==
    ASSUME NEW S \in SUBSET Nat, S # {}
    PROVE  LET m == CHOOSE x \in S : \A y \in S : x <= y
           IN  m \in S /\ \A y \in S : m <= y
  <1> DEFINE Less == {pair \in Nat \X Nat : pair[1] < pair[2]}
  <1>1. IsWellFoundedOn(Less, Nat)
    BY NatLessThanWellFounded, Zenon DEF OpToRel
  <1>2. \E x \in S : \A y \in S : ~(<<y, x>> \in Less)
    <2> HIDE DEF Less
    <2> QED BY <1>1, WFMin
  <1>3. \E x \in S : \A y \in S : x <= y
    <2>1. \A x, y \in Nat : y < x => <<y, x>> \in Less
      OBVIOUS
    <2>2. \A x, y \in Nat : x <= y \/ y < x
      OBVIOUS
    <2> HIDE DEF Less
    <2> QED BY <1>2, <2>1, <2>2
  <1> QED
    BY <1>3

\* Induction up to n: a set that has 0 and the successor of each of its members
\* below n has every number up to n.
LEMMA UpTo ==
    ASSUME NEW n \in Nat, NEW S, 0 \in S, \A i \in 0 .. n - 1 : i \in S => i + 1 \in S
    PROVE  0 .. n \subseteq S
  <1> DEFINE T == {i \in 0 .. n : i \notin S}
             m == CHOOSE x \in T : \A y \in T : x <= y
  <1> SUFFICES ASSUME T # {} PROVE FALSE
    OBVIOUS
  <1>1. T \in SUBSET Nat
    OBVIOUS
  <1>2. m \in T /\ \A y \in T : m <= y
    <2> HIDE DEF T
    <2> QED BY <1>1, LeastElement
  <1> HIDE DEF m
  <1>3. m # 0 /\ m - 1 \in 0 .. n - 1
    BY <1>2
  <1>4. m - 1 \notin S
    BY <1>2, <1>3
  <1> QED
    BY <1>2, <1>3, <1>4

\* A loop of n steps, each a function of the state before it, has a run.
LoopSteps(next, n, S) == n \in Nat /\ next \in [1 .. n -> [S -> S]]
LoopRun(f, next, n, S, base) ==
    f \in [0 .. n -> S] /\ f[0] = base /\ \A i \in 1 .. n : f[i] = next[i][f[i - 1]]
LEMMA LoopRuns ==
    ASSUME NEW S, NEW base \in S, NEW n, NEW next, LoopSteps(next, n, S)
    PROVE  \E f : LoopRun(f, next, n, S, base)
  <1> USE DEF LoopSteps
  <1> DEFINE Good(f, m) == /\ f \in [0 .. m -> S] /\ f[0] = base
                           /\ \A i \in 1 .. m : f[i] = next[i][f[i - 1]]
             D == {m \in 0 .. n : \E f : Good(f, m)}
  <1>2. 0 \in D
    <2> DEFINE f == [i \in 0 .. 0 |-> base]
    <2>1. f \in [0 .. 0 -> S] /\ f[0] = base
      OBVIOUS
    <2>2. \A i \in 1 .. 0 : FALSE
      OBVIOUS
    <2> HIDE DEF f
    <2>3. Good(f, 0)
      BY <2>1, <2>2
    <2> QED BY <2>3
  <1>3. ASSUME NEW m \in 0 .. n - 1, m \in D
        PROVE  m + 1 \in D
    <2>1. PICK f : Good(f, m)
      BY <1>3
    <2> DEFINE x == next[m + 1][f[m]]
               g == [i \in 0 .. m + 1 |-> IF i = m + 1 THEN x ELSE f[i]]
    <2>2. m + 1 \in 1 .. n /\ m \in 0 .. m
      OBVIOUS
    <2>3. x \in S
      <3>1. f[m] \in S
        BY <2>1, <2>2
      <3> QED BY <2>2, <3>1
    <2> HIDE DEF x
    <2>4. g \in [0 .. m + 1 -> S] /\ g[0] = base
      BY <2>1, <2>3
    <2>5. ASSUME NEW i \in 1 .. m + 1
          PROVE  g[i] = next[i][g[i - 1]]
      <3>1. CASE i = m + 1
        <4>1. g[i] = x /\ g[i - 1] = f[m]
          BY <2>2, <3>1
        <4> QED BY <3>1, <4>1 DEF x
      <3>2. CASE i # m + 1
        <4>1. i \in 1 .. m /\ i - 1 \in 0 .. m /\ g[i] = f[i] /\ g[i - 1] = f[i - 1]
          BY <2>2, <3>2
        <4> QED BY <2>1, <4>1
      <3> QED BY <3>1, <3>2
    <2> HIDE DEF g
    <2>6. Good(g, m + 1)
      BY <2>4, <2>5
    <2>7. m + 1 \in 0 .. n
      BY <2>2
    <2> HIDE DEF Good
    <2> QED BY <2>6, <2>7
  <1>4. n \in D
    <2> HIDE DEF D
    <2>1. 0 .. n \subseteq D
      BY <1>2, <1>3, UpTo
    <2> QED BY <2>1
  <1> QED BY <1>4 DEF LoopRun
-----------------------------------------------------------------------------
\* f names the places of the members of A in s, in increasing order, and r has
\* the entries at those places.
Enumerates(f, r, s, A) ==
    /\ f \in [1 .. Len(r) -> 1 .. Len(s)]
    /\ \A i, j \in 1 .. Len(r) : i < j => f[i] < f[j]
    /\ \A p \in 1 .. Len(s) : s[p] \in A => \E i \in 1 .. Len(r) : f[i] = p
    /\ \A i \in 1 .. Len(r) : s[f[i]] \in A /\ r[i] = s[f[i]]

\* r has the entries of s that are in A, in the order of s.
Selection(r, s, A) == \E f : Enumerates(f, r, s, A)

\* kept is the function of Select's recursion.
Recursion(kept, S, s, A) ==
    /\ kept \in [0 .. Len(s) -> Seq(S)]
    /\ kept[0] = <<>>
    /\ \A i \in 1 .. Len(s) : kept[i] = IF s[i] \in A THEN Append(kept[i - 1], s[i])
                                        ELSE kept[i - 1]

\* The recursion is well defined.
LEMMA SelectRecursion ==
    ASSUME NEW S, NEW s \in Seq(S), NEW A
    PROVE  \E kept : Recursion(kept, S, s, A) /\ Select(s, A) = kept[Len(s)]
  <1> DEFINE n == Len(s)
             Good(f, m) == /\ f \in [0 .. m -> Seq(S)] /\ f[0] = <<>>
                           /\ \A i \in 1 .. m : f[i] = IF s[i] \in A THEN Append(f[i - 1], s[i])
                                                       ELSE f[i - 1]
             D == {m \in 0 .. n : \E f : Good(f, m)}
  <1>1. n \in Nat /\ \A i \in 1 .. n : s[i] \in S
    OBVIOUS
  <1>2. 0 \in D
    <2> DEFINE f == [i \in 0 .. 0 |-> <<>>]
    <2>1. f \in [0 .. 0 -> Seq(S)] /\ f[0] = <<>>
      OBVIOUS
    <2>2. \A i \in 1 .. 0 : FALSE
      OBVIOUS
    <2> HIDE DEF f
    <2>3. Good(f, 0)
      BY <2>1, <2>2
    <2> QED BY <1>1, <2>3
  <1>3. ASSUME NEW m \in 0 .. n - 1, m \in D
        PROVE  m + 1 \in D
    <2>1. PICK f : Good(f, m)
      BY <1>3
    <2> DEFINE x == IF s[m + 1] \in A THEN Append(f[m], s[m + 1]) ELSE f[m]
               g == [i \in 0 .. m + 1 |-> IF i = m + 1 THEN x ELSE f[i]]
    <2>2. m + 1 \in 1 .. n /\ m \in 0 .. m
      BY <1>1
    <2>3. x \in Seq(S)
      <3>1. f[m] \in Seq(S) /\ s[m + 1] \in S
        BY <1>1, <2>1, <2>2
      <3> QED BY <3>1
    <2> HIDE DEF x
    <2>4. g \in [0 .. m + 1 -> Seq(S)] /\ g[0] = <<>>
      BY <2>1, <2>3
    <2>5. ASSUME NEW i \in 1 .. m + 1
          PROVE  g[i] = IF s[i] \in A THEN Append(g[i - 1], s[i]) ELSE g[i - 1]
      <3>1. CASE i = m + 1
        <4>1. g[i] = x /\ g[i - 1] = f[m]
          BY <2>2, <3>1
        <4> QED BY <3>1, <4>1 DEF x
      <3>2. CASE i # m + 1
        <4>1. i \in 1 .. m /\ i - 1 \in 0 .. m /\ g[i] = f[i] /\ g[i - 1] = f[i - 1]
          BY <2>2, <3>2
        <4> QED BY <2>1, <4>1
      <3> QED BY <3>1, <3>2
    <2> HIDE DEF g
    <2>6. Good(g, m + 1)
      BY <2>4, <2>5
    <2>7. m + 1 \in 0 .. n
      BY <1>1, <2>2
    <2> HIDE DEF Good
    <2> QED BY <2>6, <2>7
  <1>4. n \in D
    <2> HIDE DEF D, n
    <2>1. 0 .. n \subseteq D
      BY <1>1, <1>2, <1>3, UpTo
    <2> QED BY <1>1, <2>1
  <1>5. PICK f : Good(f, n)
    BY <1>4
  <1> DEFINE Body(k) == [i \in 0 .. n |-> IF i = 0 THEN <<>>
                            ELSE IF s[i] \in A THEN Append(k[i - 1], s[i]) ELSE k[i - 1]]
             F == CHOOSE k : k = Body(k)
  <1>6. f = Body(f)
    <2>1. ASSUME NEW i \in 0 .. n
          PROVE  f[i] = Body(f)[i]
      <3>1. CASE i = 0
        BY <1>5, <3>1
      <3>2. CASE i # 0
        <4>1. i \in 1 .. n
          BY <1>1, <3>2
        <4> QED BY <1>5, <3>2, <4>1
      <3> QED BY <3>1, <3>2
    <2>2. f = [i \in 0 .. n |-> f[i]] /\ Body(f) = [i \in 0 .. n |-> Body(f)[i]]
      BY <1>5
    <2> HIDE DEF Body, n
    <2> QED BY <2>1, <2>2
  <1>7. F = Body(F)
    <2> HIDE DEF Body
    <2> QED BY <1>6
  <1>8. Select(s, A) = F[n]
    BY DEF Select
  <1> HIDE DEF F
  <1>9. F = f
    <2> DEFINE E == {m \in 0 .. n : F[m] = f[m]}
    <2>1. 0 \in E
      BY <1>1, <1>5, <1>7
    <2>2. ASSUME NEW m \in 0 .. n - 1, m \in E
          PROVE  m + 1 \in E
      <3>1. m + 1 \in 1 .. n /\ (m + 1) - 1 = m
        BY <1>1
      <3>2. F[m + 1] = IF s[m + 1] \in A THEN Append(F[m], s[m + 1]) ELSE F[m]
        <4>1. F[m + 1] = Body(F)[m + 1]
          <5> HIDE DEF Body
          <5> QED BY <1>7
        <4>2. m + 1 \in 0 .. n /\ m + 1 # 0
          BY <1>1, <3>1
        <4> QED BY <3>1, <4>1, <4>2
      <3>3. f[m + 1] = IF s[m + 1] \in A THEN Append(f[m], s[m + 1]) ELSE f[m]
        BY <1>5, <3>1
      <3> QED BY <2>2, <3>1, <3>2, <3>3
    <2>3. 0 .. n \subseteq E
      <3> HIDE DEF E
      <3> QED BY <1>1, <2>1, <2>2, UpTo
    <2>4. \A m \in 0 .. n : F[m] = f[m]
      BY <2>3
    <2> QED BY <1>5, <1>7, <2>4
  <1> QED
    BY <1>5, <1>8, <1>9 DEF Recursion

\* Select returns the selection.
LEMMA SelectIsSelection ==
    ASSUME NEW S, NEW s \in Seq(S), NEW A
    PROVE  Select(s, A) \in Seq(S) /\ Selection(Select(s, A), s, A)
  <1>0. PICK kept : Recursion(kept, S, s, A) /\ Select(s, A) = kept[Len(s)]
    BY SelectRecursion
  <1>1. /\ kept \in [0 .. Len(s) -> Seq(S)]
        /\ kept[0] = <<>>
        /\ \A i \in 1 .. Len(s) : kept[i] = IF s[i] \in A THEN Append(kept[i - 1], s[i])
                                            ELSE kept[i - 1]
        /\ Select(s, A) = kept[Len(s)]
    BY <1>0 DEF Recursion
  <1> DEFINE n == Len(s)
             Upto(f, r, m) ==
                /\ f \in [1 .. Len(r) -> 1 .. m]
                /\ \A i, j \in 1 .. Len(r) : i < j => f[i] < f[j]
                /\ \A p \in 1 .. m : s[p] \in A => \E i \in 1 .. Len(r) : f[i] = p
                /\ \A i \in 1 .. Len(r) : s[f[i]] \in A /\ r[i] = s[f[i]]
             D == {m \in 0 .. n : \E f : Upto(f, kept[m], m)}
  <1>2. n \in Nat /\ \A i \in 1 .. n : s[i] \in S
    OBVIOUS
  <1>3. 0 \in D
    <2> DEFINE f == [i \in 1 .. 0 |-> i]
    <2>1. Len(kept[0]) = 0
      BY <1>1
    <2>2. f \in [1 .. 0 -> 1 .. 0] /\ 1 .. 0 = {}
      OBVIOUS
    <2> HIDE DEF f
    <2>3. Upto(f, kept[0], 0)
      BY <2>1, <2>2
    <2>4. 0 \in 0 .. n
      BY <1>2
    <2> HIDE DEF Upto
    <2> QED BY <2>3, <2>4
  <1>4. ASSUME NEW m \in 0 .. n - 1, m \in D
        PROVE  m + 1 \in D
    <2> DEFINE r == kept[m]
               q == kept[m + 1]
    <2>1. PICK f : Upto(f, r, m)
      BY <1>4
    <2>2. m + 1 \in 1 .. n /\ m + 1 \in 0 .. n /\ m \in 0 .. n /\ (m + 1) - 1 = m
      BY <1>2
    <2>3. r \in Seq(S) /\ s[m + 1] \in S
      BY <1>1, <1>2, <2>2
    <2>4. q = IF s[m + 1] \in A THEN Append(r, s[m + 1]) ELSE r
      BY <1>1, <2>2
    <2> HIDE DEF r, q
    <2>5. CASE s[m + 1] \in A
      <3> DEFINE k == Len(r)
                 g == [i \in 1 .. k + 1 |-> IF i <= k THEN f[i] ELSE m + 1]
      <3>1. k \in Nat /\ Len(q) = k + 1 /\ q[k + 1] = s[m + 1]
            /\ \A i \in 1 .. k : q[i] = r[i]
        BY <2>3, <2>4, <2>5
      <3>2. \A i \in 1 .. k : f[i] \in 1 .. m
        BY <2>1
      <3> HIDE DEF k
      <3>3. g \in [1 .. k + 1 -> 1 .. m + 1]
        BY <3>1, <3>2
      <3>4. \A i \in 1 .. k : g[i] = f[i]
        BY <3>1
      <3>5. g[k + 1] = m + 1
        BY <3>1
      <3> HIDE DEF g
      <3>6. \A i, j \in 1 .. k + 1 : i < j => g[i] < g[j]
        <4> TAKE i, j \in 1 .. k + 1
        <4> HAVE i < j
        <4>1. i \in 1 .. k /\ g[i] = f[i] /\ f[i] \in 1 .. m
          BY <3>1, <3>2, <3>4
        <4>2. CASE j \in 1 .. k
          BY <2>1, <3>4, <4>1, <4>2 DEF k
        <4>3. CASE j \notin 1 .. k
          <5>1. j = k + 1
            BY <3>1, <4>3
          <5> QED BY <3>5, <4>1, <5>1
        <4> QED BY <4>2, <4>3
      <3>7. \A p \in 1 .. m + 1 : s[p] \in A => \E i \in 1 .. k + 1 : g[i] = p
        <4> TAKE p \in 1 .. m + 1
        <4> HAVE s[p] \in A
        <4>1. CASE p = m + 1
          BY <3>1, <3>5, <4>1
        <4>2. CASE p # m + 1
          <5>1. p \in 1 .. m
            BY <4>2
          <5>2. PICK i \in 1 .. k : f[i] = p
            BY <2>1, <5>1 DEF k
          <5>3. i \in 1 .. k + 1
            BY <3>1
          <5> QED BY <3>4, <5>2, <5>3
        <4> QED BY <4>1, <4>2
      <3>8. \A i \in 1 .. k + 1 : s[g[i]] \in A /\ q[i] = s[g[i]]
        <4> TAKE i \in 1 .. k + 1
        <4>1. CASE i \in 1 .. k
          BY <2>1, <3>1, <3>4, <4>1 DEF k
        <4>2. CASE i \notin 1 .. k
          <5>1. i = k + 1
            BY <3>1, <4>2
          <5> QED BY <2>5, <3>1, <3>5, <5>1
        <4> QED BY <4>1, <4>2
      <3>9. Upto(g, q, m + 1)
        BY <3>1, <3>3, <3>6, <3>7, <3>8
      <3> HIDE DEF Upto
      <3> QED BY <2>2, <3>9 DEF q
    <2>6. CASE s[m + 1] \notin A
      <3>1. Upto(f, q, m + 1)
        <4>1. q = r
          BY <2>4, <2>6
        <4>2. f \in [1 .. Len(q) -> 1 .. m + 1]
          BY <2>1, <4>1
        <4>3. \A p \in 1 .. m + 1 : s[p] \in A => p \in 1 .. m
          BY <2>6
        <4> QED BY <2>1, <4>1, <4>2, <4>3
      <3> HIDE DEF Upto
      <3> QED BY <2>2, <3>1 DEF q
    <2> QED BY <2>5, <2>6
  <1>5. n \in D
    <2> HIDE DEF D, n
    <2>1. 0 .. n \subseteq D
      BY <1>2, <1>3, <1>4, UpTo
    <2> QED BY <1>2, <2>1
  <1>6. PICK f : Upto(f, Select(s, A), n)
    BY <1>1, <1>5
  <1>7. Enumerates(f, Select(s, A), s, A)
    BY <1>6 DEF Enumerates
  <1>8. Select(s, A) \in Seq(S)
    BY <1>1, <1>2
  <1> QED BY <1>7, <1>8 DEF Selection

\* There is one selection only: at the first place where two of them differ, one
\* names a place of s that the other has passed over.
LEMMA SelectionUnique ==
    ASSUME NEW S, NEW s \in Seq(S), NEW A, NEW q \in Seq(S), NEW r \in Seq(S),
           Selection(q, s, A), Selection(r, s, A)
    PROVE  q = r
  <1>1. PICK f : Enumerates(f, q, s, A)
    BY DEF Selection
  <1>2. PICK g : Enumerates(g, r, s, A)
    BY DEF Selection
  <1> DEFINE T == {i \in 1 .. Len(q) : i > Len(r) \/ f[i] # g[i]} \cup
                  {i \in 1 .. Len(r) : i > Len(q)}
             m == CHOOSE x \in T : \A y \in T : x <= y
  <1>3. Len(q) \in Nat /\ Len(r) \in Nat /\ Len(s) \in Nat
    OBVIOUS
  <1>4. /\ \A i \in 1 .. Len(q) : f[i] \in 1 .. Len(s) /\ s[f[i]] \in A /\ q[i] = s[f[i]]
        /\ \A i, j \in 1 .. Len(q) : i < j => f[i] < f[j]
        /\ \A p \in 1 .. Len(s) : s[p] \in A => \E i \in 1 .. Len(q) : f[i] = p
    BY <1>1 DEF Enumerates
  <1>5. /\ \A i \in 1 .. Len(r) : g[i] \in 1 .. Len(s) /\ s[g[i]] \in A /\ r[i] = s[g[i]]
        /\ \A i, j \in 1 .. Len(r) : i < j => g[i] < g[j]
        /\ \A p \in 1 .. Len(s) : s[p] \in A => \E i \in 1 .. Len(r) : g[i] = p
    BY <1>2 DEF Enumerates
  <1>6. ASSUME T # {} PROVE FALSE
    <2>1. T \in SUBSET Nat
      OBVIOUS
    <2>2. m \in T /\ \A y \in T : m <= y
      <3> HIDE DEF T
      <3> QED BY <1>6, <2>1, LeastElement
    <2> HIDE DEF m
    <2>3. \A i \in 1 .. m - 1 : i \in 1 .. Len(q) /\ i \in 1 .. Len(r) /\ f[i] = g[i]
      <3> TAKE i \in 1 .. m - 1
      <3>1. i \notin T
        BY <2>1, <2>2
      <3>2. i \in 1 .. Len(q) \/ i \in 1 .. Len(r)
        BY <1>3, <2>2
      <3> QED BY <1>3, <3>1, <3>2
    <2>4. m \in Nat \ {0}
      BY <1>3, <2>2
    \* The place that one of them names next is named later by the other, which
    \* then names a place in between.
    <2>5. ASSUME m \in 1 .. Len(q), m \in 1 .. Len(r) => f[m] < g[m]
          PROVE  FALSE
      <3>1. PICK i \in 1 .. Len(r) : g[i] = f[m]
        BY <1>4, <1>5, <2>5
      <3>2. CASE i < m
        <4>1. i \in 1 .. m - 1
          BY <1>3, <2>4, <3>2
        <4>2. f[i] = f[m] /\ i \in 1 .. Len(q)
          BY <2>3, <3>1, <4>1
        <4>3. f[i] < f[m] /\ f[m] \in Nat
          BY <1>3, <1>4, <2>5, <3>2, <4>2
        <4> QED BY <4>2, <4>3
      <3>3. CASE i >= m
        <4>1. m \in 1 .. Len(r)
          BY <1>3, <2>4, <3>3
        <4>2. f[m] < g[m] /\ f[m] \in Nat /\ g[m] \in Nat
          <5>1. f[m] < g[m]
            BY <2>5, <4>1
          <5>2. f[m] \in Nat
            BY <1>3, <1>4, <2>5
          <5>3. g[m] \in Nat
            BY <1>3, <1>5, <4>1
          <5> QED BY <5>1, <5>2, <5>3
        <4>3. i = m \/ g[m] < g[i]
          BY <1>3, <1>5, <3>3, <4>1
        <4> QED BY <3>1, <4>2, <4>3
      <3> QED BY <1>3, <2>4, <3>2, <3>3
    <2>6. ASSUME m \in 1 .. Len(r), m \in 1 .. Len(q) => g[m] < f[m]
          PROVE  FALSE
      <3>1. PICK i \in 1 .. Len(q) : f[i] = g[m]
        BY <1>4, <1>5, <2>6
      <3>2. CASE i < m
        <4>1. i \in 1 .. m - 1
          BY <1>3, <2>4, <3>2
        <4>2. g[i] = g[m] /\ i \in 1 .. Len(r)
          BY <2>3, <3>1, <4>1
        <4>3. g[i] < g[m] /\ g[m] \in Nat
          BY <1>3, <1>5, <2>6, <3>2, <4>2
        <4> QED BY <4>2, <4>3
      <3>3. CASE i >= m
        <4>1. m \in 1 .. Len(q)
          BY <1>3, <2>4, <3>3
        <4>2. g[m] < f[m] /\ f[m] \in Nat /\ g[m] \in Nat
          <5>1. g[m] < f[m]
            BY <2>6, <4>1
          <5>2. f[m] \in 1 .. Len(s) /\ g[m] \in 1 .. Len(s)
            BY <1>4, <1>5, <2>6, <4>1
          <5> QED BY <1>3, <5>1, <5>2
        <4>3. i = m \/ f[m] < f[i]
          BY <1>3, <1>4, <3>3, <4>1
        <4> QED BY <3>1, <4>2, <4>3
      <3> QED BY <1>3, <2>4, <3>2, <3>3
    <2>7. CASE m \in 1 .. Len(q) /\ m \in 1 .. Len(r)
      <3>1. f[m] # g[m] /\ f[m] \in Nat /\ g[m] \in Nat
        BY <1>3, <1>4, <1>5, <2>2, <2>7
      <3>2. f[m] < g[m] \/ g[m] < f[m]
        BY <3>1
      <3> QED BY <2>5, <2>6, <2>7, <3>2
    <2>8. m \in 1 .. Len(q) \/ m \in 1 .. Len(r)
      BY <2>2
    <2> QED BY <2>5, <2>6, <2>7, <2>8
  <1>7. Len(q) = Len(r)
    <2>1. ~(Len(q) < Len(r))
      <3> SUFFICES ASSUME Len(q) < Len(r) PROVE FALSE
        OBVIOUS
      <3>1. Len(r) \in 1 .. Len(r) /\ Len(r) > Len(q)
        BY <1>3
      <3> QED BY <1>6, <3>1
    <2>2. ~(Len(r) < Len(q))
      <3> SUFFICES ASSUME Len(r) < Len(q) PROVE FALSE
        OBVIOUS
      <3>1. Len(q) \in 1 .. Len(q) /\ Len(q) > Len(r)
        BY <1>3
      <3> QED BY <1>6, <3>1
    <2> QED BY <1>3, <2>1, <2>2
  <1>8. \A i \in 1 .. Len(q) : q[i] = r[i]
    <2> TAKE i \in 1 .. Len(q)
    <2>1. f[i] = g[i]
      BY <1>6
    <2>2. i \in 1 .. Len(r)
      BY <1>7
    <2> QED BY <1>4, <1>5, <2>1, <2>2
  <1> QED BY <1>7, <1>8, SeqEqual

\* Which entries a selection has.
LEMMA SelectMembers ==
    ASSUME NEW S, NEW s \in Seq(S), NEW A
    PROVE  /\ Select(s, A) \in Seq(S)
           /\ \A i \in 1 .. Len(Select(s, A)) :
                 Select(s, A)[i] \in A /\ \E p \in 1 .. Len(s) : Select(s, A)[i] = s[p]
           /\ \A p \in 1 .. Len(s) : s[p] \in A =>
                 \E i \in 1 .. Len(Select(s, A)) : Select(s, A)[i] = s[p]
  <1> DEFINE r == Select(s, A)
  <1>1. r \in Seq(S) /\ Selection(r, s, A)
    BY SelectIsSelection
  <1> HIDE DEF r
  <1>2. PICK f : Enumerates(f, r, s, A)
    BY <1>1 DEF Selection
  <1>3. \A i \in 1 .. Len(r) : r[i] \in A /\ \E p \in 1 .. Len(s) : r[i] = s[p]
    BY <1>2 DEF Enumerates
  <1>4. \A p \in 1 .. Len(s) : s[p] \in A => \E i \in 1 .. Len(r) : r[i] = s[p]
    BY <1>2 DEF Enumerates
  <1> QED BY <1>1, <1>3, <1>4 DEF r

\* A selection in which two places hold members of A has two entries.
LEMMA SelectTwoPlaces ==
    ASSUME NEW S, NEW s \in Seq(S), NEW A, NEW a \in 1 .. Len(s), NEW b \in 1 .. Len(s),
           a # b, s[a] \in A, s[b] \in A
    PROVE  Len(Select(s, A)) >= 2
  <1> DEFINE r == Select(s, A)
  <1>1. r \in Seq(S) /\ Selection(r, s, A)
    BY SelectIsSelection
  <1> HIDE DEF r
  <1>2. PICK f : Enumerates(f, r, s, A)
    BY <1>1 DEF Selection
  <1>3. PICK i \in 1 .. Len(r) : f[i] = a
    BY <1>2 DEF Enumerates
  <1>4. PICK j \in 1 .. Len(r) : f[j] = b
    BY <1>2 DEF Enumerates
  <1>5. i # j /\ Len(r) \in Nat
    BY <1>1, <1>3, <1>4
  <1> QED BY <1>3, <1>4, <1>5 DEF r

\* A list of one entry has at most that one to select.
LEMMA SelectFromOne ==
    ASSUME NEW S, NEW s \in Seq(S), NEW A, Len(s) = 1
    PROVE  Len(Select(s, A)) <= 1
  <1> DEFINE r == Select(s, A)
  <1>1. r \in Seq(S) /\ Selection(r, s, A)
    BY SelectIsSelection
  <1> HIDE DEF r
  <1>2. PICK f : Enumerates(f, r, s, A)
    BY <1>1 DEF Selection
  <1>3. Len(r) \in Nat
    BY <1>1
  <1>4. ASSUME Len(r) > 1 PROVE FALSE
    <2>1. 1 \in 1 .. Len(r) /\ 2 \in 1 .. Len(r)
      BY <1>3, <1>4
    <2>2. f[1] \in 1 .. 1 /\ f[2] \in 1 .. 1 /\ f[1] < f[2]
      BY <1>2, <2>1 DEF Enumerates
    <2> QED BY <2>2
  <1> QED BY <1>3, <1>4 DEF r

LEMMA SelectAll ==
    ASSUME NEW S, NEW s \in Seq(S), NEW A, \A p \in 1 .. Len(s) : s[p] \in A
    PROVE  Select(s, A) = s
  <1> DEFINE f == [i \in 1 .. Len(s) |-> i]
  <1>1. Enumerates(f, s, s, A)
    BY DEF Enumerates
  <1>2. Selection(s, s, A)
    BY <1>1 DEF Selection
  <1> QED BY <1>2, SelectIsSelection, SelectionUnique

LEMMA SelectNone ==
    ASSUME NEW S, NEW s \in Seq(S), NEW A, \A p \in 1 .. Len(s) : s[p] \notin A
    PROVE  Select(s, A) = <<>>
  <1> DEFINE r == Select(s, A)
  <1>1. /\ r \in Seq(S)
        /\ \A i \in 1 .. Len(r) : r[i] \in A /\ \E p \in 1 .. Len(s) : r[i] = s[p]
    BY SelectMembers
  <1> HIDE DEF r
  <1>2. Len(r) \in Nat /\ ~ \E i \in 1 .. Len(r) : TRUE
    BY <1>1
  <1>3. Len(r) = 0
    BY <1>2
  <1>4. r = <<>>
    BY <1>1, <1>3
  <1> QED BY <1>4 DEF r

\* Selecting from a selection.
LEMMA SelectTwice ==
    ASSUME NEW S, NEW s \in Seq(S), NEW A, NEW B, NEW C,
           \A p \in 1 .. Len(s) : s[p] \in C <=> s[p] \in A /\ s[p] \in B
    PROVE  Select(Select(s, A), B) = Select(s, C)
  <1> DEFINE q == Select(s, A)
             r == Select(q, B)
  <1>1. q \in Seq(S) /\ Selection(q, s, A)
    BY SelectIsSelection
  <1>2. r \in Seq(S) /\ Selection(r, q, B)
    <2> HIDE DEF q
    <2> QED BY <1>1, SelectIsSelection
  <1> HIDE DEF q, r
  <1>3. PICK f : Enumerates(f, q, s, A)
    BY <1>1 DEF Selection
  <1>4. PICK g : Enumerates(g, r, q, B)
    BY <1>2 DEF Selection
  <1>5. /\ \A i \in 1 .. Len(q) : f[i] \in 1 .. Len(s) /\ s[f[i]] \in A /\ q[i] = s[f[i]]
        /\ \A i, j \in 1 .. Len(q) : i < j => f[i] < f[j]
        /\ \A p \in 1 .. Len(s) : s[p] \in A => \E i \in 1 .. Len(q) : f[i] = p
    BY <1>3 DEF Enumerates
  <1>6. /\ \A i \in 1 .. Len(r) : g[i] \in 1 .. Len(q) /\ q[g[i]] \in B /\ r[i] = q[g[i]]
        /\ \A i, j \in 1 .. Len(r) : i < j => g[i] < g[j]
        /\ \A p \in 1 .. Len(q) : q[p] \in B => \E i \in 1 .. Len(r) : g[i] = p
    BY <1>4 DEF Enumerates
  <1> DEFINE h == [i \in 1 .. Len(r) |-> f[g[i]]]
  <1>7. h \in [1 .. Len(r) -> 1 .. Len(s)]
    BY <1>5, <1>6
  <1>8. \A i \in 1 .. Len(r) : h[i] = f[g[i]]
    OBVIOUS
  <1> HIDE DEF h
  <1>9. \A i, j \in 1 .. Len(r) : i < j => h[i] < h[j]
    <2> TAKE i, j \in 1 .. Len(r)
    <2> HAVE i < j
    <2>1. g[i] < g[j] /\ g[i] \in 1 .. Len(q) /\ g[j] \in 1 .. Len(q)
      BY <1>6
    <2> QED BY <1>5, <1>8, <2>1
  <1>10. \A p \in 1 .. Len(s) : s[p] \in C => \E i \in 1 .. Len(r) : h[i] = p
    <2> TAKE p \in 1 .. Len(s)
    <2> HAVE s[p] \in C
    <2>1. PICK i \in 1 .. Len(q) : f[i] = p
      BY <1>5
    <2>2. q[i] \in B
      BY <1>5, <2>1
    <2>3. PICK j \in 1 .. Len(r) : g[j] = i
      BY <1>6, <2>2
    <2> QED BY <1>8, <2>1, <2>3
  <1>11. \A i \in 1 .. Len(r) : s[h[i]] \in C /\ r[i] = s[h[i]]
    <2> TAKE i \in 1 .. Len(r)
    <2>1. g[i] \in 1 .. Len(q) /\ q[g[i]] \in B /\ r[i] = q[g[i]]
      BY <1>6
    <2>2. f[g[i]] \in 1 .. Len(s) /\ s[f[g[i]]] \in A /\ q[g[i]] = s[f[g[i]]]
      BY <1>5, <2>1
    <2> QED BY <1>8, <2>1, <2>2
  <1>12. Selection(r, s, C)
    BY <1>7, <1>9, <1>10, <1>11 DEF Selection, Enumerates
  <1>13. Select(s, C) \in Seq(S) /\ Selection(Select(s, C), s, C)
    BY SelectIsSelection
  <1>14. r = Select(s, C)
    BY <1>2, <1>12, <1>13, SelectionUnique
  <1> QED BY <1>14 DEF r, q

\* Selecting from a list that was extended.
LEMMA SelectConcat ==
    ASSUME NEW S, NEW s \in Seq(S), NEW t \in Seq(S), NEW A
    PROVE  Select(s \o t, A) = Select(s, A) \o Select(t, A)
  <1> DEFINE q == Select(s, A)
             r == Select(t, A)
             m == Len(s)
             k == Len(q)
             u == s \o t
             v == q \o r
  <1>1. q \in Seq(S) /\ r \in Seq(S) /\ Selection(q, s, A) /\ Selection(r, t, A)
    BY SelectIsSelection
  <1> HIDE DEF q, r
  <1>2. /\ m \in Nat /\ Len(t) \in Nat /\ u \in Seq(S) /\ Len(u) = m + Len(t)
        /\ \A p \in 1 .. m + Len(t) : u[p] = IF p <= m THEN s[p] ELSE t[p - m]
    BY ConcatProperties
  <1>3. /\ k \in Nat /\ Len(r) \in Nat /\ v \in Seq(S) /\ Len(v) = k + Len(r)
        /\ \A i \in 1 .. k + Len(r) : v[i] = IF i <= k THEN q[i] ELSE r[i - k]
    BY <1>1, ConcatProperties
  <1>4. PICK f : Enumerates(f, q, s, A)
    BY <1>1 DEF Selection
  <1>5. PICK g : Enumerates(g, r, t, A)
    BY <1>1 DEF Selection
  <1>6. /\ \A i \in 1 .. k : f[i] \in 1 .. m /\ s[f[i]] \in A /\ q[i] = s[f[i]]
        /\ \A i, j \in 1 .. k : i < j => f[i] < f[j]
        /\ \A p \in 1 .. m : s[p] \in A => \E i \in 1 .. k : f[i] = p
    BY <1>4 DEF Enumerates
  <1>7. /\ \A i \in 1 .. Len(r) : g[i] \in 1 .. Len(t) /\ t[g[i]] \in A /\ r[i] = t[g[i]]
        /\ \A i, j \in 1 .. Len(r) : i < j => g[i] < g[j]
        /\ \A p \in 1 .. Len(t) : t[p] \in A => \E i \in 1 .. Len(r) : g[i] = p
    BY <1>5 DEF Enumerates
  <1> DEFINE h == [i \in 1 .. k + Len(r) |-> IF i <= k THEN f[i] ELSE m + g[i - k]]
  <1> HIDE DEF m, k, u, v
  <1>8. \A i \in 1 .. k + Len(r) :
           \/ i \in 1 .. k /\ h[i] = f[i]
           \/ i - k \in 1 .. Len(r) /\ i > k /\ h[i] = m + g[i - k]
    BY <1>3
  <1>9. h \in [1 .. Len(v) -> 1 .. Len(u)]
    <2>1. ASSUME NEW i \in 1 .. k + Len(r)
          PROVE  h[i] \in 1 .. m + Len(t)
      <3>1. CASE i \in 1 .. k /\ h[i] = f[i]
        <4>1. f[i] \in 1 .. m
          BY <1>6, <3>1
        <4> QED BY <1>2, <3>1, <4>1
      <3>2. CASE i - k \in 1 .. Len(r) /\ i > k /\ h[i] = m + g[i - k]
        <4>1. g[i - k] \in 1 .. Len(t)
          BY <1>7, <3>2
        <4> QED BY <1>2, <3>2, <4>1
      <3> QED BY <1>8, <3>1, <3>2
    <2> QED BY <1>2, <1>3, <2>1
  <1> HIDE DEF h
  <1>10. \A i, j \in 1 .. Len(v) : i < j => h[i] < h[j]
    <2> TAKE i, j \in 1 .. Len(v)
    <2> HAVE i < j
    <2>1. CASE i \in 1 .. k /\ j \in 1 .. k
      <3>1. h[i] = f[i] /\ h[j] = f[j]
        BY <1>3, <1>8, <2>1
      <3> QED BY <1>6, <2>1, <3>1
    <2>2. CASE i \in 1 .. k /\ j > k
      <3>1. h[i] = f[i] /\ f[i] \in 1 .. m
        BY <1>3, <1>6, <1>8, <2>2
      <3>2. h[j] = m + g[j - k] /\ g[j - k] \in 1 .. Len(t)
        BY <1>3, <1>7, <1>8, <2>2
      <3>3. \A x \in 1 .. m : \A y \in 1 .. Len(t) : x < m + y
        BY <1>2
      <3> HIDE DEF m
      <3> QED BY <3>1, <3>2, <3>3
    <2>3. CASE i > k /\ j > k
      <3>1. /\ h[i] = m + g[i - k] /\ i - k \in 1 .. Len(r)
            /\ h[j] = m + g[j - k] /\ j - k \in 1 .. Len(r) /\ i - k < j - k
        BY <1>3, <1>8, <2>3
      <3>2. g[i - k] < g[j - k] /\ g[i - k] \in 1 .. Len(t) /\ g[j - k] \in 1 .. Len(t)
        BY <1>7, <3>1
      <3>3. \A x, y \in 1 .. Len(t) : x < y => m + x < m + y
        BY <1>2
      <3> HIDE DEF m
      <3> QED BY <3>1, <3>2, <3>3
    <2> QED BY <1>3, <2>1, <2>2, <2>3
  <1>11. \A p \in 1 .. Len(u) : u[p] \in A => \E i \in 1 .. Len(v) : h[i] = p
    <2> TAKE p \in 1 .. Len(u)
    <2> HAVE u[p] \in A
    <2>1. CASE p <= m
      <3>1. p \in 1 .. m /\ s[p] \in A
        BY <1>2, <2>1
      <3>2. PICK i \in 1 .. k : f[i] = p
        BY <1>6, <3>1
      <3>3. i \in 1 .. Len(v) /\ i \in 1 .. k + Len(r) /\ ~(i > k)
        BY <1>3
      <3>4. h[i] = f[i]
        BY <1>8, <3>3
      <3> QED BY <3>2, <3>3, <3>4
    <2>2. CASE ~(p <= m)
      <3>1. p - m \in 1 .. Len(t) /\ t[p - m] \in A
        BY <1>2, <2>2
      <3>2. PICK i \in 1 .. Len(r) : g[i] = p - m
        BY <1>7, <3>1
      <3>3. k + i \in 1 .. Len(v) /\ k + i \in 1 .. k + Len(r) /\ (k + i) - k = i
            /\ k + i \notin 1 .. k
        BY <1>3
      <3>4. h[k + i] = m + g[i]
        BY <1>8, <3>3
      <3>5. h[k + i] = p
        BY <1>2, <3>2, <3>4
      <3> QED BY <3>3, <3>5
    <2> QED BY <2>1, <2>2
  <1>12. \A i \in 1 .. Len(v) : u[h[i]] \in A /\ v[i] = u[h[i]]
    <2> TAKE i \in 1 .. Len(v)
    <2>1. CASE i \in 1 .. k /\ h[i] = f[i]
      <3>1. f[i] \in 1 .. m /\ s[f[i]] \in A /\ q[i] = s[f[i]]
        BY <1>6, <2>1
      <3>2. u[f[i]] = s[f[i]] /\ v[i] = q[i]
        BY <1>2, <1>3, <2>1, <3>1
      <3> QED BY <2>1, <3>1, <3>2
    <2>2. CASE i - k \in 1 .. Len(r) /\ i > k /\ h[i] = m + g[i - k]
      <3>1. g[i - k] \in 1 .. Len(t) /\ t[g[i - k]] \in A /\ r[i - k] = t[g[i - k]]
        BY <1>7, <2>2
      <3>2. v[i] = r[i - k]
        BY <1>3, <2>2
      <3>3. m + g[i - k] \in 1 .. m + Len(t) /\ ~(m + g[i - k] <= m)
            /\ (m + g[i - k]) - m = g[i - k]
        BY <1>2, <3>1
      <3>4. u[m + g[i - k]] = t[g[i - k]]
        BY <1>2, <3>3
      <3> QED BY <2>2, <3>1, <3>2, <3>4
    <2> QED BY <1>3, <1>8, <2>1, <2>2
  <1>13. Selection(v, u, A)
    BY <1>9, <1>10, <1>11, <1>12 DEF Selection, Enumerates
  <1>14. Select(u, A) \in Seq(S) /\ Selection(Select(u, A), u, A)
    BY <1>2, SelectIsSelection
  <1>15. v = Select(u, A)
    BY <1>2, <1>3, <1>13, <1>14, SelectionUnique
  <1> QED BY <1>15 DEF u, v, q, r
=============================================================================
