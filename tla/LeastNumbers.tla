----------------------------- MODULE LeastNumbers -----------------------------
(***************************************************************************)
(* Facts about numbers that loops are proved with: what a search that      *)
(* begins at the lowest place finds, and that a loop which computes a      *)
(* value from the one before has one.                                      *)
(***************************************************************************)
EXTENDS Integers, FiniteSetTheorems, WellFoundedInduction, TLAPS

\* A nonempty set of natural numbers has a least element: the initial segments
\* 0 .. x are finite sets, and strict inclusion of finite sets is well-founded.
LEMMA LeastNat ==
  ASSUME NEW T \in SUBSET Nat, T # {}
  PROVE  \E x \in T : \A y \in T : x <= y
<1> DEFINE F == {0 .. x : x \in T}
<1>1. F \subseteq FiniteSubsetsOf(Nat)
  <2> SUFFICES ASSUME NEW x \in T PROVE 0 .. x \in FiniteSubsetsOf(Nat)
    OBVIOUS
  <2>1. IsFiniteSet(0 .. x)
    BY FS_Interval
  <2>2. 0 .. x \in SUBSET Nat
    OBVIOUS
  <2> QED BY <2>1, <2>2, Zenon DEF FiniteSubsetsOf
<1>2. F # {}
  OBVIOUS
<1>3. PICK m \in F : \A f \in F : ~ (<<f, m>> \in StrictSubsetOrdering(Nat))
  BY <1>1, <1>2, FS_StrictSubsetOrderingWellFounded, WFMin, Zenon
<1>4. PICK x \in T : m = 0 .. x
  OBVIOUS
<1>5. ASSUME NEW y \in T, y < x PROVE FALSE
  <2>1. 0 .. y \subseteq 0 .. x /\ 0 .. y # 0 .. x
    <3>1. x \in 0 .. x /\ x \notin 0 .. y
      BY <1>5
    <3> QED BY <1>5, <3>1
  <2>2. 0 .. y \in SUBSET Nat /\ 0 .. x \in SUBSET Nat
    OBVIOUS
  <2>3. <<0 .. y, m>> \in StrictSubsetOrdering(Nat)
    BY <1>4, <2>1, <2>2 DEF StrictSubsetOrdering
  <2> QED BY <1>3, <2>3
<1> QED BY <1>5

Agree(f, g, n) == \A k \in 0 .. n : f[k] = g[k]

\* The values in S that n steps compute from a, one from the other: there are
\* some, and whatever takes these steps goes through them.
Computes(n, S, a, step) ==
  \E f : /\ f \in [0 .. n -> S] /\ f[0] = a
         /\ \A k \in 1 .. n : f[k] = step[f[k - 1]][k]
         /\ \A g : g[0] = a /\ (\A k \in 1 .. n : g[k - 1] \in S => g[k] = step[g[k - 1]][k])
                   => Agree(g, f, n)

\* What takes the same steps goes through the same values.
LEMMA SameIteration ==
  ASSUME NEW n \in Nat, NEW f, NEW g, f[0] = g[0],
         \A k \in 1 .. n : f[k - 1] = g[k - 1] => f[k] = g[k]
  PROVE  Agree(f, g, n)
<1> DEFINE Bad == {k \in 0 .. n : f[k] # g[k]}
<1>1. SUFFICES ASSUME Bad # {} PROVE FALSE
  BY <1>1 DEF Agree
<1>2. PICK m \in Bad : \A y \in Bad : m <= y
  <2>1. Bad \in SUBSET Nat
    OBVIOUS
  <2> HIDE DEF Bad
  <2>2. QED BY <1>1, <2>1, LeastNat
<1>3. m \in 1 .. n /\ m - 1 \in 0 .. n /\ m - 1 \notin Bad
  BY <1>2
<1>4. QED BY <1>2, <1>3

\* A loop that computes a value of S from one of S has run to its end.
LEMMA Iteration ==
  ASSUME NEW n \in Nat, NEW S, NEW a \in S, NEW step \in [S -> [1 .. n -> S]]
  PROVE  Computes(n, S, a, step)
<1> DEFINE Is(f, m) == /\ f \in [0 .. m -> S] /\ f[0] = a
                       /\ \A k \in 1 .. m : f[k] = step[f[k - 1]][k]
           Bad == {m \in 0 .. n : ~ \E f : Is(f, m)}
<1>1. ASSUME Bad # {} PROVE FALSE
  <2>1. Bad \in SUBSET Nat
    OBVIOUS
  <2>2. PICK m \in Bad : \A y \in Bad : m <= y
    <3> HIDE DEF Bad
    <3>1. QED BY <1>1, <2>1, LeastNat
  <2>3. m \in 0 .. n /\ ~ \E f : Is(f, m)
    BY <2>2
  <2>4. CASE m = 0
    <3>1. Is([k \in 0 .. 0 |-> a], 0)
      OBVIOUS
    <3> HIDE DEF Is
    <3>2. QED BY <2>3, <2>4, <3>1
  <2>5. CASE m # 0
    <3>1. m - 1 \in 0 .. n /\ m - 1 \notin Bad
      <4> HIDE DEF Bad
      <4>1. m - 1 \in 0 .. n
        BY <2>3, <2>5
      <4>2. QED BY <2>2, <2>3, <4>1
    <3>2. PICK g : Is(g, m - 1)
      <4> HIDE DEF Is
      <4>1. QED BY <3>1
    <3> HIDE DEF Bad
    <3>3. g[m - 1] \in S /\ m \in 1 .. n
      BY <2>3, <2>5, <3>2
    <3> DEFINE v == step[g[m - 1]][m]
               h == [k \in 0 .. m |-> IF k = m THEN v ELSE g[k]]
    <3>4. v \in S
      BY <3>3
    <3>5. ASSUME NEW k \in 1 .. m PROVE h[k] = step[h[k - 1]][k]
      <4>0. k \in 0 .. m /\ k - 1 \in 0 .. m /\ k \in Int /\ m \in Int
        BY <2>3, <3>5
      <4>1. CASE k = m
        <5>1. k - 1 # m /\ k - 1 = m - 1
          BY <4>0, <4>1
        <5>2. h[k] = v /\ h[k - 1] = g[m - 1]
          <6> HIDE DEF v
          <6>1. QED BY <4>0, <4>1, <5>1
        <5>3. QED BY <4>1, <5>2
      <4>2. CASE k # m
        <5>1. k \in 1 .. m - 1 /\ k - 1 \in 0 .. m - 1 /\ k - 1 # m
          BY <2>3, <3>5, <4>2
        <5>2. h[k] = g[k] /\ h[k - 1] = g[k - 1]
          <6> HIDE DEF v
          <6>1. QED BY <4>0, <4>2, <5>1
        <5>3. QED BY <3>2, <5>1, <5>2
      <4>3. QED BY <4>1, <4>2
    <3> HIDE DEF v
    <3>6. h \in [0 .. m -> S] /\ h[0] = a
      BY <2>3, <2>5, <3>2, <3>4
    <3>7. Is(h, m)
      <4> HIDE DEF h
      <4>1. QED BY <3>5, <3>6
    <3> HIDE DEF Is, h
    <3>8. QED BY <2>3, <3>7
  <2>6. QED BY <2>4, <2>5
<1>2. \E f : Is(f, n)
  <2> HIDE DEF Is
  <2>1. n \in 0 .. n
    OBVIOUS
  <2>2. QED BY <1>1, <2>1
<1>3. PICK f : Is(f, n)
  <2> HIDE DEF Is
  <2>1. QED BY <1>2
<1>4. ASSUME NEW g, g[0] = a, \A k \in 1 .. n : g[k - 1] \in S => g[k] = step[g[k - 1]][k]
      PROVE  Agree(g, f, n)
  <2>1. \A k \in 1 .. n : f[k - 1] \in S
    BY <1>3
  <2>2. \A k \in 1 .. n : g[k - 1] = f[k - 1] => g[k] = f[k]
    BY <1>3, <1>4, <2>1
  <2>3. g[0] = f[0]
    BY <1>3, <1>4
  <2> HIDE DEF Is
  <2>4. QED BY <2>2, <2>3, SameIteration
<1>5. QED BY <1>3, <1>4 DEF Computes

=============================================================================
