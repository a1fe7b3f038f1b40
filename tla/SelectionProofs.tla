-------------------------- MODULE SelectionProofs --------------------------
(***************************************************************************)
(* What Selected selects, by induction over the naturals.                  *)
(***************************************************************************)
EXTENDS Selection, SequencesExt, WellFoundedInduction, TLAPS

-----------------------------------------------------------------------------
(* Numbers *)

\* A set of naturals has a least element.
LEMMA LeastNumber ==
    ASSUME NEW T, T \subseteq Nat, T # {}
    PROVE  \E x \in T : \A y \in T : x <= y
<1> DEFINE R == OpToRel(<, Nat)
<1>1. IsWellFoundedOn(R, Nat)
  BY NatLessThanWellFounded
<1>2. \A x, y \in Nat : x < y => <<x, y>> \in R
  BY DEF OpToRel
<1> HIDE DEF R
<1>3. PICK x \in T : \A y \in T : ~ (<<y, x>> \in R)
  BY <1>1, WFMin
<1>4. \A y \in T : ~(y < x)
  BY <1>2, <1>3
<1> QED
  BY <1>4

\* What holds of 0 and passes on to the next number holds of every number.
LEMMA Induction ==
    ASSUME NEW T, 0 \in T, \A n \in Nat : n \in T => n + 1 \in T
    PROVE  Nat \subseteq T
<1> DEFINE U == Nat \ T
<1>1. SUFFICES ASSUME U # {} PROVE FALSE
  OBVIOUS
<1>2. PICK x \in U : \A y \in U : x <= y
  BY <1>1, LeastNumber
<1>3. x # 0 /\ x - 1 \in Nat
  BY <1>2
<1>4. x - 1 \in T
  BY <1>2, <1>3
<1> QED
  BY <1>2, <1>3, <1>4

-----------------------------------------------------------------------------
(* What Selected selects *)

Chosen(s, wanted, t, i) == IF s[i] \in wanted THEN Append(t, s[i]) ELSE t
IsUpTo(f, s, wanted, k) == f = [i \in 0..k |-> IF i = 0 THEN <<>> ELSE Chosen(s, wanted, f[i - 1], i)]

\* The function in the definition of Selected exists.
LEMMA UpToExists ==
    ASSUME NEW s, NEW wanted, NEW k \in Nat
    PROVE  \E f : IsUpTo(f, s, wanted, k)
<1> DEFINE T == {n \in Nat : \E f : IsUpTo(f, s, wanted, n)}
<1>1. 0 \in T
  <2> DEFINE f == [i \in 0..0 |-> <<>>]
  <2>1. IsUpTo(f, s, wanted, 0)
    BY DEF IsUpTo
  <2> HIDE DEF f
  <2> QED
    BY <2>1
<1>2. ASSUME NEW n \in Nat, n \in T
      PROVE  n + 1 \in T
  <2>1. PICK f : IsUpTo(f, s, wanted, n)
    BY <1>2
  <2> DEFINE g == [i \in 0..n + 1 |-> IF i = n + 1 THEN Chosen(s, wanted, f[n], n + 1) ELSE f[i]]
             h == [i \in 0..n + 1 |-> IF i = 0 THEN <<>> ELSE Chosen(s, wanted, g[i - 1], i)]
  <2>2. \A i \in 0..n : f[i] = IF i = 0 THEN <<>> ELSE Chosen(s, wanted, f[i - 1], i)
    BY <2>1 DEF IsUpTo
  <2>3. \A i \in 0..n + 1 : g[i] = h[i]
    <3> SUFFICES ASSUME NEW i \in 0..n + 1 PROVE g[i] = h[i]
      OBVIOUS
    <3>1. CASE i = 0
      BY <2>2, <3>1
    <3>2. CASE i = n + 1
      BY <3>2
    <3>3. CASE i # 0 /\ i # n + 1
      <4>1. i \in 0..n /\ i - 1 \in 0..n /\ i - 1 # n + 1
        BY <3>3
      <4>2. g[i] = f[i] /\ g[i - 1] = f[i - 1]
        BY <4>1
      <4>3. h[i] = Chosen(s, wanted, f[i - 1], i)
        BY <3>3, <4>2
      <4> QED
        BY <2>2, <3>3, <4>1, <4>2, <4>3
    <3> QED
      BY <3>1, <3>2, <3>3
  <2>4. g = h
    BY <2>3
  <2>5. IsUpTo(g, s, wanted, n + 1)
    BY <2>4 DEF IsUpTo
  <2> HIDE DEF g
  <2> QED
    BY <2>5
<1>3. Nat \subseteq T
  <2> HIDE DEF T
  <2> QED
    BY <1>1, <1>2, Induction
<1> QED
  BY <1>3

\* Selected is what its recursion says.
LEMMA SelectedIsUpTo ==
    ASSUME NEW s, NEW wanted, Len(s) \in Nat
    PROVE  \E f : IsUpTo(f, s, wanted, Len(s)) /\ Selected(s, wanted) = f[Len(s)]
<1> DEFINE f == CHOOSE g : g = [i \in 0..Len(s) |->
                  IF i = 0 THEN <<>>
                  ELSE IF s[i] \in wanted THEN Append(g[i - 1], s[i]) ELSE g[i - 1]]
<1>1. Selected(s, wanted) = f[Len(s)]
  BY DEF Selected
<1>2. \E g : g = [i \in 0..Len(s) |->
                  IF i = 0 THEN <<>>
                  ELSE IF s[i] \in wanted THEN Append(g[i - 1], s[i]) ELSE g[i - 1]]
  <2>1. PICK g : IsUpTo(g, s, wanted, Len(s))
    BY UpToExists
  <2>2. g = [i \in 0..Len(s) |->
                  IF i = 0 THEN <<>>
                  ELSE IF s[i] \in wanted THEN Append(g[i - 1], s[i]) ELSE g[i - 1]]
    BY <2>1, Zenon DEF IsUpTo, Chosen
  <2> QED
    BY <2>2, Zenon
<1>3. f = [i \in 0..Len(s) |->
                  IF i = 0 THEN <<>>
                  ELSE IF s[i] \in wanted THEN Append(f[i - 1], s[i]) ELSE f[i - 1]]
  BY <1>2
<1> HIDE DEF f
<1>4. IsUpTo(f, s, wanted, Len(s))
  BY <1>3 DEF IsUpTo, Chosen
<1> QED
  BY <1>1, <1>4

\* What is selected are the wanted elements, in a sequence without repetitions
\* if there were none.
LEMMA SelectedFacts ==
    ASSUME NEW S, NEW s \in Seq(S), NEW wanted
    PROVE  /\ Selected(s, wanted) \in Seq(S)
           /\ ToSet(Selected(s, wanted)) = ToSet(s) \cap wanted
           /\ IsInjective(s) => IsInjective(Selected(s, wanted))
<1> DEFINE SelectedUpTo(t, n) == /\ t \in Seq(S) /\ ToSet(t) = {s[i] : i \in 1..n} \cap wanted
                                 /\ IsInjective(s) => IsInjective(t)
<1>1. PICK f : IsUpTo(f, s, wanted, Len(s)) /\ Selected(s, wanted) = f[Len(s)]
  BY SelectedIsUpTo
<1>2. \A i \in 0..Len(s) : f[i] = IF i = 0 THEN <<>> ELSE Chosen(s, wanted, f[i - 1], i)
  BY <1>1 DEF IsUpTo
<1> DEFINE T == {n \in Nat : n \in 0..Len(s) => SelectedUpTo(f[n], n)}
<1>3. 0 \in T
  <2>1. f[0] = <<>>
    BY <1>2
  <2>2. SelectedUpTo(<<>>, 0)
    BY DEF ToSet, IsInjective
  <2> QED
    BY <2>1, <2>2
<1>4. ASSUME NEW n \in Nat, n \in T
      PROVE  n + 1 \in T
  <2> SUFFICES ASSUME n + 1 \in 0..Len(s) PROVE SelectedUpTo(f[n + 1], n + 1)
    OBVIOUS
  <2>1. SelectedUpTo(f[n], n)
    BY <1>4
  <2>2. f[n + 1] = Chosen(s, wanted, f[n], n + 1)
    BY <1>2
  <2>3. s[n + 1] \in S /\ {s[i] : i \in 1..n + 1} = {s[i] : i \in 1..n} \cup {s[n + 1]}
    <3>1. 1..n + 1 = 1..n \cup {n + 1}
      OBVIOUS
    <3> QED
      BY <3>1
  <2>4. CASE s[n + 1] \notin wanted
    BY <2>1, <2>2, <2>3, <2>4 DEF Chosen
  <2>5. CASE s[n + 1] \in wanted
    <3> DEFINE t == Append(f[n], s[n + 1])
    <3>1. f[n + 1] = t
      BY <2>2, <2>5 DEF Chosen
    <3>2. /\ t \in Seq(S) /\ DOMAIN t = 1..Len(f[n]) + 1 /\ DOMAIN f[n] = 1..Len(f[n])
          /\ \A i \in DOMAIN f[n] : t[i] = f[n][i]
          /\ t[Len(f[n]) + 1] = s[n + 1] /\ Len(f[n]) \in Nat
      BY <2>1, <2>3
    <3>3. \A i \in DOMAIN t : i \in DOMAIN f[n] \/ i = Len(f[n]) + 1
      BY <3>2
    <3>4. ToSet(t) = ToSet(f[n]) \cup {s[n + 1]}
      <4> HIDE DEF t
      <4> DEFINE u == f[n]
                 x == s[n + 1]
      <4>1. /\ DOMAIN t = 1..Len(u) + 1 /\ DOMAIN u = 1..Len(u) /\ Len(u) \in Nat
            /\ \A i \in DOMAIN u : t[i] = u[i]
            /\ t[Len(u) + 1] = x
        BY <3>2
      <4>2. \A i \in DOMAIN t : i \in DOMAIN u \/ i = Len(u) + 1
        BY <3>3
      <4> HIDE DEF u, x
      <4>3. \A i \in DOMAIN t : t[i] \in ToSet(u) \cup {x}
        BY <4>1, <4>2 DEF ToSet
      <4>4. \A i \in DOMAIN u : u[i] \in ToSet(t)
        BY <4>1 DEF ToSet
      <4>5. x \in ToSet(t)
        BY <4>1 DEF ToSet
      <4>6. ToSet(t) = ToSet(u) \cup {x}
        BY <4>3, <4>4, <4>5 DEF ToSet
      <4> QED
        BY <4>6 DEF u, x
    <3>5. IsInjective(s) => s[n + 1] \notin ToSet(f[n])
      <4> SUFFICES ASSUME IsInjective(s) PROVE s[n + 1] \notin ToSet(f[n])
        OBVIOUS
      <4>1. \A i \in 1..n : s[i] # s[n + 1]
        BY DEF IsInjective
      <4> QED
        BY <2>1, <4>1
    <3>6. IsInjective(s) => IsInjective(t)
      <4> SUFFICES ASSUME IsInjective(s) PROVE IsInjective(t)
        OBVIOUS
      <4> HIDE DEF t
      <4>1. \A i \in DOMAIN f[n] : t[i] # s[n + 1]
        BY <3>2, <3>5 DEF ToSet
      <4> QED
        BY <2>1, <3>2, <3>3, <4>1 DEF IsInjective
    <3>7. ToSet(t) = {s[i] : i \in 1..n + 1} \cap wanted
      BY <2>1, <2>3, <2>5, <3>4
    <3> QED
      BY <3>1, <3>2, <3>6, <3>7
  <2> QED
    BY <2>4, <2>5
<1>5. Nat \subseteq T
  <2> HIDE DEF T
  <2> QED
    BY <1>3, <1>4, Induction
<1>6. SelectedUpTo(f[Len(s)], Len(s))
  <2> HIDE DEF SelectedUpTo
  <2>1. Len(s) \in Nat /\ Len(s) \in 0..Len(s)
    OBVIOUS
  <2>2. Len(s) \in T
    BY <1>5, <2>1
  <2> QED
    BY <2>1, <2>2
<1>7. ToSet(s) = {s[i] : i \in 1..Len(s)}
  BY DEF ToSet
<1> QED
  BY <1>1, <1>6, <1>7
=============================================================================
