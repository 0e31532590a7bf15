----------------------------- MODULE DataProofs -----------------------------
(***************************************************************************)
(* What the operators on data that the models share compute.               *)
(*                                                                         *)
(* Sums over finite sets, as MapThenSumSet of the community modules forms  *)
(* them, do not depend on the order in which the fold chooses the          *)
(* elements, so a sum can be split, compared and bounded; and functions    *)
(* defined by recursion over the naturals meet their equations.            *)
(*                                                                         *)
(* Induction is by a smallest counterexample: a set of subsets of a finite *)
(* set, or of naturals, each of whose members has a smaller one is empty.  *)
(* It rests on theorem WFMin of the library, which speaks of sets and not  *)
(* of operators, so that the provers can use it.                           *)
(***************************************************************************)
EXTENDS FiniteSetsExt, FiniteSetTheorems, SequenceTheorems, Powers, TLAPS

SumOver(f, S) == MapThenSumSet(LAMBDA x : f[x], S)

\* What the fold takes first, and what it leaves.
First(s) == CHOOSE x \in s : TRUE
Others(s) == s \ {First(s)}

\* The recursion of the fold, as an equation for the function it computes.
Folds(f, S, g) ==
  g = [s \in SUBSET S |-> IF s = {} THEN 0 ELSE f[First(s)] + g[Others(s)]]

LEMMA SumIsFold ==
  ASSUME NEW f, NEW S
  PROVE  SumOver(f, S) = (CHOOSE g : Folds(f, S, g))[S]
  BY DEF SumOver, MapThenSumSet, MapThenFoldSet, Folds, First, Others

-----------------------------------------------------------------------------
(* Induction. *)

\* A set of subsets that contains a subset only with a smaller one is empty.
LEMMA NoSmallest ==
  ASSUME NEW S, IsFiniteSet(S), NEW Bad \in SUBSET SUBSET S,
         \A T \in Bad : \E U \in Bad : U \subseteq T /\ U # T
  PROVE  Bad = {}
<1>1. Bad \subseteq FiniteSubsetsOf(S)
  BY FS_Subset DEF FiniteSubsetsOf
<1>2. SUFFICES ASSUME Bad # {} PROVE FALSE
  OBVIOUS
<1>3. PICK T \in Bad : \A U \in Bad : ~ (<<U, T>> \in StrictSubsetOrdering(S))
  BY <1>1, <1>2, WFMin, FS_StrictSubsetOrderingWellFounded
<1>4. PICK U \in Bad : U \subseteq T /\ U # T
  OBVIOUS
<1>5. <<U, T>> \in StrictSubsetOrdering(S)
  BY <1>4 DEF StrictSubsetOrdering
<1> QED
  BY <1>3, <1>4, <1>5

LEMMA NoLeast ==
  ASSUME NEW Bad \in SUBSET Nat, \A n \in Bad : \E m \in Bad : m < n
  PROVE  Bad = {}
<1>1. SUFFICES ASSUME Bad # {} PROVE FALSE
  OBVIOUS
<1>2. IsWellFoundedOn(OpToRel(<, Nat), Nat)
  BY NatLessThanWellFounded
<1>3. PICK n \in Bad : \A m \in Bad : ~ (<<m, n>> \in OpToRel(<, Nat))
  BY <1>1, <1>2, WFMin
<1>4. PICK m \in Bad : m < n
  OBVIOUS
<1>5. <<m, n>> \in OpToRel(<, Nat)
  BY <1>4 DEF OpToRel
<1> QED
  BY <1>3, <1>4, <1>5

LEMMA FirstInside ==
  ASSUME NEW s, s # {}
  PROVE  First(s) \in s /\ Others(s) \subseteq s /\ Others(s) # s
  BY DEF First, Others

-----------------------------------------------------------------------------
(* The recursion has exactly one solution. *)

LEMMA FoldsAgree ==
  ASSUME NEW f, NEW S, IsFiniteSet(S), NEW T \in SUBSET S,
         NEW g, Folds(f, S, g), NEW h, Folds(f, T, h)
  PROVE  \A s \in SUBSET T : g[s] = h[s]
<1> DEFINE Bad == {s \in SUBSET T : g[s] # h[s]}
<1>1. ASSUME NEW s \in Bad
      PROVE  \E u \in Bad : u \subseteq s /\ u # s
  <2>1. /\ s \in SUBSET T /\ s \in SUBSET S
        /\ g[s] = IF s = {} THEN 0 ELSE f[First(s)] + g[Others(s)]
        /\ h[s] = IF s = {} THEN 0 ELSE f[First(s)] + h[Others(s)]
    BY DEF Folds
  <2>2. s # {} /\ g[Others(s)] # h[Others(s)]
    BY <2>1
  <2> QED
    BY <2>1, <2>2, FirstInside
<1>2. IsFiniteSet(T)
  BY FS_Subset
<1>3. Bad = {}
  <2> HIDE DEF Bad
  <2>1. Bad \in SUBSET SUBSET T
    BY DEF Bad
  <2> QED
    BY <1>1, <1>2, <2>1, NoSmallest
<1> QED
  BY <1>3

LEMMA FoldsExist ==
  ASSUME NEW f, NEW S, IsFiniteSet(S)
  PROVE  \E g : Folds(f, S, g)
<1> DEFINE Bad == {T \in SUBSET S : ~ \E g : Folds(f, T, g)}
           G(T) == CHOOSE g : Folds(f, T, g)
<1>1. ASSUME NEW T \in SUBSET S,
             \A U \in SUBSET S : U \subseteq T /\ U # T => \E g : Folds(f, U, g)
      PROVE  \E g : Folds(f, T, g)
  <2> DEFINE g == [s \in SUBSET T |->
                     IF s = {} THEN 0
                     ELSE f[First(s)] + G(Others(s))[Others(s)]]
  <2>1. ASSUME NEW s \in SUBSET T, s # {}
        PROVE  G(Others(s))[Others(s)] = g[Others(s)]
    <3> DEFINE U == Others(s)
    <3>1. U \subseteq T /\ U # T /\ U \in SUBSET S
      BY <2>1, FirstInside
    <3>2. Folds(f, U, G(U))
      BY <1>1, <3>1
    <3>3. CASE U = {}
      BY <3>1, <3>2, <3>3 DEF Folds
    <3>4. CASE U # {}
      <4>1. Others(U) \subseteq U /\ Others(U) # U
        BY <3>4, FirstInside
      <4>2. Folds(f, Others(U), G(Others(U)))
        BY <1>1, <3>1, <4>1
      <4>3. G(U)[Others(U)] = G(Others(U))[Others(U)]
        <5>1. IsFiniteSet(U)
          BY <3>1, FS_Subset
        <5> HIDE DEF U, G
        <5> QED
          BY <3>2, <4>1, <4>2, <5>1, FoldsAgree
      <4>4. G(U)[U] = f[First(U)] + G(U)[Others(U)]
        <5> HIDE DEF U, G
        <5> QED
          BY <3>2, <3>4 DEF Folds
      <4>5. g[U] = f[First(U)] + G(Others(U))[Others(U)]
        BY <3>1, <3>4
      <4> QED
        BY <4>3, <4>4, <4>5
    <3> QED
      BY <3>3, <3>4
  <2>2. \A s \in SUBSET T :
          g[s] = IF s = {} THEN 0 ELSE f[First(s)] + g[Others(s)]
    <3>1. \A s \in SUBSET T :
            g[s] = IF s = {} THEN 0
                   ELSE f[First(s)] + G(Others(s))[Others(s)]
      <4> HIDE DEF G
      <4> QED
        OBVIOUS
    <3> HIDE DEF g, G
    <3> QED
      BY <2>1, <3>1
  <2> HIDE DEF g
  <2>3. g = [s \in SUBSET T |-> g[s]]
    BY DEF g
  <2>4. Folds(f, T, g)
    BY <2>2, <2>3 DEF Folds
  <2> QED
    BY <2>4
<1>2. Bad = {}
  <2>1. ASSUME NEW T \in Bad
        PROVE  \E U \in Bad : U \subseteq T /\ U # T
    BY <1>1
  <2> HIDE DEF Bad
  <2>2. Bad \in SUBSET SUBSET S
    BY DEF Bad
  <2> QED
    BY <2>1, <2>2, NoSmallest
<1> QED
  BY <1>2

-----------------------------------------------------------------------------
(* Folds over any data. *)

\* The recursion of a fold that takes ch[s] first out of each set s.
Iterates(S, ch, base, step, g) ==
  g = [s \in SUBSET S |-> IF s = {} THEN base
                          ELSE step[<<ch[s], g[s \ {ch[s]}]>>]]

Picks(S, ch) == \A s \in SUBSET S : s # {} => ch[s] \in s

LEMMA IterationsAgree ==
  ASSUME NEW S, IsFiniteSet(S), NEW ch, Picks(S, ch), NEW base, NEW step,
         NEW T \in SUBSET S,
         NEW g, Iterates(S, ch, base, step, g),
         NEW h, Iterates(T, ch, base, step, h)
  PROVE  \A s \in SUBSET T : g[s] = h[s]
<1> DEFINE Bad == {s \in SUBSET T : g[s] # h[s]}
<1>1. ASSUME NEW s \in Bad
      PROVE  \E u \in Bad : u \subseteq s /\ u # s
  <2> DEFINE rest == s \ {ch[s]}
  <2>1. /\ s \in SUBSET T /\ s \in SUBSET S
        /\ g[s] = IF s = {} THEN base ELSE step[<<ch[s], g[rest]>>]
        /\ h[s] = IF s = {} THEN base ELSE step[<<ch[s], h[rest]>>]
    BY DEF Iterates
  <2>2. s # {} /\ g[rest] # h[rest]
    BY <2>1
  <2>3. ch[s] \in s
    BY <2>1, <2>2 DEF Picks
  <2> QED
    BY <2>1, <2>2, <2>3
<1>2. IsFiniteSet(T)
  BY FS_Subset
<1>3. Bad = {}
  <2> HIDE DEF Bad
  <2>1. Bad \in SUBSET SUBSET T
    BY DEF Bad
  <2> QED
    BY <1>1, <1>2, <2>1, NoSmallest
<1> QED
  BY <1>3

LEMMA IterationExists ==
  ASSUME NEW S, IsFiniteSet(S), NEW ch, Picks(S, ch), NEW base, NEW step
  PROVE  \E g : Iterates(S, ch, base, step, g)
<1> DEFINE Bad == {T \in SUBSET S : ~ \E g : Iterates(T, ch, base, step, g)}
           G(T) == CHOOSE g : Iterates(T, ch, base, step, g)
           Rest(s) == s \ {ch[s]}
<1>1. ASSUME NEW T \in SUBSET S,
             \A U \in SUBSET S :
               U \subseteq T /\ U # T => \E g : Iterates(U, ch, base, step, g)
      PROVE  \E g : Iterates(T, ch, base, step, g)
  <2> DEFINE g == [s \in SUBSET T |->
                     IF s = {} THEN base
                     ELSE step[<<ch[s], G(Rest(s))[Rest(s)]>>]]
  <2>1. ASSUME NEW s \in SUBSET T, s # {}
        PROVE  G(Rest(s))[Rest(s)] = g[Rest(s)]
    <3> DEFINE U == Rest(s)
    <3>1. U \subseteq T /\ U # T /\ U \in SUBSET S
      <4>1. ch[s] \in s
        BY <2>1 DEF Picks
      <4> QED
        BY <4>1
    <3>2. Iterates(U, ch, base, step, G(U))
      BY <1>1, <3>1
    <3>3. CASE U = {}
      <4>1. g[U] = base
        BY <3>1, <3>3
      <4> HIDE DEF U, G
      <4>2. G(U)[U] = base
        BY <3>2, <3>3 DEF Iterates
      <4> QED
        BY <4>1, <4>2 DEF U
    <3>4. CASE U # {}
      <4>1. Rest(U) \subseteq U /\ Rest(U) # U
        <5>1. ch[U] \in U
          BY <3>1, <3>4 DEF Picks
        <5> QED
          BY <5>1
      <4>2. Iterates(Rest(U), ch, base, step, G(Rest(U)))
        BY <1>1, <3>1, <4>1
      <4>3. G(U)[Rest(U)] = G(Rest(U))[Rest(U)]
        <5>1. IsFiniteSet(U) /\ Picks(U, ch)
          BY <3>1, FS_Subset DEF Picks
        <5>2. Rest(U) \in SUBSET Rest(U) /\ Rest(U) \in SUBSET U
          BY <4>1
        <5> HIDE DEF U, G, Rest
        <5> QED
          BY <3>2, <4>2, <5>1, <5>2, IterationsAgree
      <4>4. G(U)[U] = step[<<ch[U], G(U)[Rest(U)]>>]
        <5> HIDE DEF U, G
        <5> QED
          BY <3>2, <3>4 DEF Iterates
      <4>5. g[U] = step[<<ch[U], G(Rest(U))[Rest(U)]>>]
        BY <3>1, <3>4
      <4> QED
        BY <4>3, <4>4, <4>5
    <3> QED
      BY <3>3, <3>4
  <2>2. \A s \in SUBSET T :
          g[s] = IF s = {} THEN base ELSE step[<<ch[s], g[Rest(s)]>>]
    <3>1. \A s \in SUBSET T :
            g[s] = IF s = {} THEN base
                   ELSE step[<<ch[s], G(Rest(s))[Rest(s)]>>]
      <4> HIDE DEF G
      <4> QED
        OBVIOUS
    <3> HIDE DEF g, G
    <3> QED
      BY <2>1, <3>1
  <2> HIDE DEF g
  <2>3. g = [s \in SUBSET T |-> g[s]]
    BY DEF g
  <2>4. Iterates(T, ch, base, step, g)
    BY <2>2, <2>3 DEF Iterates
  <2> QED
    BY <2>4
<1>2. Bad = {}
  <2>1. ASSUME NEW T \in Bad
        PROVE  \E U \in Bad : U \subseteq T /\ U # T
    BY <1>1
  <2> HIDE DEF Bad
  <2>2. Bad \in SUBSET SUBSET S
    BY DEF Bad
  <2> QED
    BY <2>1, <2>2, NoSmallest
<1> QED
  BY <1>2

LEMMA MaxInside ==
  ASSUME NEW n \in Nat, NEW s \in SUBSET (1..n), s # {}
  PROVE  Max(s) \in s /\ \A y \in s : Max(s) >= y
<1> DEFINE Bad == {n - x : x \in s}
<1>1. SUFFICES ASSUME \A x \in s : \E y \in s : ~ (x >= y)
               PROVE  FALSE
  BY DEF Max
<1>2. ASSUME NEW m \in Bad
      PROVE  \E k \in Bad : k < m
  <2>1. PICK x \in s : m = n - x
    OBVIOUS
  <2>2. PICK y \in s : ~ (x >= y)
    BY <1>1
  <2>3. x \in 1..n /\ y \in 1..n
    OBVIOUS
  <2>4. n - y < m /\ n - y \in Bad
    BY <2>1, <2>2, <2>3
  <2> QED
    BY <2>4
<1>3. Bad \in SUBSET Nat
  OBVIOUS
<1>4. Bad = {}
  <2> HIDE DEF Bad
  <2> QED
    BY <1>2, <1>3, NoLeast
<1> QED
  BY <1>4

LEMMA MinInside ==
  ASSUME NEW s \in SUBSET Nat, s # {}
  PROVE  Min(s) \in s /\ \A y \in s : Min(s) <= y
<1>1. SUFFICES ASSUME \A x \in s : \E y \in s : ~ (x <= y)
               PROVE  FALSE
  BY DEF Min
<1>2. \A x \in s : \E y \in s : y < x
  BY <1>1
<1> QED
  BY <1>2, NoLeast

\* FoldLeft takes the last element of a sequence first.
FoldsLeft(n, base, step, g) ==
  g = [s \in SUBSET (1..n) |-> IF s = {} THEN base
                               ELSE step[<<Max(s), g[s \ {Max(s)}]>>]]

LEMMA FoldLeftExists ==
  ASSUME NEW n \in Nat, NEW base, NEW step
  PROVE  \E g : FoldsLeft(n, base, step, g)
<1> DEFINE S == 1..n
           ch == [s \in SUBSET S |-> Max(s)]
<1>1. IsFiniteSet(S)
  BY FS_Interval
<1>2. \A s \in SUBSET S : ch[s] = Max(s)
  OBVIOUS
<1>3. Picks(S, ch)
  BY <1>2, MaxInside DEF Picks
<1>4. PICK g : Iterates(S, ch, base, step, g)
  <2> HIDE DEF S, ch
  <2> QED
    BY <1>1, <1>3, IterationExists
<1>5. g = [s \in SUBSET S |-> IF s = {} THEN base
                              ELSE step[<<Max(s), g[s \ {Max(s)}]>>]]
  <2> HIDE DEF S, ch
  <2> QED
    BY <1>2, <1>4 DEF Iterates
<1> QED
  BY <1>5 DEF FoldsLeft

\* What a fold computes stays where no step leads out of.
LEMMA FoldLeftStays ==
  ASSUME NEW n \in Nat, NEW V, NEW g, g[{}] \in V,
         \A s \in SUBSET (1..n) :
           s # {} /\ g[s \ {Max(s)}] \in V => g[s] \in V
  PROVE  \A s \in SUBSET (1..n) : g[s] \in V
<1> DEFINE S == 1..n
           Bad == {s \in SUBSET S : g[s] \notin V}
<1>1. ASSUME NEW s \in Bad
      PROVE  \E u \in Bad : u \subseteq s /\ u # s
  <2> DEFINE rest == s \ {Max(s)}
  <2>1. s \in SUBSET (1..n) /\ g[s] \notin V
    OBVIOUS
  <2>2. s # {}
    BY <2>1
  <2>3. Max(s) \in s
    BY <2>1, <2>2, MaxInside
  <2>4. rest \in SUBSET S /\ g[rest] \notin V
    BY <2>1, <2>2
  <2> QED
    BY <2>3, <2>4
<1>2. IsFiniteSet(S) /\ Bad \in SUBSET SUBSET S
  BY FS_Interval
<1>3. Bad = {}
  <2> HIDE DEF Bad, S
  <2> QED
    BY <1>1, <1>2, NoSmallest
<1> QED
  BY <1>3

-----------------------------------------------------------------------------
(* Sums. *)

LEMMA SumOfNothing ==
  ASSUME NEW f
  PROVE  SumOver(f, {}) = 0
<1>1. PICK g : Folds(f, {}, g)
  BY FoldsExist, FS_EmptySet
<1>2. Folds(f, {}, CHOOSE h : Folds(f, {}, h))
  BY <1>1
<1> QED
  BY <1>2, SumIsFold DEF Folds

LEMMA SumStep ==
  ASSUME NEW f, NEW S, IsFiniteSet(S), S # {}
  PROVE  SumOver(f, S) = f[First(S)] + SumOver(f, Others(S))
<1> DEFINE G(T) == CHOOSE g : Folds(f, T, g)
           U == Others(S)
<1>1. U \subseteq S /\ IsFiniteSet(U)
  BY FirstInside, FS_Subset
<1>2. Folds(f, S, G(S)) /\ Folds(f, U, G(U))
  BY <1>1, FoldsExist
<1>3. SumOver(f, S) = G(S)[S] /\ SumOver(f, U) = G(U)[U]
  BY SumIsFold
<1> HIDE DEF G
<1>4. G(S)[S] = f[First(S)] + G(S)[U]
  BY <1>2 DEF Folds
<1>5. G(S)[U] = G(U)[U]
  <2> HIDE DEF U
  <2> QED
    BY <1>1, <1>2, FoldsAgree
<1> QED
  BY <1>3, <1>4, <1>5

LEMMA SumTyped ==
  ASSUME NEW f, NEW S, IsFiniteSet(S), \A x \in S : f[x] \in Nat
  PROVE  SumOver(f, S) \in Nat
<1> DEFINE Bad == {T \in SUBSET S : SumOver(f, T) \notin Nat}
<1>1. ASSUME NEW T \in Bad
      PROVE  \E U \in Bad : U \subseteq T /\ U # T
  <2>1. T # {}
    BY SumOfNothing
  <2>2. SumOver(f, T) = f[First(T)] + SumOver(f, Others(T))
    BY <2>1, SumStep, FS_Subset
  <2>3. Others(T) \in Bad
    BY <2>1, <2>2, FirstInside
  <2> QED
    BY <2>1, <2>3, FirstInside
<1>2. Bad = {}
  <2> HIDE DEF Bad
  <2>1. Bad \in SUBSET SUBSET S
    BY DEF Bad
  <2> QED
    BY <1>1, <2>1, NoSmallest
<1> QED
  BY <1>2

\* Any element may be taken first.
LEMMA SumRemove ==
  ASSUME NEW f, NEW S, IsFiniteSet(S), \A x \in S : f[x] \in Nat, NEW e \in S
  PROVE  SumOver(f, S) = f[e] + SumOver(f, S \ {e})
<1> DEFINE Wrong(T, x) == SumOver(f, T) # f[x] + SumOver(f, T \ {x})
           Bad == {T \in SUBSET S : \E x \in T : Wrong(T, x)}
<1>1. ASSUME NEW T \in Bad
      PROVE  \E U \in Bad : U \subseteq T /\ U # T
  <2>1. PICK x \in T : Wrong(T, x)
    OBVIOUS
  <2> DEFINE c == First(T)
  <2>2. T \in SUBSET S /\ c \in T /\ IsFiniteSet(T)
    BY FirstInside, FS_Subset
  <2>3. SumOver(f, T) = f[c] + SumOver(f, T \ {c})
    BY <2>2, SumStep DEF Others
  <2>4. c # x
    BY <2>1, <2>3
  <2>5. SUFFICES ASSUME T \ {c} \notin Bad, T \ {x} \notin Bad
                 PROVE  FALSE
    BY <2>1, <2>2
  <2>6. SumOver(f, T \ {c}) = f[x] + SumOver(f, (T \ {c}) \ {x})
    BY <2>1, <2>2, <2>4, <2>5
  <2>7. SumOver(f, T \ {x}) = f[c] + SumOver(f, (T \ {x}) \ {c})
    BY <2>1, <2>2, <2>4, <2>5
  <2>8. (T \ {c}) \ {x} = (T \ {x}) \ {c}
    OBVIOUS
  <2>9. SumOver(f, (T \ {x}) \ {c}) \in Nat /\ f[x] \in Nat /\ f[c] \in Nat
    <3>1. (T \ {x}) \ {c} \in SUBSET S /\ IsFiniteSet((T \ {x}) \ {c})
      BY <2>2, FS_Subset
    <3> QED
      BY <2>1, <2>2, <3>1, SumTyped
  <2> HIDE DEF c
  <2>10. SumOver(f, T) = f[x] + SumOver(f, T \ {x})
    BY <2>3, <2>6, <2>7, <2>8, <2>9, SMTT(40)
  <2> QED
    BY <2>1, <2>10
<1>2. Bad = {}
  <2> HIDE DEF Bad
  <2>1. Bad \in SUBSET SUBSET S
    BY DEF Bad
  <2> QED
    BY <1>1, <2>1, NoSmallest
<1> QED
  BY <1>2

LEMMA SumAdd ==
  ASSUME NEW f, NEW S, IsFiniteSet(S), NEW e, e \notin S,
         \A x \in S \cup {e} : f[x] \in Nat
  PROVE  SumOver(f, S \cup {e}) = f[e] + SumOver(f, S)
<1>1. IsFiniteSet(S \cup {e}) /\ (S \cup {e}) \ {e} = S
  BY FS_AddElement
<1> QED
  BY <1>1, SumRemove

\* Functions that agree on a set have the same sum over it.
LEMMA SumSame ==
  ASSUME NEW f, NEW h, NEW S, IsFiniteSet(S), \A x \in S : f[x] = h[x]
  PROVE  SumOver(f, S) = SumOver(h, S)
<1> DEFINE Bad == {T \in SUBSET S : SumOver(f, T) # SumOver(h, T)}
<1>1. ASSUME NEW T \in Bad
      PROVE  \E U \in Bad : U \subseteq T /\ U # T
  <2>1. T # {}
    BY SumOfNothing
  <2>2. /\ SumOver(f, T) = f[First(T)] + SumOver(f, Others(T))
        /\ SumOver(h, T) = h[First(T)] + SumOver(h, Others(T))
    BY <2>1, SumStep, FS_Subset
  <2>3. Others(T) \in Bad
    BY <2>1, <2>2, FirstInside
  <2> QED
    BY <2>1, <2>3, FirstInside
<1>2. Bad = {}
  <2> HIDE DEF Bad
  <2>1. Bad \in SUBSET SUBSET S
    BY DEF Bad
  <2> QED
    BY <1>1, <2>1, NoSmallest
<1> QED
  BY <1>2

\* The sum over a part and the sum over the rest.
LEMMA SumSplit ==
  ASSUME NEW f, NEW S, IsFiniteSet(S), \A x \in S : f[x] \in Nat,
         NEW T \in SUBSET S
  PROVE  /\ SumOver(f, S) = SumOver(f, T) + SumOver(f, S \ T)
         /\ SumOver(f, T) \in Nat /\ SumOver(f, S \ T) \in Nat
<1> DEFINE Bad == {U \in SUBSET T :
                     SumOver(f, S) # SumOver(f, U) + SumOver(f, S \ U)}
<1>1. ASSUME NEW U \in SUBSET T
      PROVE  /\ IsFiniteSet(U) /\ IsFiniteSet(S \ U)
             /\ SumOver(f, U) \in Nat /\ SumOver(f, S \ U) \in Nat
  <2>1. U \in SUBSET S /\ S \ U \in SUBSET S
    OBVIOUS
  <2>2. IsFiniteSet(U) /\ IsFiniteSet(S \ U)
    BY <2>1, FS_Subset
  <2> QED
    BY <2>1, <2>2, SumTyped
<1>2. ASSUME NEW U \in Bad
      PROVE  \E V \in Bad : V \subseteq U /\ V # U
  <2>1. U # {}
    <3>1. SumOver(f, S) \in Nat /\ S \ {} = S
      BY SumTyped
    <3> QED
      BY <3>1, SumOfNothing
  <2>2. PICK c \in U : TRUE
    BY <2>1
  <2> DEFINE V == U \ {c}
  <2>3. V \in SUBSET T /\ V \subseteq U /\ V # U
    OBVIOUS
  <2>4. SumOver(f, U) = f[c] + SumOver(f, V)
    BY <1>1, <2>2, SumRemove
  <2>5. SumOver(f, S \ V) = f[c] + SumOver(f, S \ U)
    <3>1. c \in S \ V /\ (S \ V) \ {c} = S \ U
      BY <2>2
    <3>2. IsFiniteSet(S \ V)
      BY <1>1, <2>3
    <3> HIDE DEF V
    <3> QED
      BY <3>1, <3>2, SumRemove
  <2>6. /\ SumOver(f, U) \in Nat /\ SumOver(f, S \ U) \in Nat /\ SumOver(f, V) \in Nat
        /\ SumOver(f, S \ V) \in Nat /\ f[c] \in Nat
    BY <1>1, <2>2, <2>3
  <2>7. V \in Bad
    BY <2>3, <2>4, <2>5, <2>6
  <2> QED
    BY <2>3, <2>7
<1>3. Bad = {}
  <2>1. IsFiniteSet(T)
    BY FS_Subset
  <2> HIDE DEF Bad
  <2>2. Bad \in SUBSET SUBSET T
    BY DEF Bad
  <2> QED
    BY <1>2, <2>1, <2>2, NoSmallest
<1> QED
  BY <1>1, <1>3

\* More elements, more sum.
LEMMA SumGrows ==
  ASSUME NEW f, NEW S, IsFiniteSet(S), \A x \in S : f[x] \in Nat,
         NEW T \in SUBSET S
  PROVE  SumOver(f, T) <= SumOver(f, S)
<1>1. /\ SumOver(f, S) = SumOver(f, T) + SumOver(f, S \ T)
      /\ SumOver(f, T) \in Nat /\ SumOver(f, S \ T) \in Nat
  BY SumSplit
<1> QED
  BY <1>1

\* A set each element of which is in some part weighs at most what the parts do.
LEMMA SumCovered ==
  ASSUME NEW f, NEW S, IsFiniteSet(S), \A x \in S : f[x] \in Nat,
         NEW C, IsFiniteSet(C), NEW part \in [C -> SUBSET S],
         NEW total, \A c \in C : total[c] = SumOver(f, part[c]),
         NEW T \in SUBSET S, \A x \in T : \E c \in C : x \in part[c]
  PROVE  /\ SumOver(total, C) \in Nat
         /\ SumOver(f, T) \in Nat
         /\ SumOver(f, T) <= SumOver(total, C)
<1> DEFINE Covered(D) == UNION {part[c] : c \in D}
           Right(D) == SumOver(f, Covered(D)) <= SumOver(total, D)
           Bad == {D \in SUBSET C : ~ Right(D)}
<1>1. \A D \in SUBSET C : Covered(D) \in SUBSET S /\ IsFiniteSet(Covered(D))
  <2>1. \A D \in SUBSET C : Covered(D) \in SUBSET S
    OBVIOUS
  <2> QED
    BY <2>1, FS_Subset
<1>2. \A c \in C : part[c] \in SUBSET S /\ IsFiniteSet(part[c])
                   /\ total[c] \in Nat
  <2>1. \A c \in C : part[c] \in SUBSET S /\ IsFiniteSet(part[c])
    BY FS_Subset
  <2>2. ASSUME NEW c \in C PROVE SumOver(f, part[c]) \in Nat
    BY <2>1, <2>2, SumTyped
  <2> QED
    BY <2>1, <2>2
<1>3. \A D \in SUBSET C : IsFiniteSet(D) /\ SumOver(total, D) \in Nat
  <2>1. ASSUME NEW D \in SUBSET C
        PROVE  IsFiniteSet(D) /\ SumOver(total, D) \in Nat
    <3>1. IsFiniteSet(D)
      BY FS_Subset
    <3> QED
      BY <1>2, <3>1, SumTyped
  <2> QED
    BY <2>1
<1>4. Right({})
  <2>1. Covered({}) = {}
    OBVIOUS
  <2>2. SumOver(f, {}) = 0 /\ SumOver(total, {}) = 0
    BY SumOfNothing
  <2> HIDE DEF Covered
  <2>3. SumOver(f, Covered({})) = 0
    BY <2>1, <2>2, Zenon
  <2> QED
    BY <2>2, <2>3
<1>5. ASSUME NEW D \in SUBSET C, NEW e \in D, Right(D \ {e})
      PROVE  Right(D)
  <2> DEFINE P == part[e]
             R == Covered(D \ {e})
  <2>1. Covered(D) = P \cup R /\ P \subseteq Covered(D)
    OBVIOUS
  <2>2. /\ SumOver(f, Covered(D))
             = SumOver(f, P) + SumOver(f, Covered(D) \ P)
        /\ SumOver(f, P) \in Nat /\ SumOver(f, Covered(D) \ P) \in Nat
    BY <1>1, <2>1, SumSplit
  <2>3. SumOver(f, Covered(D) \ P) <= SumOver(f, R)
    <3>1. Covered(D) \ P \in SUBSET R
      BY <2>1
    <3>2. R \in SUBSET S /\ IsFiniteSet(R)
      BY <1>1
    <3> QED
      BY <3>1, <3>2, SumGrows
  <2>4. SumOver(f, R) \in Nat
    BY <1>1, SumTyped
  <2>5. SumOver(total, D) = total[e] + SumOver(total, D \ {e})
    BY <1>2, <1>3, SumRemove
  <2>6. total[e] = SumOver(f, P) /\ SumOver(total, D \ {e}) \in Nat
    BY <1>3
  <2>7. SumOver(f, R) <= SumOver(total, D \ {e})
    BY <1>5
  <2> HIDE DEF P, R, Covered
  <2> QED
    BY <2>2, <2>3, <2>4, <2>5, <2>6, <2>7
<1> HIDE DEF Right
<1>6. Bad = {}
  <2>1. ASSUME NEW D \in Bad
        PROVE  \E U \in Bad : U \subseteq D /\ U # D
    <3>1. PICK e \in D : TRUE
      BY <1>4
    <3>2. ~ Right(D \ {e})
      BY <1>5
    <3> QED
      BY <3>1, <3>2
  <2>2. Bad \in SUBSET SUBSET C
    OBVIOUS
  <2> HIDE DEF Bad
  <2> QED
    BY <2>1, <2>2, NoSmallest
<1>7. SumOver(f, Covered(C)) <= SumOver(total, C) /\ SumOver(total, C) \in Nat
  BY <1>3, <1>6 DEF Right
<1>8. T \in SUBSET Covered(C)
  OBVIOUS
<1>9. Covered(C) \in SUBSET S /\ IsFiniteSet(Covered(C))
  BY <1>1
<1> HIDE DEF Covered
<1>10. SumOver(f, T) <= SumOver(f, Covered(C))
  BY <1>8, <1>9, SumGrows
<1>11. SumOver(f, T) \in Nat /\ SumOver(f, Covered(C)) \in Nat
  BY <1>8, <1>9, FS_Subset, SumTyped
<1> QED
  BY <1>7, <1>10, <1>11

\* Whatever solves the recursion gives the sum.
LEMMA FoldIsSum ==
  ASSUME NEW f, NEW S, IsFiniteSet(S), NEW g, Folds(f, S, g)
  PROVE  SumOver(f, S) = g[S]
<1> DEFINE k == CHOOSE x : Folds(f, S, x)
<1>1. Folds(f, S, k)
  OBVIOUS
<1>2. SumOver(f, S) = k[S]
  BY SumIsFold
<1> HIDE DEF k
<1> QED
  BY <1>1, <1>2, FoldsAgree

\* What is smaller everywhere has the smaller sum.
LEMMA SumBelow ==
  ASSUME NEW S, IsFiniteSet(S), NEW f, \A x \in S : f[x] \in Nat,
         NEW h, \A x \in S : h[x] \in Nat, \A x \in S : f[x] <= h[x]
  PROVE  SumOver(f, S) <= SumOver(h, S)
<1> DEFINE Bad == {T \in SUBSET S : ~(SumOver(f, T) <= SumOver(h, T))}
<1>1. ASSUME NEW T \in Bad
      PROVE  \E U \in Bad : U \subseteq T /\ U # T
  <2> DEFINE U == Others(T)
             x == First(T)
  <2>1. T # {}
    <3>1. SumOver(f, {}) = 0 /\ SumOver(h, {}) = 0
      BY SumOfNothing
    <3> QED
      BY <1>1, <3>1
  <2>2. IsFiniteSet(T) /\ U \subseteq T /\ U # T /\ x \in T
    BY <2>1, FirstInside, FS_Subset
  <2>3. SumOver(f, T) = f[x] + SumOver(f, U) /\ SumOver(h, T) = h[x] + SumOver(h, U)
    BY <2>1, <2>2, SumStep
  <2>4. IsFiniteSet(U) /\ \A y \in U : f[y] \in Nat /\ h[y] \in Nat
    BY <2>2, FS_Subset
  <2>5. SumOver(f, U) \in Nat /\ SumOver(h, U) \in Nat
    BY <2>4, SumTyped
  <2>6. f[x] \in Nat /\ h[x] \in Nat /\ f[x] <= h[x]
    BY <2>2
  <2> HIDE DEF U, x
  <2>7. ~(SumOver(f, U) <= SumOver(h, U))
    BY <1>1, <2>3, <2>5, <2>6
  <2> QED
    BY <2>2, <2>7
<1> HIDE DEF Bad
<1>2. Bad \in SUBSET SUBSET S
  BY DEF Bad
<1>3. Bad = {}
  BY <1>1, <1>2, NoSmallest
<1> QED
  BY <1>3 DEF Bad

\* The sum of the sums.
LEMMA SumPlus ==
  ASSUME NEW S, IsFiniteSet(S), NEW f, \A x \in S : f[x] \in Nat,
         NEW h, \A x \in S : h[x] \in Nat, NEW k, \A x \in S : k[x] = f[x] + h[x]
  PROVE  SumOver(k, S) = SumOver(f, S) + SumOver(h, S)
<1> DEFINE Bad == {T \in SUBSET S : SumOver(k, T) # SumOver(f, T) + SumOver(h, T)}
<1>1. ASSUME NEW T \in Bad
      PROVE  \E U \in Bad : U \subseteq T /\ U # T
  <2> DEFINE U == Others(T)
             x == First(T)
  <2>1. T # {}
    <3>1. SumOver(f, {}) = 0 /\ SumOver(h, {}) = 0 /\ SumOver(k, {}) = 0
      BY SumOfNothing
    <3>2. SumOver(k, {}) = SumOver(f, {}) + SumOver(h, {})
      BY <3>1
    <3> QED
      BY <3>2
  <2>2. IsFiniteSet(T) /\ U \subseteq T /\ U # T /\ x \in T
    BY <2>1, FirstInside, FS_Subset
  <2>3. /\ SumOver(f, T) = f[x] + SumOver(f, U) /\ SumOver(h, T) = h[x] + SumOver(h, U)
        /\ SumOver(k, T) = k[x] + SumOver(k, U)
    BY <2>1, <2>2, SumStep
  <2>4. IsFiniteSet(U) /\ \A y \in U : f[y] \in Nat /\ h[y] \in Nat
    BY <2>2, FS_Subset
  <2>5. SumOver(f, U) \in Nat /\ SumOver(h, U) \in Nat
    BY <2>4, SumTyped
  <2>6. f[x] \in Nat /\ h[x] \in Nat /\ k[x] = f[x] + h[x]
    BY <2>2
  <2> HIDE DEF U, x
  <2>7. SumOver(k, U) # SumOver(f, U) + SumOver(h, U)
    BY <1>1, <2>3, <2>5, <2>6
  <2> QED
    BY <2>2, <2>7
<1> HIDE DEF Bad
<1>2. Bad \in SUBSET SUBSET S
  BY DEF Bad
<1>3. Bad = {}
  BY <1>1, <1>2, NoSmallest
<1> QED
  BY <1>3 DEF Bad

\* What a set has in parts that do not overlap is the sum of the parts.
LEMMA SumOfParts ==
  ASSUME NEW f, NEW S, IsFiniteSet(S), \A x \in S : f[x] \in Nat,
         NEW C, IsFiniteSet(C), NEW part \in [C -> SUBSET S],
         \A c, d \in C : c # d => part[c] \cap part[d] = {},
         NEW total, \A c \in C : total[c] = SumOver(f, part[c])
  PROVE  /\ SumOver(f, UNION {part[c] : c \in C}) = SumOver(total, C)
         /\ \A c \in C : total[c] \in Nat
<1> DEFINE Covered(D) == UNION {part[c] : c \in D}
           Right(D) == SumOver(f, Covered(D)) = SumOver(total, D)
           Bad == {D \in SUBSET C : ~Right(D)}
<1>1. \A D \in SUBSET C : Covered(D) \in SUBSET S /\ IsFiniteSet(Covered(D)) /\ IsFiniteSet(D)
  <2>1. \A D \in SUBSET C : Covered(D) \in SUBSET S
    OBVIOUS
  <2> QED
    BY <2>1, FS_Subset
<1>2. \A c \in C : total[c] \in Nat
  <2>1. \A c \in C : part[c] \in SUBSET S /\ IsFiniteSet(part[c])
    BY FS_Subset
  <2>2. ASSUME NEW c \in C PROVE SumOver(f, part[c]) \in Nat
    BY <2>1, <2>2, SumTyped
  <2> QED
    BY <2>2
<1>3. Right({})
  <2>1. Covered({}) = {}
    OBVIOUS
  <2>2. SumOver(f, {}) = 0 /\ SumOver(total, {}) = 0
    BY SumOfNothing
  <2> QED
    BY <2>1, <2>2
<1>4. ASSUME NEW D \in SUBSET C, NEW e \in D, Right(D \ {e})
      PROVE  Right(D)
  <2> DEFINE P == part[e]
             R == Covered(D \ {e})
  <2>1. P \subseteq Covered(D) /\ Covered(D) \ P = R
    OBVIOUS
  <2>2. total[e] = SumOver(f, P) /\ SumOver(f, R) = SumOver(total, D \ {e})
    BY <1>4
  <2>3. Covered(D) \in SUBSET S /\ IsFiniteSet(Covered(D)) /\ IsFiniteSet(D)
    BY <1>1
  <2>4. \A x \in Covered(D) : f[x] \in Nat
    BY <2>3
  <2>5. P \in SUBSET Covered(D)
    BY <2>1
  <2>6. \A c \in D : total[c] \in Nat
    BY <1>2
  <2> HIDE DEF P, R, Covered
  <2>7. SumOver(f, Covered(D)) = SumOver(f, P) + SumOver(f, Covered(D) \ P)
    BY <2>3, <2>4, <2>5, SumSplit
  <2>8. SumOver(total, D) = total[e] + SumOver(total, D \ {e})
    BY <2>3, <2>6, SumRemove, <1>4
  <2>9. SumOver(f, Covered(D)) = SumOver(total, D)
    BY <2>1, <2>2, <2>7, <2>8
  <2> QED
    BY <2>9
<1> HIDE DEF Right
<1>5. Bad = {}
  <2>1. ASSUME NEW D \in Bad
        PROVE  \E U \in Bad : U \subseteq D /\ U # D
    <3>1. PICK e \in D : TRUE
      BY <1>3
    <3>2. ~Right(D \ {e})
      BY <1>4
    <3> QED
      BY <3>1, <3>2
  <2> QED
    BY <2>1, NoSmallest
<1> QED
  BY <1>2, <1>5 DEF Right

-----------------------------------------------------------------------------
(* Recursion over the naturals. *)

\* The first n + 1 values of a function that starts with a and goes on by step.
Begins(g, n, a, step) ==
  g[0] = a /\ \A i \in 1 .. n : g[i] = step[g[i - 1]]

\* A function that starts with a value and goes on by a step exists.
LEMMA RecursionExists ==
  ASSUME NEW S, NEW a \in S, NEW step \in [S -> S]
  PROVE  \E g \in [Nat -> S] : g[0] = a /\ \A n \in Nat : g[n + 1] = step[g[n]]
<1> DEFINE Short(n) == {g \in [Nat -> S] : Begins(g, n, a, step)}
           Bad == {n \in Nat : Short(n) = {}}
<1>1. \A n \in Nat : Short(n) # {}
  <2>1. ASSUME NEW n \in Bad
        PROVE  \E m \in Bad : m < n
    <3>1. CASE n = 0
      <4>1. [i \in Nat |-> a] \in Short(0)
        BY DEF Begins
      <4> QED
        BY <3>1, <4>1
    <3>2. CASE n # 0
      <4>1. SUFFICES ASSUME n - 1 \notin Bad PROVE FALSE
        BY <3>2
      <4>2. PICK g \in [Nat -> S] : Begins(g, n - 1, a, step)
        BY <3>2, <4>1
      <4> DEFINE h == [g EXCEPT ![n] = step[g[n - 1]]]
      <4>3. h \in [Nat -> S]
        BY <3>2, <4>2
      <4>4. \A i \in Nat : h[i] = IF i = n THEN step[g[n - 1]] ELSE g[i]
        BY <4>2
      <4> HIDE DEF h
      <4>5. Begins(h, n, a, step)
        BY <3>2, <4>2, <4>4 DEF Begins
      <4> QED
        BY <4>3, <4>5
    <3> QED
      BY <3>1, <3>2
  <2>2. Bad = {}
    <3> HIDE DEF Bad
    <3>1. Bad \in SUBSET Nat
      BY DEF Bad
    <3> QED
      BY <2>1, <3>1, NoLeast
  <2> QED
    BY <2>2
<1>2. ASSUME NEW m \in Nat, NEW n \in Nat, m <= n,
             NEW g \in Short(m), NEW h \in Short(n)
      PROVE  g[m] = h[m]
  <2> DEFINE Differ == {i \in 0 .. m : g[i] # h[i]}
  <2>1. ASSUME NEW i \in Differ
        PROVE  \E j \in Differ : j < i
    <3>1. i # 0 /\ i - 1 \in 0 .. m /\ i \in 1 .. m /\ i \in 1 .. n
      BY <1>2 DEF Begins
    <3>2. g[i] = step[g[i - 1]] /\ h[i] = step[h[i - 1]]
      BY <3>1 DEF Begins
    <3> QED
      BY <3>1, <3>2
  <2>2. Differ = {}
    <3> HIDE DEF Differ
    <3>1. Differ \in SUBSET Nat
      BY DEF Differ
    <3> QED
      BY <2>1, <3>1, NoLeast
  <2> QED
    BY <1>2, <2>2
<1> DEFINE G(n) == CHOOSE g : g \in Short(n)
           f == [n \in Nat |-> G(n)[n]]
<1>3. \A n \in Nat : G(n) \in Short(n)
  BY <1>1
<1> HIDE DEF G
<1>4. f \in [Nat -> S]
  BY <1>3
<1>5. f[0] = a
  <2>1. G(0)[0] = a
    BY <1>3 DEF Begins
  <2> QED
    BY <2>1
<1>6. ASSUME NEW n \in Nat
      PROVE  f[n + 1] = step[f[n]]
  <2>1. G(n) \in Short(n) /\ G(n + 1) \in Short(n + 1) /\ n <= n + 1 /\ n + 1 \in Nat
    BY <1>3
  <2>2. G(n)[n] = G(n + 1)[n]
    <3> HIDE DEF Short
    <3> QED
      BY <1>2, <2>1
  <2>3. n + 1 \in 1 .. n + 1 /\ (n + 1) - 1 = n
    OBVIOUS
  <2>4. G(n + 1)[n + 1] = step[G(n + 1)[n]]
    BY <2>1, <2>3 DEF Begins
  <2> QED
    BY <2>2, <2>4
<1> QED
  BY <1>4, <1>5, <1>6

\* Powers of two double, and are never 0.
LEMMA PowersOfTwo ==
  /\ TwoTo \in [Nat -> Nat \ {0}]
  /\ TwoTo[0] = 1
  /\ \A n \in Nat : TwoTo[n + 1] = 2 * TwoTo[n]
<1> DEFINE S == Nat \ {0}
           double == [v \in S |-> 2 * v]
           Doubles(g) == g = [n \in Nat |-> IF n = 0 THEN 1 ELSE 2 * g[n - 1]]
<1>1. PICK g \in [Nat -> S] : g[0] = 1 /\ \A n \in Nat : g[n + 1] = double[g[n]]
  <2> DEFINE one == 1
  <2>1. double \in [S -> S] /\ one \in S
    OBVIOUS
  <2> HIDE DEF S, double, one
  <2>2. \E g \in [Nat -> S] :
          g[0] = one /\ \A n \in Nat : g[n + 1] = double[g[n]]
    BY <2>1, RecursionExists
  <2> QED
    BY <2>2 DEF one
<1>2. Doubles(g)
  <2>1. \A n \in Nat : g[n] = IF n = 0 THEN 1 ELSE 2 * g[n - 1]
    <3> TAKE n \in Nat
    <3>1. CASE n # 0
      <4>1. n - 1 \in Nat /\ g[(n - 1) + 1] = double[g[n - 1]] /\ g[n - 1] \in S
        BY <1>1, <3>1
      <4> QED
        BY <3>1, <4>1
    <3> QED
      BY <1>1, <3>1
  <2> QED
    BY <2>1
<1>3. Doubles(TwoTo)
  <2>1. TwoTo = CHOOSE h : Doubles(h)
    BY DEF TwoTo
  <2> HIDE DEF Doubles
  <2> QED
    BY <1>2, <2>1
<1>4. \A n \in Nat : TwoTo[n] = IF n = 0 THEN 1 ELSE 2 * TwoTo[n - 1]
  BY <1>3
<1>5. \A n \in Nat : TwoTo[n] \in S
  <2> DEFINE Bad == {n \in Nat : TwoTo[n] \notin S}
  <2>1. ASSUME NEW n \in Bad
        PROVE  \E m \in Bad : m < n
    <3>1. n # 0 /\ n - 1 \in Nat /\ TwoTo[n - 1] \notin S
      BY <1>4
    <3> QED
      BY <3>1
  <2>2. Bad = {}
    <3> HIDE DEF Bad
    <3>1. Bad \in SUBSET Nat
      BY DEF Bad
    <3> QED
      BY <2>1, <3>1, NoLeast
  <2> QED
    BY <2>2
<1>6. TwoTo = [n \in Nat |-> TwoTo[n]]
  BY <1>3
<1>7. TwoTo \in [Nat -> S]
  <2> HIDE DEF S
  <2> QED
    BY <1>5, <1>6
<1>8. ASSUME NEW n \in Nat
      PROVE  TwoTo[n + 1] = 2 * TwoTo[n]
  <2>1. n + 1 \in Nat /\ n + 1 # 0 /\ (n + 1) - 1 = n
    OBVIOUS
  <2> QED
    BY <1>4, <2>1
<1> QED
  BY <1>4, <1>7, <1>8

-----------------------------------------------------------------------------
(* Sequences and extremes. *)

LEMMA SubSeqTyped ==
  ASSUME NEW S, NEW s \in Seq(S), NEW m \in Nat \ {0}, NEW n \in Int, n <= Len(s)
  PROVE  /\ SubSeq(s, m, n) \in Seq(S)
         /\ Len(SubSeq(s, m, n)) = IF m <= n THEN n - m + 1 ELSE 0
         /\ \A i \in 1 .. n - m + 1 : SubSeq(s, m, n)[i] = s[m + i - 1]
<1>1. \A i \in m .. n : s[i] \in S
  BY ElementOfSeq
<1> QED
  BY <1>1, SubSeqProperties, SMTT(40)

LEMMA PrefixTyped ==
  ASSUME NEW S, NEW s \in Seq(S), Len(s) >= 1
  PROVE  /\ SubSeq(s, 1, Len(s) - 1) \in Seq(S)
         /\ Len(SubSeq(s, 1, Len(s) - 1)) = Len(s) - 1
         /\ \A i \in 1 .. Len(s) - 1 : SubSeq(s, 1, Len(s) - 1)[i] = s[i]
<1> DEFINE one == 1
           n == Len(s) - 1
<1>1. Len(s) \in Nat
  BY LenProperties
<1>2. /\ one \in Nat \ {0} /\ n \in Int /\ n <= Len(s)
      /\ n \in Nat /\ (one <= n \/ n <= 0) /\ n - one + 1 = n
  BY <1>1
<1>3. \A i \in Int : one + i - 1 = i
  OBVIOUS
<1> HIDE DEF one, n
<1>4. /\ SubSeq(s, one, n) \in Seq(S)
      /\ Len(SubSeq(s, one, n)) = IF one <= n THEN n - one + 1 ELSE 0
      /\ \A i \in 1 .. n - one + 1 : SubSeq(s, one, n)[i] = s[one + i - 1]
  BY <1>2, SubSeqTyped
<1>5. /\ SubSeq(s, one, n) \in Seq(S) /\ Len(SubSeq(s, one, n)) = n
      /\ \A i \in 1 .. n : SubSeq(s, one, n)[i] = s[i]
  BY <1>2, <1>3, <1>4
<1> QED
  BY <1>5, Zenon DEF one, n

LEMMA MaxOfTwo ==
  ASSUME NEW a \in Int, NEW b \in Int
  PROVE  /\ Max({a, b}) \in {a, b}
         /\ Max({a, b}) >= a /\ Max({a, b}) >= b
<1>1. CASE a >= b
  BY <1>1, \A y \in {a, b} : a >= y DEF Max
<1>2. CASE b >= a
  BY <1>2, \A y \in {a, b} : b >= y DEF Max
<1> QED
  BY <1>1, <1>2

LEMMA MinOfTwo ==
  ASSUME NEW a \in Int, NEW b \in Int
  PROVE  Min({a, b}) <= a /\ Min({a, b}) <= b
<1>1. CASE a <= b
  BY <1>1, \A y \in {a, b} : a <= y DEF Min
<1>2. CASE b <= a
  BY <1>2, \A y \in {a, b} : b <= y DEF Min
<1> QED
  BY <1>1, <1>2

=============================================================================
