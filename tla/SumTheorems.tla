---------------------------- MODULE SumTheorems ----------------------------
(***************************************************************************)
(* Sums over finite sets, for proofs about what adds up amounts.           *)
(*                                                                         *)
(* SumFunctionOnSet takes a set apart one CHOOSEn element after another,   *)
(* by a recursive function.  That there is such a function, and that the   *)
(* order makes no difference, takes induction on finite sets.  It is used  *)
(* here in its first-order form, that the least of the sets for which      *)
(* something fails would be one for which it holds (Smallest).             *)
(***************************************************************************)
EXTENDS Functions, FiniteSetTheorems, TLAPS

\* The element at which a sum is taken apart.
Pick(s) == CHOOSE x \in s : TRUE

\* The sum of f over s, if g has those over smaller sets.
Plus(f, g, s) == IF s = {} THEN 0 ELSE f[Pick(s)] + g[s \ {Pick(s)}]

\* g has the sums of f over the subsets of S.
Sums(f, g, S) == g = [s \in SUBSET S |-> Plus(f, g, s)]

-----------------------------------------------------------------------------
(* Sums exist *)

\* Some of the subsets of a finite set include no other of them.
LEMMA Smallest ==
  ASSUME NEW S, IsFiniteSet(S), NEW B \in SUBSET (SUBSET S), B # {}
  PROVE  \E T \in B : \A U \in B : U \subseteq T => U = T
<1>1. IsWellFoundedOn(StrictSubsetOrdering(S), SUBSET S)
  BY FS_StrictSubsetOrderingWellFounded, FS_FiniteSubsetsOfFinite
<1>2. PICK T \in B : \A U \in B : <<U, T>> \notin StrictSubsetOrdering(S)
  BY <1>1, WFMin
<1> QED BY <1>2 DEF StrictSubsetOrdering

\* What is left when an element is taken away.
LEMMA Rest ==
  ASSUME NEW s, s # {}
  PROVE  Pick(s) \in s /\ s \ {Pick(s)} \subseteq s /\ s \ {Pick(s)} # s
BY DEF Pick

\* There are not two ways to sum.
LEMMA SumsUnique ==
  ASSUME NEW f, NEW S, IsFiniteSet(S), NEW g, NEW h, Sums(f, g, S), Sums(f, h, S)
  PROVE  g = h
<1> DEFINE B == {T \in SUBSET S : g[T] # h[T]}
<1>1. ASSUME B # {} PROVE FALSE
  <2>1. PICK T \in B : \A U \in B : U \subseteq T => U = T
    <3>1. B \in SUBSET (SUBSET S)
      OBVIOUS
    <3> HIDE DEF B
    <3> QED BY <1>1, <3>1, Smallest
  <2>2. T \in SUBSET S /\ g[T] # h[T]
    BY <2>1
  <2>3. g[T] = Plus(f, g, T) /\ h[T] = Plus(f, h, T)
    BY <2>2 DEF Sums
  <2>4. T # {}
    BY <2>2, <2>3 DEF Plus
  <2>5. g[T \ {Pick(T)}] = h[T \ {Pick(T)}]
    <3>1. T \ {Pick(T)} \in SUBSET S /\ T \ {Pick(T)} \notin B
      BY <2>1, <2>2, <2>4, Rest
    <3> QED BY <3>1
  <2> QED BY <2>2, <2>3, <2>5 DEF Plus
<1>2. \A T \in SUBSET S : g[T] = h[T]
  BY <1>1
<1> QED BY <1>2 DEF Sums

\* Sums over the subsets of S include those over the subsets of its subsets.
LEMMA SumsBelow ==
  ASSUME NEW f, NEW S, NEW g, Sums(f, g, S), NEW T \in SUBSET S
  PROVE  Sums(f, [s \in SUBSET T |-> g[s]], T)
<1> DEFINE h == [s \in SUBSET T |-> g[s]]
<1>1. ASSUME NEW s \in SUBSET T PROVE h[s] = Plus(f, h, s)
  <2>1. g[s] = Plus(f, g, s)
    BY DEF Sums
  <2>2. CASE s = {}
    BY <2>1, <2>2 DEF Plus
  <2>3. CASE s # {}
    <3>1. s \ {Pick(s)} \in SUBSET T
      BY <2>3, Rest
    <3> QED BY <2>1, <2>3, <3>1 DEF Plus
  <2> QED BY <2>2, <2>3
<1>2. h = [s \in SUBSET T |-> h[s]]
  OBVIOUS
<1> HIDE DEF h
<1>3. h = [s \in SUBSET T |-> Plus(f, h, s)]
  BY <1>1, <1>2
<1> QED BY <1>3 DEF Sums, h

\* There is a way to sum.
LEMMA SumsExist ==
  ASSUME NEW f, NEW S, IsFiniteSet(S)
  PROVE  \E g : Sums(f, g, S)
<1> DEFINE B == {T \in SUBSET S : ~ \E g : Sums(f, g, T)}
<1>1. ASSUME NEW T \in SUBSET S, \A U \in SUBSET T : U # T => \E g : Sums(f, g, U)
      PROVE  \E g : Sums(f, g, T)
  <2> DEFINE G(U) == CHOOSE g : Sums(f, g, U)
             h == [s \in SUBSET T |->
                     IF s = {} THEN 0
                     ELSE f[Pick(s)] + G(s \ {Pick(s)})[s \ {Pick(s)}]]
  <2>1. ASSUME NEW U \in SUBSET T, U # T PROVE Sums(f, G(U), U) /\ IsFiniteSet(U)
    BY <1>1, <2>1, FS_Subset
  <2>2. ASSUME NEW U \in SUBSET T, U # T PROVE h[U] = G(U)[U]
    <3>1. Sums(f, G(U), U) /\ IsFiniteSet(U)
      BY <2>1, <2>2
    <3>2. G(U)[U] = Plus(f, G(U), U)
      BY <3>1 DEF Sums
    <3>3. CASE U = {}
      BY <3>2, <3>3 DEF Plus
    <3>4. CASE U # {}
      <4> DEFINE V == U \ {Pick(U)}
      <4>1. V \in SUBSET U /\ V \in SUBSET T /\ V # T
        BY <2>2, <3>4, Rest
      <4>2. Sums(f, [s \in SUBSET V |-> G(U)[s]], V)
        BY <3>1, <4>1, SumsBelow
      <4>3. Sums(f, G(V), V) /\ IsFiniteSet(V)
        BY <2>1, <4>1
      <4>4. G(V) = [s \in SUBSET V |-> G(U)[s]]
        BY <4>2, <4>3, SumsUnique
      <4>5. G(V)[V] = G(U)[V]
        BY <4>4
      <4> QED BY <3>2, <3>4, <4>5 DEF Plus
    <3> QED BY <3>3, <3>4
  <2>3. ASSUME NEW s \in SUBSET T PROVE h[s] = Plus(f, h, s)
    <3>1. CASE s = {}
      BY <3>1 DEF Plus
    <3>2. CASE s # {}
      <4> DEFINE V == s \ {Pick(s)}
      <4>1. V \in SUBSET T /\ V # T
        BY <3>2, Rest
      <4>2. h[V] = G(V)[V]
        BY <2>2, <4>1
      <4>3. h[s] = f[Pick(s)] + G(V)[V]
        BY <3>2
      <4>4. Plus(f, h, s) = f[Pick(s)] + h[V]
        BY <3>2 DEF Plus
      <4> QED BY <4>2, <4>3, <4>4
    <3> QED BY <3>1, <3>2
  <2>4. h = [s \in SUBSET T |-> h[s]]
    OBVIOUS
  <2> HIDE DEF h
  <2>5. h = [s \in SUBSET T |-> Plus(f, h, s)]
    BY <2>3, <2>4
  <2> QED BY <2>5 DEF Sums
<1>2. ASSUME B # {} PROVE FALSE
  <2>1. PICK T \in B : \A U \in B : U \subseteq T => U = T
    <3>1. B \in SUBSET (SUBSET S)
      OBVIOUS
    <3> HIDE DEF B
    <3> QED BY <1>2, <3>1, Smallest
  <2>2. \A U \in SUBSET T : U # T => \E g : Sums(f, g, U)
    BY <2>1
  <2> QED BY <1>1, <2>1, <2>2
<1> QED BY <1>2

-----------------------------------------------------------------------------
(* How to sum *)

\* The sums of SumFunctionOnSet are the ones above.
LEMMA SumIs ==
  ASSUME NEW f, NEW S, IsFiniteSet(S)
  PROVE  \E g : Sums(f, g, S) /\ \A T \in SUBSET S : SumFunctionOnSet(f, T) = g[T]
<1> DEFINE G(U) == CHOOSE g : Sums(f, g, U)
<1>1. ASSUME NEW T \in SUBSET S PROVE Sums(f, G(T), T) /\ IsFiniteSet(T)
  BY SumsExist, FS_Subset
<1>2. \A T : SumFunctionOnSet(f, T) = G(T)[T]
  BY DEF SumFunctionOnSet, FoldFunctionOnSet, MapThenFoldSet, Sums, Plus, Pick
<1> HIDE DEF G
<1>3. ASSUME NEW T \in SUBSET S PROVE G(T)[T] = G(S)[T]
  <2>1. Sums(f, [s \in SUBSET T |-> G(S)[s]], T)
    BY <1>1, SumsBelow
  <2>2. G(T) = [s \in SUBSET T |-> G(S)[s]]
    BY <1>1, <2>1, SumsUnique
  <2> QED BY <2>2
<1> QED BY <1>1, <1>2, <1>3

\* Nothing adds up to nothing; otherwise one element is added to the rest.
LEMMA SumStep ==
  ASSUME NEW f, NEW S, IsFiniteSet(S)
  PROVE  /\ SumFunctionOnSet(f, {}) = 0
         /\ S # {} => SumFunctionOnSet(f, S)
                        = f[Pick(S)] + SumFunctionOnSet(f, S \ {Pick(S)})
<1>1. PICK g : Sums(f, g, S) /\ \A T \in SUBSET S : SumFunctionOnSet(f, T) = g[T]
  BY SumIs
<1>2. \A T \in SUBSET S : g[T] = Plus(f, g, T)
  BY <1>1 DEF Sums
<1>3. g[{}] = 0 /\ (S # {} => g[S] = f[Pick(S)] + g[S \ {Pick(S)}])
  BY <1>2 DEF Plus
<1> QED BY <1>1, <1>3, Rest

\* A sum of integers is one.
LEMMA SumType ==
  ASSUME NEW f, NEW S, IsFiniteSet(S), \A x \in S : f[x] \in Int
  PROVE  SumFunctionOnSet(f, S) \in Int
<1> DEFINE B == {T \in SUBSET S : SumFunctionOnSet(f, T) \notin Int}
<1>1. ASSUME B # {} PROVE FALSE
  <2>1. PICK T \in B : \A U \in B : U \subseteq T => U = T
    <3>1. B \in SUBSET (SUBSET S)
      OBVIOUS
    <3> HIDE DEF B
    <3> QED BY <1>1, <3>1, Smallest
  <2>2. IsFiniteSet(T) /\ T \in SUBSET S /\ SumFunctionOnSet(f, T) \notin Int
    BY <2>1, FS_Subset
  <2>3. T # {}
    <3>1. SumFunctionOnSet(f, {}) = 0
      BY <2>2, SumStep
    <3> QED BY <2>2, <3>1
  <2>4. T \ {Pick(T)} \notin B /\ T \ {Pick(T)} \in SUBSET S /\ f[Pick(T)] \in Int
    BY <2>1, <2>2, <2>3, Rest
  <2>5. SumFunctionOnSet(f, T) = f[Pick(T)] + SumFunctionOnSet(f, T \ {Pick(T)})
    BY <2>2, <2>3, SumStep
  <2> QED BY <2>2, <2>4, <2>5
<1> QED BY <1>1

\* What is summed may be taken apart at any element.
LEMMA SumRemove ==
  ASSUME NEW f, NEW S, IsFiniteSet(S), \A x \in S : f[x] \in Int, NEW x \in S
  PROVE  SumFunctionOnSet(f, S) = f[x] + SumFunctionOnSet(f, S \ {x})
<1> DEFINE B == {T \in SUBSET S :
                   \E y \in T : SumFunctionOnSet(f, T) # f[y] + SumFunctionOnSet(f, T \ {y})}
<1>1. ASSUME B # {} PROVE FALSE
  <2>1. PICK T \in B : \A U \in B : U \subseteq T => U = T
    <3>1. B \in SUBSET (SUBSET S)
      OBVIOUS
    <3> HIDE DEF B
    <3> QED BY <1>1, <3>1, Smallest
  <2>2. T \in SUBSET S /\ IsFiniteSet(T)
    BY <2>1, FS_Subset
  <2>3. PICK y \in T : SumFunctionOnSet(f, T) # f[y] + SumFunctionOnSet(f, T \ {y})
    BY <2>1
  <2>4. PICK c : c = Pick(T)
    OBVIOUS
  <2>5. /\ c \in T /\ T \ {c} # T
        /\ SumFunctionOnSet(f, T) = f[c] + SumFunctionOnSet(f, T \ {c})
    BY <2>2, <2>3, <2>4, Rest, SumStep
  <2>6. y # c
    BY <2>3, <2>5
  <2>7. /\ T \ {c} \in SUBSET T /\ T \ {c} # T /\ T \ {y} \in SUBSET T /\ T \ {y} # T
        /\ y \in T \ {c} /\ c \in T \ {y}
    BY <2>3, <2>5, <2>6
  <2>8. /\ SumFunctionOnSet(f, T \ {c}) = f[y] + SumFunctionOnSet(f, (T \ {c}) \ {y})
        /\ SumFunctionOnSet(f, T \ {y}) = f[c] + SumFunctionOnSet(f, (T \ {y}) \ {c})
    BY <2>1, <2>2, <2>7
  <2>9. (T \ {c}) \ {y} = (T \ {y}) \ {c}
    OBVIOUS
  <2>10. /\ f[y] \in Int /\ f[c] \in Int
         /\ SumFunctionOnSet(f, (T \ {y}) \ {c}) \in Int
    <3>1. (T \ {y}) \ {c} \in SUBSET T
      OBVIOUS
    <3>2. IsFiniteSet((T \ {y}) \ {c}) /\ \A z \in (T \ {y}) \ {c} : f[z] \in Int
      BY <2>2, <3>1, FS_Subset
    <3> QED BY <2>2, <2>3, <2>5, <3>2, SumType
  <2>11. PICK a \in Int, b \in Int, z \in Int :
           /\ a = f[y] /\ b = f[c] /\ z = SumFunctionOnSet(f, (T \ {y}) \ {c})
    BY <2>10
  <2>12. /\ SumFunctionOnSet(f, T) = b + (a + z)
         /\ SumFunctionOnSet(f, T \ {y}) = b + z
         /\ SumFunctionOnSet(f, T) # a + SumFunctionOnSet(f, T \ {y})
    BY <2>3, <2>5, <2>8, <2>9, <2>11
  <2>13. b + (a + z) = a + (b + z)
    OBVIOUS
  <2> QED BY <2>12, <2>13
<1>2. S \notin B
  BY <1>1
<1> QED BY <1>2

\* Equal terms have equal sums.
LEMMA SumSame ==
  ASSUME NEW f, NEW g, NEW S, IsFiniteSet(S), \A x \in S : f[x] = g[x]
  PROVE  SumFunctionOnSet(f, S) = SumFunctionOnSet(g, S)
<1> DEFINE B == {T \in SUBSET S : SumFunctionOnSet(f, T) # SumFunctionOnSet(g, T)}
<1>1. ASSUME B # {} PROVE FALSE
  <2>1. PICK T \in B : \A U \in B : U \subseteq T => U = T
    <3>1. B \in SUBSET (SUBSET S)
      OBVIOUS
    <3> HIDE DEF B
    <3> QED BY <1>1, <3>1, Smallest
  <2>2. /\ IsFiniteSet(T) /\ T \in SUBSET S
        /\ SumFunctionOnSet(f, T) # SumFunctionOnSet(g, T)
    BY <2>1, FS_Subset
  <2>3. T # {}
    BY <2>2, SumStep
  <2>4. T \ {Pick(T)} \notin B /\ T \ {Pick(T)} \in SUBSET S /\ f[Pick(T)] = g[Pick(T)]
    BY <2>1, <2>2, <2>3, Rest
  <2>5. /\ SumFunctionOnSet(f, T) = f[Pick(T)] + SumFunctionOnSet(f, T \ {Pick(T)})
        /\ SumFunctionOnSet(g, T) = g[Pick(T)] + SumFunctionOnSet(g, T \ {Pick(T)})
    BY <2>2, <2>3, SumStep
  <2> QED BY <2>2, <2>4, <2>5
<1> QED BY <1>1

-----------------------------------------------------------------------------
(* How a sum changes *)

\* One element more adds its term.
LEMMA SumAdd ==
  ASSUME NEW f, NEW g, NEW S, IsFiniteSet(S), NEW x, x \notin S, f[x] \in Int,
         \A y \in S : f[y] \in Int /\ g[y] = f[y]
  PROVE  SumFunctionOnSet(f, S \cup {x}) = SumFunctionOnSet(g, S) + f[x]
<1>1. IsFiniteSet(S \cup {x}) /\ x \in S \cup {x} /\ \A y \in S \cup {x} : f[y] \in Int
  BY FS_AddElement
<1>2. SumFunctionOnSet(f, S \cup {x})
        = f[x] + SumFunctionOnSet(f, (S \cup {x}) \ {x})
  BY <1>1, SumRemove
<1>3. (S \cup {x}) \ {x} = S
  OBVIOUS
<1>4. SumFunctionOnSet(f, S) = SumFunctionOnSet(g, S)
  BY SumSame
<1>5. PICK a \in Int, b \in Int : a = f[x] /\ b = SumFunctionOnSet(f, S)
  BY SumType
<1>6. SumFunctionOnSet(f, S \cup {x}) = a + b
  BY <1>2, <1>3, <1>5
<1>7. a + b = b + a
  OBVIOUS
<1> QED BY <1>4, <1>5, <1>6, <1>7

\* A term that changes changes the sum by as much.
LEMMA SumChange ==
  ASSUME NEW f, NEW g, NEW S, IsFiniteSet(S), NEW x \in S,
         \A y \in S : f[y] \in Int /\ g[y] \in Int,
         \A y \in S \ {x} : g[y] = f[y]
  PROVE  SumFunctionOnSet(g, S) = SumFunctionOnSet(f, S) + (g[x] - f[x])
<1>1. IsFiniteSet(S \ {x})
  BY FS_RemoveElement
<1>2. /\ SumFunctionOnSet(f, S) = f[x] + SumFunctionOnSet(f, S \ {x})
      /\ SumFunctionOnSet(g, S) = g[x] + SumFunctionOnSet(g, S \ {x})
  BY SumRemove
<1>3. SumFunctionOnSet(g, S \ {x}) = SumFunctionOnSet(f, S \ {x})
  BY <1>1, SumSame
<1>4. PICK a \in Int, b \in Int, z \in Int :
        a = f[x] /\ b = g[x] /\ z = SumFunctionOnSet(f, S \ {x})
  BY <1>1, SumType
<1>5. SumFunctionOnSet(f, S) = a + z /\ SumFunctionOnSet(g, S) = b + z
  BY <1>2, <1>3, <1>4
<1>6. b + z = (a + z) + (b - a)
  OBVIOUS
<1> QED BY <1>4, <1>5, <1>6

\* Zeros add up to zero.
LEMMA SumZero ==
  ASSUME NEW f, NEW S, IsFiniteSet(S), \A x \in S : f[x] = 0
  PROVE  SumFunctionOnSet(f, S) = 0
<1> DEFINE h == [s \in SUBSET S |-> 0]
<1>1. PICK g : Sums(f, g, S) /\ \A T \in SUBSET S : SumFunctionOnSet(f, T) = g[T]
  BY SumIs
<1>2. ASSUME NEW s \in SUBSET S PROVE h[s] = Plus(f, h, s)
  <2>1. CASE s = {}
    BY <2>1 DEF Plus
  <2>2. CASE s # {}
    <3>1. Pick(s) \in S /\ s \ {Pick(s)} \in SUBSET S
      BY <2>2, Rest
    <3>2. f[Pick(s)] = 0 /\ h[s \ {Pick(s)}] = 0
      BY <3>1
    <3> QED BY <2>2, <3>2 DEF Plus
  <2> QED BY <2>1, <2>2
<1>3. h = [s \in SUBSET S |-> h[s]]
  OBVIOUS
<1>4. h[S] = 0
  OBVIOUS
<1> HIDE DEF h
<1>5. Sums(f, h, S)
  BY <1>2, <1>3 DEF Sums
<1>6. g = h
  BY <1>1, <1>5, SumsUnique
<1> QED BY <1>1, <1>4, <1>6
=============================================================================
