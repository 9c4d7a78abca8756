------------------------------ MODULE SumProofs ------------------------------
(* Sums and greatest elements of finite sets: what SumFunctionOnSet(w, S) adds *)
(* up to, whichever element the fold takes first.  The models' totals rest on  *)
(* these: wrong answers within a window, the weights of risk causes and marks. *)
(* Induction is by the smallest counterexample among finite sets.              *)
EXTENDS FiniteSetsExt, FiniteSetTheorems, TLAPS

\* A family of finite sets has a member none of whose proper subsets is in it.
LEMMA SmallestMember ==
  ASSUME NEW U, NEW F, F \subseteq FiniteSubsetsOf(U), F # {}
  PROVE  \E S \in F : \A T \in F : ~(T \subseteq S /\ T # S)
<1>1. PICK S \in F : \A T \in F : <<T, S>> \notin StrictSubsetOrdering(U)
  BY FS_StrictSubsetOrderingWellFounded, WFMin
<1>2. \A T \in F : T \in SUBSET U
  BY DEF FiniteSubsetsOf
<1> QED BY <1>1, <1>2 DEF StrictSubsetOrdering

-----------------------------------------------------------------------------
(* The fold is a function on the subsets of S that exists and is the only one. *)

\* The element the fold takes first, and one step of it.
FirstTaken(s) == CHOOSE x \in s : TRUE
AddedUp(w, g, s) == IF s = {} THEN 0 ELSE w[FirstTaken(s)] + g[s \ {FirstTaken(s)}]
FoldsTo(w, S, g) == g = [s \in SUBSET S |-> AddedUp(w, g, s)]

LEMMA SumUnfolds ==
  ASSUME NEW w, NEW S
  PROVE  SumFunctionOnSet(w, S) = (CHOOSE g : FoldsTo(w, S, g))[S]
BY DEF SumFunctionOnSet, FoldFunctionOnSet, MapThenFoldSet, FoldsTo, AddedUp, FirstTaken

LEMMA TotalsAgree ==
  ASSUME NEW w, NEW S, NEW T, NEW g, NEW h, FoldsTo(w, S, g), FoldsTo(w, T, h),
         NEW U, U \subseteq S, U \subseteq T, IsFiniteSet(U)
  PROVE  g[U] = h[U]
<1> DEFINE F == {V \in FiniteSubsetsOf(U) : g[V] # h[V]}
<1>1. SUFFICES ASSUME F # {} PROVE FALSE
  BY DEF FiniteSubsetsOf
<1>2. PICK V \in F : \A W \in F : ~(W \subseteq V /\ W # V)
  <2>1. F \subseteq FiniteSubsetsOf(U)
    OBVIOUS
  <2> HIDE DEF F
  <2> QED BY <1>1, <2>1, SmallestMember
<1>3. /\ V \subseteq U /\ IsFiniteSet(V)
      /\ g[V] = AddedUp(w, g, V) /\ h[V] = AddedUp(w, h, V)
  BY DEF FiniteSubsetsOf, FoldsTo
<1>4. V # {}
  BY <1>3 DEF AddedUp
<1>5. FirstTaken(V) \in V
  BY <1>4 DEF FirstTaken
<1>6. V \ {FirstTaken(V)} \in FiniteSubsetsOf(U)
  BY <1>3, FS_RemoveElement DEF FiniteSubsetsOf
<1>7. V \ {FirstTaken(V)} \notin F
  <2> HIDE DEF F
  <2> QED BY <1>2, <1>5
<1>8. g[V \ {FirstTaken(V)}] = h[V \ {FirstTaken(V)}]
  BY <1>6, <1>7
<1> QED BY <1>2, <1>3, <1>4, <1>8 DEF AddedUp

LEMMA TotalsExist ==
  ASSUME NEW w, NEW S, IsFiniteSet(S)
  PROVE  \E g : FoldsTo(w, S, g)
<1> DEFINE F == {U \in FiniteSubsetsOf(S) : ~\E g : FoldsTo(w, U, g)}
<1>1. SUFFICES ASSUME F # {} PROVE FALSE
  BY DEF FiniteSubsetsOf
<1>2. PICK U \in F : \A V \in F : ~(V \subseteq U /\ V # U)
  <2>1. F \subseteq FiniteSubsetsOf(S)
    OBVIOUS
  <2> HIDE DEF F
  <2> QED BY <1>1, <2>1, SmallestMember
<1>3. U \subseteq S /\ IsFiniteSet(U)
  BY DEF FiniteSubsetsOf
<1> DEFINE Of(V) == CHOOSE g : FoldsTo(w, V, g)
           Below == [V \in SUBSET U |-> Of(V)[V]]
           G == [V \in SUBSET U |-> AddedUp(w, Below, V)]
<1>4. ASSUME NEW V \in SUBSET U, V # U
      PROVE  FoldsTo(w, V, Of(V)) /\ IsFiniteSet(V)
  <2>1. V \in FiniteSubsetsOf(S) /\ IsFiniteSet(V)
    BY <1>3, FS_Subset DEF FiniteSubsetsOf
  <2>2. V \notin F
    <3> HIDE DEF F
    <3> QED BY <1>2, <1>4
  <2>3. \E g : FoldsTo(w, V, g)
    BY <2>1, <2>2
  <2> QED BY <2>1, <2>3
<1>5. ASSUME NEW V \in SUBSET U, V # U
      PROVE  Below[V] = AddedUp(w, Below, V)
  <2>1. Of(V)[V] = AddedUp(w, Of(V), V)
    <3> HIDE DEF Of
    <3> QED BY <1>4, <1>5 DEF FoldsTo
  <2>2. CASE V = {}
    BY <2>1, <2>2 DEF AddedUp
  <2>3. CASE V # {}
    <3> DEFINE W == V \ {FirstTaken(V)}
    <3>1. FirstTaken(V) \in V
      BY <2>3 DEF FirstTaken
    <3>2. W \in SUBSET U /\ W # U /\ W \subseteq V
      BY <3>1, <1>5
    <3>3. Of(V)[W] = Of(W)[W]
      <4> HIDE DEF Of
      <4> QED BY <1>4, <1>5, <3>2, TotalsAgree
    <3> QED BY <2>1, <2>3, <3>2, <3>3 DEF AddedUp
  <2> QED BY <2>2, <2>3
<1>6. ASSUME NEW V \in SUBSET U
      PROVE  AddedUp(w, G, V) = AddedUp(w, Below, V)
  <2>1. CASE V = {}
    BY <2>1 DEF AddedUp
  <2>2. CASE V # {}
    <3> DEFINE W == V \ {FirstTaken(V)}
    <3>1. FirstTaken(V) \in V
      BY <2>2 DEF FirstTaken
    <3>2. W \in SUBSET U /\ W # U
      BY <3>1
    <3>3. G[W] = Below[W]
      BY <1>5, <3>2
    <3> QED BY <2>2, <3>3 DEF AddedUp
  <2> QED BY <2>1, <2>2
<1>7. FoldsTo(w, U, G)
  <2> HIDE DEF Below
  <2> QED BY <1>6 DEF FoldsTo
<1>8. U \in F
  OBVIOUS
<1> QED BY <1>7, <1>8

\* What the sum is: nothing over nothing, else the first element taken and
\* the sum of the others.
LEMMA SumTaken ==
  ASSUME NEW w, NEW S, IsFiniteSet(S)
  PROVE  /\ S = {} => SumFunctionOnSet(w, S) = 0
         /\ S # {} => SumFunctionOnSet(w, S) = w[FirstTaken(S)] + SumFunctionOnSet(w, S \ {FirstTaken(S)})
<1> DEFINE g == CHOOSE h : FoldsTo(w, S, h)
           T == S \ {FirstTaken(S)}
           k == CHOOSE h : FoldsTo(w, T, h)
<1>1. FoldsTo(w, S, g) /\ SumFunctionOnSet(w, S) = g[S]
  BY TotalsExist, SumUnfolds
<1>2. IsFiniteSet(T) /\ T \subseteq S
  BY FS_RemoveElement
<1>3. FoldsTo(w, T, k) /\ SumFunctionOnSet(w, T) = k[T]
  BY <1>2, TotalsExist, SumUnfolds
<1>4. g[T] = k[T]
  <2> HIDE DEF g, k
  <2> QED BY <1>1, <1>2, <1>3, TotalsAgree
<1>5. g[S] = AddedUp(w, g, S)
  <2> HIDE DEF g
  <2> QED BY <1>1 DEF FoldsTo
<1> HIDE DEF g, k
<1> QED BY <1>1, <1>3, <1>4, <1>5 DEF AddedUp

-----------------------------------------------------------------------------
(* What the proofs of the models use. *)

\* Sums of natural numbers are natural, and depend on nothing but the values
\* summed.
LEMMA SumNat ==
  ASSUME NEW w, NEW S, IsFiniteSet(S), \A x \in S : w[x] \in Nat
  PROVE  SumFunctionOnSet(w, S) \in Nat
<1> DEFINE F == {V \in FiniteSubsetsOf(S) : SumFunctionOnSet(w, V) \notin Nat}
<1>1. SUFFICES ASSUME F # {} PROVE FALSE
  BY DEF FiniteSubsetsOf
<1>2. PICK V \in F : \A W \in F : ~(W \subseteq V /\ W # V)
  <2>1. F \subseteq FiniteSubsetsOf(S)
    OBVIOUS
  <2> HIDE DEF F
  <2> QED BY <1>1, <2>1, SmallestMember
<1>3. V \subseteq S /\ IsFiniteSet(V) /\ SumFunctionOnSet(w, V) \notin Nat
  BY DEF FiniteSubsetsOf
<1>4. V # {}
  <2>1. V = {} => SumFunctionOnSet(w, V) = 0
    BY <1>3, SumTaken
  <2> QED BY <1>3, <2>1
<1>5. FirstTaken(V) \in V
  BY <1>4 DEF FirstTaken
<1>6. V \ {FirstTaken(V)} \in FiniteSubsetsOf(S)
  BY <1>3, FS_RemoveElement DEF FiniteSubsetsOf
<1>7. V \ {FirstTaken(V)} \notin F
  <2> HIDE DEF F
  <2> QED BY <1>2, <1>5
<1>8. SumFunctionOnSet(w, V \ {FirstTaken(V)}) \in Nat
  BY <1>6, <1>7
<1>9. SumFunctionOnSet(w, V) = w[FirstTaken(V)] + SumFunctionOnSet(w, V \ {FirstTaken(V)})
  BY <1>3, <1>4, SumTaken
<1> QED BY <1>3, <1>5, <1>8, <1>9

LEMMA SumSame ==
  ASSUME NEW w, NEW v, NEW S, IsFiniteSet(S), \A x \in S : w[x] = v[x]
  PROVE  SumFunctionOnSet(w, S) = SumFunctionOnSet(v, S)
<1> DEFINE F == {V \in FiniteSubsetsOf(S) : SumFunctionOnSet(w, V) # SumFunctionOnSet(v, V)}
<1>1. SUFFICES ASSUME F # {} PROVE FALSE
  BY DEF FiniteSubsetsOf
<1>2. PICK V \in F : \A W \in F : ~(W \subseteq V /\ W # V)
  <2>1. F \subseteq FiniteSubsetsOf(S)
    OBVIOUS
  <2> HIDE DEF F
  <2> QED BY <1>1, <2>1, SmallestMember
<1>3. V \subseteq S /\ IsFiniteSet(V) /\ SumFunctionOnSet(w, V) # SumFunctionOnSet(v, V)
  BY DEF FiniteSubsetsOf
<1>4. V # {}
  BY <1>3, SumTaken
<1>5. FirstTaken(V) \in V
  BY <1>4 DEF FirstTaken
<1>6. V \ {FirstTaken(V)} \in FiniteSubsetsOf(S)
  BY <1>3, FS_RemoveElement DEF FiniteSubsetsOf
<1>7. V \ {FirstTaken(V)} \notin F
  <2> HIDE DEF F
  <2> QED BY <1>2, <1>5
<1>8. SumFunctionOnSet(w, V \ {FirstTaken(V)}) = SumFunctionOnSet(v, V \ {FirstTaken(V)})
  BY <1>6, <1>7
<1>9. /\ SumFunctionOnSet(w, V) = w[FirstTaken(V)] + SumFunctionOnSet(w, V \ {FirstTaken(V)})
      /\ SumFunctionOnSet(v, V) = v[FirstTaken(V)] + SumFunctionOnSet(v, V \ {FirstTaken(V)})
  BY <1>3, <1>4, SumTaken
<1> QED BY <1>3, <1>5, <1>8, <1>9

\* Any element may be taken first.
LEMMA SumAny ==
  ASSUME NEW w, NEW S, IsFiniteSet(S), \A x \in S : w[x] \in Nat, NEW y \in S
  PROVE  SumFunctionOnSet(w, S) = w[y] + SumFunctionOnSet(w, S \ {y})
<1> DEFINE F == {V \in FiniteSubsetsOf(S) :
                   \E z \in V : SumFunctionOnSet(w, V) # w[z] + SumFunctionOnSet(w, V \ {z})}
<1>1. SUFFICES ASSUME F # {} PROVE FALSE
  BY DEF FiniteSubsetsOf
<1>2. PICK V \in F : \A W \in F : ~(W \subseteq V /\ W # V)
  <2>1. F \subseteq FiniteSubsetsOf(S)
    OBVIOUS
  <2> HIDE DEF F
  <2> QED BY <1>1, <2>1, SmallestMember
<1>3. V \subseteq S /\ IsFiniteSet(V)
  BY DEF FiniteSubsetsOf
<1>4. PICK z \in V : SumFunctionOnSet(w, V) # w[z] + SumFunctionOnSet(w, V \ {z})
  OBVIOUS
<1> DEFINE x == FirstTaken(V)
           W == V \ {x}
<1>5. x \in V
  BY <1>4 DEF FirstTaken
<1>6. SumFunctionOnSet(w, V) = w[x] + SumFunctionOnSet(w, W)
  BY <1>3, <1>4, SumTaken
<1>7. x # z
  BY <1>4, <1>6
<1>8. W \in FiniteSubsetsOf(S) /\ IsFiniteSet(W)
  BY <1>3, FS_RemoveElement DEF FiniteSubsetsOf
<1>9. W \notin F
  <2> HIDE DEF F
  <2> QED BY <1>2, <1>5
<1>10. SumFunctionOnSet(w, W) = w[z] + SumFunctionOnSet(w, W \ {z})
  BY <1>7, <1>8, <1>9
<1>11. V \ {z} \in FiniteSubsetsOf(S) /\ IsFiniteSet(V \ {z})
  BY <1>3, FS_RemoveElement DEF FiniteSubsetsOf
<1>12. V \ {z} \notin F
  <2> HIDE DEF F
  <2> QED BY <1>2
<1>13. SumFunctionOnSet(w, V \ {z}) = w[x] + SumFunctionOnSet(w, (V \ {z}) \ {x})
  BY <1>5, <1>7, <1>11, <1>12
<1>14. W \ {z} = (V \ {z}) \ {x}
  OBVIOUS
<1>15. IsFiniteSet(W \ {z}) /\ W \ {z} \subseteq S
  BY <1>3, <1>8, FS_RemoveElement
<1>16. SumFunctionOnSet(w, W \ {z}) \in Nat
  BY <1>15, SumNat
<1>17. w[x] \in Nat /\ w[z] \in Nat
  BY <1>3, <1>5
<1>18. SumFunctionOnSet(w, V \ {z}) = w[x] + SumFunctionOnSet(w, W \ {z})
  BY <1>13, <1>14
<1> HIDE DEF W, x, F
<1>19. SumFunctionOnSet(w, V) = w[x] + (w[z] + SumFunctionOnSet(w, W \ {z}))
  BY <1>6, <1>10
<1> QED BY <1>4, <1>16, <1>17, <1>18, <1>19

\* One value more: what the sum gains is what that element gains.
LEMMA SumMore ==
  ASSUME NEW w, NEW v, NEW S, IsFiniteSet(S), NEW y \in S,
         \A x \in S : w[x] \in Nat /\ v[x] \in Nat, \A x \in S \ {y} : w[x] = v[x]
  PROVE  SumFunctionOnSet(v, S) + w[y] = SumFunctionOnSet(w, S) + v[y]
<1>1. IsFiniteSet(S \ {y})
  BY FS_RemoveElement
<1>2. SumFunctionOnSet(w, S \ {y}) = SumFunctionOnSet(v, S \ {y})
  BY <1>1, SumSame
<1>3. SumFunctionOnSet(w, S \ {y}) \in Nat
  BY <1>1, SumNat
<1>4. /\ SumFunctionOnSet(w, S) = w[y] + SumFunctionOnSet(w, S \ {y})
      /\ SumFunctionOnSet(v, S) = v[y] + SumFunctionOnSet(v, S \ {y})
  BY SumAny
<1>5. w[y] \in Nat /\ v[y] \in Nat
  OBVIOUS
<1> QED BY <1>2, <1>3, <1>4, <1>5

\* A sum is no less than any value summed.
LEMMA SumCovers ==
  ASSUME NEW w, NEW S, IsFiniteSet(S), \A x \in S : w[x] \in Nat, NEW y \in S
  PROVE  w[y] <= SumFunctionOnSet(w, S)
<1>1. IsFiniteSet(S \ {y})
  BY FS_RemoveElement
<1>2. SumFunctionOnSet(w, S \ {y}) \in Nat
  BY <1>1, SumNat
<1> QED BY <1>2, SumAny

\* A part of a set adds up to no more than the whole, and to as much when the
\* rest is nothing.
LEMMA SumPart ==
  ASSUME NEW w, NEW S, IsFiniteSet(S), \A x \in S : w[x] \in Nat, NEW T, T \subseteq S
  PROVE  /\ SumFunctionOnSet(w, T) <= SumFunctionOnSet(w, S)
         /\ (\A x \in S \ T : w[x] = 0) => SumFunctionOnSet(w, T) = SumFunctionOnSet(w, S)
<1> DEFINE Zeros == \A x \in S \ T : w[x] = 0
           Good(V) == /\ SumFunctionOnSet(w, T) <= SumFunctionOnSet(w, V)
                      /\ Zeros => SumFunctionOnSet(w, T) = SumFunctionOnSet(w, V)
           F == {V \in FiniteSubsetsOf(S) : T \subseteq V /\ ~Good(V)}
<1>1. SUFFICES ASSUME F # {} PROVE FALSE
  <2>1. S \in FiniteSubsetsOf(S)
    BY DEF FiniteSubsetsOf
  <2> HIDE DEF Good
  <2>2. Good(S)
    BY <2>1
  <2> QED BY <2>2 DEF Good
<1>2. PICK V \in F : \A W \in F : ~(W \subseteq V /\ W # V)
  <2>1. F \subseteq FiniteSubsetsOf(S)
    OBVIOUS
  <2> HIDE DEF F
  <2> QED BY <1>1, <2>1, SmallestMember
<1>3. V \subseteq S /\ IsFiniteSet(V) /\ T \subseteq V /\ ~Good(V) /\ IsFiniteSet(T)
  BY FS_Subset DEF FiniteSubsetsOf
<1>4. SumFunctionOnSet(w, T) \in Nat
  BY <1>3, SumNat
<1>5. PICK y \in V : y \notin T
  BY <1>3, <1>4
<1>6. V \ {y} \in FiniteSubsetsOf(S) /\ IsFiniteSet(V \ {y})
  BY <1>3, FS_RemoveElement DEF FiniteSubsetsOf
<1>7. Good(V \ {y})
  <2>1. V \ {y} \notin F
    <3> HIDE DEF F
    <3> QED BY <1>2, <1>5
  <2> HIDE DEF Good
  <2> QED BY <1>3, <1>5, <1>6, <2>1
<1>8. SumFunctionOnSet(w, V) = w[y] + SumFunctionOnSet(w, V \ {y}) /\ w[y] \in Nat
  BY <1>3, SumAny
<1>9. SumFunctionOnSet(w, V \ {y}) \in Nat
  BY <1>3, <1>6, SumNat
<1> QED BY <1>3, <1>4, <1>5, <1>7, <1>8, <1>9

\* Values within a multiple of others add up to within that multiple.
LEMMA SumAtMost ==
  ASSUME NEW w, NEW v, NEW m \in Nat, NEW S, IsFiniteSet(S),
         \A x \in S : w[x] \in Nat /\ v[x] \in Nat /\ v[x] <= m * w[x]
  PROVE  SumFunctionOnSet(v, S) <= m * SumFunctionOnSet(w, S)
<1> DEFINE F == {V \in FiniteSubsetsOf(S) :
                   ~(SumFunctionOnSet(v, V) <= m * SumFunctionOnSet(w, V))}
<1>1. SUFFICES ASSUME F # {} PROVE FALSE
  BY DEF FiniteSubsetsOf
<1>2. PICK V \in F : \A W \in F : ~(W \subseteq V /\ W # V)
  <2>1. F \subseteq FiniteSubsetsOf(S)
    OBVIOUS
  <2> HIDE DEF F
  <2> QED BY <1>1, <2>1, SmallestMember
<1>3. /\ V \subseteq S /\ IsFiniteSet(V)
      /\ ~(SumFunctionOnSet(v, V) <= m * SumFunctionOnSet(w, V))
  BY DEF FiniteSubsetsOf
<1>4. V # {}
  <2>1. V = {} => SumFunctionOnSet(v, V) = 0 /\ SumFunctionOnSet(w, V) = 0
    BY <1>3, SumTaken
  <2> QED BY <1>3, <2>1
<1> DEFINE x == FirstTaken(V)
           W == V \ {x}
<1>5. x \in V
  BY <1>4 DEF FirstTaken
<1>6. W \in FiniteSubsetsOf(S) /\ IsFiniteSet(W) /\ W \subseteq S
  BY <1>3, FS_RemoveElement DEF FiniteSubsetsOf
<1>7. W \notin F
  <2> HIDE DEF F
  <2> QED BY <1>2, <1>5
<1>8. SumFunctionOnSet(v, W) <= m * SumFunctionOnSet(w, W)
  BY <1>6, <1>7
<1>9. /\ SumFunctionOnSet(w, V) = w[x] + SumFunctionOnSet(w, W)
      /\ SumFunctionOnSet(v, V) = v[x] + SumFunctionOnSet(v, W)
  BY <1>3, <1>4, SumTaken
<1>10. SumFunctionOnSet(w, W) \in Nat /\ SumFunctionOnSet(v, W) \in Nat
  BY <1>6, SumNat
<1>11. w[x] \in Nat /\ v[x] \in Nat /\ v[x] <= m * w[x]
  BY <1>3, <1>5
<1> HIDE DEF F, W, x
<1>12. m * (w[x] + SumFunctionOnSet(w, W)) = m * w[x] + m * SumFunctionOnSet(w, W)
  BY <1>10, <1>11
<1>13. m * w[x] \in Nat /\ m * SumFunctionOnSet(w, W) \in Nat
  BY <1>10, <1>11
<1> QED BY <1>3, <1>8, <1>9, <1>10, <1>11, <1>12, <1>13

LEMMA SumAtLeast ==
  ASSUME NEW w, NEW v, NEW m \in Nat, NEW S, IsFiniteSet(S),
         \A x \in S : w[x] \in Nat /\ v[x] \in Nat /\ m * w[x] <= v[x]
  PROVE  m * SumFunctionOnSet(w, S) <= SumFunctionOnSet(v, S)
<1> DEFINE F == {V \in FiniteSubsetsOf(S) :
                   ~(m * SumFunctionOnSet(w, V) <= SumFunctionOnSet(v, V))}
<1>1. SUFFICES ASSUME F # {} PROVE FALSE
  BY DEF FiniteSubsetsOf
<1>2. PICK V \in F : \A W \in F : ~(W \subseteq V /\ W # V)
  <2>1. F \subseteq FiniteSubsetsOf(S)
    OBVIOUS
  <2> HIDE DEF F
  <2> QED BY <1>1, <2>1, SmallestMember
<1>3. /\ V \subseteq S /\ IsFiniteSet(V)
      /\ ~(m * SumFunctionOnSet(w, V) <= SumFunctionOnSet(v, V))
  BY DEF FiniteSubsetsOf
<1>4. V # {}
  <2>1. V = {} => SumFunctionOnSet(v, V) = 0 /\ SumFunctionOnSet(w, V) = 0
    BY <1>3, SumTaken
  <2> QED BY <1>3, <2>1
<1> DEFINE x == FirstTaken(V)
           W == V \ {x}
<1>5. x \in V
  BY <1>4 DEF FirstTaken
<1>6. W \in FiniteSubsetsOf(S) /\ IsFiniteSet(W) /\ W \subseteq S
  BY <1>3, FS_RemoveElement DEF FiniteSubsetsOf
<1>7. W \notin F
  <2> HIDE DEF F
  <2> QED BY <1>2, <1>5
<1>8. m * SumFunctionOnSet(w, W) <= SumFunctionOnSet(v, W)
  BY <1>6, <1>7
<1>9. /\ SumFunctionOnSet(w, V) = w[x] + SumFunctionOnSet(w, W)
      /\ SumFunctionOnSet(v, V) = v[x] + SumFunctionOnSet(v, W)
  BY <1>3, <1>4, SumTaken
<1>10. SumFunctionOnSet(w, W) \in Nat /\ SumFunctionOnSet(v, W) \in Nat
  BY <1>6, SumNat
<1>11. w[x] \in Nat /\ v[x] \in Nat /\ m * w[x] <= v[x]
  BY <1>3, <1>5
<1> HIDE DEF F, W, x
<1>12. m * (w[x] + SumFunctionOnSet(w, W)) = m * w[x] + m * SumFunctionOnSet(w, W)
  BY <1>10, <1>11
<1>13. m * w[x] \in Nat /\ m * SumFunctionOnSet(w, W) \in Nat
  BY <1>10, <1>11
<1> QED BY <1>3, <1>8, <1>9, <1>10, <1>11, <1>12, <1>13

-----------------------------------------------------------------------------
\* A finite set of numbers that is not empty has a greatest element.
LEMMA MaxIsThere ==
  ASSUME NEW S, S \subseteq Nat, IsFiniteSet(S), S # {}
  PROVE  Max(S) \in S /\ \A x \in S : x <= Max(S)
<1> DEFINE Greatest(T) == \E x \in T : \A y \in T : x >= y
           F == {T \in FiniteSubsetsOf(Nat) : T # {} /\ ~Greatest(T)}
<1>1. F = {}
  <2>1. SUFFICES ASSUME F # {} PROVE FALSE
    OBVIOUS
  <2>2. PICK T \in F : \A V \in F : ~(V \subseteq T /\ V # T)
    <3>1. F \subseteq FiniteSubsetsOf(Nat)
      OBVIOUS
    <3> HIDE DEF F
    <3> QED BY <2>1, <3>1, SmallestMember
  <2>3. T # {} /\ T \subseteq Nat /\ IsFiniteSet(T) /\ ~Greatest(T)
    BY DEF FiniteSubsetsOf
  <2>4. PICK x \in T : x \in Nat
    BY <2>3
  <2>5. T \ {x} \in FiniteSubsetsOf(Nat)
    BY <2>3, FS_RemoveElement DEF FiniteSubsetsOf
  <2>6. T \ {x} \notin F
    <3> HIDE DEF F
    <3> QED BY <2>2
  <2>7. CASE T \ {x} = {}
    BY <2>3, <2>4, <2>7
  <2>8. CASE T \ {x} # {}
    <3>1. PICK m \in T \ {x} : \A y \in T \ {x} : m >= y
      BY <2>5, <2>6, <2>8
    <3>2. m \in Nat
      BY <2>3
    <3>3. CASE m >= x
      BY <2>3, <3>1, <3>3
    <3>4. CASE x >= m
      BY <2>3, <2>4, <3>1, <3>2, <3>4
    <3> QED BY <2>4, <3>2, <3>3, <3>4
  <2> QED BY <2>7, <2>8
<1>2. Greatest(S)
  <2>1. S \in FiniteSubsetsOf(Nat)
    BY DEF FiniteSubsetsOf
  <2> QED BY <1>1, <2>1
<1> QED BY <1>2 DEF Max
-----------------------------------------------------------------------------
(* Sums grouped by a key, and counts as sums.                                 *)

\* Summing group by group sums everything, whatever the groups.
LEMMA SumByKey ==
  ASSUME NEW w, NEW p, NEW S, IsFiniteSet(S), \A x \in S : w[x] \in Nat,
         NEW R, IsFiniteSet(R), \A x \in S : p[x] \in R
  PROVE  SumFunctionOnSet([r \in R |-> SumFunctionOnSet(w, {x \in S : p[x] = r})], R) = SumFunctionOnSet(w, S)
<1> DEFINE Group(V, r) == {x \in V : p[x] = r}
           Groups(V) == [r \in R |-> SumFunctionOnSet(w, Group(V, r))]
           F == {V \in FiniteSubsetsOf(S) : SumFunctionOnSet(Groups(V), R) # SumFunctionOnSet(w, V)}
<1>1. SUFFICES ASSUME F # {} PROVE FALSE
  <2>1. S \in FiniteSubsetsOf(S)
    BY DEF FiniteSubsetsOf
  <2> QED BY <2>1
<1>2. PICK V \in F : \A W \in F : ~(W \subseteq V /\ W # V)
  <2>1. F \subseteq FiniteSubsetsOf(S)
    OBVIOUS
  <2> HIDE DEF F
  <2> QED BY <1>1, <2>1, SmallestMember
<1>3. V \subseteq S /\ IsFiniteSet(V) /\ SumFunctionOnSet(Groups(V), R) # SumFunctionOnSet(w, V)
  <2> HIDE DEF Groups
  <2> QED BY DEF FiniteSubsetsOf
<1>4. ASSUME NEW U, U \subseteq V, NEW r
      PROVE  IsFiniteSet(Group(U, r)) /\ Group(U, r) \subseteq S /\ SumFunctionOnSet(w, Group(U, r)) \in Nat
  <2>1. IsFiniteSet(Group(U, r)) /\ Group(U, r) \subseteq S
    BY <1>3, <1>4, FS_Subset
  <2> QED BY <2>1, SumNat
<1>5. V # {}
  <2>1. SUFFICES ASSUME V = {} PROVE FALSE
    OBVIOUS
  <2>2. SumFunctionOnSet(w, V) = 0
    BY <1>3, <2>1, SumTaken
  <2>3. \A r \in R : Groups(V)[r] = 0
    <3>1. ASSUME NEW r \in R PROVE SumFunctionOnSet(w, Group(V, r)) = 0
      <4>1. Group(V, r) = V
        BY <2>1
      <4> QED BY <2>2, <4>1
    <3> QED BY <3>1
  <2> HIDE DEF Groups
  <2>4. SumFunctionOnSet(Groups(V), {}) = SumFunctionOnSet(Groups(V), R)
    BY <2>3, SumPart
  <2>5. SumFunctionOnSet(Groups(V), {}) = 0
    BY FS_EmptySet, SumTaken
  <2> QED BY <1>3, <2>2, <2>4, <2>5
<1>6. PICK y \in V : p[y] \in R /\ w[y] \in Nat
  BY <1>3, <1>5
<1> DEFINE W == V \ {y}
<1>7. W \in FiniteSubsetsOf(S) /\ IsFiniteSet(W) /\ W \subseteq V /\ W # V
  BY <1>3, <1>6, FS_RemoveElement DEF FiniteSubsetsOf
<1>8. SumFunctionOnSet(Groups(W), R) = SumFunctionOnSet(w, W)
  <2>1. W \notin F
    <3> HIDE DEF F
    <3> QED BY <1>2, <1>7
  <2> HIDE DEF Groups, W
  <2> QED BY <1>7, <2>1
<1>9. SumFunctionOnSet(w, V) = w[y] + SumFunctionOnSet(w, W)
  BY <1>3, <1>6, SumAny
<1>10. \A r \in R : Groups(V)[r] \in Nat /\ Groups(W)[r] \in Nat
  <2> HIDE DEF Group, W
  <2> QED BY <1>4, <1>7
<1>11. \A r \in R \ {p[y]} : Groups(W)[r] = Groups(V)[r]
  <2>1. ASSUME NEW r \in R, r # p[y] PROVE Group(W, r) = Group(V, r)
    BY <2>1
  <2> HIDE DEF Group, W
  <2> QED BY <2>1
<1>12. Groups(V)[p[y]] = w[y] + Groups(W)[p[y]]
  <2>1. y \in Group(V, p[y]) /\ Group(V, p[y]) \ {y} = Group(W, p[y])
    BY <1>6
  <2> HIDE DEF Group, W
  <2>2. SumFunctionOnSet(w, Group(V, p[y])) = w[y] + SumFunctionOnSet(w, Group(V, p[y]) \ {y})
    <3>1. IsFiniteSet(Group(V, p[y])) /\ \A x \in Group(V, p[y]) : w[x] \in Nat
      BY <1>3, <1>4
    <3> QED BY <2>1, <3>1, SumAny
  <2> QED BY <1>6, <2>1, <2>2
<1> HIDE DEF Groups, W
<1>13. SumFunctionOnSet(Groups(V), R) + Groups(W)[p[y]] = SumFunctionOnSet(Groups(W), R) + Groups(V)[p[y]]
  BY <1>6, <1>10, <1>11, SumMore
<1>14. SumFunctionOnSet(Groups(V), R) \in Nat /\ SumFunctionOnSet(Groups(W), R) \in Nat
  BY <1>10, SumNat
<1>15. Groups(W)[p[y]] \in Nat
  BY <1>6, <1>10
<1> QED BY <1>3, <1>6, <1>8, <1>9, <1>12, <1>13, <1>14, <1>15

\* A set has as many elements as ones add up to.
LEMMA SumOnes ==
  ASSUME NEW w, NEW S, IsFiniteSet(S), \A x \in S : w[x] = 1
  PROVE  SumFunctionOnSet(w, S) = Cardinality(S)
<1> DEFINE F == {V \in FiniteSubsetsOf(S) : SumFunctionOnSet(w, V) # Cardinality(V)}
<1>1. SUFFICES ASSUME F # {} PROVE FALSE
  BY DEF FiniteSubsetsOf
<1>2. PICK V \in F : \A W \in F : ~(W \subseteq V /\ W # V)
  <2>1. F \subseteq FiniteSubsetsOf(S)
    OBVIOUS
  <2> HIDE DEF F
  <2> QED BY <1>1, <2>1, SmallestMember
<1>3. V \subseteq S /\ IsFiniteSet(V) /\ SumFunctionOnSet(w, V) # Cardinality(V)
  BY DEF FiniteSubsetsOf
<1>4. V # {}
  BY <1>3, SumTaken, FS_EmptySet
<1>5. FirstTaken(V) \in V
  BY <1>4 DEF FirstTaken
<1>6. V \ {FirstTaken(V)} \in FiniteSubsetsOf(S)
  BY <1>3, FS_RemoveElement DEF FiniteSubsetsOf
<1>7. V \ {FirstTaken(V)} \notin F
  <2> HIDE DEF F
  <2> QED BY <1>2, <1>5
<1>8. SumFunctionOnSet(w, V \ {FirstTaken(V)}) = Cardinality(V \ {FirstTaken(V)})
  BY <1>6, <1>7
<1>9. SumFunctionOnSet(w, V) = w[FirstTaken(V)] + SumFunctionOnSet(w, V \ {FirstTaken(V)})
  BY <1>3, <1>4, SumTaken
<1>10. Cardinality(V \ {FirstTaken(V)}) = Cardinality(V) - 1 /\ Cardinality(V) \in Nat
  BY <1>3, <1>5, FS_RemoveElement, FS_CardinalityType
<1> QED BY <1>3, <1>5, <1>8, <1>9, <1>10

\* Counting key by key counts everything.
LEMMA CountByKey ==
  ASSUME NEW p, NEW S, IsFiniteSet(S), NEW R, IsFiniteSet(R), \A x \in S : p[x] \in R
  PROVE  SumFunctionOnSet([r \in R |-> Cardinality({x \in S : p[x] = r})], R) = Cardinality(S)
<1> DEFINE w == [x \in S |-> 1]
           Group(r) == {x \in S : p[x] = r}
           Sums == [r \in R |-> SumFunctionOnSet(w, Group(r))]
           Counts == [r \in R |-> Cardinality(Group(r))]
<1>1. \A x \in S : w[x] = 1 /\ w[x] \in Nat
  OBVIOUS
<1> HIDE DEF w
<1>2. SumFunctionOnSet(w, S) = Cardinality(S)
  BY <1>1, SumOnes
<1>3. ASSUME NEW r \in R PROVE SumFunctionOnSet(w, Group(r)) = Cardinality(Group(r))
  <2>1. IsFiniteSet(Group(r)) /\ \A x \in Group(r) : w[x] = 1
    BY <1>1, FS_Subset
  <2> QED BY <2>1, SumOnes
<1>4. \A r \in R : Sums[r] = Counts[r]
  <2> HIDE DEF Group
  <2> QED BY <1>3
<1>5. SumFunctionOnSet(Sums, R) = SumFunctionOnSet(w, S)
  BY <1>1, SumByKey
<1>6. SumFunctionOnSet(Sums, R) = SumFunctionOnSet(Counts, R)
  <2> HIDE DEF Sums, Counts
  <2> QED BY <1>4, SumSame
<1> QED BY <1>2, <1>5, <1>6

\* Twice a sum compared with a multiple of another, value by value; in a
\* strict comparison one more remains.
LEMMA SumAbove ==
  ASSUME NEW w, NEW v, NEW c \in Nat, NEW e \in {0, 1}, NEW S, IsFiniteSet(S), S # {},
         \A x \in S : w[x] \in Nat /\ v[x] \in Nat /\ c * w[x] + e <= 2 * v[x]
  PROVE  c * SumFunctionOnSet(w, S) + e <= 2 * SumFunctionOnSet(v, S)
<1>1. PICK y \in S : TRUE
  OBVIOUS
<1> DEFINE d == [x \in S |-> 2 * v[x]]
           l == [x \in S |-> IF x = y THEN 2 * v[x] - e ELSE 2 * v[x]]
<1>2. \A x \in S : /\ d[x] \in Nat /\ d[x] <= 2 * v[x]
                   /\ l[x] \in Nat /\ c * w[x] <= l[x]
  <2>1. ASSUME NEW x \in S
        PROVE  /\ d[x] \in Nat /\ d[x] <= 2 * v[x]
               /\ l[x] \in Nat /\ c * w[x] <= l[x]
    <3>1. c * w[x] \in Nat
      OBVIOUS
    <3>2. v[x] \in Nat /\ c * w[x] + e <= 2 * v[x]
      OBVIOUS
    <3> DEFINE k == c * w[x]
    <3> HIDE DEF k
    <3>3. k \in Nat /\ k + e <= 2 * v[x]
      BY <3>1, <3>2 DEF k
    <3>4. 2 * v[x] - e \in Nat /\ k <= 2 * v[x] - e /\ k <= 2 * v[x] /\ 2 * v[x] \in Nat
      BY <3>2, <3>3
    <3> QED BY <3>4 DEF k
  <2> QED BY <2>1
<1>3. \A x \in S \ {y} : l[x] = d[x]
  OBVIOUS
<1>4. l[y] + e = d[y]
  OBVIOUS
<1> HIDE DEF d, l
<1>5. SumFunctionOnSet(d, S) <= 2 * SumFunctionOnSet(v, S)
  BY <1>2, SumAtMost
<1>6. c * SumFunctionOnSet(w, S) <= SumFunctionOnSet(l, S)
  BY <1>2, SumAtLeast
<1>7. SumFunctionOnSet(d, S) + l[y] = SumFunctionOnSet(l, S) + d[y]
  BY <1>2, <1>3, SumMore
<1>8. /\ SumFunctionOnSet(d, S) \in Nat /\ SumFunctionOnSet(l, S) \in Nat
      /\ SumFunctionOnSet(w, S) \in Nat /\ SumFunctionOnSet(v, S) \in Nat
      /\ d[y] \in Nat /\ l[y] \in Nat
  BY <1>2, SumNat
<1>9. c * SumFunctionOnSet(w, S) \in Nat
  BY <1>8
<1> QED BY <1>4, <1>5, <1>6, <1>7, <1>8, <1>9

LEMMA SumBelow ==
  ASSUME NEW w, NEW v, NEW c \in Nat, NEW e \in {0, 1}, NEW S, IsFiniteSet(S), S # {},
         \A x \in S : w[x] \in Nat /\ v[x] \in Nat /\ 2 * v[x] + e <= c * w[x]
  PROVE  2 * SumFunctionOnSet(v, S) + e <= c * SumFunctionOnSet(w, S)
<1>1. PICK y \in S : TRUE
  OBVIOUS
<1> DEFINE d == [x \in S |-> 2 * v[x]]
           l == [x \in S |-> IF x = y THEN 2 * v[x] + e ELSE 2 * v[x]]
<1>2. \A x \in S : /\ d[x] \in Nat /\ 2 * v[x] <= d[x]
                   /\ l[x] \in Nat /\ l[x] <= c * w[x]
  <2>1. ASSUME NEW x \in S
        PROVE  /\ d[x] \in Nat /\ 2 * v[x] <= d[x]
               /\ l[x] \in Nat /\ l[x] <= c * w[x]
    <3>1. c * w[x] \in Nat
      OBVIOUS
    <3>2. v[x] \in Nat /\ 2 * v[x] + e <= c * w[x]
      OBVIOUS
    <3> DEFINE k == c * w[x]
    <3> HIDE DEF k
    <3>3. k \in Nat /\ 2 * v[x] + e <= k
      BY <3>1, <3>2 DEF k
    <3>4. 2 * v[x] + e \in Nat /\ 2 * v[x] <= k /\ 2 * v[x] \in Nat
      BY <3>2, <3>3
    <3> QED BY <3>3, <3>4 DEF k
  <2> QED BY <2>1
<1>3. \A x \in S \ {y} : l[x] = d[x]
  OBVIOUS
<1>4. l[y] = d[y] + e
  OBVIOUS
<1> HIDE DEF d, l
<1>5. 2 * SumFunctionOnSet(v, S) <= SumFunctionOnSet(d, S)
  BY <1>2, SumAtLeast
<1>6. SumFunctionOnSet(l, S) <= c * SumFunctionOnSet(w, S)
  BY <1>2, SumAtMost
<1>7. SumFunctionOnSet(d, S) + l[y] = SumFunctionOnSet(l, S) + d[y]
  BY <1>2, <1>3, SumMore
<1>8. /\ SumFunctionOnSet(d, S) \in Nat /\ SumFunctionOnSet(l, S) \in Nat
      /\ SumFunctionOnSet(w, S) \in Nat /\ SumFunctionOnSet(v, S) \in Nat
      /\ d[y] \in Nat /\ l[y] \in Nat
  BY <1>2, SumNat
<1>9. c * SumFunctionOnSet(w, S) \in Nat
  BY <1>8
<1> QED BY <1>4, <1>5, <1>6, <1>7, <1>8, <1>9

\* A set of natural numbers that is not empty has a least element.
LEMMA MinIsThere ==
  ASSUME NEW S, S \subseteq Nat, S # {}
  PROVE  Min(S) \in S /\ \A x \in S : Min(S) <= x
<1> DEFINE F == {0..x : x \in S}
<1>1. F \subseteq FiniteSubsetsOf(Nat) /\ F # {}
  <2>1. ASSUME NEW x \in S PROVE 0..x \in FiniteSubsetsOf(Nat)
    BY FS_Interval DEF FiniteSubsetsOf
  <2> QED BY <2>1
<1>2. PICK V \in F : \A W \in F : ~(W \subseteq V /\ W # V)
  <2> HIDE DEF F
  <2> QED BY <1>1, SmallestMember
<1>3. PICK m \in S : V = 0..m
  OBVIOUS
<1>4. ASSUME NEW x \in S PROVE m <= x
  <2>1. SUFFICES ASSUME x < m PROVE FALSE
    BY <1>3
  <2>2. 0..x \subseteq V /\ m \in V /\ m \notin 0..x
    BY <1>3, <2>1
  <2> QED BY <1>2, <2>2
<1> QED BY <1>4 DEF Min
=============================================================================
