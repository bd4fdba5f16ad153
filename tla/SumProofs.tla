------------------------------- MODULE SumProofs -------------------------------
(***************************************************************************)
(* What SumFunctionOnSet returns, for every finite set of indices: the     *)
(* lemmas about sums that the proofs about the ledger cite.  A fact about  *)
(* every finite set is proved from a smallest set that violates it, for    *)
(* the induction theorems of the library take an operator as a parameter.  *)
(***************************************************************************)
EXTENDS FiniteSetTheorems, FiniteSetsExt, TLAPS

\* The element that the sum over s takes out first.
First(s) == CHOOSE x \in s : TRUE

\* g holds the sums of f over all the subsets of S.
IsSum(f, S, g) ==
    g = [s \in SUBSET S |-> IF s = {} THEN 0 ELSE f[First(s)] + g[s \ {First(s)}]]

SumTable(f, S) == CHOOSE g : IsSum(f, S, g)

-----------------------------------------------------------------------------
(* Tables of sums *)

\* A family of subsets of a finite set has a smallest member.
LEMMA SmallestSubset ==
    ASSUME NEW S, IsFiniteSet(S), NEW F \in SUBSET (SUBSET S), F # {}
    PROVE  \E s \in F : \A r \in F : r \subseteq s => r = s
<1>1. IsWellFoundedOn(StrictSubsetOrdering(S), FiniteSubsetsOf(S))
    BY FS_StrictSubsetOrderingWellFounded
<1>2. F \subseteq FiniteSubsetsOf(S)
    BY FS_FiniteSubsetsOfFinite
<1>3. \E s \in F : \A r \in F : <<r, s>> \notin StrictSubsetOrdering(S)
    BY <1>1, <1>2, WFMin
<1> QED
    BY <1>3 DEF StrictSubsetOrdering

LEMMA FirstIsElement ==
    ASSUME NEW s, s # {}
    PROVE  First(s) \in s
BY DEF First

\* The sum is the entry of the table for the whole set.
LEMMA SumIsTableEntry ==
    ASSUME NEW f, NEW S
    PROVE  SumFunctionOnSet(f, S) = SumTable(f, S)[S]
BY DEF SumFunctionOnSet, FoldFunctionOnSet, MapThenFoldSet, SumTable, IsSum, First

LEMMA TableEntry ==
    ASSUME NEW f, NEW S, NEW g, IsSum(f, S, g), NEW s \in SUBSET S
    PROVE  /\ s = {} => g[s] = 0
           /\ s # {} => g[s] = f[First(s)] + g[s \ {First(s)}]
BY DEF IsSum

\* Two tables agree wherever both are defined.
LEMMA TablesAgree ==
    ASSUME NEW f, NEW S, IsFiniteSet(S), NEW R, NEW g, NEW h,
           IsSum(f, S, g), IsSum(f, R, h), NEW s \in SUBSET (S \cap R)
    PROVE  g[s] = h[s]
<1> DEFINE F == {r \in SUBSET (S \cap R) : g[r] # h[r]}
<1> SUFFICES ASSUME F # {} PROVE FALSE
    OBVIOUS
<1>1. F \in SUBSET (SUBSET S)
    OBVIOUS
<1> HIDE DEF F
<1>2. PICK r \in F : \A t \in F : t \subseteq r => t = r
    BY <1>1, SmallestSubset
<1>3. r \in SUBSET S /\ r \in SUBSET R /\ g[r] # h[r]
    BY DEF F
<1>4. CASE r = {}
  <2>1. g[r] = 0
    BY <1>3, <1>4 DEF IsSum
  <2>2. h[r] = 0
    BY <1>3, <1>4 DEF IsSum
  <2> QED
    BY <1>3, <2>1, <2>2
<1>5. CASE r # {}
  <2>1. First(r) \in r
    BY <1>5, FirstIsElement
  <2>2. r \ {First(r)} \notin F
    BY <1>2, <2>1
  <2>3. g[r \ {First(r)}] = h[r \ {First(r)}]
    BY <1>3, <2>2 DEF F
  <2>4. g[r] = f[First(r)] + g[r \ {First(r)}]
    BY <1>3, <1>5 DEF IsSum
  <2>5. h[r] = f[First(r)] + h[r \ {First(r)}]
    BY <1>3, <1>5 DEF IsSum
  <2> QED
    BY <1>3, <2>3, <2>4, <2>5
<1> QED
    BY <1>4, <1>5

\* Every finite set has a table.
LEMMA TableExists ==
    ASSUME NEW f, NEW S, IsFiniteSet(S)
    PROVE  IsSum(f, S, SumTable(f, S))
<1> DEFINE F == {r \in SUBSET S : ~ IsSum(f, r, SumTable(f, r))}
<1> SUFFICES ASSUME F # {} PROVE FALSE
    OBVIOUS
<1>1. F \in SUBSET (SUBSET S)
    OBVIOUS
<1> HIDE DEF F
<1>2. PICK r \in F : \A t \in F : t \subseteq r => t = r
    BY <1>1, SmallestSubset
<1>3. r \in SUBSET S /\ ~ IsSum(f, r, SumTable(f, r))
    BY DEF F
<1>4. \A t \in SUBSET r : t # r => IsSum(f, t, SumTable(f, t))
    BY <1>2, <1>3 DEF F
<1> DEFINE Below(t) == SumTable(f, t)[t]
           G == [t \in SUBSET r |->
                    IF t = {} THEN 0 ELSE f[First(t)] + Below(t \ {First(t)})]
<1>5. ASSUME NEW t \in SUBSET r, t # {}
      PROVE  G[t \ {First(t)}] = Below(t \ {First(t)})
  <2> DEFINE u == t \ {First(t)}
  <2>1. u \in SUBSET r /\ u # r
    BY <1>5, FirstIsElement
  <2>2. IsSum(f, u, SumTable(f, u))
    BY <2>1, <1>4
  <2> HIDE DEF u
  <2>3. CASE u = {}
    <3>1. Below(u) = 0
      BY <2>2, <2>3, TableEntry
    <3>2. G[u] = 0
      BY <2>1, <2>3
    <3> QED
      BY <3>1, <3>2 DEF u
  <2>4. CASE u # {}
    <3> DEFINE v == u \ {First(u)}
    <3>1. v \in SUBSET u /\ v \in SUBSET r /\ v # r
      BY <2>1, <2>4, FirstIsElement
    <3>2. IsSum(f, v, SumTable(f, v))
      BY <3>1, <1>4
    <3>3. Below(u) = f[First(u)] + SumTable(f, u)[v]
      BY <2>2, <2>4, TableEntry
    <3> HIDE DEF v
    <3>4. IsFiniteSet(u)
      BY <2>1, <1>3, FS_Subset
    <3>5. SumTable(f, u)[v] = SumTable(f, v)[v]
      BY <2>2, <3>1, <3>2, <3>4, TablesAgree
    <3>6. G[u] = f[First(u)] + Below(v)
      BY <2>1, <2>4 DEF v
    <3> QED
      BY <3>3, <3>5, <3>6 DEF u
  <2> QED
    BY <2>3, <2>4 DEF u
<1> HIDE DEF Below
<1>6. ASSUME NEW t \in SUBSET r
      PROVE  G[t] = IF t = {} THEN 0 ELSE f[First(t)] + G[t \ {First(t)}]
    BY <1>5
<1>7. G = [t \in SUBSET r |-> G[t]]
    OBVIOUS
<1> HIDE DEF G
<1>8. IsSum(f, r, G)
    BY <1>6, <1>7, Zenon DEF IsSum
<1> QED
    BY <1>3, <1>8 DEF SumTable

-----------------------------------------------------------------------------
(* Sums *)

LEMMA SumOfNothing ==
    ASSUME NEW f
    PROVE  SumFunctionOnSet(f, {}) = 0
BY TableExists, TableEntry, SumIsTableEntry, FS_EmptySet

LEMMA SumFirst ==
    ASSUME NEW f, NEW S, IsFiniteSet(S), S # {}
    PROVE  SumFunctionOnSet(f, S) = f[First(S)] + SumFunctionOnSet(f, S \ {First(S)})
<1> DEFINE R == S \ {First(S)}
<1>1. IsFiniteSet(R) /\ R \in SUBSET (S \cap R)
    BY FS_RemoveElement
<1>2. IsSum(f, S, SumTable(f, S)) /\ IsSum(f, R, SumTable(f, R))
    BY <1>1, TableExists
<1>3. SumTable(f, S)[S] = f[First(S)] + SumTable(f, S)[R]
    BY <1>2, TableEntry
<1> HIDE DEF R
<1>4. SumTable(f, S)[R] = SumTable(f, R)[R]
    BY <1>1, <1>2, TablesAgree
<1> QED
    BY <1>3, <1>4, SumIsTableEntry DEF R

\* The sum of integers is an integer.
LEMMA SumType ==
    ASSUME NEW f, NEW S, IsFiniteSet(S), \A x \in S : f[x] \in Int
    PROVE  SumFunctionOnSet(f, S) \in Int
<1> DEFINE F == {r \in SUBSET S : SumFunctionOnSet(f, r) \notin Int}
<1> SUFFICES ASSUME F # {} PROVE FALSE
    OBVIOUS
<1>1. F \in SUBSET (SUBSET S)
    OBVIOUS
<1> HIDE DEF F
<1>2. PICK r \in F : \A t \in F : t \subseteq r => t = r
    BY <1>1, SmallestSubset
<1>3. r # {}
    BY SumOfNothing DEF F
<1>4. r \in SUBSET S /\ IsFiniteSet(r)
    BY FS_Subset DEF F
<1>5. First(r) \in r
    BY <1>3, FirstIsElement
<1>6. SumFunctionOnSet(f, r \ {First(r)}) \in Int
    BY <1>2, <1>4, <1>5 DEF F
<1>7. SumFunctionOnSet(f, r) = f[First(r)] + SumFunctionOnSet(f, r \ {First(r)})
    BY <1>3, <1>4, SumFirst
<1>8. f[First(r)] \in Int
    BY <1>4, <1>5
<1> QED
    BY <1>6, <1>7, <1>8 DEF F

\* Any element may be taken out first.
LEMMA SumRemove ==
    ASSUME NEW f, NEW S, IsFiniteSet(S), \A x \in S : f[x] \in Int, NEW x \in S
    PROVE  SumFunctionOnSet(f, S) = f[x] + SumFunctionOnSet(f, S \ {x})
<1> DEFINE F == {r \in SUBSET S : \E y \in r :
                    SumFunctionOnSet(f, r) # f[y] + SumFunctionOnSet(f, r \ {y})}
<1> SUFFICES ASSUME F # {} PROVE FALSE
    OBVIOUS
<1>1. F \in SUBSET (SUBSET S)
    OBVIOUS
<1> HIDE DEF F
<1>2. PICK r \in F : \A t \in F : t \subseteq r => t = r
    BY <1>1, SmallestSubset
<1>3. PICK y \in r : SumFunctionOnSet(f, r) # f[y] + SumFunctionOnSet(f, r \ {y})
    BY DEF F
<1>4. r \in SUBSET S
    BY DEF F
<1>c. PICK c \in r : c = First(r)
    BY <1>3, FirstIsElement
<1>5. IsFiniteSet(r) /\ IsFiniteSet(r \ {c}) /\ IsFiniteSet((r \ {c}) \ {y})
    BY <1>4, FS_Subset, FS_RemoveElement
<1>6. SumFunctionOnSet(f, r) = f[c] + SumFunctionOnSet(f, r \ {c})
    BY <1>3, <1>c, <1>5, SumFirst
<1>7. c # y
    BY <1>3, <1>6
<1>8. r \ {c} \notin F /\ r \ {y} \notin F
    BY <1>2, <1>3, <1>c
<1>9. SumFunctionOnSet(f, r \ {c}) = f[y] + SumFunctionOnSet(f, (r \ {c}) \ {y})
    BY <1>4, <1>7, <1>8 DEF F
<1>10. SumFunctionOnSet(f, r \ {y}) = f[c] + SumFunctionOnSet(f, (r \ {y}) \ {c})
    BY <1>4, <1>7, <1>8 DEF F
<1>11. (r \ {c}) \ {y} = (r \ {y}) \ {c}
    OBVIOUS
<1>12. SumFunctionOnSet(f, (r \ {c}) \ {y}) \in Int
    BY <1>4, <1>5, SumType
<1>13. f[c] \in Int /\ f[y] \in Int
    BY <1>3, <1>c, <1>4
<1>14. PICK k \in Int : k = SumFunctionOnSet(f, (r \ {c}) \ {y})
    BY <1>12
<1>15. SumFunctionOnSet(f, r) = f[c] + (f[y] + k)
    BY <1>6, <1>9, <1>14
<1>16. f[y] + SumFunctionOnSet(f, r \ {y}) = f[y] + (f[c] + k)
    BY <1>10, <1>11, <1>14
<1>17. f[c] + (f[y] + k) = f[y] + (f[c] + k)
    BY <1>13
<1> QED
    BY <1>3, <1>15, <1>16, <1>17

LEMMA SumAdd ==
    ASSUME NEW f, NEW S, IsFiniteSet(S), NEW x, x \notin S,
           \A y \in S \cup {x} : f[y] \in Int
    PROVE  SumFunctionOnSet(f, S \cup {x}) = f[x] + SumFunctionOnSet(f, S)
<1>1. IsFiniteSet(S \cup {x}) /\ (S \cup {x}) \ {x} = S /\ x \in S \cup {x}
    BY FS_AddElement
<1> QED
    BY <1>1, SumRemove

\* The sum depends on the values at the indices only.
LEMMA SumSame ==
    ASSUME NEW f, NEW g, NEW S, IsFiniteSet(S), \A x \in S : f[x] = g[x]
    PROVE  SumFunctionOnSet(f, S) = SumFunctionOnSet(g, S)
<1> DEFINE F == {r \in SUBSET S : SumFunctionOnSet(f, r) # SumFunctionOnSet(g, r)}
<1> SUFFICES ASSUME F # {} PROVE FALSE
    OBVIOUS
<1>1. F \in SUBSET (SUBSET S)
    OBVIOUS
<1> HIDE DEF F
<1>2. PICK r \in F : \A t \in F : t \subseteq r => t = r
    BY <1>1, SmallestSubset
<1>3. r # {}
    BY SumOfNothing DEF F
<1>4. r \in SUBSET S /\ IsFiniteSet(r)
    BY FS_Subset DEF F
<1>5. PICK c \in r : c = First(r)
    BY <1>3, FirstIsElement
<1>6. SumFunctionOnSet(f, r \ {c}) = SumFunctionOnSet(g, r \ {c})
    BY <1>2, <1>4, <1>5 DEF F
<1>7. /\ SumFunctionOnSet(f, r) = f[c] + SumFunctionOnSet(f, r \ {c})
      /\ SumFunctionOnSet(g, r) = g[c] + SumFunctionOnSet(g, r \ {c})
    BY <1>3, <1>4, <1>5, SumFirst
<1> QED
    BY <1>4, <1>5, <1>6, <1>7 DEF F

\* A sum of natural numbers is one, and no less than any of them.
LEMMA SumOfNaturals ==
    ASSUME NEW f, NEW S, IsFiniteSet(S), \A x \in S : f[x] \in Nat
    PROVE  /\ SumFunctionOnSet(f, S) \in Nat
           /\ \A x \in S : SumFunctionOnSet(f, S) >= f[x]
<1> DEFINE F == {r \in SUBSET S : SumFunctionOnSet(f, r) \notin Nat}
<1>0. F = {}
  <2> SUFFICES ASSUME F # {} PROVE FALSE
    OBVIOUS
  <2>1. F \in SUBSET (SUBSET S)
    OBVIOUS
  <2> HIDE DEF F
  <2>2. PICK r \in F : \A t \in F : t \subseteq r => t = r
    BY <2>1, SmallestSubset
  <2>3. r # {}
    BY SumOfNothing DEF F
  <2>4. r \in SUBSET S /\ IsFiniteSet(r)
    BY FS_Subset DEF F
  <2>5. PICK c \in r : c = First(r)
    BY <2>3, FirstIsElement
  <2>6. SumFunctionOnSet(f, r \ {c}) \in Nat
    BY <2>2, <2>4, <2>5 DEF F
  <2>7. SumFunctionOnSet(f, r) = f[c] + SumFunctionOnSet(f, r \ {c})
    BY <2>3, <2>4, <2>5, SumFirst
  <2>8. f[c] \in Nat
    BY <2>4, <2>5
  <2> QED
    BY <2>6, <2>7, <2>8 DEF F
<1>1. \A r \in SUBSET S : SumFunctionOnSet(f, r) \in Nat
    BY <1>0
<1>2. ASSUME NEW x \in S
      PROVE  SumFunctionOnSet(f, S) >= f[x]
  <2>1. SumFunctionOnSet(f, S) = f[x] + SumFunctionOnSet(f, S \ {x})
    BY SumRemove
  <2>2. SumFunctionOnSet(f, S \ {x}) \in Nat
    BY <1>1
  <2> QED
    BY <2>1, <2>2
<1> QED
    BY <1>1, <1>2

\* The sum over two disjoint sets.
LEMMA SumUnion ==
    ASSUME NEW f, NEW S, NEW R, IsFiniteSet(S), IsFiniteSet(R), S \cap R = {},
           \A x \in S \cup R : f[x] \in Int
    PROVE  SumFunctionOnSet(f, S \cup R) = SumFunctionOnSet(f, S) + SumFunctionOnSet(f, R)
<1> DEFINE F == {r \in SUBSET R :
                    SumFunctionOnSet(f, S \cup r) # SumFunctionOnSet(f, S) + SumFunctionOnSet(f, r)}
<1> SUFFICES ASSUME F # {} PROVE FALSE
    OBVIOUS
<1>1. F \in SUBSET (SUBSET R)
    OBVIOUS
<1> HIDE DEF F
<1>2. PICK r \in F : \A t \in F : t \subseteq r => t = r
    BY <1>1, SmallestSubset
<1>s. SumFunctionOnSet(f, S) \in Int
    BY SumType
<1>3. r # {}
  <2>1. S \cup {} = S
    OBVIOUS
  <2> QED
    BY <2>1, <1>s, SumOfNothing DEF F
<1>4. r \in SUBSET R /\ IsFiniteSet(r)
    BY FS_Subset DEF F
<1>5. PICK c \in r : TRUE
    BY <1>3
<1>6. IsFiniteSet(r \ {c}) /\ IsFiniteSet(S \cup r)
    BY <1>4, FS_RemoveElement, FS_Union
<1>7. SumFunctionOnSet(f, S \cup (r \ {c})) = SumFunctionOnSet(f, S) + SumFunctionOnSet(f, r \ {c})
    BY <1>2, <1>4, <1>5 DEF F
<1>8. SumFunctionOnSet(f, r) = f[c] + SumFunctionOnSet(f, r \ {c})
    BY <1>4, <1>5, SumRemove
<1>9. (S \cup r) \ {c} = S \cup (r \ {c})
    BY <1>4, <1>5
<1>10. SumFunctionOnSet(f, S \cup r) = f[c] + SumFunctionOnSet(f, (S \cup r) \ {c})
    BY <1>4, <1>5, <1>6, SumRemove
<1>11. SumFunctionOnSet(f, r \ {c}) \in Int /\ f[c] \in Int
    BY <1>4, <1>5, <1>6, SumType
<1>12. SumFunctionOnSet(f, S \cup r) # SumFunctionOnSet(f, S) + SumFunctionOnSet(f, r)
    BY DEF F
<1>13. PICK k \in Int, m \in Int :
            k = SumFunctionOnSet(f, S) /\ m = SumFunctionOnSet(f, r \ {c})
    BY <1>s, <1>11
<1>14. SumFunctionOnSet(f, S \cup r) = f[c] + (k + m)
    BY <1>7, <1>9, <1>10, <1>13
<1>15. SumFunctionOnSet(f, S) + SumFunctionOnSet(f, r) = k + (f[c] + m)
    BY <1>8, <1>13
<1>16. f[c] + (k + m) = k + (f[c] + m)
    BY <1>11
<1> QED
    BY <1>12, <1>14, <1>15, <1>16

=============================================================================
