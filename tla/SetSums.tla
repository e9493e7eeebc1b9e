------------------------------- MODULE SetSums -------------------------------
(***************************************************************************)
(* What MapThenSumSet computes.  It sums the elements of a set in the      *)
(* order in which CHOOSE takes them; these lemmas show that the order does *)
(* not matter: an element adds its own amount, whichever is taken first.   *)
(* They go by a smallest counterexample among the subsets of a finite set. *)
(***************************************************************************)
EXTENDS FiniteSetsExt, FiniteSetTheorems, TLAPS

Taken(s) == CHOOSE x \in s : TRUE

(* g is the table of the partial sums of f over the subsets of S. *)
IsTable(g, f, S) ==
  g = [s \in SUBSET S |->
         IF s = {} THEN 0 ELSE f[Taken(s)] + g[s \ {Taken(s)}]]

Total(f, S) == MapThenSumSet(LAMBDA x : f[x], S)

(* Any collection of subsets of a finite set has a smallest member.         *)
LEMMA SmallestSubset ==
  ASSUME NEW S, IsFiniteSet(S), NEW T, T \subseteq SUBSET S, T # {}
  PROVE  \E x \in T : \A y \in T : y \subseteq x => y = x
<1>1. IsWellFoundedOn(StrictSubsetOrdering(S), SUBSET S)
  BY FS_StrictSubsetOrderingWellFounded, FS_FiniteSubsetsOfFinite
<1>2. \E x \in T : \A y \in T : ~ (<<y, x>> \in StrictSubsetOrdering(S))
  BY <1>1, WFMin
<1> QED BY <1>2 DEF StrictSubsetOrdering

LEMMA TakenIn ==
  ASSUME NEW s, s # {}
  PROVE  Taken(s) \in s
BY DEF Taken

(* Two tables agree wherever both are defined.                              *)
LEMMA TablesAgree ==
  ASSUME NEW f, NEW S, NEW R, IsFiniteSet(S), IsFiniteSet(R),
         NEW g, IsTable(g, f, S), NEW h, IsTable(h, f, R),
         NEW s \in SUBSET S, s \in SUBSET R
  PROVE  g[s] = h[s]
<1> DEFINE Bad == {r \in SUBSET s : g[r] # h[r]}
<1>1. SUFFICES ASSUME Bad # {}
               PROVE  FALSE
  OBVIOUS
<1>2. IsFiniteSet(s)
  BY FS_Subset
<1>3. PICK r \in Bad : \A q \in Bad : q \subseteq r => q = r
  <2>1. Bad \subseteq SUBSET s
    OBVIOUS
  <2> HIDE DEF Bad
  <2> QED BY <1>1, <1>2, <2>1, SmallestSubset
<1>4. r \in SUBSET S /\ r \in SUBSET R /\ r \in SUBSET s
  OBVIOUS
<1>5. g[r] = (IF r = {} THEN 0 ELSE f[Taken(r)] + g[r \ {Taken(r)}])
  BY <1>4 DEF IsTable
<1>6. h[r] = (IF r = {} THEN 0 ELSE f[Taken(r)] + h[r \ {Taken(r)}])
  BY <1>4 DEF IsTable
<1>7. r # {} => g[r \ {Taken(r)}] = h[r \ {Taken(r)}]
  BY <1>3, TakenIn
<1> QED BY <1>3, <1>5, <1>6, <1>7

(* A finite set has a table.                                                *)
LEMMA TableExists ==
  ASSUME NEW f, NEW S, IsFiniteSet(S)
  PROVE  \E g : IsTable(g, f, S)
<1> DEFINE Bad == {r \in SUBSET S : ~ \E g : IsTable(g, f, r)}
<1>1. SUFFICES ASSUME Bad # {}
               PROVE  FALSE
  OBVIOUS
<1>2. PICK r \in Bad : \A q \in Bad : q \subseteq r => q = r
  <2>1. Bad \subseteq SUBSET S
    OBVIOUS
  <2> HIDE DEF Bad
  <2> QED BY <1>1, <2>1, SmallestSubset
<1>3. IsFiniteSet(r) /\ r \subseteq S
  BY FS_Subset
<1> DEFINE Old(s) == CHOOSE g : IsTable(g, f, s)
           New(s) == IF s = {} THEN 0 ELSE f[Taken(s)] + Old(s \ {Taken(s)})[s \ {Taken(s)}]
           h == [s \in SUBSET r |-> New(s)]
<1>4. ASSUME NEW s \in SUBSET r, s # r
      PROVE  IsTable(Old(s), f, s)
  <2>1. \E g : IsTable(g, f, s)
    BY <1>2, <1>4
  <2> QED BY <2>1
<1>5. ASSUME NEW s \in SUBSET r, s # r
      PROVE  Old(s)[s] = New(s)
  <2>1. IsTable(Old(s), f, s) /\ IsFiniteSet(s)
    BY <1>3, <1>4, <1>5, FS_Subset
  <2>2. CASE s = {}
    BY <2>1, <2>2 DEF IsTable
  <2>3. CASE s # {}
    <3> DEFINE q == s \ {Taken(s)}
    <3>1. q \in SUBSET r /\ q # r /\ q \in SUBSET s /\ Taken(s) \in s
      BY <2>3, TakenIn
    <3>2. IsTable(Old(q), f, q) /\ IsFiniteSet(q)
      BY <1>3, <1>4, <3>1, FS_Subset
    <3>3. Old(s)[s] = f[Taken(s)] + Old(s)[q]
      BY <2>1, <2>3 DEF IsTable
    <3>4. Old(s)[q] = Old(q)[q]
      BY <2>1, <3>1, <3>2, TablesAgree
    <3> QED BY <2>3, <3>3, <3>4
  <2> QED BY <2>2, <2>3
<1>6. ASSUME NEW s \in SUBSET r, s # {}
      PROVE  h[s \ {Taken(s)}] = Old(s \ {Taken(s)})[s \ {Taken(s)}]
  <2> DEFINE q == s \ {Taken(s)}
  <2>1. q \in SUBSET r /\ q # r
    BY <1>6, TakenIn
  <2>2. Old(q)[q] = New(q)
    BY <1>5, <2>1
  <2>3. h[q] = New(q)
    BY <2>1
  <2> QED BY <2>2, <2>3
<1>7. \A s \in SUBSET r :
        New(s) = IF s = {} THEN 0 ELSE f[Taken(s)] + h[s \ {Taken(s)}]
  <2> SUFFICES ASSUME NEW s \in SUBSET r
               PROVE  New(s) = IF s = {} THEN 0 ELSE f[Taken(s)] + h[s \ {Taken(s)}]
    OBVIOUS
  <2>1. CASE s = {}
    BY <2>1
  <2>2. CASE s # {}
    <3>1. h[s \ {Taken(s)}] = Old(s \ {Taken(s)})[s \ {Taken(s)}]
      BY <1>6, <2>2
    <3> HIDE DEF h, Old
    <3> QED BY <2>2, <3>1
  <2> QED BY <2>1, <2>2
<1>8. IsTable(h, f, r)
  <2> HIDE DEF New
  <2> QED BY <1>7 DEF IsTable
<1> QED BY <1>2, <1>8

(* The sum is read from any table.                                          *)
LEMMA TotalFromTable ==
  ASSUME NEW f, NEW S, IsFiniteSet(S), NEW g, IsTable(g, f, S)
  PROVE  Total(f, S) = g[S]
<1> DEFINE h == CHOOSE h : IsTable(h, f, S)
<1>1. IsTable(h, f, S)
  OBVIOUS
<1>2. Total(f, S) = h[S]
  BY DEF Total, MapThenSumSet, MapThenFoldSet, IsTable, Taken
<1> HIDE DEF h
<1>3. h[S] = g[S]
  BY <1>1, TablesAgree
<1> QED BY <1>2, <1>3

(* The sum of nothing, and what one element adds to a sum of integers.      *)
LEMMA TotalEmpty ==
  ASSUME NEW f
  PROVE  Total(f, {}) = 0
<1>1. IsFiniteSet({})
  BY FS_EmptySet
<1>2. PICK g : IsTable(g, f, {})
  BY <1>1, TableExists
<1>3. g[{}] = 0
  BY <1>2 DEF IsTable
<1> QED BY <1>1, <1>2, <1>3, TotalFromTable

LEMMA TotalUnfolds ==
  ASSUME NEW f, NEW S, IsFiniteSet(S), S # {}
  PROVE  Total(f, S) = f[Taken(S)] + Total(f, S \ {Taken(S)})
<1> DEFINE R == S \ {Taken(S)}
<1>1. IsFiniteSet(R)
  BY FS_RemoveElement
<1>2. PICK g : IsTable(g, f, S)
  BY TableExists
<1>3. PICK h : IsTable(h, f, R)
  BY <1>1, TableExists
<1>4. g[R] = h[R]
  <2>1. R \in SUBSET S /\ R \in SUBSET R
    OBVIOUS
  <2> HIDE DEF R
  <2> QED BY <1>1, <1>2, <1>3, <2>1, TablesAgree
<1>5. Total(f, S) = g[S] /\ Total(f, R) = h[R]
  BY <1>1, <1>2, <1>3, TotalFromTable
<1>6. g[S] = f[Taken(S)] + g[R]
  BY <1>2 DEF IsTable
<1> QED BY <1>4, <1>5, <1>6

LEMMA TotalIsInt ==
  ASSUME NEW f, NEW S, IsFiniteSet(S), \A x \in S : f[x] \in Int
  PROVE  Total(f, S) \in Int
<1> DEFINE Bad == {r \in SUBSET S : Total(f, r) \notin Int}
<1>1. SUFFICES ASSUME Bad # {}
               PROVE  FALSE
  OBVIOUS
<1>2. PICK r \in Bad : \A q \in Bad : q \subseteq r => q = r
  <2>1. Bad \subseteq SUBSET S
    OBVIOUS
  <2> HIDE DEF Bad
  <2> QED BY <1>1, <2>1, SmallestSubset
<1>3. IsFiniteSet(r)
  BY FS_Subset
<1>4. r # {}
  BY TotalEmpty
<1>5. Taken(r) \in r
  BY <1>4, TakenIn
<1>6. Total(f, r) = f[Taken(r)] + Total(f, r \ {Taken(r)})
  BY <1>3, <1>4, TotalUnfolds
<1>7. Total(f, r \ {Taken(r)}) \in Int
  BY <1>2, <1>5
<1>8. f[Taken(r)] \in Int
  BY <1>5
<1> QED BY <1>6, <1>7, <1>8

LEMMA TotalSplits ==
  ASSUME NEW f, NEW S, IsFiniteSet(S), \A x \in S : f[x] \in Int, NEW e \in S
  PROVE  Total(f, S) = f[e] + Total(f, S \ {e})
<1> DEFINE Bad == {r \in SUBSET S : \E x \in r : Total(f, r) # f[x] + Total(f, r \ {x})}
<1>1. SUFFICES ASSUME Bad # {}
               PROVE  FALSE
  OBVIOUS
<1>2. PICK r \in Bad : \A q \in Bad : q \subseteq r => q = r
  <2>1. Bad \subseteq SUBSET S
    OBVIOUS
  <2> HIDE DEF Bad
  <2> QED BY <1>1, <2>1, SmallestSubset
<1>3. PICK x \in r : Total(f, r) # f[x] + Total(f, r \ {x})
  OBVIOUS
<1>4. PICK c : c = Taken(r)
  OBVIOUS
<1>5. c \in r /\ IsFiniteSet(r) /\ r \subseteq S
  BY <1>3, <1>4, TakenIn, FS_Subset
<1>6. Total(f, r) = f[c] + Total(f, r \ {c})
  BY <1>3, <1>4, <1>5, TotalUnfolds
<1>7. c # x
  BY <1>3, <1>6
<1>8. ASSUME NEW a \in r, NEW b \in r, a # b
      PROVE  Total(f, r \ {a}) = f[b] + Total(f, r \ {a, b})
  <2>1. r \ {a} \in SUBSET S /\ r \ {a} \notin Bad /\ b \in r \ {a}
    BY <1>2, <1>5, <1>8
  <2>2. (r \ {a}) \ {b} = r \ {a, b}
    OBVIOUS
  <2> QED BY <2>1, <2>2
<1>9. Total(f, r \ {c}) = f[x] + Total(f, r \ {c, x})
  BY <1>5, <1>7, <1>8
<1>10. Total(f, r \ {x}) = f[c] + Total(f, r \ {c, x})
  <2>1. {x, c} = {c, x}
    OBVIOUS
  <2> QED BY <1>5, <1>7, <1>8, <2>1
<1>11. f[c] \in Int /\ f[x] \in Int /\ Total(f, r \ {c, x}) \in Int
  <2>1. IsFiniteSet(r \ {c, x})
    BY <1>5, FS_Subset
  <2> QED BY <1>5, <2>1, TotalIsInt
<1> QED BY <1>3, <1>6, <1>9, <1>10, <1>11

(* Sums of amounts that agree on a set are equal.                           *)
LEMMA TotalSame ==
  ASSUME NEW f, NEW h, NEW S, IsFiniteSet(S), \A x \in S : f[x] = h[x]
  PROVE  Total(f, S) = Total(h, S)
<1>1. PICK g : IsTable(g, f, S)
  BY TableExists
<1>2. \A s \in SUBSET S : s # {} => f[Taken(s)] = h[Taken(s)]
  BY TakenIn
<1>3. IsTable(g, h, S)
  BY <1>1, <1>2 DEF IsTable
<1> QED BY <1>1, <1>3, TotalFromTable

(* One amount in a sum changes, or one joins it.                            *)
LEMMA TotalChanges ==
  ASSUME NEW f, NEW h, NEW S, IsFiniteSet(S), NEW e \in S,
         \A x \in S : f[x] \in Int /\ h[x] \in Int,
         \A x \in S : x # e => h[x] = f[x]
  PROVE  /\ Total(f, S) \in Int
         /\ Total(h, S) = Total(f, S) + h[e] - f[e]
<1>1. IsFiniteSet(S \ {e})
  BY FS_RemoveElement
<1>2. Total(h, S \ {e}) = Total(f, S \ {e})
  BY <1>1, TotalSame
<1>3. Total(f, S) = f[e] + Total(f, S \ {e}) /\ Total(h, S) = h[e] + Total(h, S \ {e})
  BY TotalSplits
<1>4. Total(f, S \ {e}) \in Int /\ Total(f, S) \in Int
  BY <1>1, TotalIsInt
<1> QED BY <1>2, <1>3, <1>4

LEMMA TotalJoins ==
  ASSUME NEW f, NEW h, NEW S, IsFiniteSet(S), NEW e, e \notin S,
         \A x \in S \cup {e} : h[x] \in Int,
         \A x \in S : h[x] = f[x]
  PROVE  /\ IsFiniteSet(S \cup {e})
         /\ Total(f, S) \in Int
         /\ Total(h, S \cup {e}) = Total(f, S) + h[e]
<1>1. IsFiniteSet(S \cup {e}) /\ (S \cup {e}) \ {e} = S
  BY FS_AddElement
<1>2. Total(h, S \cup {e}) = h[e] + Total(h, S)
  BY <1>1, TotalSplits
<1>3. Total(h, S) = Total(f, S)
  BY TotalSame
<1>4. Total(f, S) \in Int
  BY TotalIsInt
<1> QED BY <1>1, <1>2, <1>3, <1>4
=============================================================================
