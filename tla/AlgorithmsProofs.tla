-------------------------- MODULE AlgorithmsProofs --------------------------
(***************************************************************************)
(* Theorems about the pure parts of the system, for every charge, score,   *)
(* price and date, and for samples, books and frames of any length.        *)
(*                                                                         *)
(* Sums are folds of the community modules: a fold over a finite set is    *)
(* the value at that set of a table over its subsets.  That the table      *)
(* exists, and that it does not depend on the order in which the fold      *)
(* takes the elements, is proved from a least counterexample.              *)
(***************************************************************************)
EXTENDS Algorithms, FiniteSetTheorems, WellFoundedInduction, TLAPS

---------------------------------------------------------------------------
(* Sums over finite sets *)

\* A set of numbers has a least element.
LEMMA LeastExists ==
  ASSUME NEW T, T \subseteq Nat, T # {}
  PROVE  \E n \in T : \A m \in T : n <= m
<1>1. PICK n \in T : \A m \in T : ~ (<<m, n>> \in OpToRel(<, Nat))
  BY NatLessThanWellFounded, WFMin
<1>2. \A m \in T : ~ (m < n)
  BY <1>1 DEF OpToRel
<1>. QED
  BY <1>2

\* A set of subsets of S that has the empty one, and with a subset each that has one
\* element more, has S.
LEMMA GrowsToAll ==
  ASSUME NEW S, IsFiniteSet(S), NEW P, {} \in P,
         \A T \in SUBSET S : \A x \in S \ T : T \in P => T \cup {x} \in P
  PROVE  S \in P
<1> DEFINE Bad == {n \in Nat : \E T \in SUBSET S : Cardinality(T) = n /\ T \notin P}
<1>1. SUFFICES ASSUME S \notin P PROVE FALSE
  OBVIOUS
<1>2. Cardinality(S) \in Bad
  BY <1>1, FS_CardinalityType
<1>3. PICK n \in Bad : \A m \in Bad : n <= m
  <2>1. Bad \subseteq Nat /\ Bad # {}
    BY <1>2
  <2> HIDE DEF Bad
  <2>. QED
    BY <2>1, LeastExists
<1>4. PICK T \in SUBSET S : Cardinality(T) = n /\ T \notin P
  BY <1>3
<1>5. IsFiniteSet(T) /\ T # {}
  BY <1>4, FS_Subset
<1>6. PICK x \in T : TRUE
  BY <1>5
<1>7. Cardinality(T \ {x}) = n - 1 /\ n - 1 \in Nat /\ n \in Nat
  <2>1. n \in Nat /\ Cardinality(T) = n /\ Cardinality(T) # 0
    BY <1>4, <1>5, FS_EmptySet
  <2>2. Cardinality(T \ {x}) = Cardinality(T) - 1
    BY <1>5, <1>6, FS_RemoveElement
  <2>. QED
    BY <2>1, <2>2
<1>8. T \ {x} \in P
  BY <1>3, <1>7
<1>9. (T \ {x}) \cup {x} = T /\ x \in S \ (T \ {x})
  BY <1>6
<1>. QED
  BY <1>4, <1>8, <1>9

\* The element that the fold takes out of a set.
Chosen(s) == CHOOSE x \in s : TRUE

\* g holds the sums of f over some sets.
SumTable(f, sets, g) ==
  g = [s \in sets |-> IF s = {} THEN 0 ELSE f[Chosen(s)] + g[s \ {Chosen(s)}]]

UpToSize(S, k) == {s \in SUBSET S : Cardinality(s) <= k}

LEMMA SmallerSetsAreThere ==
  ASSUME NEW S, IsFiniteSet(S), NEW k \in Nat, NEW s \in UpToSize(S, k), s # {}
  PROVE  k # 0 /\ Chosen(s) \in s /\ s \ {Chosen(s)} \in UpToSize(S, k - 1)
<1>1. Chosen(s) \in s
  BY DEF Chosen
<1>2. IsFiniteSet(s) /\ Cardinality(s) \in Nat /\ Cardinality(s) <= k
  BY FS_Subset, FS_CardinalityType DEF UpToSize
<1>3. Cardinality(s) # 0
  BY <1>2, FS_EmptySet
<1>4. Cardinality(s \ {Chosen(s)}) = Cardinality(s) - 1
  BY <1>1, <1>2, FS_RemoveElement
<1>. QED
  BY <1>1, <1>2, <1>3, <1>4 DEF UpToSize

LEMMA SumTableExists ==
  ASSUME NEW f, NEW S, IsFiniteSet(S)
  PROVE  \E g : SumTable(f, SUBSET S, g)
<1> DEFINE Bad == {k \in Nat : ~\E g : SumTable(f, UpToSize(S, k), g)}
<1>1. Bad = {}
  <2>1. SUFFICES ASSUME Bad # {} PROVE FALSE
    BY <2>1
  <2>2. PICK k \in Bad : \A j \in Bad : k <= j
    <3>1. Bad \subseteq Nat
      OBVIOUS
    <3> HIDE DEF Bad
    <3>. QED
      BY <2>1, <3>1, LeastExists
  <2>3. CASE k = 0
    <3> DEFINE g == [s \in UpToSize(S, 0) |-> 0]
    <3>1. \A s \in UpToSize(S, 0) : s = {}
      BY SmallerSetsAreThere
    <3>2. SumTable(f, UpToSize(S, 0), g)
      BY <3>1 DEF SumTable
    <3>. QED
      BY <2>2, <2>3, <3>2
  <2>4. CASE k # 0
    <3>1. k - 1 \in Nat /\ k - 1 \notin Bad
      BY <2>2, <2>4
    <3>2. PICK g : SumTable(f, UpToSize(S, k - 1), g)
      BY <3>1
    <3> DEFINE h == [s \in UpToSize(S, k) |->
                       IF s = {} THEN 0 ELSE f[Chosen(s)] + g[s \ {Chosen(s)}]]
    <3>3. UpToSize(S, k - 1) \subseteq UpToSize(S, k)
      BY <3>1, FS_Subset, FS_CardinalityType DEF UpToSize
    <3>4. \A s \in UpToSize(S, k - 1) : h[s] = g[s]
      BY <3>2, <3>3 DEF SumTable
    <3>5. \A s \in UpToSize(S, k) : s # {} => s \ {Chosen(s)} \in UpToSize(S, k - 1)
      BY <2>2, SmallerSetsAreThere
    <3>6. SumTable(f, UpToSize(S, k), h)
      BY <3>4, <3>5 DEF SumTable
    <3> HIDE DEF h
    <3>. QED
      BY <2>2, <3>6
  <2>. QED
    BY <2>3, <2>4
<1>2. Cardinality(S) \in Nat
  BY FS_CardinalityType
<1>3. \E g : SumTable(f, UpToSize(S, Cardinality(S)), g)
  BY <1>1, <1>2
<1>4. UpToSize(S, Cardinality(S)) = SUBSET S
  BY FS_Subset DEF UpToSize
<1>. QED
  BY <1>3, <1>4

\* What the fold computes: some table of sums, at S.
LEMMA SumIsInATable ==
  ASSUME NEW f, NEW S, IsFiniteSet(S)
  PROVE  \E g : SumTable(f, SUBSET S, g) /\ SumFunctionOnSet(f, S) = g[S]
<1>1. SumFunctionOnSet(f, S) = (CHOOSE g : SumTable(f, SUBSET S, g))[S]
  BY DEF SumFunctionOnSet, FoldFunctionOnSet, MapThenFoldSet, SumTable, Chosen
<1>. QED
  BY <1>1, SumTableExists

LEMMA TablesAgree ==
  ASSUME NEW f, NEW S, IsFiniteSet(S), NEW g, NEW h, NEW sets,
         SumTable(f, SUBSET S, g), SumTable(f, SUBSET sets, h), S \subseteq sets
  PROVE  g[S] = h[S]
<1> DEFINE Bad == {n \in Nat : \E s \in SUBSET S : Cardinality(s) = n /\ g[s] # h[s]}
<1>1. SUFFICES ASSUME g[S] # h[S] PROVE FALSE
  OBVIOUS
<1>2. Cardinality(S) \in Bad
  BY <1>1, FS_CardinalityType
<1>3. PICK n \in Bad : \A m \in Bad : n <= m
  <2>1. Bad \subseteq Nat /\ Bad # {}
    BY <1>2
  <2> HIDE DEF Bad
  <2>. QED
    BY <2>1, LeastExists
<1>4. PICK s \in SUBSET S : Cardinality(s) = n /\ g[s] # h[s]
  BY <1>3
<1>5. s # {}
  BY <1>4 DEF SumTable
<1>6. IsFiniteSet(s) /\ Cardinality(s) \in Nat
  BY FS_Subset, FS_CardinalityType
<1>7. /\ Chosen(s) \in s
      /\ s \ {Chosen(s)} \in SUBSET S
      /\ Cardinality(s \ {Chosen(s)}) \in Nat
      /\ Cardinality(s \ {Chosen(s)}) < n
  <2>1. s \in UpToSize(S, n) /\ n \in Nat
    BY <1>4, <1>6 DEF UpToSize
  <2>2. n # 0 /\ Chosen(s) \in s /\ s \ {Chosen(s)} \in UpToSize(S, n - 1)
    BY <1>5, <2>1, SmallerSetsAreThere
  <2>3. IsFiniteSet(s \ {Chosen(s)})
    BY <1>6, FS_RemoveElement
  <2>. QED
    BY <2>1, <2>2, <2>3, FS_CardinalityType DEF UpToSize
<1>8. g[s \ {Chosen(s)}] = h[s \ {Chosen(s)}]
  BY <1>3, <1>7
<1>9. g[s] = f[Chosen(s)] + g[s \ {Chosen(s)}] /\ h[s] = f[Chosen(s)] + h[s \ {Chosen(s)}]
  BY <1>5 DEF SumTable
<1>. QED
  BY <1>4, <1>8, <1>9

LEMMA SumEmpty ==
  ASSUME NEW f
  PROVE  SumFunctionOnSet(f, {}) = 0
<1>1. PICK g : SumTable(f, SUBSET {}, g) /\ SumFunctionOnSet(f, {}) = g[{}]
  BY SumIsInATable, FS_EmptySet
<1>. QED
  BY <1>1 DEF SumTable

LEMMA SumTakesOne ==
  ASSUME NEW f, NEW S, IsFiniteSet(S), S # {}
  PROVE  /\ Chosen(S) \in S
         /\ SumFunctionOnSet(f, S) = f[Chosen(S)] + SumFunctionOnSet(f, S \ {Chosen(S)})
<1> DEFINE T == S \ {Chosen(S)}
<1>1. Chosen(S) \in S
  BY DEF Chosen
<1>2. PICK g : SumTable(f, SUBSET S, g) /\ SumFunctionOnSet(f, S) = g[S]
  BY SumIsInATable
<1>3. IsFiniteSet(T)
  BY FS_RemoveElement
<1>4. PICK h : SumTable(f, SUBSET T, h) /\ SumFunctionOnSet(f, T) = h[T]
  BY <1>3, SumIsInATable
<1>5. h[T] = g[T]
  BY <1>2, <1>3, <1>4, TablesAgree
<1>6. g[S] = f[Chosen(S)] + g[T]
  BY <1>2 DEF SumTable
<1>. QED
  BY <1>1, <1>2, <1>4, <1>5, <1>6

\* Whatever order the fold takes the elements in, one more element adds its value.
LEMMA SumAdds ==
  ASSUME NEW f, NEW S, IsFiniteSet(S), NEW x, x \notin S, f[x] \in Int, \A y \in S : f[y] \in Int
  PROVE  /\ SumFunctionOnSet(f, S) \in Int
         /\ SumFunctionOnSet(f, S \cup {x}) = f[x] + SumFunctionOnSet(f, S)
<1> DEFINE U == S \cup {x}
           Adds(T, y) == SumFunctionOnSet(f, T \cup {y}) = f[y] + SumFunctionOnSet(f, T)
           Good(T) == SumFunctionOnSet(f, T) \in Int /\ \A y \in U \ T : Adds(T, y)
           Bad == {n \in Nat : \E T \in SUBSET U : Cardinality(T) = n /\ ~Good(T)}
<1>0. IsFiniteSet(U) /\ \A y \in U : f[y] \in Int
  BY FS_AddElement
<1>1. SUFFICES ASSUME ~Good(S) PROVE FALSE
  OBVIOUS
<1> HIDE DEF Good
<1>2. Cardinality(S) \in Bad
  BY <1>1, FS_CardinalityType
<1>3. PICK n \in Bad : \A m \in Bad : n <= m
  <2>1. Bad \subseteq Nat /\ Bad # {}
    BY <1>2
  <2> HIDE DEF Bad
  <2>. QED
    BY <2>1, LeastExists
<1>4. PICK T \in SUBSET U : Cardinality(T) = n /\ ~Good(T)
  BY <1>3
<1>5. \A V \in SUBSET U : Cardinality(V) < n => Good(V)
  <2>1. \A V \in SUBSET U : Cardinality(V) \in Nat
    BY <1>0, FS_Subset, FS_CardinalityType
  <2>. QED
    BY <1>3, <2>1
<1> HIDE DEF Bad, U
<1>6. IsFiniteSet(T) /\ Cardinality(T) = n /\ n \in Nat
  BY <1>0, <1>4, FS_Subset, FS_CardinalityType
<1>7. \A y \in T : IsFiniteSet(T \ {y}) /\ Cardinality(T \ {y}) < n
  <2>. TAKE y \in T
  <2>1. IsFiniteSet(T \ {y}) /\ Cardinality(T \ {y}) = n - 1
    BY <1>6, FS_RemoveElement
  <2>. QED
    BY <1>6, <2>1
<1>8. SumFunctionOnSet(f, T) \in Int
  <2>1. CASE T = {}
    BY <2>1, SumEmpty
  <2>2. CASE T # {}
    <3>1. Chosen(T) \in T /\ SumFunctionOnSet(f, T) = f[Chosen(T)] + SumFunctionOnSet(f, T \ {Chosen(T)})
      BY <1>6, <2>2, SumTakesOne
    <3>2. Good(T \ {Chosen(T)})
      BY <1>5, <1>7, <3>1
    <3>. QED
      BY <1>0, <3>1, <3>2 DEF Good
  <2>. QED
    BY <2>1, <2>2
<1>9. ASSUME NEW y \in U \ T PROVE Adds(T, y)
  <2> DEFINE V == T \cup {y}
             c == Chosen(V)
  <2>1. IsFiniteSet(V) /\ V # {}
    BY <1>6, FS_AddElement
  <2>2. c \in V /\ SumFunctionOnSet(f, V) = f[c] + SumFunctionOnSet(f, V \ {c})
    BY <2>1, SumTakesOne
  <2> HIDE DEF c
  <2>3. CASE c = y
    BY <2>2, <2>3
  <2>4. CASE c # y
    <3>1. c \in T /\ V \ {c} = (T \ {c}) \cup {y} /\ (T \ {c}) \cup {c} = T
      BY <2>2, <2>4
    <3>2. Good(T \ {c}) /\ y \in U \ (T \ {c}) /\ c \in U \ (T \ {c})
      BY <1>5, <1>7, <3>1
    <3>3. Adds(T \ {c}, y) /\ Adds(T \ {c}, c) /\ SumFunctionOnSet(f, T \ {c}) \in Int
      BY <3>2 DEF Good
    <3>4. f[y] \in Int /\ f[c] \in Int
      BY <1>0, <3>2
    <3>5. SumFunctionOnSet(f, V \ {c}) = f[y] + SumFunctionOnSet(f, T \ {c})
      BY <3>1, <3>3
    <3>6. SumFunctionOnSet(f, T) = f[c] + SumFunctionOnSet(f, T \ {c})
      BY <3>1, <3>3
    <3>7. SumFunctionOnSet(f, T \ {c}) \in Int
      BY <3>3
    <3> DEFINE a == SumFunctionOnSet(f, T \ {c})
    <3> HIDE DEF a
    <3>8. SumFunctionOnSet(f, V) = f[c] + (f[y] + a) /\ f[y] + SumFunctionOnSet(f, T) = f[y] + (f[c] + a)
      BY <2>2, <3>5, <3>6 DEF a
    <3>. QED
      BY <3>4, <3>7, <3>8 DEF a
  <2>. QED
    BY <2>3, <2>4
<1>. QED
  BY <1>4, <1>8, <1>9 DEF Good

\* A sum of integers is one.
LEMMA SumTyped ==
  ASSUME NEW S, IsFiniteSet(S), NEW f, \A x \in S : f[x] \in Int
  PROVE  SumFunctionOnSet(f, S) \in Int
<1>1. CASE S = {}
  BY <1>1, SumEmpty
<1>2. CASE S # {}
  <2>1. PICK x \in S : TRUE
    BY <1>2
  <2>2. IsFiniteSet(S \ {x}) /\ (S \ {x}) \cup {x} = S
    BY <2>1, FS_RemoveElement
  <2>3. /\ SumFunctionOnSet(f, S \ {x}) \in Int
        /\ SumFunctionOnSet(f, S) = f[x] + SumFunctionOnSet(f, S \ {x})
    BY <2>2, SumAdds
  <2>. QED
    BY <2>3
<1>. QED
  BY <1>1, <1>2

\* One more element in a subset of S.
LEMMA SumGrows ==
  ASSUME NEW S, IsFiniteSet(S), NEW f, \A x \in S : f[x] \in Int,
         NEW T \in SUBSET S, NEW x \in S \ T
  PROVE  /\ SumFunctionOnSet(f, T) \in Int /\ f[x] \in Int
         /\ SumFunctionOnSet(f, T \cup {x}) = f[x] + SumFunctionOnSet(f, T)
<1>1. IsFiniteSet(T)
  BY FS_Subset
<1>. QED
  BY <1>1, SumAdds

\* Equal values, equal sums.
LEMMA SumSame ==
  ASSUME NEW S, IsFiniteSet(S), NEW f, NEW g, \A x \in S : f[x] \in Int /\ g[x] = f[x]
  PROVE  SumFunctionOnSet(g, S) = SumFunctionOnSet(f, S)
<1> DEFINE P == {T \in SUBSET S : SumFunctionOnSet(g, T) = SumFunctionOnSet(f, T)}
<1>1. {} \in P
  BY SumEmpty
<1>2. ASSUME NEW T \in SUBSET S, NEW x \in S \ T, T \in P PROVE T \cup {x} \in P
  <2>1. SumFunctionOnSet(f, T \cup {x}) = f[x] + SumFunctionOnSet(f, T)
    BY SumGrows
  <2>2. SumFunctionOnSet(g, T \cup {x}) = g[x] + SumFunctionOnSet(g, T)
    BY SumGrows
  <2>. QED
    BY <1>2, <2>1, <2>2
<1> HIDE DEF P
<1>3. S \in P
  BY <1>1, <1>2, GrowsToAll
<1>. QED
  BY <1>3 DEF P

\* h is f plus c times g.
Combined(S, f, g, h, c) == \A x \in S : h[x] = f[x] + c * g[x]

LEMMA SumCombines ==
  ASSUME NEW S, IsFiniteSet(S), NEW f, NEW g, NEW h, NEW c \in Int,
         \A x \in S : f[x] \in Int, \A x \in S : g[x] \in Int, Combined(S, f, g, h, c)
  PROVE  SumFunctionOnSet(h, S) = SumFunctionOnSet(f, S) + c * SumFunctionOnSet(g, S)
<1> DEFINE Goal(T) ==
      SumFunctionOnSet(h, T) = SumFunctionOnSet(f, T) + c * SumFunctionOnSet(g, T)
    P == {T \in SUBSET S : Goal(T)}
<1>1. {} \in P
  BY SumEmpty
<1>2. ASSUME NEW T \in SUBSET S, NEW x \in S \ T, T \in P PROVE T \cup {x} \in P
  <2> DEFINE F == SumFunctionOnSet(f, T)
             G == SumFunctionOnSet(g, T)
  <2>1. SumFunctionOnSet(f, T \cup {x}) = f[x] + F /\ F \in Int /\ f[x] \in Int
    BY SumGrows
  <2>2. SumFunctionOnSet(g, T \cup {x}) = g[x] + G /\ G \in Int /\ g[x] \in Int
    BY SumGrows
  <2>3. SumFunctionOnSet(h, T \cup {x}) = h[x] + SumFunctionOnSet(h, T)
    <3>1. \A y \in S : h[y] \in Int
      BY DEF Combined
    <3>. QED
      BY <3>1, SumGrows
  <2>4. SumFunctionOnSet(h, T) = F + c * G
    BY <1>2
  <2>5. h[x] = f[x] + c * g[x]
    BY DEF Combined
  <2> HIDE DEF F, G
  <2>6. (f[x] + c * g[x]) + (F + c * G) = (f[x] + F) + c * (g[x] + G)
    BY <2>1, <2>2
  <2>7. Goal(T \cup {x})
    BY <2>1, <2>2, <2>3, <2>4, <2>5, <2>6
  <2>. QED
    BY <2>7
<1> HIDE DEF P
<1>3. S \in P
  BY <1>1, <1>2, GrowsToAll
<1>. QED
  BY <1>3 DEF P

LEMMA SumMonotone ==
  ASSUME NEW S, IsFiniteSet(S), NEW f, NEW g,
         \A x \in S : f[x] \in Int /\ g[x] \in Int /\ f[x] <= g[x]
  PROVE  SumFunctionOnSet(f, S) <= SumFunctionOnSet(g, S)
<1> DEFINE P == {T \in SUBSET S : SumFunctionOnSet(f, T) <= SumFunctionOnSet(g, T)}
<1>1. {} \in P
  BY SumEmpty
<1>2. ASSUME NEW T \in SUBSET S, NEW x \in S \ T, T \in P PROVE T \cup {x} \in P
  <2>1. SumFunctionOnSet(f, T \cup {x}) = f[x] + SumFunctionOnSet(f, T) /\ SumFunctionOnSet(f, T) \in Int
    BY SumGrows
  <2>2. SumFunctionOnSet(g, T \cup {x}) = g[x] + SumFunctionOnSet(g, T) /\ SumFunctionOnSet(g, T) \in Int
    BY SumGrows
  <2>3. f[x] \in Int /\ g[x] \in Int /\ f[x] <= g[x] /\ SumFunctionOnSet(f, T) <= SumFunctionOnSet(g, T)
    BY <1>2
  <2>4. SumFunctionOnSet(f, T \cup {x}) <= SumFunctionOnSet(g, T \cup {x})
    BY <2>1, <2>2, <2>3
  <2>. QED
    BY <2>4
<1> HIDE DEF P
<1>3. S \in P
  BY <1>1, <1>2, GrowsToAll
<1>. QED
  BY <1>3 DEF P

LEMMA SumOfConstant ==
  ASSUME NEW S, IsFiniteSet(S), NEW f, NEW c \in Int, \A x \in S : f[x] = c
  PROVE  SumFunctionOnSet(f, S) = c * Cardinality(S)
<1> DEFINE P == {T \in SUBSET S : SumFunctionOnSet(f, T) = c * Cardinality(T)}
<1>1. {} \in P
  BY SumEmpty, FS_EmptySet
<1>2. ASSUME NEW T \in SUBSET S, NEW x \in S \ T, T \in P PROVE T \cup {x} \in P
  <2>1. SumFunctionOnSet(f, T \cup {x}) = c + SumFunctionOnSet(f, T)
    BY SumGrows
  <2>2. Cardinality(T) \in Nat /\ Cardinality(T \cup {x}) = Cardinality(T) + 1
    BY FS_Subset, FS_CardinalityType, FS_AddElement
  <2>3. c * (Cardinality(T) + 1) = c + c * Cardinality(T)
    BY <2>2
  <2>. QED
    BY <1>2, <2>1, <2>2, <2>3
<1> HIDE DEF P
<1>3. S \in P
  BY <1>1, <1>2, GrowsToAll
<1>. QED
  BY <1>3 DEF P

\* Two disjoint sets add up.
LEMMA SumDisjoint ==
  ASSUME NEW S, NEW R, IsFiniteSet(S), IsFiniteSet(R), S \cap R = {}, NEW f,
         \A x \in S \cup R : f[x] \in Int
  PROVE  SumFunctionOnSet(f, R \cup S) = SumFunctionOnSet(f, R) + SumFunctionOnSet(f, S)
<1> DEFINE P == {T \in SUBSET S : SumFunctionOnSet(f, R \cup T)
                                    = SumFunctionOnSet(f, R) + SumFunctionOnSet(f, T)}
<1>0. SumFunctionOnSet(f, R) \in Int /\ IsFiniteSet(S \cup R)
  BY SumTyped, FS_Union
<1>1. {} \in P
  BY <1>0, SumEmpty
<1>2. ASSUME NEW T \in SUBSET S, NEW x \in S \ T, T \in P PROVE T \cup {x} \in P
  <2>1. SumFunctionOnSet(f, T \cup {x}) = f[x] + SumFunctionOnSet(f, T) /\ SumFunctionOnSet(f, T) \in Int
    BY SumGrows
  <2>2. R \cup T \in SUBSET (S \cup R) /\ x \in (S \cup R) \ (R \cup T)
    OBVIOUS
  <2>3. SumFunctionOnSet(f, (R \cup T) \cup {x}) = f[x] + SumFunctionOnSet(f, R \cup T) /\ f[x] \in Int
    BY <1>0, <2>2, SumGrows
  <2>4. R \cup (T \cup {x}) = (R \cup T) \cup {x}
    OBVIOUS
  <2>5. SumFunctionOnSet(f, R \cup T) = SumFunctionOnSet(f, R) + SumFunctionOnSet(f, T)
    BY <1>2
  <2>6. SumFunctionOnSet(f, R \cup (T \cup {x})) = SumFunctionOnSet(f, R) + SumFunctionOnSet(f, T \cup {x})
    <3> DEFINE a == SumFunctionOnSet(f, R)
               b == SumFunctionOnSet(f, T)
    <3>1. a \in Int /\ b \in Int /\ f[x] \in Int
      BY <1>0, <2>1, <2>3
    <3>2. SumFunctionOnSet(f, R \cup (T \cup {x})) = f[x] + (a + b)
      BY <2>3, <2>4, <2>5
    <3>3. SumFunctionOnSet(f, T \cup {x}) = f[x] + b
      BY <2>1
    <3> HIDE DEF a, b
    <3>4. f[x] + (a + b) = a + (f[x] + b)
      BY <3>1
    <3>. QED
      BY <3>2, <3>3, <3>4 DEF a
  <2>. QED
    BY <2>6
<1> HIDE DEF P
<1>3. S \in P
  BY <1>1, <1>2, GrowsToAll
<1>. QED
  BY <1>3 DEF P

\* Elements of value zero can be left out.
LEMMA SumOfSupport ==
  ASSUME NEW S, IsFiniteSet(S), NEW T \in SUBSET S, NEW f,
         \A x \in S : f[x] \in Int, \A x \in S \ T : f[x] = 0
  PROVE  SumFunctionOnSet(f, S) = SumFunctionOnSet(f, T)
<1>1. IsFiniteSet(T) /\ IsFiniteSet(S \ T) /\ T \cup (S \ T) = S /\ (S \ T) \cap T = {}
  BY FS_Subset, FS_Difference
<1>2. SumFunctionOnSet(f, S) = SumFunctionOnSet(f, T) + SumFunctionOnSet(f, S \ T)
  <2>1. \A x \in (S \ T) \cup T : f[x] \in Int
    OBVIOUS
  <2>2. SumFunctionOnSet(f, T \cup (S \ T)) = SumFunctionOnSet(f, T) + SumFunctionOnSet(f, S \ T)
    BY <1>1, <2>1, SumDisjoint
  <2>. QED
    BY <1>1, <2>2
<1>3. SumFunctionOnSet(f, S \ T) = 0
  <2>1. SumFunctionOnSet(f, S \ T) = 0 * Cardinality(S \ T)
    BY <1>1, SumOfConstant
  <2>. QED
    BY <1>1, <2>1, FS_CardinalityType
<1>4. SumFunctionOnSet(f, T) \in Int
  BY <1>1, SumTyped
<1>. QED
  BY <1>2, <1>3, <1>4

\* A set is summed part by part: of[d] are the elements whose key is d.
LEMMA SumByParts ==
  ASSUME NEW S, IsFiniteSet(S), NEW D, IsFiniteSet(D), NEW f, NEW key, NEW of, NEW part,
         \A x \in S : f[x] \in Int, \A x \in S : key[x] \in D,
         \A d \in D : \A x : x \in of[d] <=> x \in S /\ key[x] = d,
         \A d \in D : part[d] = SumFunctionOnSet(f, of[d])
  PROVE  SumFunctionOnSet(part, D) = SumFunctionOnSet(f, S)
<1> DEFINE Of(E) == {x \in S : key[x] \in E}
           P == {E \in SUBSET D : SumFunctionOnSet(part, E) = SumFunctionOnSet(f, Of(E))}
<1>0. ASSUME NEW d \in D PROVE part[d] \in Int
  <2>1. IsFiniteSet(of[d]) /\ \A x \in of[d] : f[x] \in Int
    <3>1. of[d] \in SUBSET S
      OBVIOUS
    <3>. QED
      BY <3>1, FS_Subset
  <2>2. SumFunctionOnSet(f, of[d]) \in Int
    BY <2>1, SumTyped
  <2>. QED
    BY <2>2
<1>1. {} \in P
  <2>1. Of({}) = {}
    OBVIOUS
  <2>. QED
    BY <2>1, SumEmpty
<1>2. ASSUME NEW E \in SUBSET D, NEW d \in D \ E, E \in P PROVE E \cup {d} \in P
  <2> DEFINE R == of[d]
  <2>1. SumFunctionOnSet(part, E \cup {d}) = part[d] + SumFunctionOnSet(part, E)
    BY <1>0, SumGrows
  <2>2. IsFiniteSet(R) /\ IsFiniteSet(Of(E)) /\ Of(E) \cap R = {} /\ R \cup Of(E) = Of(E \cup {d})
    <3>1. R \in SUBSET S /\ Of(E) \in SUBSET S
      OBVIOUS
    <3>2. Of(E) \cap R = {} /\ R \cup Of(E) = Of(E \cup {d})
      OBVIOUS
    <3>. QED
      BY <3>1, <3>2, FS_Subset
  <2>3. \A x \in Of(E) \cup R : f[x] \in Int
    OBVIOUS
  <2>4. SumFunctionOnSet(f, R \cup Of(E)) = SumFunctionOnSet(f, R) + SumFunctionOnSet(f, Of(E))
    BY <2>2, <2>3, SumDisjoint
  <2>5. SumFunctionOnSet(part, E) = SumFunctionOnSet(f, Of(E))
    BY <1>2
  <2>6. SumFunctionOnSet(part, E \cup {d}) = SumFunctionOnSet(f, Of(E \cup {d}))
    BY <2>1, <2>2, <2>4, <2>5
  <2>. QED
    BY <2>6
<1> HIDE DEF P
<1>3. D \in P
  BY <1>1, <1>2, GrowsToAll
<1>4. Of(D) = S
  OBVIOUS
<1>. QED
  BY <1>3, <1>4 DEF P

\* The values of a function on a finite set are finitely many.
LEMMA KeysAreFinite ==
  ASSUME NEW S, IsFiniteSet(S), NEW key, NEW D, \A d \in D : \E x \in S : d = key[x]
  PROVE  IsFiniteSet(D)
<1> DEFINE T == {x \in S : key[x] \in D}
           g == [x \in T |-> key[x]]
<1>1. g \in Surjection(T, D)
  BY DEF Surjection
<1>2. IsFiniteSet(T)
  BY FS_Subset
<1>. QED
  BY <1>1, <1>2, FS_Surjection

---------------------------------------------------------------------------
(* The inputs *)

SettledRow == [day : Int, load : {NaN} \cup Int, delta : Int, e_spread : Int,
               charge : Int, spread : {NaN} \cup Int, published : {NaN} \cup Int]

ScoredRow == [y : {0, Scale, NaN}, p : 0..Scale \cup {NaN}]
PricedRow == [y : 0..Scale \cup {NaN}, p : {0}]

Frame == {f \in SUBSET FrameRows :
            /\ IsFiniteSet(f)
            /\ \A r, s \in f : r.area = s.area /\ r.t = s.t => r = s}

InputTyped ==
  \/ input \in DayInput
  \/ input \in TextInput
  \/ input \in [kind : {"sign"}, sample : Seq(ScoredRow)]
  \/ input \in [kind : {"spread"}, sample : Seq(PricedRow)]
  \/ input \in [kind : {"frame"}, frame : Frame]
  \/ input \in [kind : {"book"}, load : Loads, day : Int, book : Seq(SettledRow)]

LEMMA KindsApart ==
  ASSUME InputTyped
  PROVE  /\ input.kind = "day" => input \in DayInput
         /\ input.kind = "text" => input \in TextInput
         /\ input.kind = "sign" => input \in [kind : {"sign"}, sample : Seq(ScoredRow)]
         /\ input.kind = "spread" => input \in [kind : {"spread"}, sample : Seq(PricedRow)]
         /\ input.kind = "frame" => input \in [kind : {"frame"}, frame : Frame]
         /\ input.kind = "book" =>
              input \in [kind : {"book"}, load : Loads, day : Int, book : Seq(SettledRow)]
  BY DEF InputTyped, DayInput, TextInput

\* The first day of a year is a day.
LEMMA NewYearTyped ==
  ASSUME NEW y \in Nat \ {0}
  PROVE  NewYear(y) \in Nat
<1> DEFINE z == y - 1
<1>1. z \in Nat
  OBVIOUS
<1>2. z \div 100 <= z /\ z \div 100 \in Nat /\ z \div 4 \in Nat /\ z \div 400 \in Nat
  BY <1>1
<1>. QED
  BY <1>1, <1>2 DEF NewYear

LEMMA InitInputTyped == Init => InputTyped
<1> SUFFICES ASSUME Init PROVE InputTyped
  OBVIOUS
<1>1. CASE \E y \in Years : input = [kind |-> "day", day |-> NewYear(y)]
  BY <1>1, NewYearTyped, SizesAssumption DEF InputTyped, DayInput
<1>2. CASE input \in {t \in TextInput : t.groups = 0}
  BY <1>2 DEF InputTyped
<1>3. CASE input \in [kind : {"sign", "spread"}, sample : {<<>>}]
  <2>1. <<>> \in Seq(ScoredRow) /\ <<>> \in Seq(PricedRow)
    OBVIOUS
  <2>. QED
    BY <1>3, <2>1 DEF InputTyped
<1>4. CASE input = [kind |-> "frame", frame |-> {}]
  BY <1>4, FS_EmptySet DEF InputTyped, Frame
<1>5. CASE input \in [kind : {"book"}, load : Loads, day : {1}, book : {<<>>}]
  <2>1. <<>> \in Seq(SettledRow) /\ 1 \in Int
    OBVIOUS
  <2>2. input \in [kind : {"book"}, load : Loads, day : Int, book : Seq(SettledRow)]
    BY <1>5, <2>1
  <2>. QED
    BY <2>2 DEF InputTyped
<1>. QED
  BY <1>1, <1>2, <1>3, <1>4, <1>5 DEF Init

\* Every input stays in its type: a frame has one row for each area and period, and what is
\* scored is a score, a price or missing.
THEOREM InputsTyped == Spec => []InputTyped
<1>1. InputTyped /\ [Next]_input => InputTyped'
  <2> SUFFICES ASSUME InputTyped, Next PROVE InputTyped'
    BY DEF InputTyped
  <2>1. CASE Tomorrow
    <3>1. input \in DayInput /\ input' = [input EXCEPT !.day = input.day + 1]
      BY <2>1, KindsApart DEF Tomorrow
    <3>. QED
      BY <3>1 DEF InputTyped, DayInput
  <2>2. CASE Grow
    <3>1. input \in TextInput /\ input' = [input EXCEPT !.groups = input.groups + 1] /\ input.groups < MaxGroups
      BY <2>2, KindsApart DEF Grow
    <3>2. input' \in TextInput
      BY <3>1, SizesAssumption DEF TextInput
    <3>. QED
      BY <3>2 DEF InputTyped
  <2>3. ASSUME input.kind = "sign", NEW y \in {0, Scale, NaN}, NEW p \in 0..Scale \cup {NaN}, Observe(y, p)
        PROVE  InputTyped'
    <3>1. input \in [kind : {"sign"}, sample : Seq(ScoredRow)]
      BY <2>3, KindsApart
    <3>2. [y |-> y, p |-> p] \in ScoredRow
      BY DEF ScoredRow
    <3>3. Append(input.sample, [y |-> y, p |-> p]) \in Seq(ScoredRow)
      BY <3>1, <3>2
    <3>4. input' = [input EXCEPT !.sample = Append(input.sample, [y |-> y, p |-> p])]
      BY <2>3 DEF Observe
    <3>5. input' \in [kind : {"sign"}, sample : Seq(ScoredRow)]
      BY <3>1, <3>3, <3>4
    <3>. QED
      BY <3>5 DEF InputTyped
  <2>4. ASSUME input.kind = "spread", NEW y \in 0..Scale \cup {NaN}, Observe(y, 0) PROVE InputTyped'
    <3>1. input \in [kind : {"spread"}, sample : Seq(PricedRow)]
      BY <2>4, KindsApart
    <3>2. [y |-> y, p |-> 0] \in PricedRow
      BY DEF PricedRow
    <3>3. Append(input.sample, [y |-> y, p |-> 0]) \in Seq(PricedRow)
      BY <3>1, <3>2
    <3>4. input' = [input EXCEPT !.sample = Append(input.sample, [y |-> y, p |-> 0])]
      BY <2>4 DEF Observe
    <3>5. input' \in [kind : {"spread"}, sample : Seq(PricedRow)]
      BY <3>1, <3>3, <3>4
    <3>. QED
      BY <3>5 DEF InputTyped
  <2>5. ASSUME input.kind = "frame", NEW r \in FrameRows, Label(r) PROVE InputTyped'
    <3>1. input \in [kind : {"frame"}, frame : Frame]
      BY <2>5, KindsApart
    <3>2. input.frame \cup {r} \in Frame
      <4>1. input.frame \in Frame
        BY <3>1
      <4>2. IsFiniteSet(input.frame \cup {r})
        BY <4>1, FS_AddElement DEF Frame
      <4>3. \A s \in input.frame : ~(s.area = r.area /\ s.t = r.t)
        BY <2>5 DEF Label, KeysOf
      <4>. QED
        BY <4>1, <4>2, <4>3 DEF Frame
    <3>3. input' = [input EXCEPT !.frame = input.frame \cup {r}]
      BY <2>5 DEF Label
    <3>4. input' \in [kind : {"frame"}, frame : Frame]
      BY <3>1, <3>2, <3>3
    <3>. QED
      BY <3>4 DEF InputTyped
  <2>6. ASSUME input.kind = "book", NEW r \in BookRows, NEW d \in input.day..(input.day + 1), Settle(r, d)
        PROVE  InputTyped'
    <3> DEFINE row == [r EXCEPT !.day = d, !.load = input.load]
    <3>1. input \in [kind : {"book"}, load : Loads, day : Int, book : Seq(SettledRow)]
      BY <2>6, KindsApart
    <3>2. d \in Int
      BY <3>1
    <3>3. row \in SettledRow
      BY <3>1, <3>2, RowsAssumption DEF SettledRow
    <3> HIDE DEF row
    <3>4. Append(input.book, row) \in Seq(SettledRow)
      BY <3>1, <3>3
    <3>5. input' = [input EXCEPT !.day = d, !.book = Append(input.book, row)]
      BY <2>6 DEF Settle, row
    <3>6. input' \in [kind : {"book"}, load : Loads, day : Int, book : Seq(SettledRow)]
      BY <3>1, <3>2, <3>4, <3>5
    <3>. QED
      BY <3>6 DEF InputTyped
  <2>. QED
    BY <2>1, <2>2, <2>3, <2>4, <2>5, <2>6 DEF Next
<1>. QED
  BY <1>1, InitInputTyped, PTL DEF Spec

---------------------------------------------------------------------------
(* Settled books *)

LEMMA ScoredRows ==
  ASSUME NEW book \in Seq(SettledRow)
  PROVE  /\ IsFiniteSet(Scored(book))
         /\ \A i \in Scored(book) :
              /\ book[i] \in SettledRow
              /\ book[i].delta \in Int /\ book[i].spread \in Int /\ book[i].e_spread \in Int
              /\ book[i].charge \in Int /\ book[i].day \in Int
<1>1. DOMAIN book = 1..Len(book) /\ Len(book) \in Nat
  OBVIOUS
<1>2. Scored(book) \in SUBSET (1..Len(book))
  BY <1>1 DEF Scored
<1>3. IsFiniteSet(Scored(book))
  <2>1. IsFiniteSet(1..Len(book))
    BY <1>1, FS_Interval
  <2>. QED
    BY <1>2, <2>1, FS_Subset
<1>4. ASSUME NEW i \in Scored(book) PROVE book[i] \in SettledRow /\ book[i].spread # NaN
  BY <1>1 DEF Scored
<1>. QED
  BY <1>3, <1>4 DEF SettledRow

LEMMA AbsoluteTyped ==
  ASSUME NEW x \in Int
  PROVE  /\ Absolute(x) \in Nat /\ Absolute(x) \in Int
         /\ x <= Absolute(x) /\ -x <= Absolute(x)
  BY DEF Absolute

LEMMA ProductTyped ==
  ASSUME NEW a \in Int, NEW b \in Int
  PROVE  a * b \in Int
  OBVIOUS

LEMMA ProductMonotone ==
  ASSUME NEW a \in Nat, NEW b \in Int, NEW c \in Int, b <= c
  PROVE  a * b <= a * c
<1>1. a * (c - b) \in Nat /\ a * (c - b) = a * c - a * b
  OBVIOUS
<1>2. a * b \in Int /\ a * c \in Int
  BY ProductTyped
<1>. QED
  BY <1>1, <1>2

LEMMA ChargeTyped ==
  ASSUME NEW r \in SettledRow, NEW k \in Nat
  PROVE  charge_realized(r, k) \in Int
<1> DEFINE p == Absolute(IF r.published = NaN THEN Fallback ELSE r.published)
<1>1. p \in Nat
  BY AbsoluteTyped, ChargesAssumption DEF SettledRow
<1>2. charge_realized(r, k) = p * k + 10 * Penalty
  BY DEF charge_realized, charge_per_mwh
<1> HIDE DEF p
<1>. QED
  BY <1>1, <1>2, ProductTyped, ChargesAssumption

\* A higher multiplier never lowers a charge, whatever the sign of the published price.
LEMMA ChargeMonotone ==
  ASSUME NEW r \in SettledRow, NEW j \in Nat, NEW k \in Nat, j <= k
  PROVE  charge_realized(r, j) <= charge_realized(r, k)
<1> DEFINE p == Absolute(IF r.published = NaN THEN Fallback ELSE r.published)
<1>1. p \in Nat
  BY AbsoluteTyped, ChargesAssumption DEF SettledRow
<1>2. /\ charge_realized(r, j) = p * j + 10 * Penalty
      /\ charge_realized(r, k) = p * k + 10 * Penalty
  BY DEF charge_realized, charge_per_mwh
<1> HIDE DEF p
<1>3. p * j <= p * k /\ p * j \in Int /\ p * k \in Int
  BY <1>1, ProductMonotone, ProductTyped
<1>. QED
  BY <1>2, <1>3, ChargesAssumption

LEMMA PnlTyped ==
  ASSUME NEW r \in SettledRow, r.spread \in Int, NEW k \in Nat
  PROVE  pnl(r, k) \in Int
<1>1. charge_realized(r, k) \in Int /\ r.delta \in Int
  BY ChargeTyped DEF SettledRow
<1>2. Absolute(r.delta) \in Int /\ 10 * r.delta \in Int
  BY <1>1, AbsoluteTyped
<1>3. 10 * r.delta * r.spread \in Int /\ Absolute(r.delta) * charge_realized(r, k) \in Int
  BY <1>1, <1>2, ProductTyped
<1>. QED
  BY <1>3 DEF pnl

LEMMA PnlFalls ==
  ASSUME NEW r \in SettledRow, r.spread \in Int, NEW j \in Nat, NEW k \in Nat, j <= k
  PROVE  pnl(r, k) <= pnl(r, j)
<1>1. charge_realized(r, j) \in Int /\ charge_realized(r, k) \in Int /\ r.delta \in Int
  BY ChargeTyped DEF SettledRow
<1>2. Absolute(r.delta) \in Nat
  BY <1>1, AbsoluteTyped
<1>3. Absolute(r.delta) * charge_realized(r, j) <= Absolute(r.delta) * charge_realized(r, k)
  BY <1>1, <1>2, ChargeMonotone, ProductMonotone
<1>4. /\ 10 * r.delta * r.spread \in Int
      /\ Absolute(r.delta) * charge_realized(r, j) \in Int
      /\ Absolute(r.delta) * charge_realized(r, k) \in Int
  BY <1>1, <1>2, ProductTyped
<1>. QED
  BY <1>3, <1>4 DEF pnl

\* A book that is a go under some charges is one under lower ones, with any number of rows,
\* for every price (sensitivity.py:20-34, charges.py:77).
THEOREM LowerChargesKeepTheGo == Spec => []GoSurvivesLowerCharges
<1>1. ASSUME NEW book \in Seq(SettledRow), NEW j \in Nat, NEW k \in Nat, j < k, go_no_go(book, k)
      PROVE  go_no_go(book, j)
  <2> DEFINE Of(m) == [i \in Scored(book) |-> pnl(book[i], m)]
  <2>1. \A m \in Nat : net_margin(book, m) = SumFunctionOnSet(Of(m), Scored(book))
    BY DEF net_margin, SumOver
  <2>2. IsFiniteSet(Scored(book))
    BY ScoredRows
  <2>3. \A i \in Scored(book) : Of(k)[i] \in Int /\ Of(j)[i] \in Int /\ Of(k)[i] <= Of(j)[i]
    BY <1>1, ScoredRows, PnlTyped, PnlFalls
  <2> HIDE DEF Of
  <2>4. net_margin(book, k) <= net_margin(book, j)
    BY <2>1, <2>2, <2>3, SumMonotone
  <2>5. net_margin(book, k) \in Int /\ net_margin(book, j) \in Int
    BY <2>1, <2>2, <2>3, SumTyped
  <2>. QED
    BY <1>1, <2>4, <2>5 DEF go_no_go
<1>2. InputTyped => GoSurvivesLowerCharges
  <2> SUFFICES ASSUME InputTyped, input.kind = "book",
                      NEW k \in charge_sensitivity(input.book), NEW j \in Multipliers, j < k
               PROVE  j \in charge_sensitivity(input.book)
    BY DEF GoSurvivesLowerCharges
  <2>1. input.book \in Seq(SettledRow)
    BY KindsApart
  <2>2. k \in Nat /\ j \in Nat /\ go_no_go(input.book, k)
    BY ChargesAssumption DEF charge_sensitivity
  <2>. QED
    BY <1>1, <2>1, <2>2 DEF charge_sensitivity
<1>. QED
  BY <1>2, InputsTyped, PTL

---------------------------------------------------------------------------
(* Attribution *)

\* A book is summed day by day.
LEMMA DaysAddUp ==
  ASSUME NEW book \in Seq(SettledRow), NEW f, NEW part,
         \A i \in Scored(book) : f[i] \in Int,
         \A d \in ScoredDays(book) : part[d] = SumFunctionOnSet(f, RowsOfDay(book, d))
  PROVE  SumFunctionOnSet(part, ScoredDays(book)) = SumFunctionOnSet(f, Scored(book))
<1> DEFINE key == [i \in Scored(book) |-> book[i].day]
           of == [d \in ScoredDays(book) |-> RowsOfDay(book, d)]
<1>1. IsFiniteSet(Scored(book))
  BY ScoredRows
<1>2. /\ \A i \in Scored(book) : key[i] \in ScoredDays(book)
      /\ \A d \in ScoredDays(book) : \E i \in Scored(book) : d = key[i]
  BY DEF ScoredDays
<1>3. \A d \in ScoredDays(book) : \A i : i \in of[d] <=> i \in Scored(book) /\ key[i] = d
  BY DEF RowsOfDay
<1>4. \A d \in ScoredDays(book) : part[d] = SumFunctionOnSet(f, of[d])
  OBVIOUS
<1> HIDE DEF key, of
<1>5. IsFiniteSet(ScoredDays(book))
  BY <1>1, <1>2, KeysAreFinite
<1>. QED
  BY <1>1, <1>2, <1>3, <1>4, <1>5, SumByParts

LEMMA DayRows ==
  ASSUME NEW book \in Seq(SettledRow), NEW d
  PROVE  IsFiniteSet(RowsOfDay(book, d)) /\ RowsOfDay(book, d) \subseteq Scored(book)
<1>1. RowsOfDay(book, d) \in SUBSET Scored(book)
  BY DEF RowsOfDay
<1>. QED
  BY <1>1, ScoredRows, FS_Subset

\* The errors of one row account for all of its difference.
LEMMA RowIsExplained ==
  ASSUME NEW r \in SettledRow, r.spread \in Int
  PROVE  /\ pnl(r, Central) \in Int /\ pnl_expected(r) \in Int
         /\ err_spread(r) \in Int /\ err_charge(r) \in Int
         /\ pnl(r, Central) = pnl_expected(r) + (err_spread(r) + err_charge(r))
<1> DEFINE c == charge_realized(r, Central)
           a == Absolute(r.delta)
           d == 10 * r.delta
<1>1. c \in Int /\ a \in Int /\ d \in Int /\ r.e_spread \in Int /\ r.charge \in Int /\ r.delta \in Int
  BY ChargeTyped, AbsoluteTyped DEF SettledRow, Central
<1>2. /\ pnl(r, Central) = d * r.spread - a * c
      /\ pnl_expected(r) = d * r.e_spread - a * r.charge
      /\ err_spread(r) = d * (r.spread - r.e_spread)
      /\ err_charge(r) = -(a * (c - r.charge))
  <2>1. /\ pnl(r, Central) = d * r.spread - a * c
        /\ pnl_expected(r) = d * r.e_spread - a * r.charge
        /\ err_spread(r) = d * (r.spread - r.e_spread)
    BY DEF pnl, pnl_expected, err_spread
  <2>2. err_charge(r) = -a * (c - r.charge)
    BY DEF err_charge
  <2> HIDE DEF a, c, d
  <2>3. -a * (c - r.charge) = -(a * (c - r.charge))
    BY <1>1
  <2>. QED
    BY <2>1, <2>2, <2>3
<1> HIDE DEF a, c, d
<1>3. /\ d * r.spread \in Int /\ d * r.e_spread \in Int /\ a * c \in Int /\ a * r.charge \in Int
      /\ d * (r.spread - r.e_spread) = d * r.spread - d * r.e_spread
      /\ a * (c - r.charge) = a * c - a * r.charge
  BY <1>1
<1>. QED
  BY <1>2, <1>3

\* The errors of a day account for all of its difference.
LEMMA DayIsExplained ==
  ASSUME NEW book \in Seq(SettledRow), NEW d
  PROVE  unexplained(daily_attribution(book, d)) = 0
<1> DEFINE rows == RowsOfDay(book, d)
           R == [i \in rows |-> pnl(book[i], Central)]
           E == [i \in rows |-> pnl_expected(book[i])]
           S == [i \in rows |-> err_spread(book[i])]
           C == [i \in rows |-> err_charge(book[i])]
           X == [i \in rows |-> err_spread(book[i]) + err_charge(book[i])]
<1>1. /\ daily_attribution(book, d).realized = SumFunctionOnSet(R, rows)
      /\ daily_attribution(book, d).expected = SumFunctionOnSet(E, rows)
      /\ daily_attribution(book, d).spread = SumFunctionOnSet(S, rows)
      /\ daily_attribution(book, d).charge = SumFunctionOnSet(C, rows)
  BY DEF daily_attribution, SumOver
<1>2. IsFiniteSet(rows) /\ rows \subseteq Scored(book)
  BY DayRows
<1>3. ASSUME NEW i \in rows
      PROVE  /\ R[i] \in Int /\ E[i] \in Int /\ S[i] \in Int /\ C[i] \in Int /\ X[i] \in Int
             /\ X[i] = S[i] + 1 * C[i] /\ R[i] = E[i] + 1 * X[i]
  <2>1. book[i] \in SettledRow /\ book[i].spread \in Int
    BY <1>2, ScoredRows
  <2>. QED
    BY <2>1, RowIsExplained
<1> HIDE DEF rows, R, E, S, C, X
<1>4. Combined(rows, S, C, X, 1) /\ Combined(rows, E, X, R, 1)
  BY <1>3 DEF Combined
<1>5. SumFunctionOnSet(X, rows) = SumFunctionOnSet(S, rows) + 1 * SumFunctionOnSet(C, rows)
  BY <1>2, <1>3, <1>4, SumCombines
<1>6. SumFunctionOnSet(R, rows) = SumFunctionOnSet(E, rows) + 1 * SumFunctionOnSet(X, rows)
  BY <1>2, <1>3, <1>4, SumCombines
<1>7. /\ SumFunctionOnSet(E, rows) \in Int /\ SumFunctionOnSet(S, rows) \in Int
      /\ SumFunctionOnSet(C, rows) \in Int /\ SumFunctionOnSet(X, rows) \in Int
  BY <1>2, <1>3, SumTyped
<1>. QED
  BY <1>1, <1>5, <1>6, <1>7 DEF unexplained

\* The results of the days add up to the margin of the report.
LEMMA DaysMakeTheMargin ==
  ASSUME NEW book \in Seq(SettledRow)
  PROVE  SumFunctionOnSet([d \in ScoredDays(book) |-> daily_attribution(book, d).realized],
                          ScoredDays(book)) = net_margin(book, Central)
<1> DEFINE f == [i \in Scored(book) |-> pnl(book[i], Central)]
           part == [d \in ScoredDays(book) |-> daily_attribution(book, d).realized]
<1>1. \A i \in Scored(book) : f[i] \in Int
  BY ScoredRows, RowIsExplained
<1>2. ASSUME NEW d \in ScoredDays(book) PROVE part[d] = SumFunctionOnSet(f, RowsOfDay(book, d))
  <2> DEFINE g == [i \in RowsOfDay(book, d) |-> pnl(book[i], Central)]
  <2>1. part[d] = SumFunctionOnSet(g, RowsOfDay(book, d))
    BY DEF daily_attribution, SumOver
  <2>2. \A i \in RowsOfDay(book, d) : f[i] \in Int /\ g[i] = f[i]
    BY <1>1, DayRows
  <2> HIDE DEF f, g
  <2>. QED
    BY <2>1, <2>2, DayRows, SumSame
<1>3. net_margin(book, Central) = SumFunctionOnSet(f, Scored(book))
  BY DEF net_margin, SumOver
<1> HIDE DEF f, part
<1>4. SumFunctionOnSet(part, ScoredDays(book)) = SumFunctionOnSet(f, Scored(book))
  BY <1>1, <1>2, DaysAddUp
<1>. QED
  BY <1>3, <1>4 DEF part

\* The misses of the days are what the hits of the report leave.
LEMMA MissesAndHits ==
  ASSUME NEW book \in Seq(SettledRow)
  PROVE  SumFunctionOnSet([d \in ScoredDays(book) |-> daily_attribution(book, d).missed],
                          ScoredDays(book)) + weighted_hits(book)
           = SumFunctionOnSet([i \in Scored(book) |->
                                 IF book[i].delta # 0 THEN Absolute(book[i].spread) ELSE 0],
                              Scored(book))
<1> DEFINE rows == Scored(book)
           M == [i \in rows |-> IF sign_miss(book[i]) THEN Absolute(book[i].spread) ELSE 0]
           W == [i \in rows |-> IF book[i].delta # 0 THEN Absolute(book[i].spread) ELSE 0]
           H == [i \in rows |-> IF book[i].delta # 0 /\ ~sign_miss(book[i])
                                THEN Absolute(book[i].spread) ELSE 0]
           part == [d \in ScoredDays(book) |-> daily_attribution(book, d).missed]
           active == {i \in rows : book[i].delta # 0}
           A == [i \in active |-> IF SignOf(book[i].delta) = SignOf(book[i].spread)
                                  THEN Absolute(book[i].spread) ELSE 0]
<1>1. IsFiniteSet(rows) /\ \A i \in rows : Absolute(book[i].spread) \in Int
  <2>1. IsFiniteSet(rows)
    BY ScoredRows
  <2>2. ASSUME NEW i \in rows PROVE Absolute(book[i].spread) \in Int
    <3>1. book[i].spread \in Int
      BY ScoredRows
    <3>. QED
      BY <3>1, AbsoluteTyped, Zenon
  <2>. QED
    BY <2>1, <2>2
<1>2. ASSUME NEW i \in rows
      PROVE  M[i] \in Int /\ W[i] \in Int /\ H[i] \in Int /\ W[i] = M[i] + 1 * H[i]
  <2>1. Absolute(book[i].spread) \in Int
    BY <1>1
  <2>2. sign_miss(book[i]) => book[i].delta # 0
    BY DEF sign_miss
  <2>. QED
    BY <2>1, <2>2
<1>3. ASSUME NEW d \in ScoredDays(book) PROVE part[d] = SumFunctionOnSet(M, RowsOfDay(book, d))
  <2> DEFINE g == [i \in RowsOfDay(book, d) |->
                     IF sign_miss(book[i]) THEN Absolute(book[i].spread) ELSE 0]
  <2>1. part[d] = SumFunctionOnSet(g, RowsOfDay(book, d))
    BY DEF daily_attribution, SumOver
  <2>2. \A i \in RowsOfDay(book, d) : M[i] \in Int /\ g[i] = M[i]
    BY <1>2, DayRows
  <2> HIDE DEF M, g
  <2>. QED
    BY <2>1, <2>2, DayRows, SumSame
<1>4. weighted_hits(book) = SumFunctionOnSet(A, active)
  BY DEF weighted_hits, SumOver
<1>5. \A i \in active : H[i] \in Int /\ A[i] = H[i]
  BY <1>2 DEF sign_miss
<1>6. active \in SUBSET rows /\ \A i \in rows \ active : H[i] = 0
  OBVIOUS
<1> HIDE DEF M, H, W, A, active, part, rows
<1>7. SumFunctionOnSet(H, rows) = SumFunctionOnSet(A, active)
  <2>1. IsFiniteSet(active)
    BY <1>1, <1>6, FS_Subset
  <2>2. SumFunctionOnSet(A, active) = SumFunctionOnSet(H, active)
    BY <1>5, <2>1, SumSame
  <2>3. SumFunctionOnSet(H, rows) = SumFunctionOnSet(H, active)
    BY <1>1, <1>2, <1>6, SumOfSupport
  <2>. QED
    BY <2>2, <2>3
<1>8. SumFunctionOnSet(part, ScoredDays(book)) = SumFunctionOnSet(M, rows)
  BY <1>2, <1>3, DaysAddUp DEF rows
<1>9. SumFunctionOnSet(W, rows) = SumFunctionOnSet(M, rows) + 1 * SumFunctionOnSet(H, rows)
  <2>1. Combined(rows, M, H, W, 1)
    BY <1>2 DEF Combined
  <2>. QED
    BY <1>1, <1>2, <2>1, SumCombines
<1>10. SumFunctionOnSet(H, rows) \in Int
  BY <1>1, <1>2, SumTyped
<1>11. SumFunctionOnSet(part, ScoredDays(book)) + weighted_hits(book) = SumFunctionOnSet(W, rows)
  BY <1>4, <1>7, <1>8, <1>9, <1>10
<1>. QED
  BY <1>11 DEF part, W, rows

\* The attribution explains every day without a rest, its days add up to the margin of the
\* report and its misses to what the hits of the report leave, for books of any length and
\* any prices (pnl_attribution.py:3-11, economic.py:75-80).
THEOREM AttributionExplainsTheReport == Spec => []AttributionAgreesWithReport
<1>1. InputTyped => AttributionAgreesWithReport
  <2> SUFFICES ASSUME InputTyped, input.kind = "book" PROVE AttributionAgreesWithReport
    BY DEF AttributionAgreesWithReport
  <2>1. input.book \in Seq(SettledRow)
    BY KindsApart
  <2>. QED
    BY <2>1, DayIsExplained, DaysMakeTheMargin, MissesAndHits
    DEF AttributionAgreesWithReport, SumOver
<1>. QED
  BY <1>1, InputsTyped, PTL

---------------------------------------------------------------------------
(* Drawdown *)

\* A finite set of numbers has a greatest and a least element.
LEMMA ExtremesExist ==
  ASSUME NEW S, IsFiniteSet(S), S # {}, S \subseteq Int
  PROVE  /\ \E x \in S : \A y \in S : y <= x
         /\ \E x \in S : \A y \in S : x <= y
<1> DEFINE Has(T) == /\ \E x \in T : \A y \in T : y <= x
                     /\ \E x \in T : \A y \in T : x <= y
           P == {T \in SUBSET S : T = {} \/ Has(T)}
<1>1. {} \in P
  OBVIOUS
<1>2. ASSUME NEW T \in SUBSET S, NEW z \in S \ T, T \in P PROVE T \cup {z} \in P
  <2>1. CASE T = {}
    <3>1. Has({z})
      OBVIOUS
    <3>. QED
      BY <2>1, <3>1
  <2>2. CASE T # {}
    <3>1. PICK x \in T : \A y \in T : y <= x
      BY <1>2, <2>2
    <3>2. PICK w \in T : \A y \in T : w <= y
      BY <1>2, <2>2
    <3>3. \A y \in T : y \in Int
      OBVIOUS
    <3>4. \E v \in T \cup {z} : \A y \in T \cup {z} : y <= v
      <4>1. CASE z <= x
        BY <3>1, <4>1
      <4>2. CASE ~(z <= x)
        <5>1. \A y \in T \cup {z} : y <= z
          BY <3>1, <3>3, <4>2
        <5>. QED
          BY <5>1
      <4>. QED
        BY <4>1, <4>2
    <3>5. \E v \in T \cup {z} : \A y \in T \cup {z} : v <= y
      <4>1. CASE w <= z
        BY <3>2, <4>1
      <4>2. CASE ~(w <= z)
        <5>1. \A y \in T \cup {z} : z <= y
          BY <3>2, <3>3, <4>2
        <5>. QED
          BY <5>1
      <4>. QED
        BY <4>1, <4>2
    <3>6. Has(T \cup {z})
      BY <3>4, <3>5
    <3>. QED
      BY <3>6
  <2>. QED
    BY <2>1, <2>2
<1> HIDE DEF P
<1>3. S \in P
  BY <1>1, <1>2, GrowsToAll
<1>. QED
  BY <1>3 DEF P

LEMMA MaxIsThere ==
  ASSUME NEW S, IsFiniteSet(S), S # {}, S \subseteq Int
  PROVE  Max(S) \in S /\ \A y \in S : y <= Max(S)
<1>1. \E x \in S : \A y \in S : x >= y
  BY ExtremesExist
<1>. QED
  BY <1>1 DEF Max

LEMMA MinIs ==
  ASSUME NEW S, S \subseteq Int, NEW x \in S, \A y \in S : x <= y
  PROVE  Min(S) = x
<1>1. Min(S) \in S /\ \A y \in S : Min(S) <= y
  BY DEF Min
<1>2. Min(S) \in Int /\ x \in Int /\ Min(S) <= x /\ x <= Min(S)
  BY <1>1
<1> HIDE DEF Min
<1>. QED
  BY <1>2

\* The running totals of a book: what they are, and what a stretch of days adds.
LEMMA TotalsOfABook ==
  ASSUME NEW book \in Seq(SettledRow)
  PROVE  /\ IsFiniteSet(ScoredDays(book))
         /\ \A d \in ScoredDays(book) : d \in Int /\ daily_pnl(book, d) \in Int
<1> DEFINE key == [i \in Scored(book) |-> book[i].day]
<1>1. \A d \in ScoredDays(book) : \E i \in Scored(book) : d = key[i]
  BY DEF ScoredDays
<1>2. IsFiniteSet(Scored(book)) /\ \A i \in Scored(book) : key[i] \in Int
  BY ScoredRows
<1> HIDE DEF key
<1>3. IsFiniteSet(ScoredDays(book))
  BY <1>1, <1>2, KeysAreFinite
<1>4. ASSUME NEW d \in ScoredDays(book) PROVE daily_pnl(book, d) \in Int
  <2> DEFINE f == [i \in RowsOfDay(book, d) |-> pnl(book[i], Central)]
  <2>1. IsFiniteSet(RowsOfDay(book, d))
    BY DayRows
  <2>2. \A i \in RowsOfDay(book, d) : f[i] \in Int
    BY DayRows, ScoredRows, RowIsExplained
  <2>3. daily_pnl(book, d) = SumFunctionOnSet(f, RowsOfDay(book, d))
    BY DEF daily_pnl, SumOver
  <2> HIDE DEF f
  <2>. QED
    BY <2>1, <2>2, <2>3, SumTyped
<1>. QED
  BY <1>1, <1>2, <1>3, <1>4

SplitAt(D, i, j, A, B, C) ==
  \A d : /\ d \in A <=> d \in D /\ d <= i
         /\ d \in B <=> d \in D /\ d <= j
         /\ d \in C <=> d \in D /\ i < d /\ d <= j

LEMMA StretchIsADifference ==
  ASSUME NEW D, IsFiniteSet(D), D \subseteq Int, NEW f, \A d \in D : f[d] \in Int,
         NEW i \in D, NEW j \in D, NEW A, NEW B, NEW C,
         SplitAt(D, i, j, A, B, C)
  PROVE  /\ SumFunctionOnSet(f, A) \in Int
         /\ SumFunctionOnSet(f, C)
              = IF i <= j THEN SumFunctionOnSet(f, B) - SumFunctionOnSet(f, A) ELSE 0
<1> USE DEF SplitAt
<1>1. IsFiniteSet(A) /\ IsFiniteSet(B) /\ IsFiniteSet(C)
  <2>1. A \in SUBSET D /\ B \in SUBSET D /\ C \in SUBSET D
    OBVIOUS
  <2>. QED
    BY <2>1, FS_Subset
<1>2. (\A d \in A : f[d] \in Int) /\ (\A d \in B : f[d] \in Int) /\ (\A d \in C : f[d] \in Int)
  OBVIOUS
<1>0. i \in Int /\ j \in Int /\ \A d \in D : d \in Int
  OBVIOUS
<1>3. i <= j => A \cup C = B /\ C \cap A = {}
  <2>. SUFFICES ASSUME i <= j PROVE A \cup C = B /\ C \cap A = {}
    OBVIOUS
  <2>1. ASSUME NEW d \in D PROVE (d <= i \/ (i < d /\ d <= j) <=> d <= j) /\ ~(i < d /\ d <= i)
    <3>1. d \in Int /\ i \in Int /\ j \in Int
      BY <1>0
    <3>. QED
      BY <3>1
  <2>. QED
    BY <2>1, Zenon
<1>4. ~(i <= j) => C = {}
  <2>. SUFFICES ASSUME ~(i <= j), NEW d \in C PROVE FALSE
    BY Zenon
  <2>1. d \in Int /\ i < d /\ d <= j
    OBVIOUS
  <2>. QED
    BY <2>1
<1>5. SumFunctionOnSet(f, A) \in Int /\ SumFunctionOnSet(f, B) \in Int /\ SumFunctionOnSet(f, C) \in Int
  BY <1>1, <1>2, SumTyped
<1>6. CASE i <= j
  <2>1. SumFunctionOnSet(f, A \cup C) = SumFunctionOnSet(f, A) + SumFunctionOnSet(f, C)
    <3>1. C \cap A = {} /\ \A d \in C \cup A : f[d] \in Int
      BY <1>2, <1>3, <1>6
    <3>. QED
      BY <1>1, <3>1, SumDisjoint
  <2>2. SumFunctionOnSet(f, B) = SumFunctionOnSet(f, A) + SumFunctionOnSet(f, C)
    BY <1>3, <1>6, <2>1, Zenon
  <2>3. SumFunctionOnSet(f, C) = SumFunctionOnSet(f, B) - SumFunctionOnSet(f, A)
    <3> DEFINE a == SumFunctionOnSet(f, A)
               b == SumFunctionOnSet(f, B)
               c == SumFunctionOnSet(f, C)
    <3> HIDE DEF a, b, c
    <3>1. a \in Int /\ b \in Int /\ c \in Int /\ b = a + c
      BY <1>5, <2>2 DEF a, b, c
    <3>2. c = b - a
      BY <3>1
    <3>. QED
      BY <3>2 DEF a, b, c
  <2>. QED
    BY <1>5, <1>6, <2>3
<1>7. CASE ~(i <= j)
  <2>1. SumFunctionOnSet(f, C) = 0
    BY <1>4, <1>7, SumEmpty
  <2>. QED
    BY <1>5, <1>7, <2>1
<1>. QED
  BY <1>6, <1>7

\* The totals of days, their peaks and how far each is below its peak.
Totals(D, up, peak, fall) ==
  /\ \A d \in D : up[d] \in Int /\ peak[d] \in Int /\ fall[d] = up[d] - peak[d]
  /\ \A d \in D : \E e \in D : e <= d /\ peak[d] = up[e]
  /\ \A d \in D : \A e \in D : e <= d => up[e] <= peak[d]

FallsAndStretches(D, up, fall, A, B) ==
  /\ \A x : x \in A <=> \E d \in D : x = fall[d]
  /\ \A x : x \in B <=> \E i, j \in D : x = IF i <= j THEN up[j] - up[i] ELSE 0

\* The deepest fall below the peak is the least result of a stretch.
LEMMA DeepestFall ==
  ASSUME NEW D, IsFiniteSet(D), D # {}, D \subseteq Int, NEW up, NEW peak, NEW fall, NEW A, NEW B,
         Totals(D, up, peak, fall), FallsAndStretches(D, up, fall, A, B)
  PROVE  Min(A) = Min(B)
<1> USE DEF Totals, FallsAndStretches
<1>1. IsFiniteSet(A) /\ A # {} /\ A \subseteq Int
  <2>1. IsFiniteSet(A)
    BY KeysAreFinite
  <2>2. \A d \in D : fall[d] \in Int
    <3>. SUFFICES ASSUME NEW d \in D PROVE fall[d] \in Int
      OBVIOUS
    <3>1. up[d] \in Int /\ peak[d] \in Int /\ fall[d] = up[d] - peak[d]
      OBVIOUS
    <3>. QED
      BY <3>1
  <2>3. A # {}
    <3>1. PICK d \in D : TRUE
      OBVIOUS
    <3>2. fall[d] \in A
      OBVIOUS
    <3>. QED
      BY <3>2
  <2>4. A \subseteq Int
    BY <2>2
  <2>. QED
    BY <2>1, <2>3, <2>4
<1>2. PICK a \in A : \A x \in A : a <= x
  BY <1>1, ExtremesExist
<1>3. PICK d \in D : a = up[d] - peak[d]
  BY <1>2
<1>4. a \in Int
  BY <1>1, <1>2
<1>5. a \in B
  BY <1>3
<1>6. \A x \in B : a <= x /\ x \in Int
  <2>. SUFFICES ASSUME NEW x \in B PROVE a <= x /\ x \in Int
    OBVIOUS
  <2>1. PICK i \in D, j \in D : x = IF i <= j THEN up[j] - up[i] ELSE 0
    OBVIOUS
  <2>2. CASE i <= j
    <3>1. a <= up[j] - peak[j]
      BY <1>2
    <3>2. up[i] <= peak[j] /\ up[i] \in Int /\ up[j] \in Int /\ peak[j] \in Int
      BY <2>2
    <3>3. x = up[j] - up[i]
      BY <2>1, <2>2
    <3> HIDE <2>1
    <3>. QED
      BY <1>4, <3>1, <3>2, <3>3
  <2>3. CASE ~(i <= j)
    <3>1. up[d] <= peak[d] /\ up[d] \in Int /\ peak[d] \in Int /\ x = 0
      BY <2>1, <2>3
    <3>. QED
      BY <1>3, <1>4, <3>1
  <2>. QED
    BY <2>2, <2>3
<1>7. Min(A) = a
  BY <1>1, <1>2, MinIs
<1>8. Min(B) = a
  <2>1. B \subseteq Int
    BY <1>6
  <2>. QED
    BY <1>5, <1>6, <2>1, MinIs
<1>. QED
  BY <1>7, <1>8

LEMMA DrawdownOfABook ==
  ASSUME InputTyped, input.kind = "book", Scored(input.book) # {}
  PROVE  LET book == input.book
             days == ScoredDays(book)
             Pnl(d) == daily_pnl(book, d)
             Stretch(i, j) == {d \in days : i < d /\ d <= j}
         IN  max_drawdown(book) = Min({SumOver(Stretch(i, j), Pnl) : i, j \in days})
<1> DEFINE book == input.book
<1>0. book \in Seq(SettledRow) /\ Scored(book) # {}
  BY KindsApart
<1> HIDE DEF book
<1> DEFINE D == ScoredDays(book)
           F == [d \in D |-> daily_pnl(book, d)]
           Before(d) == {e \in D : e <= d}
           Between(i, j) == {d \in D : i < d /\ d <= j}
           up == [d \in D |-> SumFunctionOnSet(F, Before(d))]
           peak == [d \in D |-> PeakAt(book, d)]
           fall == [d \in D |-> up[d] - peak[d]]
           Result(i, j) == SumFunctionOnSet([e \in Between(i, j) |-> daily_pnl(book, e)], Between(i, j))
           A == {cumulative(book, d) - PeakAt(book, d) : d \in D}
           B == {Result(i, j) : i, j \in D}
<1>1. IsFiniteSet(D) /\ D # {} /\ D \subseteq Int /\ \A d \in D : F[d] \in Int /\ F[d] = daily_pnl(book, d)
  BY <1>0, TotalsOfABook DEF ScoredDays
<1>2. ASSUME NEW T \in SUBSET D
      PROVE  SumFunctionOnSet([e \in T |-> daily_pnl(book, e)], T) = SumFunctionOnSet(F, T)
  <2> DEFINE g == [e \in T |-> daily_pnl(book, e)]
  <2>1. IsFiniteSet(T) /\ \A x \in T : F[x] \in Int /\ g[x] = F[x]
    BY <1>1, FS_Subset
  <2> HIDE DEF g, F
  <2>2. SumFunctionOnSet(g, T) = SumFunctionOnSet(F, T)
    BY <2>1, SumSame
  <2>. QED
    BY <2>2 DEF g
<1>3. ASSUME NEW d \in D PROVE cumulative(book, d) = up[d]
  <2>1. Before(d) \in SUBSET D
    OBVIOUS
  <2>2. cumulative(book, d) = SumFunctionOnSet([e \in Before(d) |-> daily_pnl(book, e)], Before(d))
    BY DEF cumulative, SumOver
  <2>3. up[d] = SumFunctionOnSet(F, Before(d))
    OBVIOUS
  <2>. HIDE DEF F, Before, up
  <2>. QED
    BY <1>2, <2>1, <2>2, <2>3
<1>4. ASSUME NEW i \in D, NEW j \in D
      PROVE  /\ up[i] \in Int
             /\ Result(i, j) = IF i <= j THEN up[j] - up[i] ELSE 0
  <2> DEFINE U == Before(i)
             V == Before(j)
             W == Between(i, j)
  <2>1. SplitAt(D, i, j, U, V, W)
    BY DEF SplitAt
  <2>2. up[i] = SumFunctionOnSet(F, U) /\ up[j] = SumFunctionOnSet(F, V)
    OBVIOUS
  <2>3. Result(i, j) = SumFunctionOnSet(F, W)
    <3>1. W \in SUBSET D
      OBVIOUS
    <3>. QED
      BY <1>2, <3>1
  <2> HIDE DEF F, up, Result, D, U, V, W
  <2>4. SumFunctionOnSet(F, U) \in Int
        /\ SumFunctionOnSet(F, W)
             = IF i <= j THEN SumFunctionOnSet(F, V) - SumFunctionOnSet(F, U) ELSE 0
    BY <1>1, <2>1, StretchIsADifference
  <2>. QED
    BY <2>2, <2>3, <2>4
<1>5. ASSUME NEW d \in D
      PROVE  /\ peak[d] \in Int
             /\ \E e \in D : e <= d /\ peak[d] = up[e]
             /\ \A e \in D : e <= d => up[e] <= peak[d]
  <2> DEFINE S == {cumulative(book, e) : e \in Before(d)}
             E == Before(d)
  <2>1. peak[d] = Max(S)
    BY DEF PeakAt
  <2>2. IsFiniteSet(E) /\ d \in E
    <3>1. E \in SUBSET D
      OBVIOUS
    <3>2. IsFiniteSet(E)
      BY <1>1, <3>1, FS_Subset
    <3>. QED
      BY <1>1, <3>2
  <2>3. \A x : x \in S <=> \E e \in E : x = up[e]
    BY <1>3
  <2>4. \A e : e \in E <=> e \in D /\ e <= d
    OBVIOUS
  <2>5. \A e \in D : up[e] \in Int
    BY <1>4
  <2> HIDE DEF S, E, up, peak, D, F
  <2>6. IsFiniteSet(S) /\ S # {} /\ S \subseteq Int
    <3>1. IsFiniteSet(S)
      BY <2>2, <2>3, KeysAreFinite
    <3>. QED
      BY <2>2, <2>3, <2>4, <2>5, <3>1
  <2>7. Max(S) \in S /\ \A y \in S : y <= Max(S)
    BY <2>6, MaxIsThere
  <2>. QED
    BY <2>1, <2>3, <2>4, <2>5, <2>7
<1>6. \A x : x \in A <=> \E d \in D : x = fall[d]
  <2>1. \A d \in D : fall[d] = cumulative(book, d) - PeakAt(book, d)
    BY <1>3
  <2>. HIDE DEF fall, up, peak, F, D
  <2>. QED
    BY <2>1
<1>7. \A x : x \in B <=> \E i, j \in D : x = IF i <= j THEN up[j] - up[i] ELSE 0
  <2> HIDE DEF Result, up, D
  <2>. QED
    BY <1>4
<1>8. \A d \in D : up[d] \in Int /\ peak[d] \in Int /\ fall[d] = up[d] - peak[d]
  BY <1>4, <1>5
<1>9. max_drawdown(book) = Min(A)
  BY DEF max_drawdown
<1> HIDE DEF A, B, up, peak, fall, D, F
<1>10. Min(A) = Min(B)
  <2>1. \A d \in D : \E e \in D : e <= d /\ peak[d] = up[e]
    BY <1>5
  <2>2. \A d \in D : \A e \in D : e <= d => up[e] <= peak[d]
    BY <1>5
  <2>3. IsFiniteSet(D) /\ D # {} /\ D \subseteq Int
    BY <1>1
  <2>4. Totals(D, up, peak, fall)
    BY <1>8, <2>1, <2>2 DEF Totals
  <2>5. FallsAndStretches(D, up, fall, A, B)
    BY <1>6, <1>7, Zenon DEF FallsAndStretches
  <2>. QED
    BY <2>3, <2>4, <2>5, DeepestFall
<1>. QED
  BY <1>9, <1>10 DEF B, D, book, SumOver

\* The drawdown of a report is the worst result of a stretch of days that follow each other,
\* for books of any length (economic.py:51-55, 90).
THEOREM DrawdownIsOfAStretch == Spec => []DrawdownIsWorstStretch
<1>1. InputTyped => DrawdownIsWorstStretch
  BY DrawdownOfABook DEF DrawdownIsWorstStretch
<1>. QED
  BY <1>1, InputsTyped, PTL

---------------------------------------------------------------------------
(* Regimes *)

LEMMA RegimesInOrder ==
  /\ Date(2019, 1, 1) \in Nat /\ Date(2026, 2, 1) \in Nat
  /\ Date(2019, 1, 1) < Date(2026, 2, 1)
<1>1. NewYear(2019) = 365 * 2018 + 504 - 20 + 5 + 1
  BY SMT DEF NewYear
<1>2. NewYear(2026) = 365 * 2025 + 506 - 20 + 5 + 1
  BY SMT DEF NewYear
<1>3. DaysBefore[1] = 0 /\ DaysBefore[2] = 31
  BY SMT DEF DaysBefore
<1>. QED
  BY <1>1, <1>2, <1>3, SMT DEF Date

\* The data type of a day is the first one before the regime changes, the second one after.
LEMMA TwoRegimes ==
  ASSUME NEW e, NEW day \in Int
  PROVE  /\ e \in mtu =>
              /\ e.from \in {Date(2019, 1, 1), Date(2026, 2, 1)}
              /\ e.dataType = IF e.from = Date(2026, 2, 1) THEN "QuartoOrario" ELSE "Orario"
         /\ \E f \in mtu : f.from = Date(2019, 1, 1)
         /\ \E f \in mtu : f.from = Date(2026, 2, 1)
<1> DEFINE a == Date(2019, 1, 1)
           b == Date(2026, 2, 1)
<1>1. a \in Nat /\ b \in Nat /\ a < b
  BY RegimesInOrder
<1>2. mtu = {[from |-> a, resolution |-> "PT1H", dataType |-> "Orario"],
             [from |-> b, resolution |-> "PT15M", dataType |-> "QuartoOrario"]}
  BY DEF mtu
<1> HIDE DEF a, b
<1>3. /\ e \in mtu => e.from \in {a, b} /\ e.dataType = IF e.from = b THEN "QuartoOrario" ELSE "Orario"
      /\ \E f \in mtu : f.from = a
      /\ \E f \in mtu : f.from = b
  BY <1>1, <1>2
<1>. QED
  BY <1>3 DEF a, b

\* The data type of a day is the first one before the regime changes, the second one after.
LEMMA DataTypeOfADay ==
  ASSUME NEW day \in Int
  PROVE  terna_data_type(day)
           = IF day < Date(2026, 2, 1) THEN "Orario" ELSE "QuartoOrario"
<1> DEFINE a == Date(2019, 1, 1)
           b == Date(2026, 2, 1)
           S == Started(mtu, day)
           Last(e) == e \in S /\ \A f \in S : f.from <= e.from
           First(e) == e \in mtu /\ \A f \in mtu : e.from <= f.from
<1>1. a \in Int /\ b \in Int /\ a < b
  BY RegimesInOrder
<1>2. \A e \in mtu : /\ e.from \in {a, b}
                     /\ e.dataType = IF e.from = b THEN "QuartoOrario" ELSE "Orario"
  BY TwoRegimes
<1>3. (\E f \in mtu : f.from = a) /\ \E f \in mtu : f.from = b
  BY TwoRegimes
<1>4. \A e : e \in S <=> e \in mtu /\ e.from <= day
  BY DEF Started
<1>5. pick(mtu, day) = IF S # {} THEN CHOOSE e : Last(e) ELSE CHOOSE e : First(e)
  BY DEF pick
<1>6. terna_data_type(day) = pick(mtu, day).dataType
  BY DEF terna_data_type
<1> HIDE DEF a, b, S
<1>7. CASE S # {}
  <2>1. CASE b <= day
    <3>1. PICK f \in mtu : f.from = b
      BY <1>3
    <3>2. f \in S
      BY <1>4, <2>1, <3>1
    <3>3. \A e \in S : e.from \in Int /\ e.from <= b
      BY <1>1, <1>2, <1>4
    <3>4. Last(f)
      BY <3>1, <3>2, <3>3
    <3>5. \A e : Last(e) => e \in mtu /\ e.from = b
      BY <1>1, <1>4, <3>1, <3>2, <3>3
    <3> DEFINE e == CHOOSE e : Last(e)
    <3>6. Last(e)
      BY <3>4, Zenon
    <3> HIDE DEF e, Last
    <3>7. e \in mtu /\ e.from = b
      BY <3>5, <3>6
    <3>8. pick(mtu, day) = e
      BY <1>5, <1>7 DEF e
    <3>9. terna_data_type(day) = "QuartoOrario"
      BY <1>2, <1>6, <3>7, <3>8
    <3>. QED
      BY <1>1, <2>1, <3>9 DEF b
  <2>2. CASE ~(b <= day)
    <3>1. PICK f \in S : TRUE
      BY <1>7
    <3>2. \A e \in S : e \in mtu /\ e.from = a
      BY <1>1, <1>2, <1>4, <2>2
    <3>3. Last(f)
      BY <1>1, <3>1, <3>2
    <3> DEFINE e == CHOOSE e : Last(e)
    <3>4. Last(e)
      BY <3>3, Zenon
    <3>5. e \in mtu /\ e.from = a
      BY <3>2, <3>4
    <3> HIDE DEF e, Last
    <3>6. pick(mtu, day) = e
      BY <1>5, <1>7 DEF e
    <3>7. terna_data_type(day) = "Orario"
      BY <1>1, <1>2, <1>6, <3>5, <3>6
    <3>. QED
      BY <1>1, <2>2, <3>7 DEF b
  <2>. QED
    BY <2>1, <2>2
<1>8. CASE S = {}
  <2>1. PICK f \in mtu : f.from = a
    BY <1>3
  <2>2. ~(a <= day)
    BY <1>4, <1>8, <2>1
  <2>3. First(f)
    BY <1>1, <1>2, <2>1
  <2> DEFINE e == CHOOSE e : First(e)
  <2>4. First(e)
    BY <2>3, Zenon
  <2>5. e \in mtu /\ e.from = a
    BY <1>1, <1>2, <2>1, <2>4
  <2> HIDE DEF e, First
  <2>6. pick(mtu, day) = e
    BY <1>5, <1>8 DEF e
  <2>7. terna_data_type(day) = "Orario"
    BY <1>1, <1>2, <1>6, <2>5, <2>6
  <2>. QED
    BY <1>1, <2>2, <2>7 DEF b
<1>. QED
  BY <1>7, <1>8

LEMMA ChangesOfRegime ==
  ASSUME NEW day \in Int, NEW d \in Int
  PROVE  (\E e, f \in mtu : f.from < e.from /\ day < e.from /\ e.from <= d)
           <=> day < Date(2026, 2, 1) /\ Date(2026, 2, 1) <= d
<1> DEFINE a == Date(2019, 1, 1)
           b == Date(2026, 2, 1)
<1>1. a \in Int /\ b \in Int /\ a < b
  BY RegimesInOrder
<1>2. \A e \in mtu : e.from \in {a, b}
  BY TwoRegimes
<1>3. (\E f \in mtu : f.from = a) /\ \E f \in mtu : f.from = b
  BY TwoRegimes
<1> HIDE DEF a, b
<1>4. (\E e, f \in mtu : f.from < e.from /\ day < e.from /\ e.from <= d) <=> day < b /\ b <= d
  BY <1>1, <1>2, <1>3
<1>. QED
  BY <1>4 DEF b

\* A pull that asks for its days in the data type of the first asks for each in its own
\* exactly when the regime does not change inside the window, for windows of any length in
\* any year (flows.py:36, backfill.py:53).
THEOREM WindowsAreUniform == Spec => []WindowsWithinARegimeAreUniform
<1>1. InputTyped => WindowsWithinARegimeAreUniform
  <2> SUFFICES ASSUME InputTyped, input.kind = "day", NEW d \in input.day .. input.day + MaxWindow
               PROVE  requested_data_type(input.day, d) = terna_data_type(d)
                        <=> ~\E e, f \in mtu : f.from < e.from /\ input.day < e.from /\ e.from <= d
    BY DEF WindowsWithinARegimeAreUniform
  <2>1. input.day \in Int /\ d \in Int /\ input.day <= d
    BY KindsApart, SizesAssumption DEF DayInput
  <2>2. Date(2026, 2, 1) \in Int
    BY RegimesInOrder
  <2>3. requested_data_type(input.day, d) = terna_data_type(input.day)
    BY DEF requested_data_type
  <2>4. terna_data_type(input.day) = terna_data_type(d)
          <=> ~(input.day < Date(2026, 2, 1) /\ Date(2026, 2, 1) <= d)
    <3> DEFINE b == Date(2026, 2, 1)
               x == terna_data_type(input.day)
               y == terna_data_type(d)
               n == input.day
    <3>1. x = IF n < b THEN "Orario" ELSE "QuartoOrario"
      BY <2>1, DataTypeOfADay
    <3>2. y = IF d < b THEN "Orario" ELSE "QuartoOrario"
      BY <2>1, DataTypeOfADay
    <3>3. n \in Int /\ d \in Int /\ n <= d /\ b \in Int
      BY <2>1, <2>2
    <3> HIDE DEF b, x, y, n
    <3>4. x = y <=> ~(n < b /\ b <= d)
      BY <3>1, <3>2, <3>3
    <3>. QED
      BY <3>4 DEF b, x, y, n
  <2>5. (\E e, f \in mtu : f.from < e.from /\ input.day < e.from /\ e.from <= d)
          <=> input.day < Date(2026, 2, 1) /\ Date(2026, 2, 1) <= d
    BY <2>1, ChangesOfRegime
  <2> DEFINE Changes == \E e, f \in mtu : f.from < e.from /\ input.day < e.from /\ e.from <= d
             Inside == input.day < Date(2026, 2, 1) /\ Date(2026, 2, 1) <= d
  <2>6. Changes <=> Inside
    BY <2>5
  <2>7. requested_data_type(input.day, d) = terna_data_type(d) <=> ~Inside
    BY <2>3, <2>4
  <2> HIDE DEF Changes, Inside
  <2>8. requested_data_type(input.day, d) = terna_data_type(d) <=> ~Changes
    BY <2>6, <2>7
  <2>. QED
    BY <2>8 DEF Changes
<1>. QED
  BY <1>1, InputsTyped, PTL

---------------------------------------------------------------------------
(* Holidays *)

LEMMA FirstOfIs ==
  ASSUME NEW near, near \subseteq Nat, NEW k \in near, \A j \in near : k <= j
  PROVE  FirstOf(near) = k
<1> DEFINE Lowest(m) == m \in near /\ \A j \in near : m <= j
           n == CHOOSE m : Lowest(m)
<1>1. Lowest(k)
  OBVIOUS
<1>2. Lowest(n)
  BY <1>1, Zenon
<1>3. FirstOf(near) = n
  BY DEF FirstOf
<1>4. n \in Nat /\ k \in Nat /\ n <= k /\ k <= n
  BY <1>1, <1>2
<1> HIDE DEF n
<1>. QED
  BY <1>3, <1>4

\* What is one day farther in the one set than in the other.
Farther(near, next) ==
  /\ near \subseteq 0..Horizon /\ next \subseteq 0..Horizon
  /\ \A k \in 0..(Horizon - 1) : k + 1 \in near <=> k \in next

LEMMA CountDown ==
  ASSUME NEW near, NEW next, Farther(near, next)
  PROVE  FirstOf(near) = IF 0 \in near THEN 0 ELSE Least(FirstOf(next) + 1, Horizon + 1)
<1>0. near \subseteq Nat /\ next \subseteq Nat /\ Horizon = 7
  BY DEF Farther, Horizon
<1>1. CASE 0 \in near
  <2>1. \A j \in near : 0 <= j
    BY <1>0
  <2>2. FirstOf(near) = 0
    BY <1>0, <1>1, <2>1, FirstOfIs
  <2>. QED
    BY <1>1, <2>2
<1>2. CASE 0 \notin near /\ next = {}
  <2>1. near = {}
    BY <1>2 DEF Farther, Horizon
  <2>. QED
    BY <1>2, <2>1 DEF FirstOf, Least, Horizon
<1>3. CASE 0 \notin near /\ next # {}
  <2>1. PICK n \in next : \A m \in next : n <= m
    BY <1>0, <1>3, LeastExists
  <2>2. FirstOf(next) = n /\ n \in 0..7
    BY <1>0, <2>1, FirstOfIs DEF Farther, Horizon
  <2>3. CASE n < 7
    <3>1. n + 1 \in near
      BY <2>2, <2>3 DEF Farther, Horizon
    <3>2. \A j \in near : n + 1 <= j
      <4>. SUFFICES ASSUME NEW j \in near PROVE n + 1 <= j
        OBVIOUS
      <4>1. j \in 1..7
        BY <1>3 DEF Farther, Horizon
      <4>2. j - 1 \in 0..6 /\ (j - 1) + 1 = j
        BY <4>1
      <4>3. j - 1 \in next
        BY <4>2 DEF Farther, Horizon
      <4>4. n <= j - 1
        BY <2>1, <4>3
      <4>. QED
        BY <2>2, <4>1, <4>4
    <3>3. FirstOf(near) = n + 1
      BY <1>0, <3>1, <3>2, FirstOfIs
    <3>. QED
      BY <1>3, <2>2, <2>3, <3>3 DEF Least, Horizon
  <2>4. CASE n = 7
    <3>1. near = {}
      <4>. SUFFICES ASSUME NEW j \in near PROVE FALSE
        OBVIOUS
      <4>1. j \in 1..7
        BY <1>3 DEF Farther, Horizon
      <4>2. j - 1 \in 0..6 /\ (j - 1) + 1 = j
        BY <4>1
      <4>3. j - 1 \in next
        BY <4>2 DEF Farther, Horizon
      <4>. QED
        BY <2>1, <2>4, <4>2, <4>3
    <3>. QED
      BY <1>3, <2>2, <2>4, <3>1 DEF FirstOf, Least, Horizon
  <2>. QED
    BY <2>2, <2>3, <2>4
<1>. QED
  BY <1>1, <1>2, <1>3

LEMMA ToHoliday ==
  ASSUME NEW day \in Int
  PROVE  days_to_holiday(day) = IF is_holiday(day) THEN 0
                                ELSE Least(days_to_holiday(day + 1) + 1, Horizon + 1)
<1> DEFINE near == {k \in 0..Horizon : is_holiday(day + k)}
           next == {k \in 0..Horizon : is_holiday(day + 1 + k)}
<1>1. ASSUME NEW k \in 0..6 PROVE day + (k + 1) = day + 1 + k
  OBVIOUS
<1>2. Farther(near, next)
  BY <1>1 DEF Farther, Horizon
<1>3. 0 \in near <=> is_holiday(day)
  <2>1. day + 0 = day
    OBVIOUS
  <2>. QED
    BY <2>1 DEF Horizon
<1>4. days_to_holiday(day) = FirstOf(near) /\ days_to_holiday(day + 1) = FirstOf(next)
  BY DEF days_to_holiday
<1> HIDE DEF near, next
<1>. QED
  BY <1>2, <1>3, <1>4, CountDown

LEMMA FromHoliday ==
  ASSUME NEW day \in Int
  PROVE  days_from_holiday(day + 1) = IF is_holiday(day + 1) THEN 0
                                      ELSE Least(days_from_holiday(day) + 1, Horizon + 1)
<1> DEFINE near == {k \in 0..Horizon : is_holiday(day + 1 - k)}
           next == {k \in 0..Horizon : is_holiday(day - k)}
<1>1. ASSUME NEW k \in 0..6 PROVE day + 1 - (k + 1) = day - k
  OBVIOUS
<1>2. Farther(near, next)
  BY <1>1 DEF Farther, Horizon
<1>3. 0 \in near <=> is_holiday(day + 1)
  <2>1. day + 1 - 0 = day + 1
    OBVIOUS
  <2>. QED
    BY <2>1 DEF Horizon
<1>4. days_from_holiday(day + 1) = FirstOf(near) /\ days_from_holiday(day) = FirstOf(next)
  BY DEF days_from_holiday
<1> HIDE DEF near, next
<1>. QED
  BY <1>2, <1>3, <1>4, CountDown

\* A working day after a weekend is a Monday, and the day after a Monday is no weekend: one
\* of the two days that a bridge day joins is a holiday.
LEMMA BridgesTouchHolidays ==
  ASSUME NEW day \in Int, is_bridge_day(day)
  PROVE  1 \in {days_to_holiday(day), days_from_holiday(day)}
<1>1. ~is_holiday(day) /\ weekday(day) < 5
  BY DEF is_bridge_day, is_nonworking, weekday
<1>2. is_holiday(day - 1) \/ is_holiday(day + 1)
  <2>1. ~(weekday(day - 1) >= 5 /\ weekday(day + 1) >= 5)
    BY <1>1 DEF weekday
  <2>. QED
    BY <2>1 DEF is_bridge_day, is_nonworking
<1>3. ASSUME NEW near, near \subseteq 0..Horizon, 0 \notin near, 1 \in near PROVE FirstOf(near) = 1
  <2>1. near \subseteq Nat /\ \A j \in near : 1 <= j
    BY <1>3 DEF Horizon
  <2>. QED
    BY <1>3, <2>1, FirstOfIs
<1>4. day + 0 = day /\ day - 0 = day
  OBVIOUS
<1>5. is_holiday(day + 1) => days_to_holiday(day) = 1
  <2> DEFINE near == {k \in 0..Horizon : is_holiday(day + k)}
  <2>1. near \subseteq 0..Horizon /\ 0 \notin near /\ (is_holiday(day + 1) => 1 \in near)
    BY <1>1, <1>4 DEF Horizon
  <2> HIDE DEF near
  <2>2. is_holiday(day + 1) => FirstOf(near) = 1
    BY <1>3, <2>1
  <2>. QED
    BY <2>2 DEF near, days_to_holiday
<1>6. is_holiday(day - 1) => days_from_holiday(day) = 1
  <2> DEFINE near == {k \in 0..Horizon : is_holiday(day - k)}
  <2>1. near \subseteq 0..Horizon /\ 0 \notin near /\ (is_holiday(day - 1) => 1 \in near)
    BY <1>1, <1>4 DEF Horizon
  <2> HIDE DEF near
  <2>2. is_holiday(day - 1) => FirstOf(near) = 1
    BY <1>3, <2>1
  <2>. QED
    BY <2>2 DEF near, days_from_holiday
<1>. QED
  BY <1>2, <1>5, <1>6

\* From one day to the next the distance to the next holiday falls by one and the distance
\* from the last one rises by one, over every New Year's Eve, whatever the tables of the
\* years say (calendar_it.py:77-80).
THEOREM HolidaysCountDown == Spec => HolidaysAreCountedDown
<1>1. InputTyped /\ [Next]_input =>
        [Tomorrow =>
           LET day == input.day
               next == input'.day
           IN  /\ days_to_holiday(day) = IF is_holiday(day) THEN 0
                                         ELSE Least(days_to_holiday(next) + 1, Horizon + 1)
               /\ days_from_holiday(next) = IF is_holiday(next) THEN 0
                                            ELSE Least(days_from_holiday(day) + 1, Horizon + 1)
               /\ is_bridge_day(day) => 1 \in {days_to_holiday(day), days_from_holiday(day)}]_input
  <2> SUFFICES ASSUME InputTyped, Tomorrow
               PROVE  /\ days_to_holiday(input.day)
                           = IF is_holiday(input.day) THEN 0
                             ELSE Least(days_to_holiday(input'.day) + 1, Horizon + 1)
                      /\ days_from_holiday(input'.day)
                           = IF is_holiday(input'.day) THEN 0
                             ELSE Least(days_from_holiday(input.day) + 1, Horizon + 1)
                      /\ is_bridge_day(input.day) =>
                           1 \in {days_to_holiday(input.day), days_from_holiday(input.day)}
    BY Zenon
  <2>1. input.day \in Int /\ input'.day = input.day + 1
    BY KindsApart DEF Tomorrow, DayInput
  <2>. QED
    BY <2>1, ToHoliday, FromHoliday, BridgesTouchHolidays
<1>. QED
  BY <1>1, InputsTyped, PTL DEF HolidaysAreCountedDown, Spec

---------------------------------------------------------------------------
(* Printed numbers *)

LEMMA OneOrMany ==
  ASSUME NEW n \in Nat
  PROVE  IsFiniteSet(1..n) /\ Cardinality(1..n) = n
<1>1. IsFiniteSet(1..n) /\ Cardinality(1..n) = IF 1 > n THEN 0 ELSE n - 1 + 1
  BY FS_Interval
<1>. QED
  BY <1>1

\* What is read when the positions of the decimal mark are known.
LEMMA ReadAs ==
  ASSUME NEW marks, NEW points, points = {i \in DOMAIN marks : marks[i] = DecimalMark(marks)}
  PROVE  /\ points = {} => parse_number(marks) = 0
         /\ \A p : points = {p} => parse_number(marks) = p
         /\ \A n \in Nat \ {0, 1} : points = 1..n => parse_number(marks) = None
<1>1. parse_number(marks) = CASE points = {} -> 0
                              [] Cardinality(points) = 1 -> CHOOSE i \in points : TRUE
                              [] OTHER -> None
  BY DEF parse_number
<1>2. points = {} => parse_number(marks) = 0
  <2>1. points = {} => Cardinality(points) = 0
    BY FS_EmptySet
  <2>. QED
    BY <1>1, <2>1
<1>3. ASSUME NEW p, points = {p} PROVE parse_number(marks) = p
  <2>1. Cardinality(points) = 1 /\ points # {}
    BY <1>3, FS_Singleton
  <2>2. (CHOOSE i \in points : TRUE) = p
    BY <1>3
  <2>. QED
    BY <1>1, <2>1, <2>2
<1>4. ASSUME NEW n \in Nat \ {0, 1}, points = 1..n PROVE parse_number(marks) = None
  <2>1. n \in Nat /\ Cardinality(1..n) = n /\ 1 \in 1..n
    BY OneOrMany
  <2>. QED
    BY <1>1, <1>4, <2>1
<1>. QED
  BY <1>2, <1>3, <1>4

\* The marks of a printed number, and which kinds of mark it has.
Shape(marks, thousands, decimal, n, fraction) ==
  /\ DOMAIN marks = IF fraction THEN 1..(n + 1) ELSE 1..n
  /\ \A i \in 1..n : marks[i] = thousands
  /\ fraction => marks[n + 1] = decimal

LEMMA ShapeOfPrinted ==
  ASSUME NEW format \in Formats, NEW n \in Nat, NEW fraction \in BOOLEAN
  PROVE  Shape(Printed(format, n, fraction), format.thousands, format.decimal, n, fraction)
<1> DEFINE th == format.thousands
           de == format.decimal
           head == [i \in 1..n |-> th]
<1>1. head \in Seq({th}) /\ Len(head) = n
  OBVIOUS
<1>2. \A i \in 1..n : head[i] = th
  OBVIOUS
<1> HIDE DEF head, th, de
<1>3. CASE fraction
  <2>1. Printed(format, n, fraction) = head \o <<de>>
    BY <1>3 DEF Printed, head, th, de
  <2>2. /\ DOMAIN (head \o <<de>>) = 1..(n + 1)
        /\ \A i \in 1..n : (head \o <<de>>)[i] = head[i]
        /\ (head \o <<de>>)[n + 1] = de
    BY <1>1
  <2>. QED
    BY <1>2, <1>3, <2>1, <2>2 DEF Shape, th, de
<1>4. CASE ~fraction
  <2>1. Printed(format, n, fraction) = head \o <<>>
    BY <1>4 DEF Printed, head, th, de
  <2>2. /\ DOMAIN (head \o <<>>) = 1..n
        /\ \A i \in 1..n : (head \o <<>>)[i] = head[i]
    BY <1>1
  <2>. QED
    BY <1>2, <1>4, <2>1, <2>2 DEF Shape, th, de
<1>. QED
  BY <1>3, <1>4

LEMMA CountsOfMarks ==
  ASSUME NEW marks, NEW th, NEW de, NEW n \in Nat, NEW fraction \in BOOLEAN,
         Shape(marks, th, de, n, fraction), NEW m
  PROVE  Count(marks, m) > 0 <=> \E i \in DOMAIN marks : marks[i] = m
<1> DEFINE S == {i \in DOMAIN marks : marks[i] = m}
<1>1. S \in SUBSET (1..(n + 1)) /\ n + 1 \in Nat
  BY DEF Shape
<1>2. Count(marks, m) = Cardinality(S)
  BY DEF Count
<1>3. S # {} <=> \E i \in DOMAIN marks : marks[i] = m
  OBVIOUS
<1> HIDE DEF S
<1>4. IsFiniteSet(S)
  BY <1>1, OneOrMany, FS_Subset
<1>5. Cardinality(S) \in Nat /\ (Cardinality(S) = 0 <=> S = {})
  BY <1>4, FS_CardinalityType, FS_EmptySet
<1>. QED
  BY <1>2, <1>3, <1>5

\* Which mark is taken for the decimal point.
LEMMA DecimalMarkOfPrinted ==
  ASSUME NEW marks, NEW th, NEW de, NEW n \in Nat, NEW fraction \in BOOLEAN,
         Shape(marks, th, de, n, fraction),
         \/ th = "dot" /\ de = "comma"
         \/ th = "comma" /\ de = "dot"
         \/ th = "gap" /\ de \in {"dot", "comma"}
  PROVE  /\ fraction => DecimalMark(marks) = de
         /\ ~fraction /\ n > 0 /\ th # "gap" => DecimalMark(marks) = th
         /\ ~fraction /\ (n = 0 \/ th = "gap") => DecimalMark(marks) = "dot"
<1> DEFINE kept == Kept(marks)
           last == CHOOSE i \in kept : \A j \in kept : j <= i
           Has(m) == \E i \in DOMAIN marks : marks[i] = m
<1>1. DecimalMark(marks) = IF Has("comma") /\ Has("dot") THEN marks[last]
                           ELSE IF Has("comma") THEN "comma" ELSE "dot"
  BY CountsOfMarks DEF DecimalMark
<1>2. \A m : Has(m) <=> (fraction /\ m = de) \/ (n > 0 /\ m = th)
  BY DEF Shape
<1>3. ASSUME fraction, n > 0, th # "gap" PROVE marks[last] = de
  <2>1. kept = 1..(n + 1)
    BY <1>3 DEF Kept, Shape
  <2>2. last = n + 1
    <3> DEFINE Lasts(i) == i \in kept /\ \A j \in kept : j <= i
    <3>1. Lasts(n + 1) /\ \A i : Lasts(i) => i = n + 1
      BY <2>1
    <3>2. last = CHOOSE i : Lasts(i)
      OBVIOUS
    <3> HIDE DEF last, Lasts
    <3>. QED
      BY <3>1, <3>2
  <2>. QED
    BY <1>3, <2>2 DEF Shape
<1> HIDE DEF last, Has
<1>. QED
  BY <1>1, <1>2, <1>3

LEMMA PrintedIsReadBack ==
  ASSUME NEW format \in Formats, NEW n \in Nat, NEW fraction \in BOOLEAN
  PROVE  LET marks == Printed(format, n, fraction)
             bare == ~fraction /\ format.thousands # "gap"
         IN  parse_number(marks) = IF bare /\ n = 1 THEN 1
                                   ELSE IF bare /\ n > 1 THEN None
                                   ELSE PointOf(n, fraction)
<1> DEFINE marks == Printed(format, n, fraction)
           th == format.thousands
           de == format.decimal
           points == {i \in DOMAIN marks : marks[i] = DecimalMark(marks)}
<1>1. Shape(marks, th, de, n, fraction)
  BY ShapeOfPrinted
<1>2. \/ th = "dot" /\ de = "comma"
      \/ th = "comma" /\ de = "dot"
      \/ th = "gap" /\ de \in {"dot", "comma"}
  BY DEF Formats
<1>3. /\ points = {} => parse_number(marks) = 0
      /\ \A p : points = {p} => parse_number(marks) = p
      /\ \A k \in Nat \ {0, 1} : points = 1..k => parse_number(marks) = None
  BY ReadAs
<1> HIDE DEF marks, th, de
<1>4. /\ fraction => DecimalMark(marks) = de
      /\ ~fraction /\ n > 0 /\ th # "gap" => DecimalMark(marks) = th
      /\ ~fraction /\ (n = 0 \/ th = "gap") => DecimalMark(marks) = "dot"
  BY <1>1, <1>2, DecimalMarkOfPrinted
<1>5. CASE fraction
  <2>1. points = {n + 1}
    BY <1>1, <1>2, <1>4, <1>5 DEF Shape
  <2>. QED
    BY <1>3, <1>5, <2>1 DEF PointOf, marks
<1>6. CASE ~fraction /\ th # "gap" /\ n > 0
  <2>1. points = 1..n
    BY <1>1, <1>4, <1>6 DEF Shape
  <2>2. CASE n = 1
    <3>1. points = {1}
      BY <2>1, <2>2
    <3>. QED
      BY <1>3, <1>6, <2>2, <3>1 DEF marks, th
  <2>3. CASE n # 1
    <3>1. parse_number(marks) = None
      BY <1>3, <1>6, <2>1, <2>3
    <3>. QED
      BY <1>6, <2>3, <3>1 DEF marks, th
  <2>. QED
    BY <2>2, <2>3
<1>7. CASE ~fraction /\ (th = "gap" \/ n = 0)
  <2>1. points = {}
    BY <1>1, <1>4, <1>7 DEF Shape
  <2>. QED
    BY <1>3, <1>7, <2>1 DEF PointOf, marks, th
<1>. QED
  BY <1>5, <1>6, <1>7

\* Numbers are read back as they were printed, with any number of thousands marks, but for
\* those whose only marks are dots or commas between thousands; no sign is misread
\* (normalize.py:21-68).
THEOREM NumbersAreReadBack == Spec => []PrintedNumbersAreReadBack
<1>1. InputTyped => PrintedNumbersAreReadBack
  <2> SUFFICES ASSUME InputTyped, input.kind = "text" PROVE PrintedNumbersAreReadBack
    BY DEF PrintedNumbersAreReadBack
  <2>1. input.format \in Formats /\ input.groups \in Nat /\ input.fraction \in BOOLEAN
    BY KindsApart, SizesAssumption DEF TextInput
  <2>. QED
    BY <2>1, PrintedIsReadBack DEF PrintedNumbersAreReadBack, parse_sign
<1>. QED
  BY <1>1, InputsTyped, PTL

---------------------------------------------------------------------------
(* Training frames *)

LabelledRow == [area : Int, t : Int, y : {NaN} \cup Int]

\* A finite frame with one row for each area and period.
Keyed(frame) ==
  /\ IsFiniteSet(frame) /\ frame \subseteq LabelledRow
  /\ \A r, s \in frame : r.area = s.area /\ r.t = s.t => r = s

Earlier(frame, x) == {r \in frame : r.t < x.t \/ (r.t = x.t /\ r.area < x.area)}

\* Where the validation and the test begin.
ValidFrom(n) == n - (n * ValidPercent) \div 100 - (n * TestPercent) \div 100
TestFrom(n) == n - (n * TestPercent) \div 100

LEMMA SameSize ==
  ASSUME NEW S, IsFiniteSet(S), NEW T, NEW g,
         \A x \in S : g[x] \in T, \A y \in T : \E x \in S : y = g[x],
         \A x, z \in S : g[x] = g[z] => x = z
  PROVE  IsFiniteSet(T) /\ Cardinality(T) = Cardinality(S)
<1> DEFINE h == [x \in S |-> g[x]]
<1>1. h \in Bijection(S, T)
  BY DEF Bijection, Injection, Surjection, IsInjective
<1>2. ExistsBijection(S, T)
  BY <1>1 DEF ExistsBijection
<1>. QED
  BY <1>2, FS_Bijection

LEMMA PositionsInAFrame ==
  ASSUME NEW frame, Keyed(frame), NEW x \in frame
  PROVE  /\ IsFiniteSet(Earlier(frame, x)) /\ Position(frame, x) = Cardinality(Earlier(frame, x))
         /\ Position(frame, x) \in Nat /\ Position(frame, x) < Cardinality(frame)
         /\ Cardinality(frame) \in Nat
<1>1. Earlier(frame, x) \in SUBSET frame /\ x \notin Earlier(frame, x)
  BY DEF Earlier, Keyed, LabelledRow
<1>2. IsFiniteSet(frame)
  BY DEF Keyed
<1>3. IsFiniteSet(Earlier(frame, x)) /\ Cardinality(Earlier(frame, x)) <= Cardinality(frame)
      /\ (Cardinality(Earlier(frame, x)) = Cardinality(frame) => Earlier(frame, x) = frame)
  BY <1>1, <1>2, FS_Subset
<1>4. Cardinality(Earlier(frame, x)) \in Nat /\ Cardinality(frame) \in Nat
  BY <1>2, <1>3, FS_CardinalityType
<1>5. Position(frame, x) = Cardinality(Earlier(frame, x))
  BY DEF Position, Earlier
<1>. QED
  BY <1>1, <1>3, <1>4, <1>5

LEMMA CutsInOrder ==
  ASSUME NEW n \in Nat
  PROVE  ValidFrom(n) \in Int /\ TestFrom(n) \in Int /\ ValidFrom(n) <= TestFrom(n)
<1> DEFINE a == n * ValidPercent
           b == n * TestPercent
<1>1. a \in Nat /\ b \in Nat
  BY ProductTyped, SplitAssumption
<1> HIDE DEF a, b
<1>2. a \div 100 \in Nat /\ b \div 100 \in Nat
  BY <1>1
<1>. QED
  BY <1>2 DEF ValidFrom, TestFrom, a, b

LEMMA PartsOfAFrame ==
  ASSUME NEW frame, Keyed(frame), NEW x
  PROVE  LET split == time_split(frame)
             n == Cardinality(frame)
         IN  /\ x \in split.train <=> x \in frame /\ Position(frame, x) < ValidFrom(n)
             /\ x \in split.valid <=> /\ x \in frame /\ ValidFrom(n) <= Position(frame, x)
                                      /\ Position(frame, x) < TestFrom(n)
             /\ x \in split.test <=> x \in frame /\ TestFrom(n) <= Position(frame, x)
<1> DEFINE n == Cardinality(frame)
           Cut(from, to) == {z \in frame : from <= Position(frame, z) /\ Position(frame, z) < to}
<1>1. time_split(frame) = [train |-> Cut(0, ValidFrom(n)), valid |-> Cut(ValidFrom(n), TestFrom(n)),
                           test |-> Cut(TestFrom(n), n)]
  BY DEF time_split, ValidFrom, TestFrom
<1>2. x \in frame => 0 <= Position(frame, x) /\ Position(frame, x) < n
  BY PositionsInAFrame
<1>. QED
  BY <1>1, <1>2

LEMMA PartsFollowEachOther ==
  ASSUME NEW frame, Keyed(frame), NEW x \in frame, NEW z \in frame,
         Position(frame, x) < Position(frame, z)
  PROVE  x.t <= z.t
<1> SUFFICES ASSUME z.t < x.t PROVE FALSE
  BY DEF Keyed, LabelledRow
<1>1. Earlier(frame, z) \in SUBSET Earlier(frame, x)
  BY DEF Earlier, Keyed, LabelledRow
<1>2. Cardinality(Earlier(frame, z)) <= Cardinality(Earlier(frame, x))
  BY <1>1, PositionsInAFrame, FS_Subset
<1>. QED
  BY <1>2, PositionsInAFrame

\* One frame has the rows of another, some with another label.
Relabels(frame, g, other) ==
  /\ \A r \in frame : /\ g[r] \in LabelledRow /\ g[r] \in other
                      /\ g[r].t = r.t /\ g[r].area = r.area
  /\ \A z \in other : \E r \in frame : z = g[r]

LEMMA PositionsAreKept ==
  ASSUME NEW frame, Keyed(frame), NEW g, NEW other, Relabels(frame, g, other)
  PROVE  /\ Keyed(other) /\ Cardinality(other) = Cardinality(frame)
         /\ \A x \in frame : Position(other, g[x]) = Position(frame, x)
<1>1. \A x, z \in frame : g[x] = g[z] => x = z
  BY DEF Relabels, Keyed
<1>2. IsFiniteSet(other) /\ Cardinality(other) = Cardinality(frame)
  <2>1. IsFiniteSet(frame) /\ (\A x \in frame : g[x] \in other) /\ \A z \in other : \E x \in frame : z = g[x]
    BY DEF Relabels, Keyed
  <2>. QED
    BY <1>1, <2>1, SameSize
<1>3. Keyed(other)
  <2>1. other \subseteq LabelledRow
    BY DEF Relabels
  <2>2. ASSUME NEW r \in other, NEW s \in other, r.area = s.area, r.t = s.t PROVE r = s
    <3>1. PICK x \in frame, z \in frame : r = g[x] /\ s = g[z]
      BY DEF Relabels
    <3>2. x.area = z.area /\ x.t = z.t
      BY <2>2, <3>1 DEF Relabels
    <3>3. x = z
      BY <3>2 DEF Keyed
    <3>. QED
      BY <3>1, <3>3
  <2>. QED
    BY <1>2, <2>1, <2>2 DEF Keyed
<1>4. ASSUME NEW x \in frame PROVE Position(other, g[x]) = Position(frame, x)
  <2> DEFINE S == Earlier(frame, x)
             T == Earlier(other, g[x])
  <2>1. g[x] \in other
    BY DEF Relabels
  <2>2. IsFiniteSet(S) /\ Position(frame, x) = Cardinality(S)
    BY PositionsInAFrame
  <2>3. Position(other, g[x]) = Cardinality(T)
    BY <1>3, <2>1, PositionsInAFrame
  <2>4. \A r \in S : r \in frame /\ g[r] \in T
    BY DEF Earlier, Relabels
  <2>5. \A z \in T : \E r \in S : z = g[r]
    <3>. SUFFICES ASSUME NEW z \in T PROVE \E r \in S : z = g[r]
      OBVIOUS
    <3>1. PICK r \in frame : z = g[r]
      BY DEF Earlier, Relabels
    <3>2. z.t = r.t /\ z.area = r.area /\ g[x].t = x.t /\ g[x].area = x.area
      BY <3>1 DEF Relabels
    <3>3. r \in S
      BY <3>2 DEF Earlier
    <3>. QED
      BY <3>1, <3>3
  <2>6. \A r, s \in S : g[r] = g[s] => r = s
    BY <1>1, <2>4
  <2> HIDE DEF S, T
  <2>7. Cardinality(T) = Cardinality(S)
    <3>1. \A r \in S : g[r] \in T
      BY <2>4
    <3>. QED
      BY <2>2, <2>5, <2>6, <3>1, SameSize
  <2>. QED
    BY <2>2, <2>3, <2>7
<1>. QED
  BY <1>2, <1>3, <1>4

\* A frame whose later test rows have another outcome is cut at the same rows.
LEMMA RevisedFrame ==
  ASSUME NEW frame, Keyed(frame), NEW from \in Int, NEW y \in {NaN} \cup Int
  PROVE  LET split == time_split(frame)
             revised == Relabelled(split.test, from, y)
             other == split.train \cup split.valid \cup revised
         IN  /\ Keyed(other)
             /\ time_split(other).train = split.train
             /\ time_split(other).valid = split.valid
             /\ time_split(other).test = revised
             /\ KeysOf(revised) = KeysOf(split.test)
             /\ train_valid(other, revised) = train_valid(frame, split.test)
<1> DEFINE n == Cardinality(frame)
           train == time_split(frame).train
           valid == time_split(frame).valid
           test == time_split(frame).test
           New(r) == IF r.t < from THEN r ELSE [r EXCEPT !.y = y]
           revised == Relabelled(test, from, y)
           other == train \cup valid \cup revised
           g == [r \in frame |-> IF r \in test THEN New(r) ELSE r]
           At(x) == Position(frame, x)
<1>1. \A x \in frame : At(x) \in Nat /\ At(x) < n
  BY PositionsInAFrame
<1>2. ValidFrom(n) \in Int /\ TestFrom(n) \in Int /\ ValidFrom(n) <= TestFrom(n)
  <2>1. n \in Nat
    BY FS_CardinalityType DEF Keyed
  <2>. QED
    BY <2>1, CutsInOrder
<1>3. \A x : /\ x \in train <=> x \in frame /\ At(x) < ValidFrom(n)
             /\ x \in valid <=> x \in frame /\ ValidFrom(n) <= At(x) /\ At(x) < TestFrom(n)
             /\ x \in test <=> x \in frame /\ TestFrom(n) <= At(x)
  BY PartsOfAFrame
<1> HIDE DEF n, train, valid, test
<1>4. \A x \in frame : /\ x \in train \/ x \in valid \/ x \in test
                       /\ ~(x \in train /\ x \in test) /\ ~(x \in valid /\ x \in test)
  <2>. SUFFICES ASSUME NEW x \in frame
                PROVE  /\ x \in train \/ x \in valid \/ x \in test
                       /\ ~(x \in train /\ x \in test) /\ ~(x \in valid /\ x \in test)
    OBVIOUS
  <2>1. At(x) \in Int
    BY <1>1
  <2>2. /\ x \in train <=> At(x) < ValidFrom(n)
        /\ x \in valid <=> ValidFrom(n) <= At(x) /\ At(x) < TestFrom(n)
        /\ x \in test <=> TestFrom(n) <= At(x)
    BY <1>3
  <2> HIDE DEF At
  <2>. QED
    BY <1>2, <2>1, <2>2
<1>5. \A r \in test : /\ r \in frame /\ New(r) \in LabelledRow
                      /\ New(r).t = r.t /\ New(r).area = r.area
  BY <1>3 DEF Keyed, LabelledRow
<1>6. /\ \A r \in test : g[r] = New(r)
      /\ \A r \in train \cup valid : r \in frame /\ g[r] = r
  BY <1>3, <1>4
<1>7. \A z : z \in revised <=> \E r \in test : z = g[r]
  <2>1. revised = {New(r) : r \in test}
    BY DEF Relabelled
  <2> HIDE DEF revised, New, g
  <2>. QED
    BY <1>6, <2>1
<1>8. \A r \in frame : g[r] \in LabelledRow /\ g[r].t = r.t /\ g[r].area = r.area
  BY <1>5 DEF Keyed
<1> HIDE DEF g, revised, New
<1>9. Relabels(frame, g, other)
  BY <1>3, <1>4, <1>6, <1>7, <1>8 DEF Relabels
<1>10. Keyed(other) /\ Cardinality(other) = n /\ \A x \in frame : Position(other, g[x]) = At(x)
  BY <1>9, PositionsAreKept DEF n
<1>11. \A z : /\ z \in time_split(other).train <=> z \in other /\ Position(other, z) < ValidFrom(n)
              /\ z \in time_split(other).valid <=> /\ z \in other /\ ValidFrom(n) <= Position(other, z)
                                                   /\ Position(other, z) < TestFrom(n)
              /\ z \in time_split(other).test <=> z \in other /\ TestFrom(n) <= Position(other, z)
  BY <1>10, PartsOfAFrame
<1>12. \A z \in other : \E r \in frame : z = g[r]
  BY <1>9 DEF Relabels
<1>13. \A r \in frame : /\ g[r] \in time_split(other).train <=> r \in train
                        /\ g[r] \in time_split(other).valid <=> r \in valid
                        /\ g[r] \in time_split(other).test <=> r \in test
  BY <1>3, <1>9, <1>10, <1>11 DEF Relabels
<1>14. ASSUME NEW z
       PROVE  /\ z \in time_split(other).train <=> z \in train
              /\ z \in time_split(other).valid <=> z \in valid
              /\ z \in time_split(other).test <=> z \in revised
  <2>1. /\ z \in train => z \in time_split(other).train
        /\ z \in valid => z \in time_split(other).valid
    BY <1>6, <1>13
  <2>2. z \in revised => z \in time_split(other).test
    BY <1>3, <1>7, <1>13
  <2>3. ASSUME z \in other
        PROVE  /\ z \in time_split(other).train => z \in train
               /\ z \in time_split(other).valid => z \in valid
               /\ z \in time_split(other).test => z \in revised
    <3>1. PICK r \in frame : z = g[r]
      BY <1>12, <2>3
    <3>2. /\ r \in train => z = r
          /\ r \in valid => z = r
          /\ r \in test => z \in revised
      BY <1>6, <1>7, <3>1
    <3>. QED
      BY <1>13, <3>1, <3>2
  <2>4. /\ z \in time_split(other).train => z \in other
        /\ z \in time_split(other).valid => z \in other
        /\ z \in time_split(other).test => z \in other
    BY <1>11
  <2>. QED
    BY <2>1, <2>2, <2>3, <2>4
<1>15. /\ time_split(other).train = train
       /\ time_split(other).valid = valid
       /\ time_split(other).test = revised
  BY <1>14
<1>16. \A k : k \in KeysOf(revised) <=> k \in KeysOf(test)
  BY <1>3, <1>7, <1>8 DEF KeysOf
<1>17. ASSUME NEW r \in frame PROVE [area |-> r.area, t |-> r.t] \in KeysOf(test) <=> r \in test
  <2>1. ASSUME NEW s \in test, [area |-> r.area, t |-> r.t] = [area |-> s.area, t |-> s.t]
        PROVE  r = s
    <3>1. r.area = s.area /\ r.t = s.t
      BY <2>1
    <3>. QED
      BY <1>3, <3>1 DEF Keyed
  <2>. QED
    BY <2>1 DEF KeysOf
<1>18. \A r : r \in train_valid(frame, test) <=> r \in train \cup valid
  BY <1>3, <1>4, <1>17 DEF train_valid
<1>19. \A z : z \in train_valid(other, revised) <=> z \in train \cup valid
  <2>1. \A z \in revised : [area |-> z.area, t |-> z.t] \in KeysOf(revised)
    BY DEF KeysOf
  <2>2. \A z \in train \cup valid : [area |-> z.area, t |-> z.t] \notin KeysOf(revised)
    BY <1>4, <1>6, <1>16, <1>17
  <2>. QED
    BY <2>1, <2>2 DEF train_valid
<1>20. KeysOf(revised) = KeysOf(test) /\ train_valid(other, revised) = train_valid(frame, test)
  BY <1>16, <1>18, <1>19
<1>. QED
  BY <1>10, <1>15, <1>20 DEF train, valid, test, revised

\* The parts of a frame follow each other, and what the baselines predict for a row of the
\* test does not depend on outcomes of its time or of later, for frames of any size
\* (baselines.py:27-63, train_baseline.py:49-58, 131-136).
THEOREM BaselinesDoLookBack == Spec => []BaselinesLookBack
<1>1. InputTyped => BaselinesLookBack
  <2> SUFFICES ASSUME InputTyped, input.kind = "frame" PROVE BaselinesLookBack
    BY DEF BaselinesLookBack
  <2> DEFINE frame == input.frame
             n == Cardinality(frame)
             train == time_split(frame).train
             valid == time_split(frame).valid
             test == time_split(frame).test
             Revised(t, y) == train \cup valid \cup Relabelled(test, t, y)
  <2>1. Keyed(frame)
    <3>1. frame \in Frame
      BY KindsApart
    <3>2. FrameRows \subseteq LabelledRow
      BY RowsAssumption DEF LabelledRow
    <3>. QED
      BY <3>1, <3>2 DEF Frame, Keyed
  <2>2. ASSUME NEW k \in KeysOf(test), NEW y \in {r.y : r \in FrameRows}
        PROVE  baseline_report(Revised(k.t, y)) = baseline_report(frame)
    <3>1. y \in {NaN} \cup Int
      BY RowsAssumption
    <3>2. PICK from \in Int : from = k.t
      <4>1. PICK r \in test : k = [area |-> r.area, t |-> r.t]
        BY DEF KeysOf
      <4>2. r \in frame
        BY <2>1, PartsOfAFrame
      <4>3. r.t \in Int
        BY <2>1, <4>2 DEF Keyed, LabelledRow
      <4>. QED
        BY <4>1, <4>3
    <3> DEFINE revised == Relabelled(test, from, y)
               other == Revised(from, y)
    <3>3. /\ time_split(other).train = train
          /\ time_split(other).test = revised
          /\ KeysOf(revised) = KeysOf(test)
          /\ train_valid(other, revised) = train_valid(frame, test)
      BY <2>1, <3>1, RevisedFrame
    <3> HIDE DEF revised, other, train, test
    <3>4. persistence(train_valid(other, revised), revised) = persistence(train_valid(frame, test), test)
      BY <3>3 DEF persistence
    <3>5. seasonal_climatology(train, revised) = seasonal_climatology(train, test)
      BY <3>3 DEF seasonal_climatology
    <3>6. baseline_report(other) =
            [persistence |-> persistence(train_valid(other, revised), revised),
             climatology |-> seasonal_climatology(train, revised)]
      BY <3>3 DEF baseline_report
    <3>7. baseline_report(frame) =
            [persistence |-> persistence(train_valid(frame, test), test),
             climatology |-> seasonal_climatology(train, test)]
      BY DEF baseline_report, train, test
    <3>8. baseline_report(other) = baseline_report(frame)
      BY <3>4, <3>5, <3>6, <3>7
    <3>. QED
      BY <3>2, <3>8 DEF other
  <2>3. ASSUME NEW x \in train, NEW y \in valid, NEW z \in test PROVE x.t <= y.t /\ y.t <= z.t
    <3>1. x \in frame /\ y \in frame /\ z \in frame
      BY <2>1, PartsOfAFrame
    <3>2. /\ Position(frame, x) < ValidFrom(n) /\ ValidFrom(n) <= Position(frame, y)
          /\ Position(frame, y) < TestFrom(n) /\ TestFrom(n) <= Position(frame, z)
      BY <2>1, PartsOfAFrame
    <3>3. Position(frame, x) \in Int /\ Position(frame, y) \in Int /\ Position(frame, z) \in Int
          /\ n \in Nat
      BY <2>1, <3>1, PositionsInAFrame
    <3>4. ValidFrom(n) \in Int /\ TestFrom(n) \in Int
      BY <3>3, CutsInOrder
    <3> HIDE DEF frame, n, train, valid, test
    <3>5. Position(frame, x) < Position(frame, y) /\ Position(frame, y) < Position(frame, z)
      BY <3>2, <3>3, <3>4
    <3>. QED
      BY <2>1, <3>1, <3>5, PartsFollowEachOther
  <2>. QED
    BY <2>2, <2>3 DEF BaselinesLookBack
<1>. QED
  BY <1>1, InputsTyped, PTL

---------------------------------------------------------------------------
(* Calibration *)

\* The amount of a sum is at most the sum of the amounts.
LEMMA SumTriangle ==
  ASSUME NEW S, IsFiniteSet(S), NEW f, NEW g, \A x \in S : f[x] \in Int /\ g[x] = Absolute(f[x])
  PROVE  Absolute(SumFunctionOnSet(f, S)) <= SumFunctionOnSet(g, S)
<1> DEFINE P == {T \in SUBSET S : Absolute(SumFunctionOnSet(f, T)) <= SumFunctionOnSet(g, T)}
<1>0. \A x \in S : f[x] \in Int /\ g[x] \in Int
  BY AbsoluteTyped
<1>1. {} \in P
  BY SumEmpty DEF Absolute
<1>2. ASSUME NEW T \in SUBSET S, NEW x \in S \ T, T \in P PROVE T \cup {x} \in P
  <2>1. SumFunctionOnSet(f, T \cup {x}) = f[x] + SumFunctionOnSet(f, T) /\ SumFunctionOnSet(f, T) \in Int
    BY SumGrows
  <2>2. SumFunctionOnSet(g, T \cup {x}) = g[x] + SumFunctionOnSet(g, T) /\ SumFunctionOnSet(g, T) \in Int
    BY <1>0, SumGrows
  <2>3. f[x] \in Int /\ g[x] = Absolute(f[x])
    OBVIOUS
  <2>4. Absolute(SumFunctionOnSet(f, T)) <= SumFunctionOnSet(g, T)
    BY <1>2
  <2> DEFINE a == f[x]
             b == SumFunctionOnSet(f, T)
             c == SumFunctionOnSet(g, T)
  <2> HIDE DEF a, b, c
  <2>5. a \in Int /\ b \in Int /\ c \in Int /\ Absolute(b) <= c
    BY <2>1, <2>2, <2>3, <2>4 DEF a, b, c
  <2>6. Absolute(a + b) <= Absolute(a) + c
    BY <2>5 DEF Absolute
  <2>7. Absolute(SumFunctionOnSet(f, T \cup {x})) <= SumFunctionOnSet(g, T \cup {x})
    BY <2>1, <2>2, <2>3, <2>6 DEF a, b, c
  <2>. QED
    BY <2>7
<1> HIDE DEF P
<1>3. S \in P
  BY <1>1, <1>2, GrowsToAll
<1>. QED
  BY <1>3 DEF P

\* The square of a sum of n amounts is at most n times the sum of their squares.
SquareBound(n, m, b) == m * m <= n * b

LEMMA SquareBoundGrows ==
  ASSUME NEW n \in Nat, NEW m \in Int, NEW b \in Nat, NEW a \in Int, SquareBound(n, m, b)
  PROVE  SquareBound(n + 1, a + m, a * a + b)
<1>0. /\ m * m \in Int /\ n * b \in Int /\ a * m \in Int /\ a * a \in Int /\ n * a \in Int
      /\ n * (a * a) \in Int
  BY ProductTyped
<1>1. 2 * (a * m) <= b + n * (a * a)
  <2>1. CASE n = 0
    <3>1. m * m <= 0
      BY <2>1 DEF SquareBound
    <3>2. m = 0
      BY <3>1
    <3>. QED
      BY <2>1, <3>2
  <2>2. CASE n > 0
    <3> DEFINE d == m - n * a
    <3>1. d \in Int
      BY <1>0
    <3>2. d * d >= 0
      BY <3>1
    <3>3. d * d = m * m - 2 * (n * (a * m)) + n * (n * (a * a))
      BY <1>0
    <3>4. 2 * (n * (a * m)) <= n * b + n * (n * (a * a))
      <4>1. n * (a * m) \in Int /\ n * (n * (a * a)) \in Int /\ d * d \in Int
        BY <1>0, <3>1, ProductTyped
      <4>. QED
        BY <1>0, <3>2, <3>3, <4>1 DEF SquareBound
    <3>5. n * (2 * (a * m)) <= n * (b + n * (a * a))
      BY <1>0, <3>4
    <3>. QED
      BY <1>0, <2>2, <3>5
  <2>. QED
    BY <2>1, <2>2
<1>2. (a + m) * (a + m) = a * a + 2 * (a * m) + m * m
  OBVIOUS
<1>3. (n + 1) * (a * a + b) = n * (a * a) + n * b + a * a + b
  BY <1>0
<1>. QED
  BY <1>0, <1>1, <1>2, <1>3 DEF SquareBound

Squares(S, a, s) == \A x \in S : a[x] \in Int /\ s[x] = a[x] * a[x]

LEMMA SumOfSquares ==
  ASSUME NEW S, IsFiniteSet(S), NEW a, NEW s, Squares(S, a, s)
  PROVE  SquareBound(Cardinality(S), SumFunctionOnSet(a, S), SumFunctionOnSet(s, S))
<1> DEFINE Good(T) == /\ SumFunctionOnSet(s, T) \in Nat
                      /\ SquareBound(Cardinality(T), SumFunctionOnSet(a, T), SumFunctionOnSet(s, T))
           P == {T \in SUBSET S : Good(T)}
<1>0. \A x \in S : a[x] \in Int /\ s[x] \in Int /\ s[x] >= 0
  <2>. SUFFICES ASSUME NEW x \in S PROVE a[x] \in Int /\ s[x] \in Int /\ s[x] >= 0
    OBVIOUS
  <2>1. a[x] \in Int /\ s[x] = a[x] * a[x]
    BY DEF Squares
  <2> DEFINE c == a[x]
  <2> HIDE DEF c
  <2>2. c \in Int => c * c \in Int /\ c * c >= 0
    OBVIOUS
  <2>. QED
    BY <2>1, <2>2 DEF c
<1>1. {} \in P
  <2>1. SumFunctionOnSet(s, {}) = 0 /\ SumFunctionOnSet(a, {}) = 0 /\ Cardinality({}) = 0
    BY SumEmpty, FS_EmptySet
  <2>2. SquareBound(0, 0, 0)
    BY DEF SquareBound
  <2>. QED
    BY <2>1, <2>2
<1>2. ASSUME NEW T \in SUBSET S, NEW x \in S \ T, T \in P PROVE T \cup {x} \in P
  <2>1. SumFunctionOnSet(a, T \cup {x}) = a[x] + SumFunctionOnSet(a, T) /\ SumFunctionOnSet(a, T) \in Int
    BY <1>0, SumGrows
  <2>2. SumFunctionOnSet(s, T \cup {x}) = s[x] + SumFunctionOnSet(s, T)
    BY <1>0, SumGrows
  <2>3. Cardinality(T \cup {x}) = Cardinality(T) + 1 /\ Cardinality(T) \in Nat
    <3>1. IsFiniteSet(T)
      BY FS_Subset
    <3>. QED
      BY <3>1, FS_AddElement, FS_CardinalityType
  <2>4. a[x] \in Int /\ s[x] = a[x] * a[x] /\ s[x] \in Int /\ s[x] >= 0
    BY <1>0 DEF Squares
  <2>5. Good(T)
    BY <1>2
  <2> DEFINE n == Cardinality(T)
             m == SumFunctionOnSet(a, T)
             b == SumFunctionOnSet(s, T)
             c == a[x]
  <2>6. n \in Nat /\ m \in Int /\ b \in Nat /\ c \in Int /\ SquareBound(n, m, b)
    BY <2>1, <2>3, <2>4, <2>5
  <2> HIDE DEF n, m, b, c
  <2>7. SquareBound(n + 1, c + m, c * c + b)
    BY <2>6, SquareBoundGrows
  <2>8. s[x] + b \in Nat
    BY <2>4, <2>6
  <2>9. Good(T \cup {x})
    BY <2>1, <2>2, <2>3, <2>4, <2>7, <2>8 DEF n, m, b, c
  <2> HIDE DEF Good
  <2>. QED
    BY <2>9
<1> HIDE DEF P
<1>3. S \in P
  BY <1>1, <1>2, GrowsToAll
<1>. QED
  BY <1>3 DEF P

\* The sum of multiples.
Multiples(S, f, h, c) == \A x \in S : h[x] = c * f[x]

LEMMA SumOfMultiples ==
  ASSUME NEW S, IsFiniteSet(S), NEW f, NEW h, NEW c \in Int, \A x \in S : f[x] \in Int,
         Multiples(S, f, h, c)
  PROVE  SumFunctionOnSet(h, S) = c * SumFunctionOnSet(f, S)
<1> DEFINE z == [x \in S |-> 0]
<1>1. \A x \in S : z[x] = 0 /\ z[x] \in Int
  OBVIOUS
<1> HIDE DEF z
<1>2. Combined(S, z, f, h, c)
  <2>1. ASSUME NEW x \in S PROVE h[x] = z[x] + c * f[x]
    <3>1. f[x] \in Int
      OBVIOUS
    <3>2. c * f[x] \in Int
      BY <3>1, ProductTyped
    <3>3. h[x] = c * f[x]
      BY DEF Multiples
    <3>. QED
      BY <1>1, <3>2, <3>3
  <2>. QED
    BY <2>1 DEF Combined
<1>3. SumFunctionOnSet(h, S) = SumFunctionOnSet(z, S) + c * SumFunctionOnSet(f, S)
  BY <1>1, <1>2, SumCombines
<1>4. SumFunctionOnSet(z, S) = 0
  <2>1. Cardinality(S) \in Nat
    BY FS_CardinalityType
  <2>2. 0 \in Int /\ \A x \in S : z[x] = 0
    BY <1>1
  <2>3. SumFunctionOnSet(z, S) = 0 * Cardinality(S)
    BY <2>2, SumOfConstant, Zenon
  <2>. QED
    BY <2>1, <2>3
<1>5. c * SumFunctionOnSet(f, S) \in Int
  BY SumTyped, ProductTyped
<1>. QED
  BY <1>3, <1>4, <1>5

\* A score is between the edges of its bin.
LEMMA BinOfAScore ==
  ASSUME NEW p \in 0..Scale
  PROVE  /\ BinOf(p) \in 0..(Bins - 1)
         /\ BinOf(p) * Scale <= Bins * p /\ Bins * p <= (BinOf(p) + 1) * Scale
<1> DEFINE b == (p * Bins) \div Scale
           x == p * Bins
<1>0. Scale \in Nat /\ Scale > 0 /\ Bins \in Nat /\ Bins > 0 /\ p \in Nat /\ p <= Scale
  BY ScaleAssumption
<1>1. x \in Nat
  BY <1>0
<1>2. b \in Int /\ b * Scale <= x /\ x < (b + 1) * Scale
  <2> HIDE DEF x
  <2>1. x \div Scale \in Int /\ (x \div Scale) * Scale <= x /\ x < ((x \div Scale) + 1) * Scale
    BY <1>0, <1>1
  <2>. QED
    BY <2>1 DEF x
<1> HIDE DEF b
<1>3. b >= 0
  <2>. SUFFICES ASSUME b < 0 PROVE FALSE
    BY <1>2
  <2>1. b + 1 <= 0
    BY <1>2
  <2>2. (b + 1) * Scale <= 0
    BY <1>0, <1>2, <2>1
  <2>. QED
    BY <1>0, <1>1, <1>2, <2>2
<1>4. x <= Bins * Scale
  BY <1>0
<1>5. BinOf(p) = IF b > Bins - 1 THEN Bins - 1 ELSE b
  BY DEF BinOf, b
<1>6. x = Bins * p
  BY <1>0
<1>7. CASE b > Bins - 1
  <2>1. (Bins - 1) * Scale <= b * Scale
    <3>1. (b - (Bins - 1)) * Scale >= 0
      BY <1>0, <1>2, <1>7
    <3>. QED
      BY <1>0, <1>2, <3>1
  <2>2. BinOf(p) = Bins - 1 /\ (Bins - 1) + 1 = Bins
    BY <1>0, <1>5, <1>7
  <2>. QED
    BY <1>0, <1>1, <1>2, <1>4, <1>6, <2>1, <2>2
<1>8. CASE ~(b > Bins - 1)
  BY <1>0, <1>2, <1>3, <1>5, <1>6, <1>8
<1>. QED
  BY <1>7, <1>8

CleanRow == [y : {0, Scale}, p : 0..Scale]

LEMMA CleanRows ==
  ASSUME NEW sample \in Seq(ScoredRow)
  PROVE  /\ IsFiniteSet(clean(sample))
         /\ \A i \in clean(sample) :
              /\ sample[i].p \in 0..Scale /\ sample[i].y \in {0, Scale}
              /\ sample[i].p \in Int /\ sample[i].y \in Int
<1>1. DOMAIN sample = 1..Len(sample) /\ Len(sample) \in Nat
  OBVIOUS
<1>2. clean(sample) \in SUBSET (1..Len(sample))
  BY <1>1 DEF clean
<1>3. IsFiniteSet(clean(sample))
  BY <1>1, <1>2, OneOrMany, FS_Subset
<1>4. ASSUME NEW i \in clean(sample) PROVE sample[i].p \in 0..Scale /\ sample[i].y \in {0, Scale}
  <2>1. sample[i] \in ScoredRow /\ sample[i].y # NaN /\ sample[i].p # NaN
    BY <1>1 DEF clean
  <2>. QED
    BY <2>1 DEF ScoredRow
<1>5. Scale \in Int
  BY ScaleAssumption
<1>. QED
  BY <1>3, <1>4, <1>5

BinNumbers == 0..(Bins - 1)

LEMMA BinsOfASample ==
  ASSUME NEW sample \in Seq(ScoredRow)
  PROVE  /\ IsFiniteSet(BinNumbers)
         /\ \A i \in clean(sample) : BinOf(sample[i].p) \in BinNumbers
         /\ \A b \in BinNumbers : /\ InBin(sample, b) \in SUBSET clean(sample)
                                  /\ IsFiniteSet(InBin(sample, b))
<1>1. IsFiniteSet(BinNumbers)
  <2>1. 0 \in Int /\ Bins - 1 \in Int
    BY ScaleAssumption
  <2>. QED
    BY <2>1, FS_Interval DEF BinNumbers
<1>2. ASSUME NEW b PROVE InBin(sample, b) \in SUBSET clean(sample) /\ IsFiniteSet(InBin(sample, b))
  <2>1. InBin(sample, b) \in SUBSET clean(sample)
    BY DEF InBin
  <2>. QED
    BY <2>1, CleanRows, FS_Subset
<1>3. ASSUME NEW i \in clean(sample) PROVE BinOf(sample[i].p) \in BinNumbers
  BY CleanRows, BinOfAScore DEF BinNumbers
<1>. QED
  BY <1>1, <1>2, <1>3

\* What the bins have adds up to what the sample has.
LEMMA BinsAddUp ==
  ASSUME NEW sample \in Seq(ScoredRow), NEW f, NEW part,
         \A i \in clean(sample) : f[i] \in Int,
         \A b \in BinNumbers : part[b] = SumFunctionOnSet(f, InBin(sample, b))
  PROVE  SumFunctionOnSet(part, BinNumbers) = SumFunctionOnSet(f, clean(sample))
<1> DEFINE key == [i \in clean(sample) |-> BinOf(sample[i].p)]
           of == [b \in BinNumbers |-> InBin(sample, b)]
<1>1. \A b \in BinNumbers : \A x : x \in of[b] <=> x \in clean(sample) /\ key[x] = b
  BY DEF InBin
<1>2. \A x \in clean(sample) : key[x] \in BinNumbers
  BY BinsOfASample
<1>3. \A b \in BinNumbers : part[b] = SumFunctionOnSet(f, of[b])
  OBVIOUS
<1>4. IsFiniteSet(clean(sample)) /\ IsFiniteSet(BinNumbers)
  BY CleanRows, BinsOfASample
<1> HIDE DEF key, of
<1>. QED
  BY <1>1, <1>2, <1>3, <1>4, SumByParts

\* The sums of a bin: scores, outcomes, and by how much these fall short.
Scores(sample) == [i \in clean(sample) |-> sample[i].p]
Outcomes(sample) == [i \in clean(sample) |-> sample[i].y]
Gaps(sample) == [i \in clean(sample) |-> sample[i].p - sample[i].y]

LEMMA SumsOfRows ==
  ASSUME NEW sample \in Seq(ScoredRow), NEW rows \in SUBSET clean(sample)
  PROVE  /\ SumFunctionOnSet([i \in rows |-> sample[i].p], rows)
              = SumFunctionOnSet(Scores(sample), rows)
         /\ SumFunctionOnSet([i \in rows |-> sample[i].y], rows)
              = SumFunctionOnSet(Outcomes(sample), rows)
         /\ Excess(sample, rows) = SumFunctionOnSet(Gaps(sample), rows)
<1> DEFINE f == [i \in rows |-> sample[i].p]
           g == [i \in rows |-> sample[i].y]
           h == [i \in rows |-> sample[i].p - sample[i].y]
           F == Scores(sample)
           G == Outcomes(sample)
           H == Gaps(sample)
<1>1. IsFiniteSet(rows)
  BY CleanRows, FS_Subset
<1>2. \A i \in rows : /\ F[i] \in Int /\ f[i] = F[i]
                      /\ G[i] \in Int /\ g[i] = G[i]
                      /\ H[i] \in Int /\ h[i] = H[i]
  BY CleanRows DEF Scores, Outcomes, Gaps
<1>3. Excess(sample, rows) = SumFunctionOnSet(h, rows)
  BY DEF Excess, SumOver
<1> HIDE DEF f, g, h, F, G, H
<1>4. SumFunctionOnSet(f, rows) = SumFunctionOnSet(F, rows)
  BY <1>1, <1>2, SumSame
<1>5. SumFunctionOnSet(g, rows) = SumFunctionOnSet(G, rows)
  BY <1>1, <1>2, SumSame
<1>6. SumFunctionOnSet(h, rows) = SumFunctionOnSet(H, rows)
  BY <1>1, <1>2, SumSame
<1>. QED
  BY <1>3, <1>4, <1>5, <1>6 DEF f, g, F, G, H

LEMMA ExcessIsADifference ==
  ASSUME NEW sample \in Seq(ScoredRow), NEW rows \in SUBSET clean(sample)
  PROVE  /\ SumFunctionOnSet(Gaps(sample), rows)
              = SumFunctionOnSet(Scores(sample), rows) - SumFunctionOnSet(Outcomes(sample), rows)
         /\ SumFunctionOnSet(Gaps(sample), rows) \in Int
<1> DEFINE F == Scores(sample)
           G == Outcomes(sample)
           H == Gaps(sample)
<1>1. IsFiniteSet(rows)
  BY CleanRows, FS_Subset
<1>2. \A i \in rows : F[i] \in Int /\ G[i] \in Int /\ H[i] \in Int /\ H[i] = F[i] + (-1) * G[i]
  BY CleanRows DEF Scores, Outcomes, Gaps
<1> HIDE DEF F, G, H
<1>3. Combined(rows, F, G, H, -1)
  BY <1>2 DEF Combined
<1>4. SumFunctionOnSet(H, rows) = SumFunctionOnSet(F, rows) + (-1) * SumFunctionOnSet(G, rows)
  BY <1>1, <1>2, <1>3, SumCombines
<1>5. /\ SumFunctionOnSet(F, rows) \in Int /\ SumFunctionOnSet(G, rows) \in Int
      /\ SumFunctionOnSet(H, rows) \in Int
  BY <1>1, <1>2, SumTyped
<1>. QED
  BY <1>4, <1>5 DEF F, G, H

LEMMA TableOfASample ==
  ASSUME NEW sample \in Seq(ScoredRow)
  PROVE  LET table == reliability_table(sample)
         IN  /\ DOMAIN table = BinNumbers
             /\ \A b \in BinNumbers :
                  /\ table[b].n = Cardinality(InBin(sample, b))
                  /\ table[b].mean_pred = SumFunctionOnSet(Scores(sample), InBin(sample, b))
                  /\ table[b].frac_pos = SumFunctionOnSet(Outcomes(sample), InBin(sample, b))
<1> DEFINE table == reliability_table(sample)
<1>1. DOMAIN table = BinNumbers
  BY DEF reliability_table, BinNumbers
<1>2. ASSUME NEW b \in BinNumbers
      PROVE  /\ table[b].n = Cardinality(InBin(sample, b))
             /\ table[b].mean_pred = SumFunctionOnSet(Scores(sample), InBin(sample, b))
             /\ table[b].frac_pos = SumFunctionOnSet(Outcomes(sample), InBin(sample, b))
  <2> DEFINE f == [i \in InBin(sample, b) |-> sample[i].p]
             g == [i \in InBin(sample, b) |-> sample[i].y]
  <2>1. /\ table[b].n = Cardinality(InBin(sample, b))
        /\ table[b].mean_pred = SumFunctionOnSet(f, InBin(sample, b))
        /\ table[b].frac_pos = SumFunctionOnSet(g, InBin(sample, b))
    BY DEF reliability_table, BinNumbers, SumOver
  <2>2. InBin(sample, b) \in SUBSET clean(sample)
    BY BinsOfASample
  <2>3. /\ SumFunctionOnSet(f, InBin(sample, b)) = SumFunctionOnSet(Scores(sample), InBin(sample, b))
        /\ SumFunctionOnSet(g, InBin(sample, b)) = SumFunctionOnSet(Outcomes(sample), InBin(sample, b))
    BY <2>2, SumsOfRows
  <2>. QED
    BY <2>1, <2>3
<1>. QED
  BY <1>1, <1>2

\* Every row is counted in one bin.
LEMMA AllRowsAreCounted ==
  ASSUME NEW sample \in Seq(ScoredRow)
  PROVE  SumFunctionOnSet([b \in BinNumbers |-> Cardinality(InBin(sample, b))], BinNumbers)
           = Cardinality(clean(sample))
<1> DEFINE one == [i \in clean(sample) |-> 1]
           part == [b \in BinNumbers |-> Cardinality(InBin(sample, b))]
<1>1. \A i \in clean(sample) : one[i] = 1 /\ one[i] \in Int
  OBVIOUS
<1>2. ASSUME NEW rows \in SUBSET clean(sample)
      PROVE  SumFunctionOnSet(one, rows) = Cardinality(rows)
  <2>1. IsFiniteSet(rows) /\ Cardinality(rows) \in Nat
    BY CleanRows, FS_Subset, FS_CardinalityType
  <2>2. 1 \in Int /\ \A i \in rows : one[i] = 1
    BY <1>1
  <2> HIDE DEF one
  <2>3. SumFunctionOnSet(one, rows) = 1 * Cardinality(rows)
    BY <2>1, <2>2, SumOfConstant
  <2>. QED
    BY <2>1, <2>3
<1>3. \A b \in BinNumbers : part[b] = SumFunctionOnSet(one, InBin(sample, b))
  BY <1>2, BinsOfASample
<1> HIDE DEF one, part
<1>4. SumFunctionOnSet(part, BinNumbers) = SumFunctionOnSet(one, clean(sample))
  BY <1>1, <1>3, BinsAddUp
<1>5. SumFunctionOnSet(one, clean(sample)) = Cardinality(clean(sample))
  BY <1>2
<1>. QED
  BY <1>4, <1>5 DEF part

\* The mean score of a bin is between its edges.
LEMMA MeanIsInTheBin ==
  ASSUME NEW sample \in Seq(ScoredRow), NEW b \in BinNumbers
  PROVE  LET n == Cardinality(InBin(sample, b))
             s == SumFunctionOnSet(Scores(sample), InBin(sample, b))
         IN  b * Scale * n <= Bins * s /\ Bins * s <= (b + 1) * Scale * n
<1> DEFINE rows == InBin(sample, b)
           f == Scores(sample)
           h == [i \in rows |-> Bins * sample[i].p]
           lower == [i \in rows |-> b * Scale]
           upper == [i \in rows |-> (b + 1) * Scale]
           lo == b * Scale
           hi == (b + 1) * Scale
<1>0. b \in Int /\ Scale \in Int /\ Bins \in Int /\ lo \in Int /\ hi \in Int
  <2>1. b \in Int /\ Scale \in Int /\ Bins \in Int
    BY ScaleAssumption DEF BinNumbers
  <2>. QED
    BY <2>1, ProductTyped
<1>1. IsFiniteSet(rows) /\ rows \subseteq clean(sample)
  BY BinsOfASample
<1>2. ASSUME NEW i \in rows
      PROVE  f[i] \in Int /\ h[i] = Bins * f[i] /\ h[i] \in Int /\ lo <= h[i] /\ h[i] <= hi
  <2>1. i \in clean(sample) /\ BinOf(sample[i].p) = b
    BY DEF InBin
  <2>2. sample[i].p \in 0..Scale /\ sample[i].p \in Int
    BY <2>1, CleanRows
  <2>3. lo <= Bins * sample[i].p /\ Bins * sample[i].p <= hi
    BY <2>1, <2>2, BinOfAScore
  <2>4. f[i] = sample[i].p /\ h[i] = Bins * sample[i].p
    BY <2>1 DEF Scores
  <2>5. Bins * sample[i].p \in Int
    BY <1>0, <2>2, ProductTyped
  <2>. QED
    BY <2>2, <2>3, <2>4, <2>5
<1>3. \A i \in rows : lower[i] = lo /\ upper[i] = hi
  OBVIOUS
<1> HIDE DEF rows, f, h, lower, upper, lo, hi
<1>4. SumFunctionOnSet(h, rows) = Bins * SumFunctionOnSet(f, rows)
  <2>1. Multiples(rows, f, h, Bins)
    BY <1>2 DEF Multiples
  <2>. QED
    BY <1>0, <1>1, <1>2, <2>1, SumOfMultiples
<1>5. SumFunctionOnSet(lower, rows) = lo * Cardinality(rows)
      /\ SumFunctionOnSet(upper, rows) = hi * Cardinality(rows)
  BY <1>0, <1>1, <1>3, SumOfConstant
<1>6. SumFunctionOnSet(lower, rows) <= SumFunctionOnSet(h, rows)
  <2>1. \A i \in rows : lower[i] \in Int /\ h[i] \in Int /\ lower[i] <= h[i]
    BY <1>0, <1>2, <1>3
  <2>. QED
    BY <1>1, <2>1, SumMonotone
<1>7. SumFunctionOnSet(h, rows) <= SumFunctionOnSet(upper, rows)
  <2>1. \A i \in rows : h[i] \in Int /\ upper[i] \in Int /\ h[i] <= upper[i]
    BY <1>0, <1>2, <1>3
  <2>. QED
    BY <1>1, <2>1, SumMonotone
<1>8. lo * Cardinality(rows) <= Bins * SumFunctionOnSet(f, rows)
      /\ Bins * SumFunctionOnSet(f, rows) <= hi * Cardinality(rows)
  BY <1>4, <1>5, <1>6, <1>7
<1>. QED
  BY <1>8 DEF lo, hi, rows, f

\* The calibration error is between the overall bias and the sum of the misses.
LEMMA ErrorIsBetween ==
  ASSUME NEW sample \in Seq(ScoredRow)
  PROVE  LET S == clean(sample)
             ece == SumFunctionOnSet([b \in BinNumbers |-> Absolute(Excess(sample, InBin(sample, b)))],
                                     BinNumbers)
             misses == SumFunctionOnSet([i \in S |-> Absolute(sample[i].p - sample[i].y)], S)
         IN  /\ Absolute(Excess(sample, S)) <= ece /\ ece <= misses
             /\ ece \in Int /\ misses \in Int
<1> DEFINE S == clean(sample)
           gap == Gaps(sample)
           miss == [i \in S |-> Absolute(sample[i].p - sample[i].y)]
           bias == [b \in BinNumbers |-> Excess(sample, InBin(sample, b))]
           term == [b \in BinNumbers |-> Absolute(Excess(sample, InBin(sample, b)))]
           missed == [b \in BinNumbers |-> SumFunctionOnSet(miss, InBin(sample, b))]
<1>1. /\ IsFiniteSet(S) /\ IsFiniteSet(BinNumbers)
      /\ \A b \in BinNumbers : /\ InBin(sample, b) \in SUBSET S
                               /\ IsFiniteSet(InBin(sample, b))
  BY CleanRows, BinsOfASample
<1>2. ASSUME NEW i \in S PROVE gap[i] \in Int /\ miss[i] = Absolute(gap[i])
  BY CleanRows DEF Gaps
<1>3. \A i \in S : miss[i] \in Int
  BY <1>2, AbsoluteTyped
<1>4. ASSUME NEW b \in BinNumbers
      PROVE  /\ bias[b] = SumFunctionOnSet(gap, InBin(sample, b)) /\ bias[b] \in Int
             /\ term[b] = Absolute(bias[b]) /\ term[b] \in Int
             /\ missed[b] = SumFunctionOnSet(miss, InBin(sample, b)) /\ missed[b] \in Int
             /\ term[b] <= missed[b]
  <2> DEFINE rows == InBin(sample, b)
  <2>1. rows \in SUBSET S /\ IsFiniteSet(rows)
    BY <1>1
  <2>2. bias[b] = SumFunctionOnSet(gap, rows) /\ bias[b] \in Int
    BY <2>1, SumsOfRows, ExcessIsADifference
  <2>3. term[b] = Absolute(bias[b]) /\ missed[b] = SumFunctionOnSet(miss, rows)
    OBVIOUS
  <2>4. term[b] \in Int
    <3> HIDE DEF term, bias
    <3>. QED
      BY <2>2, <2>3, AbsoluteTyped, Zenon
  <2>5. \A i \in rows : gap[i] \in Int /\ miss[i] = Absolute(gap[i]) /\ miss[i] \in Int
    BY <1>2, <1>3, <2>1
  <2> HIDE DEF rows, gap, miss, bias, term, missed
  <2>6. SumFunctionOnSet(miss, rows) \in Int
    BY <2>1, <2>5, SumTyped
  <2>7. Absolute(SumFunctionOnSet(gap, rows)) <= SumFunctionOnSet(miss, rows)
    BY <2>1, <2>5, SumTriangle
  <2>. QED
    BY <2>2, <2>3, <2>4, <2>6, <2>7 DEF rows
<1>5. Excess(sample, S) = SumFunctionOnSet(gap, S)
  BY SumsOfRows
<1> HIDE DEF S, gap, miss, bias, term, missed
<1>6. SumFunctionOnSet(bias, BinNumbers) = SumFunctionOnSet(gap, S)
  BY <1>2, <1>4, BinsAddUp DEF S
<1>7. SumFunctionOnSet(missed, BinNumbers) = SumFunctionOnSet(miss, S)
  BY <1>3, <1>4, BinsAddUp DEF S
<1>8. Absolute(SumFunctionOnSet(bias, BinNumbers)) <= SumFunctionOnSet(term, BinNumbers)
  BY <1>1, <1>4, SumTriangle
<1>9. SumFunctionOnSet(term, BinNumbers) <= SumFunctionOnSet(missed, BinNumbers)
  BY <1>1, <1>4, SumMonotone
<1>10. SumFunctionOnSet(term, BinNumbers) \in Int /\ SumFunctionOnSet(miss, S) \in Int
  BY <1>1, <1>3, <1>4, SumTyped
<1>. QED
  BY <1>5, <1>6, <1>7, <1>8, <1>9, <1>10 DEF S, miss, term

LEMMA SquareOfAmount ==
  ASSUME NEW x \in Int
  PROVE  Absolute(x) * Absolute(x) = x * x /\ x * x \in Int
<1>1. (-x) * (-x) = x * x /\ x * x \in Int
  OBVIOUS
<1>2. Absolute(x) = x \/ Absolute(x) = -x
  BY DEF Absolute
<1>. QED
  BY <1>1, <1>2

LEMMA MissesAgainstSquares ==
  ASSUME NEW sample \in Seq(ScoredRow)
  PROVE  LET S == clean(sample)
             misses == SumFunctionOnSet([i \in S |-> Absolute(sample[i].p - sample[i].y)], S)
         IN  misses * misses <= Cardinality(S) * brier_score(sample)
<1> DEFINE S == clean(sample)
           miss == [i \in S |-> Absolute(sample[i].p - sample[i].y)]
           square == [i \in S |-> (sample[i].p - sample[i].y) * (sample[i].p - sample[i].y)]
<1>1. brier_score(sample) = SumFunctionOnSet(square, S)
  BY DEF brier_score, SumOver
<1>2. ASSUME NEW i \in S PROVE miss[i] \in Int /\ square[i] = miss[i] * miss[i]
  <2> DEFINE x == sample[i].p - sample[i].y
  <2>1. x \in Int
    BY CleanRows
  <2>2. miss[i] = Absolute(x) /\ square[i] = x * x
    OBVIOUS
  <2> HIDE DEF x, miss, square
  <2>3. Absolute(x) \in Int /\ Absolute(x) * Absolute(x) = x * x
    BY <2>1, AbsoluteTyped, SquareOfAmount
  <2>. QED
    BY <2>2, <2>3
<1>3. IsFiniteSet(S)
  BY CleanRows
<1> HIDE DEF S, miss, square
<1>4. Squares(S, miss, square)
  BY <1>2 DEF Squares
<1>5. SquareBound(Cardinality(S), SumFunctionOnSet(miss, S), SumFunctionOnSet(square, S))
  BY <1>3, <1>4, SumOfSquares
<1>. QED
  BY <1>1, <1>5 DEF SquareBound, S, miss

LEMMA CalibrationOfASample ==
  ASSUME NEW sample \in Seq(ScoredRow)
  PROVE  LET S == clean(sample)
             table == reliability_table(sample)
             ece == expected_calibration_error(sample)
         IN  /\ SumFunctionOnSet([b \in DOMAIN table |-> table[b].n], DOMAIN table) = Cardinality(S)
             /\ \A b \in DOMAIN table :
                  /\ b * Scale * table[b].n <= Bins * table[b].mean_pred
                  /\ Bins * table[b].mean_pred <= (b + 1) * Scale * table[b].n
             /\ ece = SumFunctionOnSet([b \in DOMAIN table |->
                                          Absolute(table[b].mean_pred - table[b].frac_pos)],
                                       DOMAIN table)
             /\ Absolute(Excess(sample, S)) <= ece
             /\ ece <= SumFunctionOnSet([i \in S |-> Absolute(sample[i].p - sample[i].y)], S)
             /\ ece * ece <= Cardinality(S) * brier_score(sample)
<1> DEFINE S == clean(sample)
           table == reliability_table(sample)
           ece == expected_calibration_error(sample)
           term == [b \in BinNumbers |-> Absolute(Excess(sample, InBin(sample, b)))]
           rows == [b \in DOMAIN table |-> table[b].n]
           counted == [b \in BinNumbers |-> Cardinality(InBin(sample, b))]
           shown == [b \in DOMAIN table |-> Absolute(table[b].mean_pred - table[b].frac_pos)]
           misses == SumFunctionOnSet([i \in S |-> Absolute(sample[i].p - sample[i].y)], S)
<1>1. /\ DOMAIN table = BinNumbers
      /\ \A b \in BinNumbers :
           /\ table[b].n = Cardinality(InBin(sample, b))
           /\ table[b].mean_pred = SumFunctionOnSet(Scores(sample), InBin(sample, b))
           /\ table[b].frac_pos = SumFunctionOnSet(Outcomes(sample), InBin(sample, b))
  BY TableOfASample
<1>2. ece = SumFunctionOnSet(term, BinNumbers)
  BY DEF expected_calibration_error, SumOver, BinNumbers
<1>3. SumFunctionOnSet(rows, DOMAIN table) = Cardinality(S)
  <2>1. rows = counted
    BY <1>1
  <2>. QED
    BY <1>1, <2>1, AllRowsAreCounted
<1>4. ASSUME NEW b \in BinNumbers
      PROVE  /\ b * Scale * table[b].n <= Bins * table[b].mean_pred
             /\ Bins * table[b].mean_pred <= (b + 1) * Scale * table[b].n
  <2> DEFINE n == Cardinality(InBin(sample, b))
             s == SumFunctionOnSet(Scores(sample), InBin(sample, b))
  <2>1. b * Scale * n <= Bins * s /\ Bins * s <= (b + 1) * Scale * n
    BY MeanIsInTheBin
  <2>2. table[b].n = n /\ table[b].mean_pred = s
    BY <1>1
  <2> HIDE DEF n, s, table
  <2>. QED
    BY <2>1, <2>2
<1>5. term = shown
  <2>1. ASSUME NEW b \in BinNumbers
        PROVE  Excess(sample, InBin(sample, b)) = table[b].mean_pred - table[b].frac_pos
    <3>1. InBin(sample, b) \in SUBSET clean(sample)
      BY BinsOfASample
    <3> HIDE DEF table
    <3>. QED
      BY <1>1, <3>1, SumsOfRows, ExcessIsADifference
  <2> HIDE DEF table
  <2>. QED
    BY <1>1, <2>1
<1>6. /\ Absolute(Excess(sample, S)) <= ece /\ ece <= misses
      /\ ece \in Int /\ misses \in Int
  BY <1>2, ErrorIsBetween
<1>7. misses * misses <= Cardinality(S) * brier_score(sample)
  BY MissesAgainstSquares
<1>8. 0 <= ece
  <2>1. S \in SUBSET clean(sample)
    OBVIOUS
  <2>2. Excess(sample, S) \in Int
    BY <2>1, SumsOfRows, ExcessIsADifference
  <2> DEFINE x == Excess(sample, S)
  <2> HIDE DEF x, ece
  <2>3. Absolute(x) \in Nat
    BY <2>2, AbsoluteTyped DEF x
  <2>4. Absolute(x) <= ece /\ ece \in Int
    BY <1>6 DEF x
  <2>. QED
    BY <2>3, <2>4
<1> HIDE DEF ece, misses, term, shown, rows, table
<1>9. ece * ece <= misses * misses /\ ece * ece \in Int /\ misses * misses \in Int
  <2>1. ece * ece <= ece * misses /\ misses * ece <= misses * misses
    BY <1>6, <1>8, ProductMonotone
  <2>2. ece * misses = misses * ece /\ ece * misses \in Int
    BY <1>6
  <2>. QED
    BY <1>6, <2>1, <2>2, ProductTyped
<1>10. Cardinality(S) * brier_score(sample) \in Int
  <2> DEFINE square == [i \in S |-> (sample[i].p - sample[i].y) * (sample[i].p - sample[i].y)]
  <2>1. brier_score(sample) = SumFunctionOnSet(square, S)
    BY DEF brier_score, SumOver
  <2>2. \A i \in S : square[i] \in Int
    BY CleanRows, ProductTyped
  <2>3. IsFiniteSet(S)
    BY CleanRows
  <2> HIDE DEF square, S
  <2>4. SumFunctionOnSet(square, S) \in Int /\ Cardinality(S) \in Nat
    BY <2>2, <2>3, SumTyped, FS_CardinalityType
  <2>. QED
    BY <2>1, <2>4, ProductTyped
<1>11. ece * ece <= Cardinality(S) * brier_score(sample)
  <2> DEFINE a == ece * ece
             b == misses * misses
             c == Cardinality(S) * brier_score(sample)
  <2>1. a \in Int /\ b \in Int /\ c \in Int /\ a <= b /\ b <= c
    BY <1>7, <1>9, <1>10
  <2> HIDE DEF a, b, c
  <2>2. a <= c
    BY <2>1
  <2>. QED
    BY <2>2 DEF a, c
<1>12. ece = SumFunctionOnSet(shown, DOMAIN table)
  BY <1>1, <1>2, <1>5
<1>. QED
  BY <1>1, <1>3, <1>4, <1>6, <1>11, <1>12 DEF ece, misses, shown, rows, table

\* The bins of the reliability table account for all rows, the mean score of a bin is between
\* its edges, and the calibration error is between the overall bias and the mean absolute
\* error, and below the root of the Brier score, for samples of any length and any number of
\* bins (metrics.py:54-98).
THEOREM CalibrationAccounts == Spec => []CalibrationAccountsForAllRows
<1>1. InputTyped => CalibrationAccountsForAllRows
  <2> SUFFICES ASSUME InputTyped, input.kind = "sign" PROVE CalibrationAccountsForAllRows
    BY DEF CalibrationAccountsForAllRows
  <2>1. input.sample \in Seq(ScoredRow)
    BY KindsApart
  <2>. QED
    BY <2>1, CalibrationOfASample DEF CalibrationAccountsForAllRows, SumOver
<1>. QED
  BY <1>1, InputsTyped, PTL

---------------------------------------------------------------------------
(* The area under the curve *)

\* A sum over other names of the same things.
Renamed(S, g, T, f, h) ==
  /\ \A x \in S : g[x] \in T /\ h[x] = f[g[x]]
  /\ \A y \in T : \E x \in S : y = g[x]
  /\ \A x, z \in S : g[x] = g[z] => x = z

LEMMA SumOfRenamed ==
  ASSUME NEW S, IsFiniteSet(S), NEW g, NEW T, NEW f, NEW h, \A y \in T : f[y] \in Int,
         Renamed(S, g, T, f, h)
  PROVE  SumFunctionOnSet(h, S) = SumFunctionOnSet(f, T)
<1> DEFINE Names(U) == {y \in T : \E x \in U : y = g[x]}
           P == {U \in SUBSET S : SumFunctionOnSet(h, U) = SumFunctionOnSet(f, Names(U))}
<1>0. IsFiniteSet(T) /\ \A x \in S : h[x] \in Int
  <2>1. IsFiniteSet(T)
    <3>1. \A y \in T : \E x \in S : y = g[x]
      BY DEF Renamed
    <3>. QED
      BY <3>1, KeysAreFinite
  <2>. QED
    BY <2>1 DEF Renamed
<1>1. {} \in P
  <2>1. Names({}) = {}
    OBVIOUS
  <2>. QED
    BY <2>1, SumEmpty
<1>2. ASSUME NEW U \in SUBSET S, NEW x \in S \ U, U \in P PROVE U \cup {x} \in P
  <2>1. SumFunctionOnSet(h, U \cup {x}) = h[x] + SumFunctionOnSet(h, U)
    BY <1>0, SumGrows
  <2>2. Names(U) \in SUBSET T /\ g[x] \in T \ Names(U) /\ Names(U \cup {x}) = Names(U) \cup {g[x]}
    BY DEF Renamed
  <2>3. SumFunctionOnSet(h, U) = SumFunctionOnSet(f, Names(U))
    BY <1>2
  <2> HIDE DEF Names
  <2>4. SumFunctionOnSet(f, Names(U) \cup {g[x]}) = f[g[x]] + SumFunctionOnSet(f, Names(U))
    BY <1>0, <2>2, SumGrows
  <2>5. h[x] = f[g[x]]
    BY DEF Renamed
  <2>6. SumFunctionOnSet(h, U \cup {x}) = SumFunctionOnSet(f, Names(U \cup {x}))
    BY <2>1, <2>2, <2>3, <2>4, <2>5
  <2>. QED
    BY <2>6
<1> HIDE DEF P
<1>3. S \in P
  BY <1>1, <1>2, GrowsToAll
<1>4. Names(S) = T
  BY DEF Renamed
<1>. QED
  BY <1>3, <1>4 DEF P

RowSums(A, B, f, row) == \A i \in A : row[i] = SumFunctionOnSet([j \in B |-> f[<<i, j>>]], B)

\* A sum over pairs is summed row by row.
LEMMA SumOverPairs ==
  ASSUME NEW A, IsFiniteSet(A), NEW B, IsFiniteSet(B), NEW f, \A r \in A \X B : f[r] \in Int,
         NEW row, RowSums(A, B, f, row)
  PROVE  SumFunctionOnSet(f, A \X B) = SumFunctionOnSet(row, A)
<1> DEFINE S == A \X B
           key == [r \in S |-> r[1]]
           of == [i \in A |-> {r \in S : r[1] = i}]
<1>1. IsFiniteSet(S)
  BY FS_Product
<1>2. \A r \in S : key[r] \in A
  OBVIOUS
<1>3. \A i \in A : \A r : r \in of[i] <=> r \in S /\ key[r] = i
  OBVIOUS
<1>4. ASSUME NEW i \in A PROVE row[i] = SumFunctionOnSet(f, of[i])
  <2> DEFINE T == of[i]
             h == [j \in B |-> f[<<i, j>>]]
             g == [j \in B |-> <<i, j>>]
  <2>1. /\ \A j \in B : g[j] \in T /\ h[j] = f[g[j]]
        /\ \A y \in T : \E j \in B : y = g[j]
        /\ \A j, k \in B : g[j] = g[k] => j = k
    OBVIOUS
  <2>2. \A y \in T : f[y] \in Int
    OBVIOUS
  <2> HIDE DEF T, h, g
  <2>3. Renamed(B, g, T, f, h)
    BY <2>1 DEF Renamed
  <2>4. SumFunctionOnSet(h, B) = SumFunctionOnSet(f, T)
    BY <2>2, <2>3, SumOfRenamed
  <2>. QED
    BY <2>4 DEF h, T, RowSums
<1> HIDE DEF S, key, of
<1>5. \A r \in S : f[r] \in Int
  BY DEF S
<1>6. SumFunctionOnSet(row, A) = SumFunctionOnSet(f, S)
  BY <1>1, <1>2, <1>3, <1>4, <1>5, SumByParts
<1>. QED
  BY <1>6 DEF S

\* A count is a sum of ones.
LEMMA SumOfOnes ==
  ASSUME NEW S, IsFiniteSet(S), NEW T \in SUBSET S, NEW f,
         \A x \in S : f[x] = IF x \in T THEN 1 ELSE 0
  PROVE  SumFunctionOnSet(f, S) = Cardinality(T) /\ Cardinality(T) \in Nat
<1>1. IsFiniteSet(T)
  BY FS_Subset
<1>2. Cardinality(T) \in Nat
  BY <1>1, FS_CardinalityType
<1>3. SumFunctionOnSet(f, S) = SumFunctionOnSet(f, T)
  <2>1. (\A x \in S : f[x] \in Int) /\ \A x \in S \ T : f[x] = 0
    OBVIOUS
  <2>. QED
    BY <2>1, SumOfSupport
<1>4. SumFunctionOnSet(f, T) = 1 * Cardinality(T)
  <2>1. 1 \in Int /\ \A x \in T : f[x] = 1
    OBVIOUS
  <2>. QED
    BY <1>1, <2>1, SumOfConstant
<1>. QED
  BY <1>2, <1>3, <1>4

\* What a row gets against another one: two for a higher score, one for a tie.
Beats(p, q) == IF p > q THEN 2 ELSE IF p = q THEN 1 ELSE 0

\* Among themselves n rows get one for each of their pairs.
LEMMA AmongThemselves ==
  ASSUME NEW A, IsFiniteSet(A), NEW p, \A i \in A : p[i] \in Int, NEW f,
         \A r \in A \X A : f[r] = Beats(p[r[1]], p[r[2]])
  PROVE  SumFunctionOnSet(f, A \X A) = Cardinality(A) * Cardinality(A)
<1> DEFINE S == A \X A
           g == [r \in S |-> <<r[2], r[1]>>]
           h == [r \in S |-> f[<<r[2], r[1]>>]]
           c == [r \in S |-> 2]
           n == Cardinality(A) * Cardinality(A)
<1>1. IsFiniteSet(S) /\ Cardinality(S) = n /\ n \in Nat
  <2>1. Cardinality(A) \in Nat
    BY FS_CardinalityType
  <2>. QED
    BY <2>1, FS_Product
<1>2. ASSUME NEW r \in S PROVE f[r] \in Int /\ h[r] \in Int /\ c[r] = 2 /\ 2 = f[r] + 1 * h[r]
  <2>1. p[r[1]] \in Int /\ p[r[2]] \in Int /\ <<r[2], r[1]>> \in S
    OBVIOUS
  <2>2. f[r] = Beats(p[r[1]], p[r[2]]) /\ h[r] = Beats(p[r[2]], p[r[1]])
    BY <2>1
  <2> DEFINE a == p[r[1]]
             b == p[r[2]]
  <2> HIDE DEF a, b
  <2>3. a \in Int /\ b \in Int => Beats(a, b) + 1 * Beats(b, a) = 2 /\ Beats(a, b) \in Int
                                  /\ Beats(b, a) \in Int
    BY DEF Beats
  <2>4. c[r] = 2
    OBVIOUS
  <2>. QED
    BY <2>1, <2>2, <2>3, <2>4 DEF a, b
<1>3. /\ \A r \in S : g[r] \in S /\ h[r] = f[g[r]]
      /\ \A y \in S : \E r \in S : y = g[r]
      /\ \A r, s \in S : g[r] = g[s] => r = s
  <2>1. \A r \in S : g[r] \in S /\ h[r] = f[g[r]] /\ g[g[r]] = r
    OBVIOUS
  <2>. QED
    BY <2>1
<1> HIDE DEF S, g, h, c, n
<1>4. SumFunctionOnSet(h, S) = SumFunctionOnSet(f, S)
  <2>1. Renamed(S, g, S, f, h)
    BY <1>3 DEF Renamed
  <2>. QED
    BY <1>1, <1>2, <2>1, SumOfRenamed
<1>5. SumFunctionOnSet(c, S) = SumFunctionOnSet(f, S) + 1 * SumFunctionOnSet(h, S)
  <2>1. Combined(S, f, h, c, 1)
    BY <1>2 DEF Combined
  <2>. QED
    BY <1>1, <1>2, <2>1, SumCombines
<1>6. SumFunctionOnSet(c, S) = 2 * n
  BY <1>1, <1>2, SumOfConstant
<1>7. SumFunctionOnSet(f, S) \in Int
  BY <1>1, <1>2, SumTyped
<1>8. SumFunctionOnSet(f, S) = n
  <2> DEFINE a == SumFunctionOnSet(f, S)
             b == SumFunctionOnSet(c, S)
  <2>1. b = a + 1 * a
    BY <1>4, <1>5
  <2>2. b = 2 * n /\ a \in Int /\ n \in Int
    BY <1>1, <1>6, <1>7
  <2> HIDE DEF a, b
  <2>3. a = n
    BY <2>1, <2>2
  <2>. QED
    BY <2>3 DEF a
<1>. QED
  BY <1>8 DEF S, n

LEMMA PositivesAndNegatives ==
  ASSUME NEW sample \in Seq(ScoredRow)
  PROVE  /\ IsFiniteSet(clean(sample)) /\ IsFiniteSet(Positives(sample)) /\ IsFiniteSet(Negatives(sample))
         /\ Positives(sample) \cup Negatives(sample) = clean(sample)
         /\ Positives(sample) \cap Negatives(sample) = {}
         /\ Cardinality(Positives(sample)) \in Nat
<1>1. /\ Positives(sample) \in SUBSET clean(sample)
      /\ Negatives(sample) \in SUBSET clean(sample)
  BY DEF Positives, Negatives
<1>2. /\ IsFiniteSet(clean(sample)) /\ IsFiniteSet(Positives(sample)) /\ IsFiniteSet(Negatives(sample))
      /\ Cardinality(Positives(sample)) \in Nat
  BY <1>1, CleanRows, FS_Subset, FS_CardinalityType
<1>3. Scale # 0
  BY ScaleAssumption
<1>4. \A i \in clean(sample) : sample[i].y \in {0, Scale}
  BY CleanRows
<1>. QED
  BY <1>1, <1>2, <1>3, <1>4 DEF Positives, Negatives

\* The rank of a row counts what it gets against all rows.
LEMMA RankCounts ==
  ASSUME NEW sample \in Seq(ScoredRow), NEW i \in clean(sample), NEW f,
         \A j \in clean(sample) : f[j] = Beats(sample[i].p, sample[j].p)
  PROVE  /\ Rank2(sample, i) = 1 + SumFunctionOnSet(f, clean(sample))
         /\ SumFunctionOnSet(f, clean(sample)) \in Int
<1> DEFINE S == clean(sample)
           A == {j \in S : sample[j].p < sample[i].p}
           B == {j \in S : sample[j].p <= sample[i].p}
           a == [j \in S |-> IF j \in A THEN 1 ELSE 0]
           b == [j \in S |-> IF j \in B THEN 1 ELSE 0]
<1>1. IsFiniteSet(S) /\ A \in SUBSET S /\ B \in SUBSET S
  BY CleanRows
<1>2. ASSUME NEW j \in S PROVE a[j] \in Int /\ b[j] \in Int /\ f[j] = a[j] + 1 * b[j] /\ f[j] \in Int
  <2>1. sample[j].p \in Int /\ sample[i].p \in Int /\ f[j] = Beats(sample[i].p, sample[j].p)
    BY CleanRows
  <2> DEFINE q == sample[j].p
             p == sample[i].p
  <2>2. a[j] = (IF q < p THEN 1 ELSE 0) /\ b[j] = (IF q <= p THEN 1 ELSE 0)
    OBVIOUS
  <2> HIDE DEF q, p, a, b
  <2>3. q \in Int /\ p \in Int /\ f[j] = Beats(p, q)
    BY <2>1 DEF q, p
  <2>. QED
    BY <2>2, <2>3 DEF Beats
<1>3. Rank2(sample, i) = 1 + Cardinality(A) + Cardinality(B)
  BY DEF Rank2
<1>4. /\ \A j \in S : a[j] = IF j \in A THEN 1 ELSE 0
      /\ \A j \in S : b[j] = IF j \in B THEN 1 ELSE 0
  OBVIOUS
<1> HIDE DEF S, A, B, a, b
<1>5. /\ SumFunctionOnSet(a, S) = Cardinality(A) /\ SumFunctionOnSet(b, S) = Cardinality(B)
      /\ Cardinality(A) \in Nat /\ Cardinality(B) \in Nat
  BY <1>1, <1>4, SumOfOnes
<1>6. SumFunctionOnSet(f, S) = SumFunctionOnSet(a, S) + 1 * SumFunctionOnSet(b, S)
  <2>1. Combined(S, a, b, f, 1)
    BY <1>2 DEF Combined
  <2>. QED
    BY <1>1, <1>2, <2>1, SumCombines
<1>7. SumFunctionOnSet(f, S) \in Int
  BY <1>1, <1>2, SumTyped
<1>. QED
  BY <1>3, <1>5, <1>6, <1>7 DEF S

LEMMA AucOfASample ==
  ASSUME NEW sample \in Seq(ScoredRow)
  PROVE  LET pairs == Positives(sample) \X Negatives(sample)
         IN  auc_roc(sample)
               = SumFunctionOnSet([r \in pairs |-> IF sample[r[1]].p > sample[r[2]].p THEN 2
                                                   ELSE IF sample[r[1]].p = sample[r[2]].p THEN 1
                                                   ELSE 0], pairs)
<1> DEFINE S == clean(sample)
           P == Positives(sample)
           N == Negatives(sample)
           n == Cardinality(P)
           F == [r \in P \X S |-> Beats(sample[r[1]].p, sample[r[2]].p)]
           won == [r \in P \X N |-> IF sample[r[1]].p > sample[r[2]].p THEN 2
                                    ELSE IF sample[r[1]].p = sample[r[2]].p THEN 1 ELSE 0]
           row == [i \in P |-> SumFunctionOnSet([j \in S |-> F[<<i, j>>]], S)]
           rank == [i \in P |-> Rank2(sample, i)]
           one == [i \in P |-> 1]
           score == [i \in S |-> sample[i].p]
<1>1. /\ IsFiniteSet(S) /\ IsFiniteSet(P) /\ IsFiniteSet(N)
      /\ P \cup N = S /\ P \cap N = {} /\ n \in Nat
  BY PositivesAndNegatives
<1>2. \A i \in S : sample[i].p \in Int /\ score[i] = sample[i].p
  BY CleanRows
<1>3. ASSUME NEW i \in P, NEW j \in S
      PROVE  /\ <<i, j>> \in P \X S /\ F[<<i, j>>] = Beats(sample[i].p, sample[j].p)
             /\ F[<<i, j>>] \in Int /\ i \in S
  BY <1>1, <1>2 DEF Beats
<1>4. ASSUME NEW i \in P PROVE rank[i] = 1 + row[i] /\ row[i] \in Int /\ one[i] = 1
  <2> DEFINE f == [j \in S |-> F[<<i, j>>]]
  <2>1. \A j \in S : f[j] = Beats(sample[i].p, sample[j].p)
    BY <1>3
  <2>2. i \in S /\ rank[i] = Rank2(sample, i) /\ row[i] = SumFunctionOnSet(f, S) /\ one[i] = 1
    BY <1>1
  <2> HIDE DEF f, row, rank, one
  <2>. QED
    BY <2>1, <2>2, RankCounts
<1>5. auc_roc(sample) = SumFunctionOnSet(rank, P) - n * (n + 1)
  BY DEF auc_roc, SumOver
<1>6. \A r \in P \X N : won[r] = F[r] /\ won[r] \in Int
  BY <1>1 DEF Beats
<1>7. \A r \in P \X P : F[r] = Beats(score[r[1]], score[r[2]])
  BY <1>1
<1>8. \A r \in P \X S : F[r] \in Int
  BY <1>3
<1>9. (P \X P) \cup (P \X N) = P \X S /\ (P \X N) \cap (P \X P) = {}
  BY <1>1
<1>10. RowSums(P, S, F, row)
  BY DEF RowSums
<1>11. IsFiniteSet(P \X P) /\ IsFiniteSet(P \X N)
  BY <1>1, FS_Product
<1> HIDE DEF S, P, N, n, F, won, row, rank, one, score
<1>12. SumFunctionOnSet(F, P \X S) = SumFunctionOnSet(row, P)
  BY <1>1, <1>8, <1>10, SumOverPairs
<1>13. SumFunctionOnSet(F, P \X P) = n * n
  <2>1. \A i \in P : score[i] \in Int
    BY <1>1, <1>2
  <2>. QED
    BY <1>1, <1>7, <2>1, AmongThemselves DEF n
<1>14. SumFunctionOnSet(F, P \X S) = SumFunctionOnSet(F, P \X P) + SumFunctionOnSet(F, P \X N)
  <2> DEFINE A == P \X P
             B == P \X N
  <2>1. A \cup B = P \X S /\ B \cap A = {} /\ IsFiniteSet(A) /\ IsFiniteSet(B)
    BY <1>9, <1>11
  <2>2. \A r \in B \cup A : F[r] \in Int
    BY <1>8, <2>1
  <2> HIDE DEF A, B
  <2>3. SumFunctionOnSet(F, A \cup B) = SumFunctionOnSet(F, A) + SumFunctionOnSet(F, B)
    BY <2>1, <2>2, SumDisjoint
  <2>. QED
    BY <2>1, <2>3 DEF A, B
<1>15. SumFunctionOnSet(won, P \X N) = SumFunctionOnSet(F, P \X N)
       /\ SumFunctionOnSet(won, P \X N) \in Int
  <2> DEFINE B == P \X N
  <2>1. IsFiniteSet(B) /\ \A r \in B : won[r] \in Int /\ F[r] \in Int /\ won[r] = F[r]
    BY <1>6, <1>11
  <2> HIDE DEF B
  <2>2. SumFunctionOnSet(won, B) = SumFunctionOnSet(F, B) /\ SumFunctionOnSet(won, B) \in Int
    BY <2>1, SumSame, SumTyped
  <2>. QED
    BY <2>2 DEF B
<1>16. SumFunctionOnSet(rank, P) = SumFunctionOnSet(one, P) + 1 * SumFunctionOnSet(row, P)
  <2>1. Combined(P, one, row, rank, 1)
    BY <1>4 DEF Combined
  <2>. QED
    BY <1>1, <1>4, <2>1, SumCombines
<1>17. SumFunctionOnSet(one, P) = 1 * n
  <2>1. 1 \in Int /\ \A i \in P : one[i] = 1
    BY <1>4
  <2>. QED
    BY <1>1, <2>1, SumOfConstant DEF n
<1>18. SumFunctionOnSet(rank, P) - n * (n + 1) = SumFunctionOnSet(won, P \X N)
  <2> DEFINE a == SumFunctionOnSet(rank, P)
             b == SumFunctionOnSet(row, P)
             c == SumFunctionOnSet(won, P \X N)
             o == SumFunctionOnSet(one, P)
  <2>1. a = o + 1 * b /\ o = 1 * n /\ b = n * n + c /\ c \in Int /\ n \in Nat
    BY <1>1, <1>12, <1>13, <1>14, <1>15, <1>16, <1>17
  <2> HIDE DEF a, b, c, o
  <2>2. n * (n + 1) = n * n + n /\ n * n \in Int
    BY <2>1
  <2>3. a - n * (n + 1) = c
    BY <2>1, <2>2
  <2>. QED
    BY <2>3 DEF a, c
<1>. QED
  BY <1>5, <1>18 DEF won, P, N

\* The rank formula counts the pairs that are in order, for samples of any length with any
\* ties (metrics.py:36-51).
THEOREM AucCountsPairs == Spec => []AucIsPairwise
<1>1. InputTyped => AucIsPairwise
  <2> SUFFICES ASSUME InputTyped, input.kind = "sign" PROVE AucIsPairwise
    BY DEF AucIsPairwise
  <2>1. input.sample \in Seq(ScoredRow)
    BY KindsApart
  <2>. QED
    BY <2>1, AucOfASample DEF AucIsPairwise, SumOver
<1>. QED
  BY <1>1, InputsTyped, PTL

---------------------------------------------------------------------------
(* Quantiles *)

\* How far a number is above zero.
Above(x) == IF x > 0 THEN x ELSE 0

\* The pinball loss of one outcome is linear in the level.
LEMMA PinballIs ==
  ASSUME NEW y \in Int, NEW p \in Int, NEW q \in Int
  PROVE  PinballTerm(y, p, q) = q * (y - p) + 10 * Above(p - y)
<1> DEFINE d == y - p
           a == q * d
           b == (q - 10) * d
<1>1. d \in Int /\ p - y = -d
  OBVIOUS
<1> HIDE DEF d
<1>2. a \in Int /\ b = a - 10 * d
  BY <1>1
<1>3. PinballTerm(y, p, q) = IF a >= b THEN a ELSE b
  BY DEF PinballTerm, d
<1> HIDE DEF a, b
<1>4. PinballTerm(y, p, q) = a + 10 * Above(-d)
  BY <1>1, <1>2, <1>3 DEF Above
<1>. QED
  BY <1>1, <1>4 DEF a, d

LEMMA PricedRows ==
  ASSUME NEW sample \in Seq(PricedRow)
  PROVE  /\ IsFiniteSet(clean(sample)) /\ Cardinality(clean(sample)) \in Nat
         /\ \A i \in clean(sample) : sample[i].y \in Int /\ i \in DOMAIN sample
         /\ \A c \in Int : /\ clean(Constantly(sample, c)) = clean(sample)
                           /\ \A i \in clean(sample) : /\ Constantly(sample, c)[i].y = sample[i].y
                                                       /\ Constantly(sample, c)[i].p = c
<1>1. DOMAIN sample = 1..Len(sample) /\ Len(sample) \in Nat
  OBVIOUS
<1>2. clean(sample) \in SUBSET (1..Len(sample))
  BY <1>1 DEF clean
<1>3. IsFiniteSet(clean(sample)) /\ Cardinality(clean(sample)) \in Nat
  BY <1>1, <1>2, OneOrMany, FS_Subset, FS_CardinalityType
<1>4. \A i \in DOMAIN sample : sample[i] \in PricedRow
  BY <1>1
<1>5. 0..Scale \subseteq Int /\ NaN # 0 /\ \A c \in Int : c # NaN
  BY NaNAssumption, ScaleAssumption
<1>6. ASSUME NEW i \in clean(sample) PROVE sample[i].y \in Int /\ i \in DOMAIN sample
  BY <1>4, <1>5 DEF clean, PricedRow
<1>7. ASSUME NEW c \in Int, NEW i \in DOMAIN sample
      PROVE  /\ i \in DOMAIN Constantly(sample, c)
             /\ Constantly(sample, c)[i].y = sample[i].y /\ Constantly(sample, c)[i].p = c
  BY <1>4 DEF Constantly, PricedRow
<1>8. ASSUME NEW c \in Int PROVE clean(Constantly(sample, c)) = clean(sample)
  <2>1. \A i \in DOMAIN sample : sample[i].p # NaN
    BY <1>4, <1>5 DEF PricedRow
  <2>2. DOMAIN Constantly(sample, c) = DOMAIN sample
    BY DEF Constantly
  <2>3. c # NaN
    BY <1>5
  <2>. QED
    BY <1>7, <2>1, <2>2, <2>3 DEF clean
<1>. QED
  BY <1>3, <1>6, <1>7, <1>8

\* The outcomes of a sample, and the sum of how far a price is above them.
OutcomesOf(sample) == [i \in clean(sample) |-> sample[i].y]
AboveAll(sample, c) ==
  SumFunctionOnSet([i \in clean(sample) |-> Above(c - sample[i].y)], clean(sample))

LEMMA AboveTyped ==
  ASSUME NEW x \in Int
  PROVE  Above(x) \in Int
  BY DEF Above

LEMMA LossIs ==
  ASSUME NEW sample \in Seq(PricedRow), NEW c \in Int, NEW q \in Int
  PROVE  LET y == SumFunctionOnSet(OutcomesOf(sample), clean(sample))
             n == Cardinality(clean(sample))
         IN  /\ pinball_loss(Constantly(sample, c), q)
                  = q * (y - n * c) + 10 * AboveAll(sample, c)
             /\ y \in Int /\ n \in Nat /\ AboveAll(sample, c) \in Int
<1> DEFINE S == clean(sample)
           n == Cardinality(S)
           f == OutcomesOf(sample)
           y == SumFunctionOnSet(f, S)
           one == [i \in S |-> 1]
           gap == [i \in S |-> sample[i].y - c]
           zero == [i \in S |-> 0]
           line == [i \in S |-> q * (sample[i].y - c)]
           above == [i \in S |-> Above(c - sample[i].y)]
           term == [i \in S |-> PinballTerm(Constantly(sample, c)[i].y, Constantly(sample, c)[i].p, q)]
<1>1. IsFiniteSet(S) /\ n \in Nat
  BY PricedRows
<1>2. pinball_loss(Constantly(sample, c), q) = SumFunctionOnSet(term, S)
  <2>1. clean(Constantly(sample, c)) = S
    BY PricedRows
  <2>. QED
    BY <2>1 DEF pinball_loss, SumOver
<1>3. ASSUME NEW i \in S
      PROVE  /\ f[i] \in Int /\ gap[i] \in Int /\ line[i] \in Int /\ above[i] \in Int /\ one[i] = 1
             /\ gap[i] = f[i] + (-c) * one[i] /\ line[i] = q * gap[i]
             /\ term[i] = line[i] + 10 * above[i]
  <2>1. sample[i].y \in Int /\ Constantly(sample, c)[i].y = sample[i].y /\ Constantly(sample, c)[i].p = c
    BY PricedRows
  <2> DEFINE v == sample[i].y
  <2>2. f[i] = v /\ gap[i] = v - c /\ line[i] = q * (v - c) /\ above[i] = Above(c - v) /\ one[i] = 1
        /\ term[i] = PinballTerm(v, c, q)
    BY <2>1 DEF OutcomesOf
  <2>3. v \in Int
    BY <2>1
  <2> HIDE DEF v, f, gap, line, above, one, term
  <2>4. q * (v - c) \in Int /\ Above(c - v) \in Int /\ v - c = v + (-c) * 1
    BY <2>3, AboveTyped, ProductTyped
  <2>5. PinballTerm(v, c, q) = q * (v - c) + 10 * Above(c - v)
    BY <2>3, PinballIs
  <2>. QED
    BY <2>2, <2>3, <2>4, <2>5
<1>4. AboveAll(sample, c) = SumFunctionOnSet(above, S)
  BY DEF AboveAll
<1> HIDE DEF S, n, f, y, one, gap, line, above, term
<1>5. SumFunctionOnSet(term, S) = SumFunctionOnSet(line, S) + 10 * SumFunctionOnSet(above, S)
  <2>1. Combined(S, line, above, term, 10)
    BY <1>3 DEF Combined
  <2>. QED
    BY <1>1, <1>3, <2>1, SumCombines
<1>6. SumFunctionOnSet(line, S) = q * SumFunctionOnSet(gap, S)
  <2>1. Multiples(S, gap, line, q)
    BY <1>3 DEF Multiples
  <2>. QED
    BY <1>1, <1>3, <2>1, SumOfMultiples
<1>7. SumFunctionOnSet(gap, S) = y - n * c
  <2>1. Combined(S, f, one, gap, -c)
    BY <1>3 DEF Combined
  <2>2. -c \in Int /\ \A i \in S : f[i] \in Int /\ one[i] = 1 /\ one[i] \in Int
    BY <1>3
  <2>3. SumFunctionOnSet(gap, S) = y + (-c) * SumFunctionOnSet(one, S)
    BY <1>1, <2>1, <2>2, SumCombines DEF y
  <2>4. SumFunctionOnSet(one, S) = 1 * n
    <3>1. 1 \in Int /\ \A i \in S : one[i] = 1
      BY <2>2
    <3>. QED
      BY <1>1, <3>1, SumOfConstant DEF n
  <2>5. (-c) * (1 * n) = -(n * c) /\ n * c \in Int
    BY <1>1
  <2>6. y \in Int
    BY <1>1, <2>2, SumTyped DEF y
  <2>. QED
    BY <2>3, <2>4, <2>5, <2>6
<1>8. y \in Int /\ SumFunctionOnSet(above, S) \in Int
  BY <1>1, <1>3, SumTyped DEF y
<1>. QED
  BY <1>1, <1>2, <1>4, <1>5, <1>6, <1>7, <1>8 DEF y, n, f, S

\* How much farther a higher price is above the outcomes than a lower one: by the difference
\* for every outcome up to the lower one, and at most that for every one below the higher.
LEMMA AboveSlopes ==
  ASSUME NEW sample \in Seq(PricedRow), NEW c \in Int, NEW d \in Int, c <= d
  PROVE  LET S == clean(sample)
             upto == Cardinality({i \in S : sample[i].y <= c})
             below == Cardinality({i \in S : sample[i].y < d})
         IN  /\ upto \in Nat /\ below \in Nat
             /\ AboveAll(sample, c) + (d - c) * upto <= AboveAll(sample, d)
             /\ AboveAll(sample, d) <= AboveAll(sample, c) + (d - c) * below
<1> DEFINE S == clean(sample)
           L == {i \in S : sample[i].y <= c}
           B == {i \in S : sample[i].y < d}
           f == [i \in S |-> Above(c - sample[i].y)]
           g == [i \in S |-> Above(d - sample[i].y)]
           a == [i \in S |-> IF i \in L THEN 1 ELSE 0]
           b == [i \in S |-> IF i \in B THEN 1 ELSE 0]
           low == [i \in S |-> f[i] + (d - c) * a[i]]
           high == [i \in S |-> f[i] + (d - c) * b[i]]
           e == d - c
<1>1. IsFiniteSet(S) /\ L \in SUBSET S /\ B \in SUBSET S
  BY PricedRows
<1>2. e \in Nat
  OBVIOUS
<1>3. AboveAll(sample, c) = SumFunctionOnSet(f, S) /\ AboveAll(sample, d) = SumFunctionOnSet(g, S)
  BY DEF AboveAll
<1>4. ASSUME NEW i \in S
      PROVE  /\ f[i] \in Int /\ g[i] \in Int /\ a[i] \in Int /\ b[i] \in Int
             /\ low[i] \in Int /\ high[i] \in Int
             /\ low[i] = f[i] + e * a[i] /\ high[i] = f[i] + e * b[i]
             /\ low[i] <= g[i] /\ g[i] <= high[i]
  <2> DEFINE y == sample[i].y
  <2>1. y \in Int
    BY PricedRows
  <2>2. /\ f[i] = Above(c - y) /\ g[i] = Above(d - y)
        /\ a[i] = (IF y <= c THEN 1 ELSE 0) /\ b[i] = (IF y < d THEN 1 ELSE 0)
        /\ low[i] = f[i] + e * a[i] /\ high[i] = f[i] + e * b[i]
    OBVIOUS
  <2> HIDE DEF y, f, g, a, b, low, high
  <2>3. f[i] \in Int /\ g[i] \in Int /\ a[i] \in {0, 1} /\ b[i] \in {0, 1}
    BY <2>1, <2>2, AboveTyped
  <2>4. e * 0 = 0 /\ e * 1 = e
    BY <1>2
  <2>5. low[i] = (IF y <= c THEN f[i] + e ELSE f[i]) /\ high[i] = (IF y < d THEN f[i] + e ELSE f[i])
    BY <1>2, <2>2, <2>3, <2>4
  <2>. QED
    BY <2>1, <2>2, <2>3, <2>5 DEF Above
<1>5. /\ \A i \in S : a[i] = IF i \in L THEN 1 ELSE 0
      /\ \A i \in S : b[i] = IF i \in B THEN 1 ELSE 0
  OBVIOUS
<1> HIDE DEF S, L, B, f, g, a, b, low, high, e
<1>6. /\ SumFunctionOnSet(a, S) = Cardinality(L) /\ Cardinality(L) \in Nat
      /\ SumFunctionOnSet(b, S) = Cardinality(B) /\ Cardinality(B) \in Nat
  BY <1>1, <1>5, SumOfOnes
<1>7. SumFunctionOnSet(low, S) = SumFunctionOnSet(f, S) + e * SumFunctionOnSet(a, S)
  <2>1. Combined(S, f, a, low, e) /\ e \in Int
    BY <1>2, <1>4 DEF Combined
  <2>. QED
    BY <1>1, <1>4, <2>1, SumCombines
<1>8. SumFunctionOnSet(high, S) = SumFunctionOnSet(f, S) + e * SumFunctionOnSet(b, S)
  <2>1. Combined(S, f, b, high, e) /\ e \in Int
    BY <1>2, <1>4 DEF Combined
  <2>. QED
    BY <1>1, <1>4, <2>1, SumCombines
<1>9. SumFunctionOnSet(low, S) <= SumFunctionOnSet(g, S)
      /\ SumFunctionOnSet(g, S) <= SumFunctionOnSet(high, S)
  BY <1>1, <1>4, SumMonotone
<1>10. /\ AboveAll(sample, c) + e * Cardinality(L) <= AboveAll(sample, d)
       /\ AboveAll(sample, d) <= AboveAll(sample, c) + e * Cardinality(B)
  BY <1>3, <1>6, <1>7, <1>8, <1>9
<1>. QED
  BY <1>6, <1>10 DEF e, L, B, S

\* The loss of a level is least at its quantiles.
LEMMA QuantileIsBest ==
  ASSUME NEW sample \in Seq(PricedRow), NEW q \in Int, NEW c \in Int, NEW d \in Int,
         IsQuantile(sample, c, q)
  PROVE  pinball_loss(Constantly(sample, c), q) <= pinball_loss(Constantly(sample, d), q)
<1> DEFINE S == clean(sample)
           n == Cardinality(S)
           y == SumFunctionOnSet(OutcomesOf(sample), S)
           C == AboveAll(sample, c)
           D == AboveAll(sample, d)
           upto == Cardinality({i \in S : sample[i].y <= c})
           below == Cardinality({i \in S : sample[i].y < c})
           u == pinball_loss(Constantly(sample, c), q)
           v == pinball_loss(Constantly(sample, d), q)
<1>1. /\ u = q * (y - n * c) + 10 * C /\ v = q * (y - n * d) + 10 * D
      /\ y \in Int /\ n \in Nat /\ C \in Int /\ D \in Int
  BY LossIs
<1>2. 10 * below <= q * n /\ q * n <= 10 * upto
  BY DEF IsQuantile
<1>3. c <= d => upto \in Nat /\ C + (d - c) * upto <= D
  BY AboveSlopes
<1>4. d <= c => below \in Nat /\ C <= D + (c - d) * below
  BY AboveSlopes
<1> HIDE DEF S, n, y, C, D, upto, below, u, v
<1>5. v - u = q * n * (c - d) + 10 * (D - C) /\ u \in Int /\ v \in Int
  BY <1>1
<1>6. CASE c <= d
  <2> DEFINE e == d - c
  <2>1. e \in Nat /\ upto \in Nat /\ C + e * upto <= D
    BY <1>3, <1>6
  <2>2. q * n \in Int /\ 10 * upto \in Int /\ q * n * (c - d) = -(e * (q * n))
    BY <1>1, <2>1
  <2> HIDE DEF e
  <2>3. e * (q * n) <= e * (10 * upto)
    BY <1>2, <2>1, <2>2, ProductMonotone
  <2>4. e * (10 * upto) = 10 * (e * upto) /\ e * upto \in Int /\ e * (q * n) \in Int
    BY <2>1, <2>2, ProductTyped
  <2>. QED
    BY <1>1, <1>5, <2>1, <2>2, <2>3, <2>4 DEF u, v
<1>7. CASE d <= c
  <2> DEFINE e == c - d
  <2>1. e \in Nat /\ below \in Nat /\ C <= D + e * below
    BY <1>4, <1>7
  <2>2. q * n \in Int /\ 10 * below \in Int /\ q * n * (c - d) = e * (q * n)
    BY <1>1, <2>1
  <2> HIDE DEF e
  <2>3. e * (10 * below) <= e * (q * n)
    BY <1>2, <2>1, <2>2, ProductMonotone
  <2>4. e * (10 * below) = 10 * (e * below) /\ e * below \in Int /\ e * (q * n) \in Int
    BY <2>1, <2>2, ProductTyped
  <2>. QED
    BY <1>1, <1>5, <2>1, <2>2, <2>3, <2>4 DEF u, v
<1>. QED
  BY <1>6, <1>7

\* An interval between two quantiles is covered as often as their levels say.
LEMMA IntervalIsCovered ==
  ASSUME NEW sample \in Seq(PricedRow), NEW a \in Int, NEW b \in Int, NEW lower \in Int, NEW upper \in Int,
         IsQuantile(sample, lower, a), IsQuantile(sample, upper, b)
  PROVE  10 * picp(sample, lower, upper) >= (b - a) * Cardinality(clean(sample))
<1> DEFINE S == clean(sample)
           n == Cardinality(S)
           A == {i \in S : sample[i].y < lower}
           B == {i \in S : sample[i].y <= upper}
           C == {i \in S : lower <= sample[i].y /\ sample[i].y <= upper}
<1>1. 10 * Cardinality(A) <= a * n /\ b * n <= 10 * Cardinality(B)
  BY DEF IsQuantile
<1>2. picp(sample, lower, upper) = Cardinality(C)
  BY DEF picp
<1>3. IsFiniteSet(S) /\ n \in Nat
  BY PricedRows
<1>4. B \in SUBSET (A \cup C) /\ A \in SUBSET S /\ B \in SUBSET S /\ C \in SUBSET S
  BY PricedRows
<1> HIDE DEF S, n, A, B, C
<1>5. IsFiniteSet(A) /\ IsFiniteSet(B) /\ IsFiniteSet(C)
  BY <1>3, <1>4, FS_Subset
<1>6. IsFiniteSet(A \cup C) /\ Cardinality(A \cup C) <= Cardinality(A) + Cardinality(C)
  <2>1. IsFiniteSet(A \cap C)
    <3>1. A \cap C \in SUBSET A
      OBVIOUS
    <3>. QED
      BY <1>5, <3>1, FS_Subset
  <2>2. /\ Cardinality(A \cap C) \in Nat /\ Cardinality(A) \in Nat /\ Cardinality(C) \in Nat
    BY <1>5, <2>1, FS_CardinalityType
  <2>3. IsFiniteSet(A \cup C)
        /\ Cardinality(A \cup C) = Cardinality(A) + Cardinality(C) - Cardinality(A \cap C)
    BY <1>5, FS_Union
  <2>. QED
    BY <2>2, <2>3
<1>7. Cardinality(B) <= Cardinality(A \cup C)
  BY <1>4, <1>6, FS_Subset
<1>8. /\ Cardinality(A) \in Nat /\ Cardinality(B) \in Nat /\ Cardinality(C) \in Nat
      /\ Cardinality(A \cup C) \in Nat
  BY <1>5, <1>6, FS_CardinalityType
<1>9. (b - a) * n = b * n - a * n /\ b * n \in Int /\ a * n \in Int
  BY <1>3
<1>10. 10 * Cardinality(C) >= b * n - a * n
  BY <1>1, <1>6, <1>7, <1>8, <1>9
<1>. QED
  BY <1>2, <1>9, <1>10 DEF n, S

IntValued(S, f) == \A x \in S : f[x] \in Int
Swapped(A, B, f, g) == \A s \in B \X A : g[s] = f[<<s[2], s[1]>>]

\* The order of two sums does not matter.
LEMMA SumSwaps ==
  ASSUME NEW A, IsFiniteSet(A), NEW B, IsFiniteSet(B), NEW f, IntValued(A \X B, f),
         NEW row, RowSums(A, B, f, row),
         NEW g, Swapped(A, B, f, g), NEW col, RowSums(B, A, g, col)
  PROVE  SumFunctionOnSet(row, A) = SumFunctionOnSet(col, B)
<1> DEFINE S == B \X A
           T == A \X B
           swap == [s \in S |-> <<s[2], s[1]>>]
<1>1. /\ \A s \in S : swap[s] \in T /\ g[s] = f[swap[s]]
      /\ \A r \in T : \E s \in S : r = swap[s]
      /\ \A s, t \in S : swap[s] = swap[t] => s = t
  <2>1. \A s \in S : swap[s] \in T /\ g[s] = f[swap[s]]
    BY DEF Swapped
  <2>2. ASSUME NEW r \in T PROVE \E s \in S : r = swap[s]
    <3>1. <<r[2], r[1]>> \in S /\ r = swap[<<r[2], r[1]>>]
      OBVIOUS
    <3>. QED
      BY <3>1
  <2>3. \A s, t \in S : swap[s] = swap[t] => s = t
    OBVIOUS
  <2>. QED
    BY <2>1, <2>2, <2>3
<1>2. IsFiniteSet(S) /\ \A s \in S : g[s] \in Int
  <2>1. IsFiniteSet(S)
    BY FS_Product
  <2>2. \A r \in T : f[r] \in Int
    BY DEF IntValued
  <2> HIDE DEF S, T, swap
  <2>. QED
    BY <1>1, <2>1, <2>2
<1>3. SumFunctionOnSet(row, A) = SumFunctionOnSet(f, T)
  BY SumOverPairs DEF IntValued
<1>4. SumFunctionOnSet(col, B) = SumFunctionOnSet(g, S)
  BY <1>2, SumOverPairs
<1> HIDE DEF S, swap
<1>5. SumFunctionOnSet(g, S) = SumFunctionOnSet(f, T)
  <2>1. Renamed(S, swap, T, f, g)
    BY <1>1 DEF Renamed
  <2>2. \A r \in T : f[r] \in Int
    BY DEF IntValued
  <2> HIDE DEF T
  <2>. QED
    BY <1>2, <2>1, <2>2, SumOfRenamed
<1>. QED
  BY <1>3, <1>4, <1>5

\* Of the sets of one size, one that has with a number every greater one has the largest sum.
LEMMA TopHeavy ==
  ASSUME NEW L \in SUBSET Int, IsFiniteSet(L), NEW T \in SUBSET L, NEW U \in SUBSET L,
         \A t \in T : \A l \in L : t <= l => l \in T,
         Cardinality(T) = Cardinality(U), NEW f, \A l \in L : f[l] = l
  PROVE  SumFunctionOnSet(f, U) <= SumFunctionOnSet(f, T)
<1> DEFINE A == T \ U
           B == U \ T
           C == T \cap U
           n == Cardinality(A)
<1>1. /\ IsFiniteSet(T) /\ IsFiniteSet(U) /\ IsFiniteSet(A) /\ IsFiniteSet(B) /\ IsFiniteSet(C)
      /\ A \cup C = T /\ B \cup C = U /\ A \cap C = {} /\ B \cap C = {}
      /\ A \subseteq L /\ B \subseteq L /\ C \subseteq L
  BY FS_Subset, FS_Difference, FS_Intersection
<1>2. \A l \in L : f[l] \in Int
  OBVIOUS
<1>3. n \in Nat /\ Cardinality(B) = n
  <2>1. /\ Cardinality(A) = Cardinality(T) - Cardinality(T \cap U)
        /\ Cardinality(B) = Cardinality(U) - Cardinality(U \cap T)
    BY <1>1, FS_Difference
  <2>2. U \cap T = T \cap U
    OBVIOUS
  <2>. QED
    BY <1>1, <2>1, <2>2, FS_CardinalityType
<1> HIDE DEF A, B, C, n
<1>4. /\ SumFunctionOnSet(f, T) = SumFunctionOnSet(f, C) + SumFunctionOnSet(f, A)
      /\ SumFunctionOnSet(f, U) = SumFunctionOnSet(f, C) + SumFunctionOnSet(f, B)
  <2>1. /\ SumFunctionOnSet(f, C \cup A) = SumFunctionOnSet(f, C) + SumFunctionOnSet(f, A)
        /\ SumFunctionOnSet(f, C \cup B) = SumFunctionOnSet(f, C) + SumFunctionOnSet(f, B)
    BY <1>1, <1>2, SumDisjoint
  <2>2. C \cup A = T /\ C \cup B = U
    BY <1>1
  <2>. QED
    BY <2>1, <2>2
<1>5. /\ SumFunctionOnSet(f, A) \in Int /\ SumFunctionOnSet(f, B) \in Int
      /\ SumFunctionOnSet(f, C) \in Int
  BY <1>1, <1>2, SumTyped
<1>6. SumFunctionOnSet(f, B) <= SumFunctionOnSet(f, A)
  <2>1. CASE B = {}
    <3>1. A = {}
      BY <1>1, <1>3, <2>1, FS_EmptySet DEF n
    <3>. QED
      BY <1>5, <2>1, <3>1
  <2>2. CASE B # {}
    <3>1. PICK b \in B : \A y \in B : y <= b
      BY <1>1, <2>2, ExtremesExist
    <3>2. b \in Int /\ \A a \in A : b <= a
      BY <1>1, <3>1 DEF A, B
    <3> DEFINE c == [l \in L |-> b]
    <3>3. \A l \in L : c[l] = b /\ c[l] \in Int
      BY <3>2
    <3> HIDE DEF c
    <3>4. SumFunctionOnSet(c, A) <= SumFunctionOnSet(f, A)
      <4>1. \A x \in A : c[x] \in Int /\ f[x] \in Int /\ c[x] <= f[x]
        BY <1>1, <3>2, <3>3
      <4>. QED
        BY <1>1, <4>1, SumMonotone
    <3>5. SumFunctionOnSet(f, B) <= SumFunctionOnSet(c, B)
      <4>1. \A x \in B : c[x] \in Int /\ f[x] \in Int /\ f[x] <= c[x]
        BY <1>1, <3>1, <3>2, <3>3
      <4>. QED
        BY <1>1, <4>1, SumMonotone
    <3>6. SumFunctionOnSet(c, A) = b * n /\ SumFunctionOnSet(c, B) = b * n /\ b * n \in Int
      <4>1. /\ \A x \in A : c[x] = b
            /\ \A x \in B : c[x] = b
        BY <1>1, <3>3
      <4>2. SumFunctionOnSet(c, A) = b * Cardinality(A)
        BY <1>1, <3>2, <4>1, SumOfConstant
      <4>3. SumFunctionOnSet(c, B) = b * Cardinality(B)
        BY <1>1, <3>2, <4>1, SumOfConstant
      <4>4. b * n \in Int
        BY <1>3, <3>2, ProductTyped
      <4>. QED
        BY <1>3, <4>2, <4>3, <4>4 DEF n
    <3>. QED
      BY <1>5, <3>4, <3>5, <3>6
  <2>. QED
    BY <2>1, <2>2
<1>. QED
  BY <1>4, <1>5, <1>6

RankIn(L, q) == Cardinality({l \in L : l <= q})
CountBelow(L, raw, v) == Cardinality({l \in L : raw[l] < v})
CountUpTo(L, raw, v) == Cardinality({l \in L : raw[l] <= v})

\* As many numbers of a set have a rank up to u as there are ranks up to u.
LEMMA RanksCount ==
  ASSUME NEW L \in SUBSET Int, IsFiniteSet(L), NEW u \in Nat, u <= Cardinality(L)
  PROVE  /\ Cardinality({q \in L : RankIn(L, q) <= u}) = u
         /\ \A q, r \in L : q <= r => RankIn(L, q) <= RankIn(L, r)
         /\ \A q \in L : RankIn(L, q) \in Nat /\ 1 <= RankIn(L, q) /\ RankIn(L, q) <= Cardinality(L)
<1> DEFINE D == {q \in L : RankIn(L, q) <= u}
           R == L \ D
           d == Cardinality(D)
<1>1. Cardinality(L) \in Nat /\ IsFiniteSet(D) /\ IsFiniteSet(R) /\ D \in SUBSET L /\ R \in SUBSET L
  BY FS_Subset, FS_CardinalityType
<1>2. d \in Nat /\ d <= Cardinality(L) /\ (d = Cardinality(L) => D = L) /\ (D = {} => d = 0)
  BY <1>1, FS_Subset, FS_CardinalityType, FS_EmptySet
<1>3. ASSUME NEW q \in L
      PROVE  /\ RankIn(L, q) \in Nat /\ 1 <= RankIn(L, q) /\ RankIn(L, q) <= Cardinality(L)
  <2> DEFINE Q == {l \in L : l <= q}
  <2>1. Q \in SUBSET L /\ q \in Q
    OBVIOUS
  <2>2. RankIn(L, q) = Cardinality(Q)
    BY DEF RankIn
  <2> HIDE DEF Q
  <2>3. IsFiniteSet(Q) /\ Cardinality(Q) <= Cardinality(L) /\ Cardinality(Q) \in Nat
    BY <2>1, FS_Subset, FS_CardinalityType
  <2>4. Cardinality(Q) # 0
    BY <2>1, <2>3, FS_EmptySet
  <2>. QED
    BY <2>2, <2>3, <2>4
<1>4. ASSUME NEW q \in L, NEW r \in L, q <= r PROVE RankIn(L, q) <= RankIn(L, r)
  <2>1. ASSUME NEW l \in L, l <= q PROVE l <= r
    <3>1. l \in Int /\ q \in Int /\ r \in Int
      OBVIOUS
    <3>. QED
      BY <1>4, <2>1, <3>1
  <2> DEFINE Q == {l \in L : l <= q}
             T == {l \in L : l <= r}
  <2> HIDE DEF Q, T
  <2>2. Q \in SUBSET T /\ T \in SUBSET L
    BY <2>1 DEF Q, T
  <2>3. Cardinality(Q) <= Cardinality(T)
    BY <2>2, FS_Subset
  <2>. QED
    BY <2>3 DEF Q, T, RankIn
<1>5. d <= u
  <2>1. CASE D = {}
    BY <1>2, <2>1
  <2>2. CASE D # {}
    <3>1. PICK m \in D : \A y \in D : y <= m
      <4> HIDE DEF D
      <4>. QED
        BY <1>1, <2>2, ExtremesExist
    <3>2. m \in L /\ RankIn(L, m) <= u
      BY <3>1
    <3>3. D \in SUBSET {l \in L : l <= m} /\ {l \in L : l <= m} \in SUBSET L
      BY <1>1, <3>1
    <3> DEFINE Q == {l \in L : l <= m}
    <3> HIDE DEF Q
    <3>4. D \in SUBSET Q /\ Q \in SUBSET L
      BY <3>3 DEF Q
    <3>5. d <= Cardinality(Q)
      <4> HIDE DEF D
      <4>. QED
        BY <3>4, FS_Subset
    <3>6. Cardinality(Q) = RankIn(L, m)
      BY DEF Q, RankIn
    <3> HIDE DEF d
    <3>. QED
      BY <1>2, <1>3, <3>2, <3>5, <3>6
  <2>. QED
    BY <2>1, <2>2
<1>6. u <= d
  <2> SUFFICES ASSUME d < u PROVE FALSE
    BY <1>2
  <2>1. R # {}
    BY <1>1, <1>2
  <2>2. PICK r \in R : \A y \in R : r <= y
    <3> HIDE DEF R
    <3>. QED
      BY <1>1, <2>1, ExtremesExist
  <2>3. r \in L /\ ~ (RankIn(L, r) <= u) /\ r \notin D
    BY <2>2
  <2>4. ASSUME NEW l \in L, l <= r, l \notin D PROVE l = r
    <3>1. l \in R /\ l \in Int /\ r \in Int
      BY <2>3, <2>4
    <3>2. r <= l
      BY <2>2, <3>1
    <3>. QED
      BY <2>4, <3>1, <3>2
  <2> DEFINE Q == {l \in L : l <= r}
  <2> HIDE DEF Q, D
  <2>5. Q \in SUBSET (D \cup {r}) /\ IsFiniteSet(D \cup {r}) /\ Cardinality(D \cup {r}) = Cardinality(D) + 1
    BY <1>1, <2>3, <2>4, FS_AddElement DEF Q
  <2>6. Cardinality(Q) <= d + 1
    BY <2>5, FS_Subset DEF d
  <2>7. Cardinality(Q) = RankIn(L, r) /\ RankIn(L, r) \in Nat
    BY <1>3, <2>3 DEF Q, RankIn
  <2> HIDE DEF d
  <2>. QED
    BY <1>2, <2>3, <2>6, <2>7
<1>7. d = u
  <2> HIDE DEF d
  <2>. QED
    BY <1>2, <1>5, <1>6
<1>. QED
  BY <1>3, <1>4, <1>7

\* A sorted fan has values of the raw one; up to each value it has as many as the raw one,
\* and above it the highest levels.
LEMMA SortedFan ==
  ASSUME NEW raw \in [Levels -> 0..Scale], NEW v \in Int
  PROVE  LET fan == predict(raw)
             T == {q \in Levels : v < fan[q]}
             U == {q \in Levels : v < raw[q]}
         IN  /\ fan \in [Levels -> 0..Scale]
             /\ Cardinality(T) = Cardinality(U)
             /\ \A t \in T : \A l \in Levels : t <= l => l \in T
<1> DEFINE L == Levels
           fan == predict(raw)
           m == Cardinality(Levels)
           Is(q, w) == CountBelow(L, raw, w) < RankIn(L, q) /\ RankIn(L, q) <= CountUpTo(L, raw, w)
<1>1. /\ IsFiniteSet(L) /\ L \in SUBSET Int /\ m \in Nat
      /\ \A l \in L : raw[l] \in Int /\ 0 <= raw[l] /\ raw[l] <= Scale
  <2>1. L \in SUBSET (1..9)
    BY ScaleAssumption
  <2>2. IsFiniteSet(L) /\ m \in Nat
    BY <2>1, OneOrMany, FS_Subset, FS_CardinalityType
  <2>. QED
    BY <2>1, <2>2, ScaleAssumption
<1>2. fan = [q \in L |-> CHOOSE w \in {raw[l] : l \in L} : Is(q, w)]
  BY DEF predict, CountBelow, CountUpTo, RankIn
<1>3. \A q \in L : RankIn(L, q) \in Nat /\ 1 <= RankIn(L, q) /\ RankIn(L, q) <= m
  <2>1. 0 \in Nat /\ 0 <= m
    BY <1>1
  <2>. QED
    BY <1>1, <2>1, RanksCount
<1>4. ASSUME NEW w \in Int
      PROVE  /\ CountBelow(L, raw, w) \in Nat /\ CountUpTo(L, raw, w) \in Nat
             /\ CountUpTo(L, raw, w) <= m
             /\ CountUpTo(L, raw, w - 1) = CountBelow(L, raw, w)
             /\ \A x \in Int : w < x => CountUpTo(L, raw, w) <= CountBelow(L, raw, x)
             /\ \A x \in Int : w <= x => CountUpTo(L, raw, w) <= CountUpTo(L, raw, x)
             /\ (\A l \in L : raw[l] # w) => CountUpTo(L, raw, w) = CountBelow(L, raw, w)
  <2> DEFINE B(x) == {l \in L : raw[l] < x}
             C(x) == {l \in L : raw[l] <= x}
  <2>0. \A l \in L : raw[l] \in Int
    BY <1>1
  <2>1. /\ B(w) \in SUBSET L /\ C(w) \in SUBSET L
        /\ C(w - 1) = B(w)
        /\ \A x \in Int : w < x => C(w) \in SUBSET B(x)
        /\ \A x \in Int : w <= x => C(w) \in SUBSET C(x)
        /\ (\A l \in L : raw[l] # w) => C(w) = B(w)
        /\ \A x \in Int : B(x) \in SUBSET L /\ C(x) \in SUBSET L
    <3> HIDE DEF L
    <3>1. \A x : B(x) \in SUBSET L /\ C(x) \in SUBSET L
      OBVIOUS
    <3>2. ASSUME NEW l \in L
          PROVE  /\ l \in C(w - 1) <=> l \in B(w)
                 /\ raw[l] # w => (l \in C(w) <=> l \in B(w))
      <4> DEFINE z == raw[l]
      <4>1. z \in Int
        BY <2>0
      <4>2. \A x : (l \in B(x) <=> z < x) /\ (l \in C(x) <=> z <= x)
        OBVIOUS
      <4>3. raw[l] = z
        OBVIOUS
      <4> HIDE DEF z, B, C
      <4>. QED
        BY <4>1, <4>2, <4>3
    <3>3. ASSUME NEW x \in Int, NEW l \in L
          PROVE  /\ w < x => (l \in C(w) => l \in B(x))
                 /\ w <= x => (l \in C(w) => l \in C(x))
      <4> DEFINE z == raw[l]
      <4>1. z \in Int
        BY <2>0
      <4>2. (l \in B(x) <=> z < x) /\ (l \in C(x) <=> z <= x) /\ (l \in C(w) <=> z <= w)
        OBVIOUS
      <4> HIDE DEF z, B, C
      <4>. QED
        BY <4>1, <4>2
    <3> HIDE DEF B, C
    <3>4. C(w - 1) = B(w)
      <4>1. C(w - 1) \in SUBSET L /\ B(w) \in SUBSET L
        BY <3>1
      <4>. QED
        BY <3>2, <4>1
    <3>5. (\A l \in L : raw[l] # w) => C(w) = B(w)
      <4>1. C(w) \in SUBSET L /\ B(w) \in SUBSET L
        BY <3>1
      <4>. QED
        BY <3>2, <4>1
    <3>6. ASSUME NEW x \in Int
          PROVE  (w < x => C(w) \in SUBSET B(x)) /\ (w <= x => C(w) \in SUBSET C(x))
      <4>1. C(w) \in SUBSET L
        BY <3>1
      <4>2. w < x => \A l \in L : l \in C(w) => l \in B(x)
        BY <3>3
      <4>3. w <= x => \A l \in L : l \in C(w) => l \in C(x)
        BY <3>3
      <4> DEFINE Cw == C(w)
                 Bx == B(x)
                 Cx == C(x)
      <4> HIDE DEF Cw, Bx, Cx
      <4>4. w < x => Cw \subseteq Bx
        BY <4>1, <4>2 DEF Cw, Bx
      <4>5. w <= x => Cw \subseteq Cx
        BY <4>1, <4>3 DEF Cw, Cx
      <4>. QED
        BY <4>4, <4>5 DEF Cw, Bx, Cx
    <3>. QED
      BY <3>1, <3>4, <3>5, <3>6
  <2>2. \A x : CountBelow(L, raw, x) = Cardinality(B(x)) /\ CountUpTo(L, raw, x) = Cardinality(C(x))
    BY DEF CountBelow, CountUpTo
  <2> HIDE DEF B, C
  <2>3. \A T \in SUBSET L : IsFiniteSet(T) /\ Cardinality(T) \in Nat /\ Cardinality(T) <= m
    BY <1>1, FS_Subset, FS_CardinalityType
  <2>4. \A T \in SUBSET L : \A V \in SUBSET T : Cardinality(V) <= Cardinality(T)
    BY <2>3, FS_Subset
  <2>. QED
    BY <2>1, <2>2, <2>3, <2>4
<1>5. ASSUME NEW q \in L PROVE \E w \in {raw[l] : l \in L} : Is(q, w)
  <2> DEFINE Reached == {w \in Nat : RankIn(L, q) <= CountUpTo(L, raw, w)}
  <2>1. Scale \in Reached
    <3>1. {l \in L : raw[l] <= Scale} = L
      BY <1>1
    <3>2. CountUpTo(L, raw, Scale) = m
      BY <3>1 DEF CountUpTo
    <3>. QED
      BY <1>3, <3>2, ScaleAssumption
  <2>2. PICK w \in Reached : \A x \in Reached : w <= x
    <3>1. Reached \subseteq Nat /\ Reached # {}
      BY <2>1
    <3> HIDE DEF Reached
    <3>. QED
      BY <3>1, LeastExists
  <2>3. w \in Nat /\ RankIn(L, q) <= CountUpTo(L, raw, w)
    BY <2>2
  <2>4. CountBelow(L, raw, w) < RankIn(L, q)
    <3>1. CASE w = 0
      <4>1. \A l \in L : ~ (raw[l] < 0)
        <5>1. \A l \in L : raw[l] \in Int /\ 0 <= raw[l]
          BY <1>1
        <5> HIDE DEF L
        <5>. QED
          BY <5>1
      <4>2. CountBelow(L, raw, 0) = 0
        BY <4>1, FS_EmptySet DEF CountBelow
      <4>. QED
        BY <1>3, <3>1, <4>2
    <3>2. CASE w # 0
      <4>1. w - 1 \in Nat /\ w - 1 \notin Reached
        BY <2>2, <2>3, <3>2
      <4>2. ~ (RankIn(L, q) <= CountUpTo(L, raw, w - 1))
        BY <4>1
      <4>. QED
        BY <1>3, <1>4, <2>3, <4>2
    <3>. QED
      BY <3>1, <3>2
  <2>5. \E l \in L : raw[l] = w
    <3> SUFFICES ASSUME \A l \in L : raw[l] # w PROVE FALSE
      OBVIOUS
    <3>1. CountUpTo(L, raw, w) = CountBelow(L, raw, w)
      BY <1>4, <2>3
    <3>. QED
      BY <1>3, <1>4, <2>3, <2>4, <3>1
  <2>. QED
    BY <2>3, <2>4, <2>5
<1>6. ASSUME NEW q \in L PROVE fan[q] \in 0..Scale /\ Is(q, fan[q])
  <2> HIDE DEF Is
  <2>1. fan[q] \in {raw[l] : l \in L} /\ Is(q, fan[q])
    <3>1. fan[q] = CHOOSE w \in {raw[l] : l \in L} : Is(q, w)
      BY <1>2
    <3>. QED
      BY <1>5, <3>1
  <2>. QED
    BY <2>1
<1> DEFINE u == CountUpTo(L, raw, v)
           T == {q \in L : v < fan[q]}
           U == {q \in L : v < raw[q]}
           D == {q \in L : RankIn(L, q) <= u}
           E == {q \in L : raw[q] <= v}
<1>7. u \in Nat /\ u <= m
  BY <1>4
<1>8. ASSUME NEW q \in L PROVE v < fan[q] <=> ~ (RankIn(L, q) <= u)
  <2> DEFINE w == fan[q]
           k == RankIn(L, q)
           b == CountBelow(L, raw, w)
           c == CountUpTo(L, raw, w)
  <2>1. w \in Int /\ CountBelow(L, raw, w) < RankIn(L, q) /\ RankIn(L, q) <= CountUpTo(L, raw, w)
    BY <1>6, ScaleAssumption
  <2>2. /\ b \in Nat /\ c \in Nat /\ k \in Nat /\ b < k /\ k <= c
        /\ (v < w => u <= b) /\ (w <= v => c <= u)
    BY <1>3, <1>4, <2>1
  <2> HIDE DEF w, u, k, b, c
  <2>3. v < w <=> ~ (k <= u)
    BY <1>7, <2>1, <2>2
  <2>. QED
    BY <2>3 DEF w, k
<1>9. T = L \ D /\ U = L \ E /\ D \in SUBSET L /\ E \in SUBSET L
  <2>1. T = L \ D
    BY <1>8
  <2>2. ASSUME NEW q \in L PROVE v < raw[q] <=> ~ (raw[q] <= v)
    <3> DEFINE z == raw[q]
    <3>1. z \in Int
      BY <1>1
    <3> HIDE DEF z
    <3>2. v < z <=> ~ (z <= v)
      BY <3>1
    <3>. QED
      BY <3>2 DEF z
  <2>. QED
    BY <2>1, <2>2
<1>10. Cardinality(D) = u /\ \A q, r \in L : q <= r => RankIn(L, q) <= RankIn(L, r)
  <2> HIDE DEF L, u
  <2>. QED
    BY <1>1, <1>7, RanksCount DEF L
<1>11. Cardinality(E) = u
  BY DEF CountUpTo
<1>12. Cardinality(T) = Cardinality(U)
  <2> HIDE DEF T, U, D, E, L, u
  <2>1. /\ Cardinality(L \ D) = Cardinality(L) - Cardinality(L \cap D)
        /\ Cardinality(L \ E) = Cardinality(L) - Cardinality(L \cap E)
    BY <1>1, FS_Difference
  <2>2. L \cap D = D /\ L \cap E = E
    BY <1>9
  <2>. QED
    BY <1>9, <1>10, <1>11, <2>1, <2>2
<1>13. \A t \in T : \A l \in L : t <= l => l \in T
  <2> SUFFICES ASSUME NEW t \in T, NEW l \in L, t <= l PROVE l \in T
    OBVIOUS
  <2>1. t \in L /\ ~ (RankIn(L, t) <= u) /\ RankIn(L, t) <= RankIn(L, l)
    BY <1>8, <1>10
  <2>2. ~ (RankIn(L, l) <= u)
    BY <1>3, <1>7, <2>1
  <2>. QED
    BY <1>8, <2>2
<1>14. fan \in [L -> 0..Scale]
  <2>1. DOMAIN fan = L /\ fan = [q \in L |-> fan[q]]
    BY <1>2
  <2> HIDE DEF fan
  <2>. QED
    BY <1>6, <2>1
<1>. QED
  BY <1>12, <1>13, <1>14

UpToPrice(sample, v) == Cardinality({i \in clean(sample) : sample[i].y <= v})
Step(sample, q, v) == 10 * UpToPrice(sample, v) - q * Cardinality(clean(sample))

\* What one more unit of price adds to the loss of a level.
LEMMA LossStep ==
  ASSUME NEW sample \in Seq(PricedRow), NEW q \in Int, NEW c \in Int
  PROVE  /\ pinball_loss(Constantly(sample, c + 1), q)
              = pinball_loss(Constantly(sample, c), q) + Step(sample, q, c)
         /\ pinball_loss(Constantly(sample, c), q) \in Int
         /\ UpToPrice(sample, c) \in Nat /\ Step(sample, q, c) \in Int
<1> DEFINE S == clean(sample)
           n == Cardinality(S)
           y == SumFunctionOnSet(OutcomesOf(sample), S)
           d == c + 1
           C == AboveAll(sample, c)
           D == AboveAll(sample, d)
           upto == Cardinality({i \in S : sample[i].y <= c})
           below == Cardinality({i \in S : sample[i].y < d})
           u == pinball_loss(Constantly(sample, c), q)
           w == pinball_loss(Constantly(sample, d), q)
<1>1. u = q * (y - n * c) + 10 * C /\ y \in Int /\ n \in Nat /\ C \in Int
  BY LossIs
<1>2. w = q * (y - n * d) + 10 * D /\ D \in Int
  <2>1. d \in Int
    OBVIOUS
  <2> HIDE DEF d
  <2>. QED
    BY <2>1, LossIs
<1>3. /\ upto \in Nat /\ below \in Nat
      /\ C + (d - c) * upto <= D /\ D <= C + (d - c) * below
  <2>1. d \in Int /\ c <= d
    OBVIOUS
  <2> HIDE DEF d
  <2>. QED
    BY <2>1, AboveSlopes
<1>4. upto = below
  <2>1. ASSUME NEW i \in S PROVE sample[i].y <= c <=> sample[i].y < d
    <3> DEFINE x == sample[i].y
    <3>1. x \in Int
      BY PricedRows
    <3> HIDE DEF x
    <3>2. x <= c <=> x < d
      BY <3>1
    <3>. QED
      BY <3>2 DEF x
  <2>. QED
    BY <2>1
<1>5. Step(sample, q, c) = 10 * upto - q * n /\ UpToPrice(sample, c) = upto
  BY DEF Step, UpToPrice
<1> HIDE DEF S, n, y, C, D, upto, below, u, w
<1>6. d = c + 1 /\ (d - c) * upto = upto
  BY <1>3
<1>7. D = C + upto
  BY <1>1, <1>2, <1>3, <1>4, <1>6
<1>8. q * (y - n * d) = q * (y - n * c) - q * n
  BY <1>1
<1>9. q * (y - n * c) \in Int /\ q * n \in Int
  BY <1>1
<1>10. w = u + Step(sample, q, c) /\ u \in Int /\ Step(sample, q, c) \in Int
  BY <1>1, <1>2, <1>3, <1>5, <1>7, <1>8, <1>9
<1>. QED
  BY <1>3, <1>5, <1>10 DEF w, u

Climbs(N, g, h) == \A v \in 0..(N - 1) : h[v] \in Int /\ g[v + 1] = g[v] + h[v]
CutAt(N, c, h, w) == \A v \in 0..(N - 1) : w[v] = IF v < c THEN h[v] ELSE 0

\* A number is reached from the first one by the steps in between.
LEMMA StepsAddUp ==
  ASSUME NEW N \in Nat, NEW g, NEW h, g[0] \in Int,
         Climbs(N, g, h), NEW c \in 0..N, NEW w, CutAt(N, c, h, w)
  PROVE  g[c] = g[0] + SumFunctionOnSet(w, 0..(N - 1))
<1> DEFINE V == 0..(N - 1)
           Up(k) == 0..(k - 1)
           Bad == {k \in 0..N : ~ (g[k] = g[0] + SumFunctionOnSet(h, Up(k)) /\ g[k] \in Int)}
<1>1. IsFiniteSet(V) /\ \A v \in V : h[v] \in Int
  <2>1. \A v \in V : h[v] \in Int
    BY DEF Climbs
  <2>2. IsFiniteSet(V)
    BY FS_Interval
  <2>. QED
    BY <2>1, <2>2
<1>2. Bad = {}
  <2> SUFFICES ASSUME Bad # {} PROVE FALSE
    OBVIOUS
  <2>1. PICK k \in Bad : \A l \in Bad : k <= l
    <3>1. Bad \subseteq Nat
      OBVIOUS
    <3> HIDE DEF Bad
    <3>. QED
      BY <3>1, LeastExists
  <2>2. k \in 0..N
    BY <2>1
  <2>3. k # 0
    <3>1. Up(0) = {}
      OBVIOUS
    <3>2. g[0] = g[0] + SumFunctionOnSet(h, {})
      BY SumEmpty
    <3>. QED
      BY <2>1, <3>1, <3>2
  <2> DEFINE l == k - 1
  <2>4. l \in 0..N /\ l \in V /\ l \notin Up(l) /\ Up(l) \in SUBSET V /\ Up(k) = Up(l) \cup {l}
        /\ l + 1 = k
    BY <2>2, <2>3
  <2>5. l \notin Bad
    BY <2>1, <2>2, <2>3
  <2>6. g[l] = g[0] + SumFunctionOnSet(h, Up(l)) /\ g[l] \in Int
    BY <2>4, <2>5
  <2>7. g[k] = g[l] + h[l] /\ h[l] \in Int
    BY <2>4 DEF Climbs
  <2> HIDE DEF l, V, Up
  <2>8. /\ SumFunctionOnSet(h, Up(l) \cup {l}) = h[l] + SumFunctionOnSet(h, Up(l))
        /\ SumFunctionOnSet(h, Up(l)) \in Int
    <3>1. l \in V \ Up(l) /\ Up(l) \in SUBSET V
      BY <2>4
    <3>. QED
      BY <1>1, <3>1, SumGrows
  <2>9. g[k] = g[0] + SumFunctionOnSet(h, Up(k)) /\ g[k] \in Int
    BY <2>4, <2>6, <2>7, <2>8
  <2>. QED
    BY <2>1, <2>9
<1>3. g[c] = g[0] + SumFunctionOnSet(h, Up(c))
  BY <1>2
<1>4. /\ Up(c) \in SUBSET V
      /\ \A v \in Up(c) : h[v] \in Int /\ w[v] = h[v]
      /\ \A v \in V \ Up(c) : w[v] = 0
      /\ \A v \in V : w[v] \in Int
  BY <1>1 DEF CutAt
<1> HIDE DEF V, Up
<1>5. SumFunctionOnSet(w, V) = SumFunctionOnSet(w, Up(c))
  BY <1>1, <1>4, SumOfSupport
<1>6. SumFunctionOnSet(w, Up(c)) = SumFunctionOnSet(h, Up(c))
  <2>1. IsFiniteSet(Up(c))
    BY <1>1, <1>4, FS_Subset
  <2>. QED
    BY <1>4, <2>1, SumSame
<1>. QED
  BY <1>3, <1>5, <1>6 DEF V

Prices == 0..(Scale - 1)
LevelsOver(fan, v) == {q \in Levels : v < fan[q]}
LevelSum(fan, v) == SumFunctionOnSet([q \in Levels |-> q], LevelsOver(fan, v))
FanStep(sample, fan, v) ==
  10 * (UpToPrice(sample, v) * Cardinality(LevelsOver(fan, v)))
    - Cardinality(clean(sample)) * LevelSum(fan, v)
LossAtZero(sample) == [q \in Levels |-> pinball_loss(Constantly(sample, 0), q)]

LEMMA LevelsTyped ==
  /\ IsFiniteSet(Levels) /\ \A q \in Levels : q \in Int
  /\ IsFiniteSet(Prices) /\ (\A v \in Prices : v \in Int) /\ Scale \in Nat
<1>1. Levels \in SUBSET (1..9) /\ Scale \in Nat
  BY ScaleAssumption
<1>2. IsFiniteSet(Levels)
  <2>1. IsFiniteSet(1..9)
    BY OneOrMany
  <2>. QED
    BY <1>1, <2>1, FS_Subset
<1>3. IsFiniteSet(Prices)
  <2>1. 0 \in Int /\ Scale - 1 \in Int
    BY <1>1
  <2>. QED
    BY <2>1, FS_Interval DEF Prices
<1>4. \A v \in Prices : v \in Int
  BY DEF Prices
<1>. QED
  BY <1>1, <1>2, <1>3, <1>4

\* What the levels whose price is above v have to do with the step at v.
LEMMA FanStepIs ==
  ASSUME NEW sample \in Seq(PricedRow), NEW fan, NEW v \in Int, NEW w,
         \A q \in Levels : w[q] = IF q \in LevelsOver(fan, v) THEN Step(sample, q, v) ELSE 0
  PROVE  /\ SumFunctionOnSet(w, Levels) = FanStep(sample, fan, v)
         /\ LevelSum(fan, v) \in Int /\ FanStep(sample, fan, v) \in Int
<1> DEFINE T == LevelsOver(fan, v)
           n == Cardinality(clean(sample))
           a == 10 * UpToPrice(sample, v)
           same == [q \in Levels |-> a]
           id == [q \in Levels |-> q]
<1>1. T \in SUBSET Levels /\ IsFiniteSet(T) /\ Cardinality(T) \in Nat
  <2>1. T \in SUBSET Levels
    BY DEF LevelsOver
  <2>. QED
    BY <2>1, LevelsTyped, FS_Subset, FS_CardinalityType
<1>2. n \in Nat /\ UpToPrice(sample, v) \in Nat /\ a \in Int
  <2>1. n \in Nat
    BY PricedRows
  <2>2. UpToPrice(sample, v) \in Nat
    <3>1. 0 \in Int
      OBVIOUS
    <3>. QED
      BY <3>1, LossStep
  <2>. QED
    BY <2>1, <2>2
<1>3. ASSUME NEW q \in Levels
      PROVE  /\ Step(sample, q, v) = same[q] + (-n) * id[q] /\ Step(sample, q, v) \in Int
             /\ same[q] = a /\ same[q] \in Int /\ id[q] \in Int
  <2>1. q \in Int
    BY LevelsTyped
  <2>2. Step(sample, q, v) = a - q * n /\ Step(sample, q, v) \in Int
    BY <2>1, LossStep DEF Step
  <2>3. same[q] = a /\ id[q] = q
    OBVIOUS
  <2> HIDE DEF a, n, same, id
  <2>4. (-n) * q = -(q * n) /\ q * n \in Int
    BY <1>2, <2>1
  <2>. QED
    BY <1>2, <2>1, <2>2, <2>3, <2>4
<1> HIDE DEF T, same, id, n, a
<1>4. SumFunctionOnSet(w, Levels) = SumFunctionOnSet(w, T)
  <2>1. /\ \A q \in Levels : w[q] \in Int
        /\ \A q \in Levels \ T : w[q] = 0
    BY <1>3 DEF T
  <2>. QED
    BY <1>1, <2>1, LevelsTyped, SumOfSupport
<1>5. SumFunctionOnSet(w, T) = SumFunctionOnSet(same, T) + (-n) * SumFunctionOnSet(id, T)
  <2>1. Combined(T, same, id, w, -n)
    BY <1>1, <1>3 DEF Combined, T
  <2>2. -n \in Int /\ (\A q \in T : same[q] \in Int) /\ \A q \in T : id[q] \in Int
    BY <1>1, <1>2, <1>3
  <2>. QED
    BY <1>1, <2>1, <2>2, SumCombines
<1>6. SumFunctionOnSet(same, T) = a * Cardinality(T)
  <2>1. \A q \in T : same[q] = a
    BY <1>1, <1>3
  <2>. QED
    BY <1>1, <1>2, <2>1, SumOfConstant
<1>7. SumFunctionOnSet(id, T) \in Int /\ LevelSum(fan, v) = SumFunctionOnSet(id, T)
  <2>1. \A q \in T : id[q] \in Int
    BY <1>1, <1>3
  <2>. QED
    BY <1>1, <2>1, SumTyped DEF LevelSum, id, T
<1> DEFINE u == UpToPrice(sample, v)
           k == Cardinality(T)
           s == SumFunctionOnSet(id, T)
<1>8. FanStep(sample, fan, v) = 10 * (u * k) - n * s
  BY <1>7 DEF FanStep, n, T
<1>9. a = 10 * u /\ u \in Nat /\ k \in Nat /\ s \in Int
  BY <1>1, <1>2, <1>7 DEF a
<1> HIDE DEF u, k, s
<1>10. a * k + (-n) * s = 10 * (u * k) - n * s /\ 10 * (u * k) - n * s \in Int
  <2>1. (10 * u) * k = 10 * (u * k) /\ u * k \in Int /\ n * s \in Int /\ (-n) * s = -(n * s)
    BY <1>2, <1>9, ProductTyped
  <2>. QED
    BY <1>9, <2>1
<1>. QED
  BY <1>4, <1>5, <1>6, <1>7, <1>8, <1>10 DEF k, s

\* The loss of a fan, price by price.
LEMMA FanIs ==
  ASSUME NEW sample \in Seq(PricedRow), NEW fan \in [Levels -> 0..Scale], NEW steps,
         \A v \in Prices : steps[v] = FanStep(sample, fan, v)
  PROVE  /\ mean_pinball(sample, fan)
              = SumFunctionOnSet(LossAtZero(sample), Levels) + SumFunctionOnSet(steps, Prices)
         /\ SumFunctionOnSet(LossAtZero(sample), Levels) \in Int
<1> DEFINE f == [r \in Levels \X Prices |-> IF r[2] < fan[r[1]] THEN Step(sample, r[1], r[2]) ELSE 0]
           g == [r \in Prices \X Levels |-> f[<<r[2], r[1]>>]]
           base == LossAtZero(sample)
           row == [q \in Levels |-> SumFunctionOnSet([v \in Prices |-> f[<<q, v>>]], Prices)]
           loss == [q \in Levels |-> pinball_loss(Constantly(sample, fan[q]), q)]
<1>1. ASSUME NEW q \in Levels, NEW v \in Prices PROVE Step(sample, q, v) \in Int
  BY LevelsTyped, LossStep
<1>2. \A r \in Levels \X Prices : f[r] \in Int
  <2> SUFFICES ASSUME NEW r \in Levels \X Prices PROVE f[r] \in Int
    OBVIOUS
  <2>1. Step(sample, r[1], r[2]) \in Int
    BY <1>1
  <2>. QED
    BY <2>1
<1>3. mean_pinball(sample, fan) = SumFunctionOnSet(loss, Levels)
  BY DEF mean_pinball, SumOver
<1>4. ASSUME NEW q \in Levels
      PROVE  loss[q] = base[q] + 1 * row[q] /\ base[q] \in Int /\ row[q] \in Int
  <2> DEFINE t == [c \in 0..Scale |-> pinball_loss(Constantly(sample, c), q)]
             h == [v \in Prices |-> Step(sample, q, v)]
             w == [v \in Prices |-> f[<<q, v>>]]
             c == fan[q]
  <2>1. c \in 0..Scale /\ Scale \in Nat /\ q \in Int
    BY LevelsTyped
  <2>2. ASSUME NEW v \in Prices
        PROVE  h[v] \in Int /\ t[v + 1] = t[v] + h[v] /\ w[v] = IF v < c THEN h[v] ELSE 0
    <3>1. v \in 0..Scale /\ v + 1 \in 0..Scale /\ v \in Int
      BY <2>1 DEF Prices
    <3>2. pinball_loss(Constantly(sample, v + 1), q) = pinball_loss(Constantly(sample, v), q) + h[v]
      BY <2>1, <3>1, LossStep
    <3>3. h[v] \in Int
      BY <1>1
    <3>4. w[v] = IF v < c THEN h[v] ELSE 0
      OBVIOUS
    <3>. QED
      BY <3>1, <3>2, <3>3, <3>4
  <2>3. t[0] \in Int
    <3>1. 0 \in Int /\ 0 \in 0..Scale
      BY <2>1
    <3>2. pinball_loss(Constantly(sample, 0), q) \in Int
      BY <2>1, <3>1, LossStep
    <3>. QED
      BY <3>1, <3>2
  <2>4. t[c] = loss[q] /\ t[0] = base[q] /\ row[q] = SumFunctionOnSet(w, Prices)
    BY <2>1 DEF LossAtZero
  <2>5. \A v \in Prices : w[v] \in Int
    <3> SUFFICES ASSUME NEW v \in Prices PROVE w[v] \in Int
      OBVIOUS
    <3>1. h[v] \in Int /\ w[v] = IF v < c THEN h[v] ELSE 0
      BY <2>2
    <3> HIDE DEF w, h, c
    <3>. QED
      BY <3>1
  <2> HIDE DEF t, h, w, c, f, base, row, loss
  <2>6. t[c] = t[0] + SumFunctionOnSet(w, Prices)
    <3>1. Climbs(Scale, t, h)
      BY <2>2 DEF Prices, Climbs
    <3>2. CutAt(Scale, c, h, w)
      BY <2>2 DEF Prices, CutAt
    <3>3. t[c] = t[0] + SumFunctionOnSet(w, 0..(Scale - 1))
      BY <2>1, <2>3, <3>1, <3>2, StepsAddUp
    <3>. QED
      BY <3>3 DEF Prices
  <2>7. SumFunctionOnSet(w, Prices) \in Int
    BY <2>5, LevelsTyped, SumTyped
  <2>. QED
    BY <2>3, <2>4, <2>6, <2>7
<1>5. ASSUME NEW v \in Prices
      PROVE  steps[v] = SumFunctionOnSet([q \in Levels |-> g[<<v, q>>]], Levels)
  <2> DEFINE w == [q \in Levels |-> g[<<v, q>>]]
  <2>1. \A q \in Levels : w[q] = IF q \in LevelsOver(fan, v) THEN Step(sample, q, v) ELSE 0
    BY DEF LevelsOver
  <2>2. v \in Int
    BY LevelsTyped
  <2> HIDE DEF w
  <2>3. SumFunctionOnSet(w, Levels) = FanStep(sample, fan, v)
    BY <2>1, <2>2, FanStepIs
  <2>. QED
    BY <2>3 DEF w
<1>6. SumFunctionOnSet(row, Levels) = SumFunctionOnSet(steps, Prices)
  <2>1. RowSums(Levels, Prices, f, row)
    BY DEF RowSums
  <2>2. RowSums(Prices, Levels, g, steps)
    BY <1>5 DEF RowSums
  <2>3. Swapped(Levels, Prices, f, g)
    BY DEF Swapped
  <2>4. IsFiniteSet(Levels) /\ IsFiniteSet(Prices)
    BY LevelsTyped
  <2> HIDE DEF f, g, row
  <2>5. IntValued(Levels \X Prices, f)
    BY <1>2 DEF IntValued
  <2>. QED
    BY <2>5, <2>1, <2>2, <2>3, <2>4, SumSwaps
<1> HIDE DEF loss, base, row, f
<1>7. SumFunctionOnSet(loss, Levels)
        = SumFunctionOnSet(base, Levels) + 1 * SumFunctionOnSet(row, Levels)
  <2>1. Combined(Levels, base, row, loss, 1) /\ 1 \in Int
    BY <1>4 DEF Combined
  <2>. QED
    BY <1>4, <2>1, LevelsTyped, SumCombines
<1>8. SumFunctionOnSet(base, Levels) \in Int /\ SumFunctionOnSet(row, Levels) \in Int
  BY <1>4, LevelsTyped, SumTyped
<1>. QED
  BY <1>3, <1>6, <1>7, <1>8 DEF base

\* A fan is never worse for having been sorted.
LEMMA SortedIsNoWorse ==
  ASSUME NEW sample \in Seq(PricedRow), NEW raw \in [Levels -> 0..Scale]
  PROVE  mean_pinball(sample, predict(raw)) <= mean_pinball(sample, raw)
<1> DEFINE fan == predict(raw)
           after == [v \in Prices |-> FanStep(sample, fan, v)]
           before == [v \in Prices |-> FanStep(sample, raw, v)]
           n == Cardinality(clean(sample))
<1>1. fan \in [Levels -> 0..Scale]
  <2>1. 0 \in Int
    OBVIOUS
  <2>. QED
    BY <2>1, SortedFan
<1>2. ASSUME NEW v \in Prices
      PROVE  after[v] \in Int /\ before[v] \in Int /\ after[v] <= before[v]
  <2> DEFINE T == LevelsOver(fan, v)
             U == LevelsOver(raw, v)
             id == [q \in Levels |-> q]
             u == UpToPrice(sample, v)
  <2>1. v \in Int
    BY LevelsTyped
  <2>2. Cardinality(T) = Cardinality(U) /\ \A t \in T : \A l \in Levels : t <= l => l \in T
    BY <2>1, SortedFan DEF LevelsOver
  <2>3. T \in SUBSET Levels /\ U \in SUBSET Levels /\ Levels \in SUBSET Int
        /\ \A q \in Levels : id[q] = q
    BY LevelsTyped DEF LevelsOver
  <2>4. LevelSum(raw, v) <= LevelSum(fan, v)
    <3>1. LevelSum(raw, v) = SumFunctionOnSet(id, U) /\ LevelSum(fan, v) = SumFunctionOnSet(id, T)
      BY DEF LevelSum
    <3> HIDE DEF T, U, id, fan
    <3>2. SumFunctionOnSet(id, U) <= SumFunctionOnSet(id, T)
      BY <2>2, <2>3, LevelsTyped, TopHeavy
    <3>. QED
      BY <3>1, <3>2
  <2>5. ASSUME NEW any PROVE LevelSum(any, v) \in Int /\ FanStep(sample, any, v) \in Int
    <3> DEFINE w == [q \in Levels |-> IF q \in LevelsOver(any, v) THEN Step(sample, q, v) ELSE 0]
    <3>1. \A q \in Levels : w[q] = IF q \in LevelsOver(any, v) THEN Step(sample, q, v) ELSE 0
      OBVIOUS
    <3> HIDE DEF w
    <3>. QED
      BY <2>1, <3>1, FanStepIs
  <2>6. n \in Nat
    BY PricedRows
  <2> DEFINE a == LevelSum(raw, v)
             b == LevelSum(fan, v)
             x == 10 * (u * Cardinality(T))
  <2>7. /\ after[v] = x - n * b /\ before[v] = x - n * a
        /\ after[v] \in Int /\ before[v] \in Int
    BY <2>2, <2>5 DEF FanStep
  <2>8. u \in Nat /\ Cardinality(T) \in Nat
    <3>1. IsFiniteSet(T)
      BY <2>3, LevelsTyped, FS_Subset
    <3>. QED
      BY <2>1, <3>1, LossStep, FS_CardinalityType
  <2>9. a \in Int /\ b \in Int /\ a <= b
    BY <2>4, <2>5
  <2>10. x \in Int
    BY <2>8
  <2> HIDE DEF a, b, x, n, after, before
  <2>11. n * a <= n * b /\ n * a \in Int /\ n * b \in Int
    BY <2>6, <2>9, ProductMonotone, ProductTyped
  <2>. QED
    BY <2>7, <2>10, <2>11
<1>3. /\ \A v \in Prices : after[v] = FanStep(sample, fan, v)
      /\ \A v \in Prices : before[v] = FanStep(sample, raw, v)
  OBVIOUS
<1> HIDE DEF fan, after, before
<1>4. SumFunctionOnSet(after, Prices) <= SumFunctionOnSet(before, Prices)
      /\ SumFunctionOnSet(after, Prices) \in Int /\ SumFunctionOnSet(before, Prices) \in Int
  BY <1>2, LevelsTyped, SumMonotone, SumTyped
<1>5. /\ mean_pinball(sample, fan)
           = SumFunctionOnSet(LossAtZero(sample), Levels) + SumFunctionOnSet(after, Prices)
      /\ SumFunctionOnSet(LossAtZero(sample), Levels) \in Int
  BY <1>1, <1>3, FanIs
<1>6. mean_pinball(sample, raw)
        = SumFunctionOnSet(LossAtZero(sample), Levels) + SumFunctionOnSet(before, Prices)
  BY <1>3, FanIs
<1>. QED
  BY <1>4, <1>5, <1>6 DEF fan

\* The pinball loss of a level is least at the quantiles of that level, an interval between
\* the outermost ones is covered at least as often as their levels say, and a fan is never
\* worse for having been sorted, for samples of any length, any levels and any prices
\* (metrics.py:106-127, spread.py:70).
THEOREM QuantilesScore == Spec => []QuantilesScoreBest
<1>1. InputTyped => QuantilesScoreBest
  <2> SUFFICES ASSUME InputTyped, input.kind = "spread" PROVE QuantilesScoreBest
    BY DEF QuantilesScoreBest
  <2> DEFINE sample == input.sample
  <2>1. sample \in Seq(PricedRow)
    BY KindsApart
  <2> HIDE DEF sample
  <2>2. (\A q \in Levels : q \in Int) /\ \A c \in 0..Scale : c \in Int
    BY LevelsTyped
  <2>3. Max(Levels) \in Int /\ Min(Levels) \in Int
    <3>1. IsFiniteSet(Levels) /\ Levels # {} /\ Levels \subseteq Int
      BY LevelsTyped, ScaleAssumption
    <3>2. PICK x \in Levels : \A y \in Levels : x <= y
      BY <3>1, ExtremesExist
    <3>. QED
      BY <3>1, <3>2, MaxIsThere, MinIs
  <2>4. \A q \in Levels : \A c, d \in 0..Scale :
          IsQuantile(sample, c, q) =>
            pinball_loss(Constantly(sample, c), q) <= pinball_loss(Constantly(sample, d), q)
    BY <2>1, <2>2, QuantileIsBest
  <2>5. \A lower, upper \in 0..Scale :
          IsQuantile(sample, lower, Min(Levels)) /\ IsQuantile(sample, upper, Max(Levels)) =>
            10 * picp(sample, lower, upper)
              >= (Max(Levels) - Min(Levels)) * Cardinality(clean(sample))
    <3> DEFINE a == Min(Levels)
               b == Max(Levels)
    <3> HIDE DEF a, b
    <3>1. a \in Int /\ b \in Int
      BY <2>3 DEF a, b
    <3>2. \A lower, upper \in 0..Scale :
            IsQuantile(sample, lower, a) /\ IsQuantile(sample, upper, b) =>
              10 * picp(sample, lower, upper) >= (b - a) * Cardinality(clean(sample))
      BY <2>1, <2>2, <3>1, IntervalIsCovered
    <3>. QED
      BY <3>2 DEF a, b
  <2>6. \A raw \in [Levels -> 0..Scale] :
          mean_pinball(sample, predict(raw)) <= mean_pinball(sample, raw)
    BY <2>1, SortedIsNoWorse
  <2>. QED
    BY <2>4, <2>5, <2>6 DEF QuantilesScoreBest, sample
<1>. QED
  BY <1>1, InputsTyped, PTL

---------------------------------------------------------------------------
(* Easter *)

\* Every day is in a year, and YearOf finds it.
LEMMA YearOfADay ==
  ASSUME NEW day \in Nat
  PROVE  YearOf(day) \in Nat
<1> DEFINE Later == {y \in Nat : day < NewYear(y + 1)}
           Is(y) == NewYear(y) <= day /\ day < NewYear(y + 1)
           Near == (day \div 366) .. (day \div 365 + 1)
<1>1. \A y \in Nat : NewYear(y + 1) = 365 * y + y \div 4 - y \div 100 + y \div 400 + 1
  BY DEF NewYear
<1>2. ASSUME NEW y \in Nat
      PROVE  /\ 0 <= y \div 4 - y \div 100 + y \div 400 /\ y \div 4 - y \div 100 + y \div 400 <= y
             /\ y \div 4 \in Int /\ y \div 100 \in Int /\ y \div 400 \in Int
  OBVIOUS
<1>3. \A y \in Nat : /\ NewYear(y + 1) \in Int
                     /\ 365 * y + 1 <= NewYear(y + 1) /\ NewYear(y + 1) <= 366 * y + 1
  BY <1>1, <1>2
<1>4. day \in Later
  BY <1>3
<1>5. PICK y \in Later : \A z \in Later : y <= z
  <2>1. Later \subseteq Nat /\ Later # {}
    BY <1>4
  <2> HIDE DEF Later
  <2>. QED
    BY <2>1, LeastExists
<1>6. y \in Nat /\ day < NewYear(y + 1)
  BY <1>5
<1>7. NewYear(y) <= day
  <2>1. CASE y = 0
    <3>1. NewYear(0) = -365
      <4>1. /\ y \div 4 - (y - 1) \div 4 = IF y % 4 = 0 THEN 1 ELSE 0
            /\ y \div 100 - (y - 1) \div 100 = IF y % 100 = 0 THEN 1 ELSE 0
            /\ y \div 400 - (y - 1) \div 400 = IF y % 400 = 0 THEN 1 ELSE 0
        BY <1>6
      <4>2. y \div 4 = 0 /\ y % 4 = 0 /\ y \div 100 = 0 /\ y % 100 = 0 /\ y \div 400 = 0 /\ y % 400 = 0
        BY <2>1
      <4>3. (y - 1) \div 4 \in Int /\ (y - 1) \div 100 \in Int /\ (y - 1) \div 400 \in Int
        BY <1>6
      <4>4. NewYear(y) = 365 * (y - 1) + (y - 1) \div 4 - (y - 1) \div 100 + (y - 1) \div 400 + 1
        BY DEF NewYear
      <4>. QED
        BY <2>1, <4>1, <4>2, <4>3, <4>4
    <3>. QED
      BY <2>1, <3>1
  <2>2. CASE y # 0
    <3>1. y - 1 \in Nat /\ y - 1 \notin Later /\ (y - 1) + 1 = y
      BY <1>5, <1>6, <2>2
    <3>2. ~ (day < NewYear(y)) /\ NewYear(y) \in Int
      BY <1>3, <3>1
    <3>. QED
      BY <3>2
  <2>. QED
    BY <2>1, <2>2
<1>8. y \in Near
  <2>1. day <= 366 * y
    BY <1>3, <1>6
  <2>2. CASE y = 0
    BY <2>1, <2>2
  <2>3. CASE y # 0
    <3>1. y - 1 \in Nat /\ (y - 1) + 1 = y
      BY <1>6, <2>3
    <3>2. 365 * (y - 1) + 1 <= NewYear(y) /\ NewYear(y) \in Int
      BY <1>3, <3>1
    <3>3. 365 * (y - 1) + 1 <= day
      BY <1>6, <1>7, <3>2
    <3>. QED
      BY <1>6, <2>1, <3>3
  <2>. QED
    BY <2>2, <2>3
<1>9. YearOf(day) = CHOOSE z \in Near : Is(z)
  BY DEF YearOf
<1>10. YearOf(day) \in Near
  <2>1. Is(y)
    BY <1>6, <1>7
  <2> HIDE DEF Near, Is
  <2>. QED
    BY <1>8, <1>9, <2>1
<1>11. day \div 366 \in Nat /\ day \div 365 + 1 \in Nat
  OBVIOUS
<1>. QED
  BY <1>10, <1>11

\* The first of March, from the century, the year in it and the leap years before.
LEMMA FirstOfMarch ==
  ASSUME NEW y \in Nat
  PROVE  LET b == y \div 100
             c == y % 100
         IN  /\ b \in Nat /\ c \in 0..99
             /\ Date(y, 3, 1) = 365 * (100 * b + c) + 25 * b + c \div 4 - b + b \div 4 - 305
<1> DEFINE b == y \div 100
           c == y % 100
           leap == IF IsLeap(y) THEN 1 ELSE 0
<1>1. b \in Nat /\ c \in 0..99 /\ y = 100 * b + c
  OBVIOUS
<1>2. Date(y, 3, 1) = NewYear(y) + 59 + leap
  BY DEF Date, DaysBefore, NewYear
<1>3. leap = (y \div 4 - (y - 1) \div 4) - (y \div 100 - (y - 1) \div 100)
               + (y \div 400 - (y - 1) \div 400)
  <2>1. /\ y \div 4 - (y - 1) \div 4 = IF y % 4 = 0 THEN 1 ELSE 0
        /\ y \div 100 - (y - 1) \div 100 = IF y % 100 = 0 THEN 1 ELSE 0
        /\ y \div 400 - (y - 1) \div 400 = IF y % 400 = 0 THEN 1 ELSE 0
    OBVIOUS
  <2>2. (y % 100 = 0 => y % 4 = 0) /\ (y % 400 = 0 => y % 100 = 0)
    OBVIOUS
  <2>. QED
    BY <2>1, <2>2 DEF IsLeap
<1>4. y \div 4 = 25 * b + c \div 4 /\ y \div 400 = b \div 4
  OBVIOUS
<1>5. /\ (y - 1) \div 4 \in Int /\ (y - 1) \div 100 \in Int /\ (y - 1) \div 400 \in Int
      /\ c \div 4 \in Int /\ b \div 4 \in Int
  OBVIOUS
<1> HIDE DEF leap
<1>6. Date(y, 3, 1) = 365 * (y - 1) + 1 + 59 + (25 * b + c \div 4) - b + b \div 4
  BY <1>2, <1>3, <1>4, <1>5 DEF NewYear
<1>. QED
  BY <1>1, <1>5, <1>6

\* The age of the moon in the algorithm and the epact of the rule make up 23 or 53.
LEMMA MoonAndEpact ==
  ASSUME NEW a \in Int, NEW s \in Int
  PROVE  LET h == (19 * a + s + 15) % 30
             e == (11 * a + 38 - s) % 30
         IN  h \in 0..29 /\ e \in 0..29 /\ h = IF e <= 23 THEN 23 - e ELSE 53 - e
<1> DEFINE x == 19 * a + s + 15
           z == 11 * a + 38 - s
           p == x \div 30
           q == z \div 30
           h == x % 30
           e == z % 30
<1>1. x \in Int /\ z \in Int /\ x + z = 30 * a + 53
  OBVIOUS
<1> HIDE DEF x, z
<1>2. /\ p \in Int /\ h \in 0..29 /\ x = 30 * p + h
      /\ q \in Int /\ e \in 0..29 /\ z = 30 * q + e
  BY <1>1
<1> HIDE DEF p, q, h, e
<1>3. h + e = 53 + 30 * (a - p - q)
  BY <1>1, <1>2
<1>4. h = IF e <= 23 THEN 23 - e ELSE 53 - e
  BY <1>2, <1>3
<1>. QED
  BY <1>2, <1>4 DEF h, e, x, z

\* The first of March, and by how much Easter is later than the day after the full moon h,
\* uncorrected.
March(b, c) == 365 * (100 * b + c) + 25 * b + c \div 4 - b + b \div 4 - 305
DaysAfter(b, c, h) == (32 + 2 * (b % 4) + 2 * (c \div 4) - h - (c % 4)) % 7

\* From the full moon those days lead to the end of a week.
LEMMA WeeksAreWhole ==
  ASSUME NEW b \in Nat, NEW c \in 0..99, NEW h \in Int
  PROVE  /\ March(b, c) \in Int /\ DaysAfter(b, c, h) \in 0..6
         /\ \E k \in Int : March(b, c) + h + DaysAfter(b, c, h) = 7 * k
<1> DEFINE B == b \div 4
           r == b % 4
           C == c \div 4
           s == c % 4
           x == 32 + 2 * r + 2 * C - h - s
           k == x \div 7
           l == x % 7
<1>1. /\ B \in Int /\ r \in Int /\ b = 4 * B + r
      /\ C \in Int /\ s \in Int /\ c = 4 * C + s
  OBVIOUS
<1>2. x \in Int
  BY <1>1
<1>3. k \in Int /\ l \in 0..6 /\ x = 7 * k + l
  <2> HIDE DEF x
  <2>. QED
    BY <1>2
<1>4. DaysAfter(b, c, h) = l
  BY DEF DaysAfter
<1>5. March(b, c) = 365 * (100 * b + c) + 25 * b + C - b + B - 305
  BY DEF March
<1>6. h + l = 32 + 2 * r + 2 * C - s - 7 * k
  BY <1>1, <1>3
<1> HIDE DEF B, r, C, s, k, l
<1> DEFINE j == 20871 * B + 5218 * r + 209 * C + 52 * s - 39 - k
<1>7. j \in Int /\ March(b, c) + h + l = 7 * j /\ March(b, c) \in Int
  BY <1>1, <1>3, <1>5, <1>6
<1>. QED
  BY <1>3, <1>4, <1>7

\* The corrections of a century: leap days left out, and the moon's.
LEMMA CenturyCorrections ==
  ASSUME NEW b \in Nat
  PROVE  /\ (3 * (b + 1)) \div 4 - 12 = b - b \div 4 - 12
         /\ (8 * (b + 1) + 5) \div 25 - 5 = (b - (b + 8) \div 25 + 1) \div 3 - 5
<1>1. (3 * (b + 1)) \div 4 = b - b \div 4
  <2> DEFINE B == b \div 4
             r == b % 4
  <2>1. B \in Int /\ r \in 0..3 /\ b = 4 * B + r
    OBVIOUS
  <2> HIDE DEF B, r
  <2>2. (3 * (b + 1)) = 4 * (b - B) + (3 - r) /\ 3 - r \in 0..3 /\ b - B \in Int
    BY <2>1
  <2>3. (3 * (b + 1)) \div 4 = b - B
    BY <2>2
  <2>. QED
    BY <2>3 DEF B
<1>2. (8 * (b + 1) + 5) \div 25 = (b - (b + 8) \div 25 + 1) \div 3
  <2> DEFINE B == (b + 8) \div 25
             r == (b + 8) % 25
             q == r \div 3
             d == r % 3
  <2>1. B \in Int /\ r \in 0..24 /\ b + 8 = 25 * B + r
    OBVIOUS
  <2>2. q \in 0..8 /\ d \in 0..2 /\ r = 3 * q + d
    <3> HIDE DEF r
    <3>. QED
      BY <2>1
  <2> HIDE DEF B, r, q, d
  <2>3. b - B + 1 = 3 * (8 * B + q - 3) + (d + 2)
    BY <2>1, <2>2
  <2>4. 8 * (b + 1) + 5 = 25 * (8 * B + q - 3) + (8 * d + 24 - q)
    BY <2>1, <2>2
  <2>5. (b - B + 1) \div 3 = (8 * (b + 1) + 5) \div 25
    BY <2>1, <2>2, <2>3, <2>4
  <2>. QED
    BY <2>5 DEF B
<1>. QED
  BY <1>1, <1>2

\* The correction m moves Easter a week back in the years whose epact the rule corrects.
LEMMA MoonCorrection ==
  ASSUME NEW a \in 0..18, NEW h \in 0..29, NEW l \in 0..6
  PROVE  (a + 11 * h + 22 * l) \div 451
            = IF l = 6 /\ (h = 29 \/ (h = 28 /\ a > 10)) THEN 1 ELSE 0
<1> DEFINE x == a + 11 * h + 22 * l
<1>1. x \in 0..902 /\ (x >= 451 <=> l = 6 /\ (h = 29 \/ (h = 28 /\ a > 10))) /\ x < 902
  OBVIOUS
<1> HIDE DEF x
<1>2. x \div 451 = IF x >= 451 THEN 1 ELSE 0
  BY <1>1
<1>. QED
  BY <1>1, <1>2 DEF x

\* Easter of a year and its full moon, in days from the first of March.
LEMMA EasterFollowsTheMoon ==
  ASSUME NEW year \in Nat
  PROVE  /\ weekday(easter_sunday(year)) = 6
         /\ easter_sunday(year) \in PaschalMoon(year) + 1 .. PaschalMoon(year) + 7
<1> DEFINE a == year % 19
           b == year \div 100
           c == year % 100
           g == (b - (b + 8) \div 25 + 1) \div 3
           h == (19 * a + b - b \div 4 - g + 15) % 30
           l == (32 + 2 * (b % 4) + 2 * (c \div 4) - h - (c % 4)) % 7
           m == (a + 11 * h + 22 * l) \div 451
           n == h + l - 7 * m + 114
           golden == a + 1
           century == b + 1
           solar == (3 * century) \div 4 - 12
           lunar == (8 * century + 5) \div 25 - 5
           e == (11 * golden + 20 + lunar - solar) % 30
           epact == IF (e = 25 /\ golden > 11) \/ e = 24 THEN e + 1 ELSE e
           moon == IF epact > 23 THEN 74 - epact ELSE 44 - epact
           s == b - b \div 4 - g
           march == Date(year, 3, 1)
<1>1. easter_sunday(year) = Date(year, n \div 31, (n % 31) + 1)
  BY DEF easter_sunday
<1>2. PaschalMoon(year) = march + moon - 1
  BY DEF PaschalMoon
<1>3. a \in 0..18 /\ b \in Nat /\ c \in 0..99
  OBVIOUS
<1>4. g \in Int /\ b \div 4 \in Int /\ s \in Int
  BY <1>3
<1>5. h = (19 * a + s + 15) % 30
  <2>1. 19 * a + b - b \div 4 - g + 15 = 19 * a + s + 15
    BY <1>3, <1>4
  <2>. QED
    BY <2>1
<1>6. e = (11 * a + 38 - s) % 30
  <2>1. solar = b - b \div 4 - 12 /\ lunar = g - 5
    BY <1>3, CenturyCorrections
  <2>2. 11 * golden + 20 + lunar - solar = 11 * a + 38 - s
    <3> HIDE DEF lunar, solar, g
    <3>. QED
      BY <1>3, <1>4, <2>1
  <2>. QED
    BY <2>2
<1>7. h \in 0..29 /\ e \in 0..29 /\ h = IF e <= 23 THEN 23 - e ELSE 53 - e
  <2> HIDE DEF a, s, h, e
  <2>. QED
    BY <1>3, <1>4, <1>5, <1>6, MoonAndEpact
<1>8. march = 365 * (100 * b + c) + 25 * b + c \div 4 - b + b \div 4 - 305 /\ march \in Int
  <2>1. march = 365 * (100 * b + c) + 25 * b + c \div 4 - b + b \div 4 - 305
    BY FirstOfMarch
  <2>2. c \div 4 \in Int
    BY <1>3
  <2> HIDE DEF b, c, march
  <2>. QED
    BY <1>3, <1>4, <2>1, <2>2
<1>9. l \in 0..6 /\ \E k \in Int : march + h + l = 7 * k
  <2>1. l = DaysAfter(b, c, h) /\ march = March(b, c)
    BY <1>8 DEF DaysAfter, March
  <2>2. h \in Int
    <3> HIDE DEF h
    <3>. QED
      BY <1>7
  <2> HIDE DEF b, c, h, l, march
  <2>. QED
    BY <1>3, <2>1, <2>2, WeeksAreWhole
<1> HIDE DEF a, h, e, s, march, g
<1>10. m = IF l = 6 /\ (h = 29 \/ (h = 28 /\ a > 10)) THEN 1 ELSE 0
  <2> HIDE DEF l
  <2>. QED
    BY <1>3, <1>7, <1>9, MoonCorrection
<1>11. (march + h + l - 7 * m + 21 + 6) % 7 = 6
  <2>1. m \in Int
    BY <1>10
  <2>2. PICK k \in Int : march + h + l = 7 * k
    BY <1>9
  <2> DEFINE w == k - m + 3
             t == march + h + l - 7 * m + 21
  <2> HIDE DEF m, l
  <2>3. w \in Int /\ t = 7 * w
    BY <1>7, <1>8, <1>9, <2>1, <2>2
  <2> HIDE DEF w, t
  <2>4. (t + 6) % 7 = 6
    BY <2>3
  <2>. QED
    BY <2>4 DEF t
<1> HIDE DEF l, m
<1>12. Date(year, n \div 31, (n % 31) + 1) = march + n - 93
  <2> HIDE DEF n
  <2>1. n \in 93..154
    BY <1>7, <1>9, <1>10 DEF n
  <2>2. \/ n \div 31 = 3 /\ n % 31 = n - 93
        \/ n \div 31 = 4 /\ n % 31 = n - 124
    BY <2>1
  <2>3. ASSUME NEW d \in Int
        PROVE  Date(year, 3, d) = march + d - 1 /\ Date(year, 4, d) = march + 31 + d - 1
    <3>1. NewYear(year) \in Int
      <4> HIDE DEF b, c
      <4>. QED
        BY DEF NewYear
    <3>. QED
      BY <3>1 DEF Date, DaysBefore, march
  <2>. QED
    BY <1>8, <2>1, <2>2, <2>3
<1>13. easter_sunday(year) = march + h + l - 7 * m + 21
  <2>1. m \in Int
    BY <1>10
  <2>. QED
    BY <1>1, <1>7, <1>8, <1>9, <1>12, <2>1
<1>14. weekday(easter_sunday(year)) = 6
  BY <1>11, <1>13 DEF weekday
<1>15. moon = IF h = 29 \/ (h = 28 /\ a > 10) THEN h + 20 ELSE h + 21
  BY <1>3, <1>7
<1> HIDE DEF moon
<1>16. h + l - 7 * m + 21 \in (moon - 1) + 1 .. (moon - 1) + 7
  BY <1>3, <1>7, <1>9, <1>10, <1>15
<1>17. moon \in Int /\ m \in Int
  BY <1>7, <1>10, <1>15
<1>18. easter_sunday(year) \in PaschalMoon(year) + 1 .. PaschalMoon(year) + 7
  BY <1>2, <1>7, <1>8, <1>9, <1>13, <1>16, <1>17
<1>. QED
  BY <1>14, <1>18

\* The arithmetic of easter_sunday is the ecclesiastical rule, in every year of the Gregorian
\* calendar (calendar_it.py:35-48).
THEOREM EasterIsByTheMoon == Spec => []EasterIsComputus
<1>1. InputTyped => EasterIsComputus
  <2> SUFFICES ASSUME InputTyped, input.kind = "day" PROVE EasterIsComputus
    BY DEF EasterIsComputus
  <2>1. input.day \in Nat
    BY KindsApart DEF DayInput
  <2>2. YearOf(input.day) \in Nat
    BY <2>1, YearOfADay
  <2>. QED
    BY <2>2, EasterFollowsTheMoon DEF EasterIsComputus
<1>. QED
  BY <1>1, InputsTyped, PTL

=============================================================================
