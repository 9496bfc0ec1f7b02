------------------------------ MODULE FiniteFacts ------------------------------
(***************************************************************************)
(* Facts about finite sets that the proofs need and that the library has   *)
(* only with an operator as a parameter.  Induction over finite sets is    *)
(* replaced by the choice of a minimal one.  And which sets of one, two or *)
(* three things sum to a number.                                           *)
(***************************************************************************)
EXTENDS Integers, FiniteSets, Functions, FiniteSetTheorems, WellFoundedInduction, TLAPS

\* Of some finite sets, one contains no other of them.
LEMMA MinimalSet ==
    ASSUME NEW F, \A X \in F : IsFiniteSet(X), F # {}
    PROVE  \E X \in F : \A Y \in F : Y \subseteq X => Y = X
<1> DEFINE S == UNION F
           R == StrictSubsetOrdering(S)
           D == FiniteSubsetsOf(S)
<1>1. IsWellFoundedOn(R, D)
  BY FS_StrictSubsetOrderingWellFounded
<1>2. F \subseteq D
  BY DEF FiniteSubsetsOf
<1>3. PICK X \in F : \A Y \in F : ~ (<<Y, X>> \in R)
  <2> HIDE DEF R, D
  <2> QED
    BY <1>1, <1>2, WFMin
<1>4. ASSUME NEW Y \in F, Y \subseteq X, Y # X PROVE FALSE
  <2>1. <<Y, X>> \in (SUBSET S) \X (SUBSET S)
    OBVIOUS
  <2>2. <<Y, X>> \in R
    BY <1>4, <2>1 DEF StrictSubsetOrdering
  <2> QED
    BY <1>3, <2>2
<1> QED
  BY <1>4

\* Of finitely many things with a number, one has the largest.
LEMMA Greatest ==
    ASSUME NEW S, IsFiniteSet(S), S # {}, NEW f \in [S -> Int]
    PROVE  \E m \in S : \A k \in S : f[k] <= f[m]
<1> DEFINE above(m) == {k \in S : f[m] <= f[k]}
           F == {above(m) : m \in S}
<1>1. F # {}
  <2>1. PICK m \in S : TRUE
    OBVIOUS
  <2>2. above(m) \in F
    OBVIOUS
  <2> QED
    BY <2>2
<1>2. \A X \in F : IsFiniteSet(X)
  BY FS_Subset
<1>3. PICK X \in F : \A Y \in F : Y \subseteq X => Y = X
  <2> HIDE DEF F, above
  <2> QED
    BY <1>1, <1>2, MinimalSet
<1>4. PICK m \in S : X = above(m)
  OBVIOUS
<1>5. ASSUME NEW k \in S, ~(f[k] <= f[m]) PROVE FALSE
  <2>1. \A j \in S : f[k] <= f[j] => f[m] <= f[j]
    BY <1>5
  <2>2. above(k) \subseteq above(m)
    BY <2>1
  <2>3. m \notin above(k) /\ m \in above(m)
    BY <1>5
  <2>4. above(k) = above(m)
    <3>1. above(k) \in F
      OBVIOUS
    <3> HIDE DEF F, above
    <3> QED
      BY <1>3, <1>4, <2>2, <3>1
  <2> QED
    BY <2>3, <2>4
<1> QED
  BY <1>5

\* A finite set of numbers has a largest.
LEMMA Largest ==
    ASSUME NEW S, S \subseteq Int, IsFiniteSet(S), S # {}
    PROVE  \E m \in S : \A k \in S : k <= m
<1> DEFINE f == [m \in S |-> m]
<1>1. f \in [S -> Int] /\ \A m \in S : f[m] = m
  OBVIOUS
<1> HIDE DEF f
<1>2. PICK m \in S : \A k \in S : f[k] <= f[m]
  BY <1>1, Greatest
<1> QED
  BY <1>1, <1>2

-------------------------------------------------------------------------------
(* Folds and sums over finite sets                                         *)

\* A function of the subsets of X that follows the recursion from the empty set.
IsFold(X, c, G, A, b, it) ==
    /\ it \in [SUBSET X -> A]
    /\ \A s \in SUBSET X : it[s] = IF s = {} THEN b ELSE G[c[s]][it[s \ {c[s]}]]

\* There is at most one such function ...
LEMMA FoldsAgree ==
    ASSUME NEW S, IsFiniteSet(S), NEW c, \A s \in SUBSET S : s # {} => c[s] \in s,
           NEW A, NEW b \in A, NEW G,
           NEW X \in SUBSET S, NEW f, IsFold(X, c, G, A, b, f),
           NEW Y \in SUBSET S, NEW g, IsFold(Y, c, G, A, b, g),
           NEW s \in SUBSET (X \cap Y)
    PROVE  f[s] = g[s]
<1> DEFINE bad == {r \in SUBSET (X \cap Y) : f[r] # g[r]}
<1>1. SUFFICES ASSUME bad # {} PROVE FALSE
  OBVIOUS
<1>2. \A r \in bad : IsFiniteSet(r)
  BY FS_Subset
<1>3. PICK r \in bad : \A q \in bad : q \subseteq r => q = r
  <2> HIDE DEF bad
  <2> QED
    BY <1>1, <1>2, MinimalSet
<1>4. r \in SUBSET X /\ r \in SUBSET Y /\ r \in SUBSET S
  OBVIOUS
<1>5. r # {}
  BY <1>4 DEF IsFold
<1>6. c[r] \in r
  BY <1>4, <1>5
<1>7. f[r \ {c[r]}] = g[r \ {c[r]}]
  BY <1>3, <1>6
<1>8. f[r] = g[r]
  BY <1>4, <1>5, <1>7 DEF IsFold
<1> QED
  BY <1>8

\* ... and there is one.
LEMMA FoldExists ==
    ASSUME NEW S, IsFiniteSet(S), NEW c, \A s \in SUBSET S : s # {} => c[s] \in s,
           NEW A, NEW b \in A, NEW G, \A x \in S : \A y \in A : G[x][y] \in A
    PROVE  \E it : IsFold(S, c, G, A, b, it)
<1> DEFINE P(X, it) == IsFold(X, c, G, A, b, it)
           bad == {X \in SUBSET S : ~ \E it : P(X, it)}
<1>1. SUFFICES ASSUME bad # {} PROVE FALSE
  OBVIOUS
<1>2. \A r \in bad : IsFiniteSet(r)
  BY FS_Subset
<1>3. PICK X \in bad : \A q \in bad : q \subseteq X => q = X
  <2> HIDE DEF bad
  <2> QED
    BY <1>1, <1>2, MinimalSet
<1> DEFINE of(s) == CHOOSE it : P(s, it)
           it == [s \in SUBSET X |->
                    IF s = X THEN IF X = {} THEN b ELSE G[c[X]][of(X \ {c[X]})[X \ {c[X]}]]
                    ELSE of(s)[s]]
<1>4. \A s \in SUBSET X : s # X => P(s, of(s))
  BY <1>3
<1>5. \A s \in SUBSET X : s # {} => c[s] \in s
  OBVIOUS
<1>6. ASSUME NEW s \in SUBSET X, s # X, NEW r \in SUBSET s PROVE of(s)[r] = of(r)[r]
  <2>1. P(s, of(s)) /\ P(r, of(r)) /\ s \in SUBSET S /\ r \in SUBSET S
    BY <1>4, <1>6
  <2> QED
    BY <2>1, FoldsAgree
<1>7. ASSUME NEW s \in SUBSET X, s # X
      PROVE  of(s)[s] \in A /\ of(s)[s] = IF s = {} THEN b ELSE G[c[s]][of(s)[s \ {c[s]}]]
  <2>1. IsFold(s, c, G, A, b, of(s))
    BY <1>4, <1>7
  <2> HIDE DEF of
  <2> QED
    BY <2>1 DEF IsFold
<1> HIDE DEF P, of
<1>8. \A s \in SUBSET X : it[s] \in A
  BY <1>5, <1>7
<1>9. ASSUME NEW s \in SUBSET X PROVE it[s] = IF s = {} THEN b ELSE G[c[s]][it[s \ {c[s]}]]
  <2>1. CASE s = {}
    BY <1>7, <2>1
  <2>2. CASE s # {}
    <3>1. c[s] \in s /\ s \ {c[s]} \in SUBSET X /\ s \ {c[s]} # X
      BY <1>5, <2>2
    <3>2. it[s \ {c[s]}] = of(s \ {c[s]})[s \ {c[s]}]
      BY <3>1
    <3> QED
      BY <1>6, <1>7, <2>2, <3>1, <3>2, ZenonT(60)
  <2> QED
    BY <2>1, <2>2
<1>10. IsFold(X, c, G, A, b, it)
  <2>1. it \in [SUBSET X -> A]
    BY <1>8
  <2> HIDE DEF it
  <2> QED
    BY <1>9, <2>1 DEF IsFold
<1> QED
  BY <1>3, <1>10 DEF P

\* SumFunctionOnSet follows the recursion that it is defined by.
LEMMA SumFolds ==
    ASSUME NEW S, IsFiniteSet(S), NEW f \in [S -> Int]
    PROVE  \E it, c, G :
             /\ \A s \in SUBSET S : s # {} => c[s] \in s
             /\ IsFold(S, c, G, Int, 0, it)
             /\ \A X \in SUBSET S : SumFunctionOnSet(f, X) = it[X]
             /\ \A x \in S : \A y \in Int : G[x][y] = f[x] + y
<1> DEFINE any(s) == CHOOSE x \in s : TRUE
           c == [s \in SUBSET S |-> any(s)]
           G == [x \in S |-> [y \in Int |-> f[x] + y]]
<1>1. \A s : s # {} => any(s) \in s
  OBVIOUS
<1>5. \A s \in SUBSET S : c[s] = any(s)
  OBVIOUS
<1>2. \A x \in S : \A y \in Int : G[x][y] = f[x] + y /\ G[x][y] \in Int
  OBVIOUS
<1> HIDE DEF c, G
<1>6. \A s \in SUBSET S : s # {} => c[s] \in s
  BY <1>1, <1>5
<1>3. PICK it : IsFold(S, c, G, Int, 0, it)
  <2>1. 0 \in Int /\ \A x \in S : \A y \in Int : G[x][y] \in Int
    BY <1>2
  <2> HIDE DEF any
  <2> QED
    BY <1>6, <2>1, FoldExists
<1>4. ASSUME NEW X \in SUBSET S PROVE SumFunctionOnSet(f, X) = it[X]
  <2> DEFINE R(r) == r = [s \in SUBSET X |-> IF s = {} THEN 0 ELSE f[any(s)] + r[s \ {any(s)}]]
             part == [s \in SUBSET X |-> it[s]]
  <2>1. SumFunctionOnSet(f, X) = (CHOOSE r : R(r))[X]
    BY DEF SumFunctionOnSet, FoldFunctionOnSet, MapThenFoldSet
  <2> HIDE DEF any
  <2>2. ASSUME NEW s \in SUBSET X
        PROVE  it[s] \in Int /\ it[s] = IF s = {} THEN 0 ELSE f[any(s)] + it[s \ {any(s)}]
    <3>1. s \in SUBSET S /\ s \ {any(s)} \in SUBSET S /\ (s # {} => any(s) \in S)
      BY <1>1
    <3>2. it[s] \in Int /\ it[s \ {any(s)}] \in Int
      BY <1>3, <3>1 DEF IsFold
    <3>3. it[s] = IF s = {} THEN 0 ELSE G[any(s)][it[s \ {any(s)}]]
      BY <1>3, <1>5, <3>1 DEF IsFold
    <3> QED
      BY <1>2, <3>1, <3>2, <3>3
  <2>3. R(part)
    <3>1. \A s \in SUBSET X : s \ {any(s)} \in SUBSET X
      OBVIOUS
    <3> QED
      BY <2>2, <3>1
  <2>4. R(CHOOSE r : R(r))
    BY <2>3
  <2>5. ASSUME NEW r, R(r) PROVE r[X] = it[X]
    <3>1. ASSUME NEW s \in SUBSET X PROVE r[s] = IF s = {} THEN 0 ELSE f[any(s)] + r[s \ {any(s)}]
      BY <2>5
    <3>2. r = [s \in SUBSET X |-> r[s]]
      BY <2>5
    <3> DEFINE bad == {s \in SUBSET X : r[s] # it[s]}
    <3>3. SUFFICES ASSUME bad # {} PROVE FALSE
      OBVIOUS
    <3>4. \A s \in bad : IsFiniteSet(s)
      BY FS_Subset
    <3>5. PICK s \in bad : \A q \in bad : q \subseteq s => q = s
      <4> HIDE DEF bad
      <4> QED
        BY <3>3, <3>4, MinimalSet
    <3>6. s # {} => r[s \ {any(s)}] = it[s \ {any(s)}]
      BY <1>1, <3>5
    <3> QED
      BY <2>2, <3>1, <3>5, <3>6
  <2> HIDE DEF R
  <2> QED
    BY <2>1, <2>4, <2>5
<1> QED
  BY <1>2, <1>3, <1>4, <1>6

LEMMA SumRecursion ==
    ASSUME NEW S, IsFiniteSet(S), NEW f \in [S -> Int], NEW X \in SUBSET S
    PROVE  /\ SumFunctionOnSet(f, X) \in Int
           /\ X = {} => SumFunctionOnSet(f, X) = 0
           /\ X # {} => \E x \in X : SumFunctionOnSet(f, X) = f[x] + SumFunctionOnSet(f, X \ {x})
<1>1. PICK it, c, G :
         /\ \A s \in SUBSET S : s # {} => c[s] \in s
         /\ IsFold(S, c, G, Int, 0, it)
         /\ \A Y \in SUBSET S : SumFunctionOnSet(f, Y) = it[Y]
         /\ \A x \in S : \A y \in Int : G[x][y] = f[x] + y
  BY SumFolds
<1>2. it[X] \in Int /\ it[X] = IF X = {} THEN 0 ELSE G[c[X]][it[X \ {c[X]}]]
  BY <1>1 DEF IsFold
<1>3. ASSUME X # {} PROVE it[X] = f[c[X]] + it[X \ {c[X]}] /\ c[X] \in X
  <2>1. c[X] \in X /\ X \ {c[X]} \in SUBSET S
    BY <1>1, <1>3
  <2>2. it[X \ {c[X]}] \in Int
    BY <1>1, <2>1 DEF IsFold
  <2> QED
    BY <1>1, <1>2, <1>3, <2>1, <2>2, ZenonT(60)
<1> QED
  BY <1>1, <1>2, <1>3

\* A sum with and without one of its terms, whichever it is.
LEMMA SumWithout ==
    ASSUME NEW S, IsFiniteSet(S), NEW f \in [S -> Int], NEW X \in SUBSET S, NEW x \in X
    PROVE  SumFunctionOnSet(f, X) = f[x] + SumFunctionOnSet(f, X \ {x})
<1> DEFINE sum(Y) == SumFunctionOnSet(f, Y)
           bad == {Y \in SUBSET S : \E y \in Y : sum(Y) # f[y] + sum(Y \ {y})}
<1>1. SUFFICES ASSUME bad # {} PROVE FALSE
  OBVIOUS
<1>2. \A Y \in bad : IsFiniteSet(Y)
  BY FS_Subset
<1>3. PICK Y \in bad : \A Z \in bad : Z \subseteq Y => Z = Y
  <2> HIDE DEF bad
  <2> QED
    BY <1>1, <1>2, MinimalSet
<1>4. PICK y \in Y : sum(Y) # f[y] + sum(Y \ {y})
  OBVIOUS
<1>5. \A Z \in SUBSET S : sum(Z) \in Int
  BY SumRecursion
<1>6. PICK z \in Y : sum(Y) = f[z] + sum(Y \ {z})
  BY <1>4, SumRecursion
<1>7. y # z /\ y \in Y \ {z} /\ z \in Y \ {y}
  BY <1>4, <1>6
<1>8. sum(Y \ {z}) = f[y] + sum((Y \ {z}) \ {y})
  <2>1. Y \ {z} \notin bad
    <3> HIDE DEF bad
    <3> QED
      BY <1>3, <1>6
  <2>2. Y \ {z} \in SUBSET S
    OBVIOUS
  <2> QED
    BY <1>7, <2>1, <2>2
<1>9. sum(Y \ {y}) = f[z] + sum((Y \ {y}) \ {z})
  <2>1. Y \ {y} \notin bad
    <3> HIDE DEF bad
    <3> QED
      BY <1>3, <1>4
  <2>2. Y \ {y} \in SUBSET S
    OBVIOUS
  <2> QED
    BY <1>7, <2>1, <2>2
<1>10. (Y \ {y}) \ {z} = (Y \ {z}) \ {y}
  OBVIOUS
<1>11. sum((Y \ {z}) \ {y}) \in Int /\ f[y] \in Int /\ f[z] \in Int
  BY <1>5
<1>12. ASSUME NEW a \in Int, NEW b \in Int, NEW v \in Int PROVE a + (b + v) = b + (a + v)
  OBVIOUS
<1> HIDE DEF sum, bad
<1>13. sum(Y) = f[z] + (f[y] + sum((Y \ {z}) \ {y}))
  BY <1>6, <1>8
<1>14. f[y] + sum(Y \ {y}) = f[y] + (f[z] + sum((Y \ {z}) \ {y}))
  BY <1>9, <1>10
<1> QED
  BY <1>4, <1>11, <1>12, <1>13, <1>14

\* A sum of sums is the sum of both; with g = 0, or f = h, sums of the same terms.
LEMMA SumOfBoth ==
    ASSUME NEW S, IsFiniteSet(S), NEW f \in [S -> Int], NEW g \in [S -> Int], NEW h \in [S -> Int],
           NEW X \in SUBSET S, \A x \in X : h[x] = f[x] + g[x]
    PROVE  SumFunctionOnSet(h, X) = SumFunctionOnSet(f, X) + SumFunctionOnSet(g, X)
<1> DEFINE bad == {Y \in SUBSET X :
                     SumFunctionOnSet(h, Y) # SumFunctionOnSet(f, Y) + SumFunctionOnSet(g, Y)}
<1>1. SUFFICES ASSUME bad # {} PROVE FALSE
  OBVIOUS
<1>2. \A Y \in bad : IsFiniteSet(Y)
  BY FS_Subset
<1>3. PICK Y \in bad : \A Z \in bad : Z \subseteq Y => Z = Y
  <2> HIDE DEF bad
  <2> QED
    BY <1>1, <1>2, MinimalSet
<1>4. Y \in SUBSET S
  OBVIOUS
<1>5. Y # {}
  BY <1>4, SumRecursion
<1>6. PICK y \in Y : TRUE
  BY <1>5
<1>7. Y \ {y} \notin bad /\ Y \ {y} \in SUBSET S
  BY <1>3, <1>4, <1>6
<1>8. /\ SumFunctionOnSet(h, Y) = h[y] + SumFunctionOnSet(h, Y \ {y})
      /\ SumFunctionOnSet(f, Y) = f[y] + SumFunctionOnSet(f, Y \ {y})
      /\ SumFunctionOnSet(g, Y) = g[y] + SumFunctionOnSet(g, Y \ {y})
  BY <1>4, <1>6, SumWithout
<1>9. SumFunctionOnSet(f, Y \ {y}) \in Int /\ SumFunctionOnSet(g, Y \ {y}) \in Int
  BY <1>7, SumRecursion
<1>10. h[y] = f[y] + g[y] /\ f[y] \in Int /\ g[y] \in Int
  BY <1>6
<1> QED
  BY <1>7, <1>8, <1>9, <1>10

\* Terms that are 0 add nothing.
LEMMA SumOfZeros ==
    ASSUME NEW S, IsFiniteSet(S), NEW f \in [S -> Int], NEW X \in SUBSET S, \A x \in X : f[x] = 0
    PROVE  SumFunctionOnSet(f, X) = 0
<1> DEFINE v == SumFunctionOnSet(f, X)
<1>1. v = v + v
  <2>1. \A x \in X : f[x] = f[x] + f[x]
    OBVIOUS
  <2> QED
    BY <2>1, SumOfBoth
<1>2. v \in Int
  BY SumRecursion
<1> HIDE DEF v
<1>3. v = 0
  BY <1>1, <1>2
<1> QED
  BY <1>3 DEF v

\* Nothing adds up to nothing.
LEMMA SumOfNone == ASSUME NEW f \in [{} -> Int] PROVE SumFunction(f) = 0
<1>1. IsFiniteSet({}) /\ {} \in SUBSET {} /\ DOMAIN f = {}
  BY FS_EmptySet
<1> QED
  BY <1>1, SumRecursion DEF SumFunction

\* Functions that agree on a set have the same sum over it.
LEMMA SumsAgree ==
    ASSUME NEW S, IsFiniteSet(S), NEW f \in [S -> Int],
           NEW T, IsFiniteSet(T), NEW g \in [T -> Int],
           NEW X \in SUBSET (S \cap T), \A x \in X : f[x] = g[x]
    PROVE  SumFunctionOnSet(f, X) = SumFunctionOnSet(g, X)
<1> DEFINE bad == {Y \in SUBSET X : SumFunctionOnSet(f, Y) # SumFunctionOnSet(g, Y)}
<1>1. SUFFICES ASSUME bad # {} PROVE FALSE
  OBVIOUS
<1>2. \A Y \in bad : IsFiniteSet(Y)
  BY FS_Subset
<1>3. PICK Y \in bad : \A Z \in bad : Z \subseteq Y => Z = Y
  <2> HIDE DEF bad
  <2> QED
    BY <1>1, <1>2, MinimalSet
<1>4. Y \in SUBSET S /\ Y \in SUBSET T /\ Y \in SUBSET X
  OBVIOUS
<1>5. CASE Y = {}
  BY <1>4, <1>5, SumRecursion
<1>6. CASE Y # {}
  <2>1. PICK y : y \in Y
    BY <1>6
  <2>2. SumFunctionOnSet(f, Y) = f[y] + SumFunctionOnSet(f, Y \ {y})
    BY <1>4, <2>1, SumWithout
  <2>3. SumFunctionOnSet(g, Y) = g[y] + SumFunctionOnSet(g, Y \ {y})
    BY <1>4, <2>1, SumWithout
  <2>4. Y \ {y} \notin bad
    BY <1>3, <2>1
  <2>5. SumFunctionOnSet(f, Y \ {y}) = SumFunctionOnSet(g, Y \ {y})
    BY <1>4, <2>4
  <2> QED
    BY <1>4, <2>1, <2>2, <2>3, <2>5
<1> QED
  BY <1>5, <1>6

\* One more summand adds its value.
LEMMA SumOfOneMore ==
    ASSUME NEW S, IsFiniteSet(S), NEW f \in [S -> Int],
           NEW t, t \notin S, NEW g \in [S \cup {t} -> Int], \A x \in S : g[x] = f[x]
    PROVE  SumFunction(g) = SumFunction(f) + g[t]
<1> DEFINE T == S \cup {t}
<1>1. IsFiniteSet(T) /\ T \in SUBSET T /\ t \in T /\ T \ {t} = S /\ S \in SUBSET (S \cap T)
  BY FS_AddElement
<1>2. g \in [T -> Int] /\ DOMAIN f = S /\ DOMAIN g = T
  OBVIOUS
<1> HIDE DEF T
<1>3. SumFunctionOnSet(g, T) = g[t] + SumFunctionOnSet(g, S)
  BY <1>1, <1>2, SumWithout
<1>4. SumFunctionOnSet(f, S) = SumFunctionOnSet(g, S)
  BY <1>1, <1>2, SumsAgree
<1>5. S \in SUBSET S /\ SumFunctionOnSet(f, S) \in Int
  BY SumRecursion
<1>6. g[t] \in Int
  BY <1>1, <1>2
<1> QED
  BY <1>2, <1>3, <1>4, <1>5, <1>6 DEF SumFunction

\* Summands that are 0 can be left out.
LEMMA SumOfPart ==
    ASSUME NEW S, IsFiniteSet(S), NEW f \in [S -> Int],
           NEW X \in SUBSET S, NEW g \in [X -> Int], \A x \in X : g[x] = f[x],
           \A x \in S \ X : f[x] = 0
    PROVE  SumFunction(f) = SumFunction(g)
<1> DEFINE bad == {Y \in SUBSET S : X \subseteq Y /\ SumFunctionOnSet(f, Y) # SumFunctionOnSet(f, X)}
<1>1. bad = {}
  <2>1. SUFFICES ASSUME bad # {} PROVE FALSE
    OBVIOUS
  <2>2. \A Y \in bad : IsFiniteSet(Y)
    BY FS_Subset
  <2>3. PICK Y \in bad : \A Z \in bad : Z \subseteq Y => Z = Y
    <3> HIDE DEF bad
    <3> QED
      BY <2>1, <2>2, MinimalSet
  <2>4. Y \in SUBSET S /\ X \subseteq Y /\ SumFunctionOnSet(f, Y) # SumFunctionOnSet(f, X)
    OBVIOUS
  <2>5. PICK y \in Y : y \notin X
    <3>1. Y # X
      BY <2>4
    <3> QED
      BY <2>4, <3>1
  <2>6. SumFunctionOnSet(f, Y) = f[y] + SumFunctionOnSet(f, Y \ {y})
    BY <2>4, SumWithout
  <2>7. Y \ {y} \notin bad /\ Y \ {y} \in SUBSET S /\ X \subseteq Y \ {y}
    <3>1. Y \ {y} \notin bad
      <4> HIDE DEF bad
      <4> QED
        BY <2>3
    <3> QED
      BY <2>4, <2>5, <3>1
  <2>8. SumFunctionOnSet(f, Y \ {y}) = SumFunctionOnSet(f, X)
    BY <2>7
  <2>9. SumFunctionOnSet(f, X) \in Int /\ f[y] = 0
    BY <2>4, <2>5, SumRecursion
  <2> QED
    BY <2>4, <2>6, <2>8, <2>9
<1>2. S \in SUBSET S /\ X \subseteq S
  OBVIOUS
<1>3. SumFunctionOnSet(f, S) = SumFunctionOnSet(f, X)
  BY <1>1, <1>2
<1>4. SumFunctionOnSet(f, X) = SumFunctionOnSet(g, X)
  <2>1. IsFiniteSet(X) /\ X \in SUBSET (S \cap X)
    BY FS_Subset
  <2> HIDE DEF bad
  <2> QED
    BY <2>1, SumsAgree
<1>5. DOMAIN f = S /\ DOMAIN g = X
  OBVIOUS
<1> QED
  BY <1>3, <1>4, <1>5 DEF SumFunction

\* The sums of the columns of a table add up to what the sums of its rows do.
LEMMA SumsOfSums ==
    ASSUME NEW S, IsFiniteSet(S), NEW A, IsFiniteSet(A), NEW F \in [S -> [A -> Int]],
           NEW r \in [S -> Int], \A s \in S : r[s] = SumFunction(F[s]),
           NEW c \in [A -> Int], \A a \in A : c[a] = SumFunction([s \in S |-> F[s][a]])
    PROVE  SumFunction(c) = SumFunction(r)
<1> DEFINE col(a) == [s \in S |-> F[s][a]]
           part(X) == [a \in A |-> SumFunctionOnSet(col(a), X)]
           bad == {X \in SUBSET S : SumFunctionOnSet(part(X), A) # SumFunctionOnSet(r, X)}
<1>1. \A a \in A : col(a) \in [S -> Int]
  OBVIOUS
<1>2. ASSUME NEW X \in SUBSET S PROVE part(X) \in [A -> Int]
  <2>1. \A a \in A : SumFunctionOnSet(col(a), X) \in Int
    <3> HIDE DEF col
    <3> QED
      BY <1>1, SumRecursion
  <2> HIDE DEF col
  <2> QED
    BY <2>1
<1>3. bad = {}
  <2>1. SUFFICES ASSUME bad # {} PROVE FALSE
    OBVIOUS
  <2>2. \A X \in bad : IsFiniteSet(X)
    BY FS_Subset
  <2>3. PICK X \in bad : \A Z \in bad : Z \subseteq X => Z = X
    <3> HIDE DEF bad
    <3> QED
      BY <2>1, <2>2, MinimalSet
  <2>4. X \in SUBSET S /\ SumFunctionOnSet(part(X), A) # SumFunctionOnSet(r, X)
    OBVIOUS
  <2>5. A \in SUBSET A
    OBVIOUS
  <2>6. CASE X = {}
    <3>1. \A a \in A : part(X)[a] = 0
      <4> HIDE DEF col
      <4> QED
        BY <1>1, <2>4, <2>6, SumRecursion
    <3> HIDE DEF part
    <3>2. SumFunctionOnSet(part(X), A) = 0
      BY <1>2, <2>4, <2>5, <3>1, SumOfZeros
    <3>3. SumFunctionOnSet(r, X) = 0
      BY <2>4, <2>6, SumRecursion
    <3> QED
      BY <2>4, <3>2, <3>3
  <2>7. CASE X # {}
    <3>1. PICK s : s \in X
      BY <2>7
    <3>2. X \ {s} \notin bad /\ X \ {s} \in SUBSET S /\ s \in S
      <4>1. X \ {s} \notin bad
        <5> HIDE DEF bad
        <5> QED
          BY <2>3, <3>1
      <4> QED
        BY <2>4, <3>1, <4>1
    <3>3. \A a \in A : part(X)[a] = F[s][a] + part(X \ {s})[a]
      <4>1. SUFFICES ASSUME NEW a \in A
                     PROVE  SumFunctionOnSet(col(a), X) = F[s][a] + SumFunctionOnSet(col(a), X \ {s})
        OBVIOUS
      <4>2. col(a)[s] = F[s][a] /\ col(a) \in [S -> Int]
        BY <1>1, <3>2
      <4> HIDE DEF col
      <4>3. SumFunctionOnSet(col(a), X) = col(a)[s] + SumFunctionOnSet(col(a), X \ {s})
        BY <2>4, <3>1, <4>2, SumWithout, SMTT(30)
      <4> QED
        BY <4>2, <4>3
    <3>4. part(X) \in [A -> Int] /\ part(X \ {s}) \in [A -> Int] /\ F[s] \in [A -> Int]
      BY <1>2, <2>4, <3>2
    <3>5. SumFunctionOnSet(part(X \ {s}), A) = SumFunctionOnSet(r, X \ {s})
      BY <3>2
    <3> HIDE DEF part, bad, col
    <3>6. SumFunctionOnSet(part(X), A) = SumFunctionOnSet(F[s], A) + SumFunctionOnSet(part(X \ {s}), A)
      <4>1. PICK p \in [A -> Int] : p = part(X)
        BY <3>4
      <4>2. PICK q \in [A -> Int] : q = part(X \ {s})
        BY <3>4
      <4>3. PICK u \in [A -> Int] : u = F[s]
        BY <3>4
      <4>4. \A a \in A : p[a] = u[a] + q[a]
        BY <3>3, <4>1, <4>2, <4>3
      <4>5. SumFunctionOnSet(p, A) = SumFunctionOnSet(u, A) + SumFunctionOnSet(q, A)
        BY <2>5, <4>4, SumOfBoth
      <4> QED
        BY <4>1, <4>2, <4>3, <4>5
    <3>7. SumFunctionOnSet(r, X) = r[s] + SumFunctionOnSet(r, X \ {s})
      BY <2>4, <3>1, SumWithout
    <3>8. r[s] = SumFunctionOnSet(F[s], A)
      BY <3>2, <3>4 DEF SumFunction
    <3> QED
      BY <2>4, <3>5, <3>6, <3>7, <3>8
  <2> QED
    BY <2>6, <2>7
<1>4. S \in SUBSET S
  OBVIOUS
<1>5. SumFunctionOnSet(part(S), A) = SumFunctionOnSet(r, S)
  BY <1>3, <1>4
<1>6. part(S) = c
  <2>1. \A a \in A : DOMAIN col(a) = S
    OBVIOUS
  <2>2. \A a \in A : c[a] = SumFunctionOnSet(col(a), S)
    BY <2>1 DEF SumFunction
  <2> HIDE DEF col
  <2> QED
    BY <2>2
<1>7. DOMAIN c = A /\ DOMAIN r = S
  OBVIOUS
<1> QED
  BY <1>5, <1>6, <1>7 DEF SumFunction

-------------------------------------------------------------------------------
(* Ranks, and sums of parts.                                               *)

\* The positions up to one.
Upto(S, x) == {y \in S : y <= x}

\* Every rank in a finite set of numbers is somebody's.
LEMMA RankExists ==
    ASSUME NEW T \in SUBSET Int, IsFiniteSet(T)
    PROVE  \A k \in 1..Cardinality(T) : \E x \in T : Cardinality(Upto(T, x)) = k
<1> DEFINE Ranked(X) == \A k \in 1..Cardinality(X) : \E x \in X : Cardinality(Upto(X, x)) = k
           bad == {X \in SUBSET T : ~Ranked(X)}
<1> SUFFICES ASSUME bad # {} PROVE FALSE
  BY Zenon
<1>1. \A X \in bad : IsFiniteSet(X)
  BY FS_Subset, Zenon
<1>2. PICK X \in bad : \A Y \in bad : Y \subseteq X => Y = X
  <2> HIDE DEF bad
  <2> QED
    BY <1>1, MinimalSet
<1>3. IsFiniteSet(X) /\ X \subseteq Int /\ ~Ranked(X) /\ X \in SUBSET T
  BY <1>1, <1>2, Zenon
<1>4. X # {}
  <2> SUFFICES ASSUME X = {} PROVE FALSE
    OBVIOUS
  <2>1. Cardinality(X) = 0
    BY FS_EmptySet, Zenon
  <2> QED
    BY <1>3, <2>1, SMT
<1>5. PICK m \in X : \A k \in X : k <= m
  BY <1>3, <1>4, Largest, Zenon
<1> DEFINE Y == X \ {m}
<1>6. Ranked(Y)
  <2>1. Y \in SUBSET T /\ Y \subseteq X /\ Y # X
    BY <1>3, <1>5, Zenon
  <2> QED
    BY <1>2, <2>1, Zenon
<1>7. /\ IsFiniteSet(Y) /\ Cardinality(Y) = Cardinality(X) - 1
      /\ Cardinality(X) \in Nat /\ Cardinality(Y) \in Nat
  BY <1>3, <1>5, FS_RemoveElement, FS_CardinalityType, Zenon
<1>8. Upto(X, m) = X
  BY <1>5, Zenon DEF Upto
<1>9. ASSUME NEW x \in Y
      PROVE  Upto(X, x) = Upto(Y, x)
  <2>1. ~(m <= x)
    BY <1>3, <1>5, SMT
  <2> QED
    BY <2>1, Zenon DEF Upto
<1>10. ASSUME NEW k \in 1..Cardinality(X)
       PROVE  \E x \in X : Cardinality(Upto(X, x)) = k
  <2>1. CASE k = Cardinality(X)
    BY <1>5, <1>8, <2>1, Zenon
  <2>2. CASE k # Cardinality(X)
    <3>1. k \in 1..Cardinality(Y)
      BY <1>7, <2>2, SMT
    <3>2. PICK x \in Y : Cardinality(Upto(Y, x)) = k
      BY <1>6, <3>1, Zenon
    <3> QED
      BY <1>9, <3>2, Zenon
  <2> QED
    BY <2>1, <2>2, Zenon
<1> QED
  BY <1>3, <1>10, Zenon

\* A function that is defined of one thing more.
Extends(g, f, T, t) ==
    /\ IsFiniteSet(T) /\ t \notin T /\ f \in [T -> Int] /\ g \in [T \cup {t} -> Int]
    /\ \A x \in T : g[x] = f[x]

\* Its sum grows by what it is there.
LEMMA SumGrows ==
    ASSUME NEW g, NEW f, NEW T, NEW t, Extends(g, f, T, t)
    PROVE  SumFunction(g) = SumFunction(f) + g[t]
<1>1. IsFiniteSet(T) /\ t \notin T
  BY Zenon DEF Extends
<1>2. f \in [T -> Int]
  BY Zenon DEF Extends
<1>3. g \in [T \cup {t} -> Int]
  BY Zenon DEF Extends
<1>4. \A x \in T : g[x] = f[x]
  BY Zenon DEF Extends
<1> QED
  BY <1>1, <1>2, <1>3, <1>4, SumOfOneMore

\* The two parts of a sum.
Parts(S, f, X, g, h) ==
    /\ IsFiniteSet(S) /\ f \in [S -> Int] /\ X \in SUBSET S
    /\ g \in [X -> Int] /\ \A x \in X : g[x] = f[x]
    /\ h \in [S \ X -> Int] /\ \A x \in S \ X : h[x] = f[x]

\* A sum is the sum of its parts.
LEMMA SumSplits ==
    ASSUME NEW S, NEW f, NEW X, NEW g, NEW h, Parts(S, f, X, g, h)
    PROVE  SumFunction(f) = SumFunction(g) + SumFunction(h)
<1>0. /\ IsFiniteSet(S) /\ f \in [S -> Int] /\ X \in SUBSET S
      /\ g \in [X -> Int] /\ \A x \in X : g[x] = f[x]
      /\ h \in [S \ X -> Int] /\ \A x \in S \ X : h[x] = f[x]
  BY Zenon DEF Parts
<1> DEFINE a == [x \in S |-> IF x \in X THEN f[x] ELSE 0]
           b == [x \in S |-> IF x \in X THEN 0 ELSE f[x]]
<1>1. a \in [S -> Int] /\ b \in [S -> Int]
  BY <1>0, SMT
<1>2. \A x \in S : f[x] = a[x] + b[x]
  BY <1>0, SMT
<1>3. \A x \in X : g[x] = a[x]
  BY <1>0, Zenon
<1>4. \A x \in S \ X : a[x] = 0 /\ h[x] = b[x]
  BY <1>0, Zenon
<1>5. \A x \in S \ (S \ X) : b[x] = 0
  BY Zenon
<1> HIDE DEF a, b
<1>6. SumFunction(a) = SumFunction(g)
  BY <1>0, <1>1, <1>3, <1>4, SumOfPart
<1>7. SumFunction(b) = SumFunction(h)
  <2> DEFINE Y == S \ X
  <2>1. Y \in SUBSET S /\ h \in [Y -> Int] /\ (\A x \in Y : h[x] = b[x]) /\ (\A x \in S \ Y : b[x] = 0)
    BY <1>0, <1>4, <1>5, Zenon
  <2> HIDE DEF Y
  <2> QED
    BY <1>0, <1>1, <2>1, SumOfPart
<1>8. SumFunctionOnSet(f, S) = SumFunctionOnSet(a, S) + SumFunctionOnSet(b, S)
  BY <1>0, <1>1, <1>2, SumOfBoth, S \in SUBSET S
<1>9. DOMAIN f = S /\ DOMAIN a = S /\ DOMAIN b = S
  BY <1>0, <1>1, Zenon
<1> QED
  BY <1>6, <1>7, <1>8, <1>9, Zenon DEF SumFunction

-------------------------------------------------------------------------------
(* Sums of one, two and three things.                                      *)

\* What some of the things amount to.
SumOn(w, S) == SumFunction([x \in S |-> w[x]])
\* Whole amounts of finitely many things.
Weighs(F, w) == IsFiniteSet(F) /\ w \in [F -> Int]

\* Nothing amounts to nothing.
LEMMA SumOnNothing ==
    ASSUME NEW w
    PROVE  SumOn(w, {}) = 0
<1> DEFINE g == [x \in {} |-> w[x]]
<1>1. g \in [{} -> Int]
  BY Zenon
<1>2. SumOn(w, {}) = SumFunction(g)
  BY Zenon DEF SumOn
<1> HIDE DEF g
<1> QED
  BY <1>1, <1>2, SumOfNone

\* With one thing more they amount to its amount more:
LEMMA SumOnGrows ==
    ASSUME NEW F, NEW w, Weighs(F, w), NEW S \in SUBSET F, NEW x \in F \ S
    PROVE  SumOn(w, S \cup {x}) = SumOn(w, S) + w[x]
<1> DEFINE f == [y \in S |-> w[y]]
           g == [y \in S \cup {x} |-> w[y]]
<1>1. f \in [S -> Int] /\ g \in [S \cup {x} -> Int] /\ (\A y \in S : g[y] = f[y]) /\ g[x] = w[x]
  BY Zenon DEF Weighs
<1>2. IsFiniteSet(S) /\ x \notin S
  BY FS_Subset, Zenon DEF Weighs
<1>3. SumOn(w, S) = SumFunction(f) /\ SumOn(w, S \cup {x}) = SumFunction(g)
  BY Zenon DEF SumOn
<1> HIDE DEF f, g
<1>4. Extends(g, f, S, x)
  BY <1>1, <1>2, Zenon DEF Extends
<1>5. SumFunction(g) = SumFunction(f) + g[x]
  BY <1>4, SumGrows, Zenon
<1> QED
  BY <1>1, <1>3, <1>5, Zenon

\* Two and three different things.
TwoIn(F, x, y) == x \in F /\ y \in F /\ x # y
ThreeIn(F, x, y, z) == x \in F /\ y \in F /\ z \in F /\ x # y /\ x # z /\ y # z

\* one thing,
LEMMA SumOnOne ==
    ASSUME NEW F, NEW w, Weighs(F, w), NEW x \in F
    PROVE  SumOn(w, {x}) = w[x]
<1>1. {} \in SUBSET F /\ x \in F \ {} /\ {} \cup {x} = {x} /\ w[x] \in Int
  BY Zenon DEF Weighs
<1>2. SumOn(w, {} \cup {x}) = SumOn(w, {}) + w[x]
  BY <1>1, SumOnGrows
<1> QED
  BY <1>1, <1>2, SumOnNothing, SMT

\* two things,
LEMMA SumOnTwo ==
    ASSUME NEW F, NEW w, Weighs(F, w), NEW x, NEW y, TwoIn(F, x, y)
    PROVE  SumOn(w, {x, y}) = w[x] + w[y]
<1>1. {x} \in SUBSET F /\ y \in F \ {x} /\ {x} \cup {y} = {x, y} /\ x \in F
  BY Zenon DEF TwoIn
<1>2. SumOn(w, {x} \cup {y}) = SumOn(w, {x}) + w[y]
  BY <1>1, SumOnGrows
<1>3. SumOn(w, {x}) = w[x]
  BY <1>1, SumOnOne
<1> QED
  BY <1>1, <1>2, <1>3, Zenon

\* and three things.
LEMMA SumOnThree ==
    ASSUME NEW F, NEW w, Weighs(F, w), NEW x, NEW y, NEW z, ThreeIn(F, x, y, z)
    PROVE  SumOn(w, {x, y, z}) = w[x] + w[y] + w[z]
<1>1. {x, y} \in SUBSET F /\ z \in F \ {x, y} /\ {x, y} \cup {z} = {x, y, z} /\ TwoIn(F, x, y)
  BY Zenon DEF TwoIn, ThreeIn
<1>2. SumOn(w, {x, y} \cup {z}) = SumOn(w, {x, y}) + w[z]
  BY <1>1, SumOnGrows
<1>3. SumOn(w, {x, y}) = w[x] + w[y]
  BY <1>1, SumOnTwo
<1> QED
  BY <1>1, <1>2, <1>3, Zenon

\* Sets of two and of three.
IsPair(S) == \E x : \E y : x # y /\ S = {x, y}
IsTriple(S) == \E x : \E y : \E z : x # y /\ x # z /\ y # z /\ S = {x, y, z}

\* A set that is not empty is a smaller one and one thing more.
LEMMA OneLess ==
    ASSUME NEW S, IsFiniteSet(S), Cardinality(S) # 0
    PROVE  \E x : \E T : /\ x \notin T /\ S = T \cup {x} /\ IsFiniteSet(T)
                         /\ Cardinality(T) = Cardinality(S) - 1
<1>1. S # {}
  BY FS_EmptySet, Zenon
<1>2. PICK x : x \in S
  BY <1>1, Zenon
<1>3. IsFiniteSet(S \ {x}) /\ Cardinality(S \ {x}) = Cardinality(S) - 1
  BY <1>2, FS_RemoveElement, Zenon
<1>4. x \notin S \ {x} /\ S = (S \ {x}) \cup {x}
  BY <1>2, Zenon
<1> QED
  BY <1>3, <1>4, Zenon

\* A set of one thing, ...
LEMMA OneThing == ASSUME NEW S, IsFiniteSet(S), Cardinality(S) = 1 PROVE \E x : S = {x}
BY FS_Singleton, Zenon

\* ... of two things ...
LEMMA TwoThings == ASSUME NEW S, IsFiniteSet(S), Cardinality(S) = 2 PROVE IsPair(S)
<1>1. Cardinality(S) # 0 /\ Cardinality(S) - 1 = 1
  BY SMT
<1>2. PICK x, T : x \notin T /\ S = T \cup {x} /\ IsFiniteSet(T) /\ Cardinality(T) = 1
  <2>1. PICK x, T : x \notin T /\ S = T \cup {x} /\ IsFiniteSet(T) /\ Cardinality(T) = Cardinality(S) - 1
    BY <1>1, OneLess, Zenon
  <2> QED
    BY <1>1, <2>1, Zenon
<1>3. PICK y : T = {y}
  BY <1>2, OneThing, Zenon
<1>4. y # x /\ S = {y, x}
  BY <1>2, <1>3, Zenon
<1> QED
  BY <1>4, Zenon DEF IsPair

\* ... and of three is what it looks like.
LEMMA ThreeThings == ASSUME NEW S, IsFiniteSet(S), Cardinality(S) = 3 PROVE IsTriple(S)
<1>1. Cardinality(S) # 0 /\ Cardinality(S) - 1 = 2
  BY SMT
<1>2. PICK x, T : x \notin T /\ S = T \cup {x} /\ IsFiniteSet(T) /\ Cardinality(T) = 2
  <2>1. PICK x, T : x \notin T /\ S = T \cup {x} /\ IsFiniteSet(T) /\ Cardinality(T) = Cardinality(S) - 1
    BY <1>1, OneLess, Zenon
  <2> QED
    BY <1>1, <2>1, Zenon
<1>3. PICK y, z : y # z /\ T = {y, z}
  BY <1>2, TwoThings, Zenon DEF IsPair
<1>4. y # x /\ z # x /\ S = {y, z, x}
  BY <1>2, <1>3, Zenon
<1> QED
  BY <1>3, <1>4, Zenon DEF IsTriple

\* Two different things are two, ...
LEMMA PairHasTwo == ASSUME NEW x, NEW y, x # y PROVE Cardinality({x, y}) = 2 /\ IsFiniteSet({x, y})
<1>1. {x} \cup {y} = {x, y} /\ y \notin {x}
  BY Zenon
<1>2. IsFiniteSet({x}) /\ Cardinality({x}) = 1
  BY FS_Singleton, Zenon
<1>3. Cardinality({x, y}) = Cardinality({x}) + 1 /\ IsFiniteSet({x, y})
  BY <1>1, <1>2, FS_AddElement, ZenonT(60)
<1> QED
  BY <1>2, <1>3, SMT

\* ... and three are three.
LEMMA TripleHasThree ==
    ASSUME NEW x, NEW y, NEW z, x # y, x # z, y # z
    PROVE  Cardinality({x, y, z}) = 3
<1>1. {x, y} \cup {z} = {x, y, z} /\ z \notin {x, y}
  BY Zenon
<1>2. IsFiniteSet({x, y}) /\ Cardinality({x, y}) = 2
  BY PairHasTwo, Zenon
<1>3. Cardinality({x, y, z}) = Cardinality({x, y}) + 1
  BY <1>1, <1>2, FS_AddElement, Zenon
<1> QED
  BY <1>2, <1>3, SMT

\* A numbering of some things, each with one number.
Numbered(F, N, f) ==
    /\ N \in Nat /\ \A n \in 1..N : f[n] \in F
    /\ \A x \in F : \E n \in 1..N : x = f[n]
    /\ \A m \in 1..N : \A n \in 1..N : m # n => f[m] # f[n]

\* Some of the things that amount to the whole difference.
Explains(k, F, w, d, S) == S \in SUBSET F /\ Cardinality(S) = k /\ SumOn(w, S) = d

\* One, two or three numbers whose things amount to the difference, each set once.
OneOf(N, f, w, d, S) == \E n \in 1..N : w[f[n]] = d /\ S = {f[n]}
TwoOf(N, f, w, d, S) ==
    \E m \in 1..N : \E n \in 1..N : m < n /\ w[f[m]] + w[f[n]] = d /\ S = {f[m], f[n]}
ThreeOf(N, f, w, d, S) ==
    \E l \in 1..N : \E m \in 1..N : \E n \in 1..N :
        l < m /\ m < n /\ w[f[l]] + w[f[m]] + w[f[n]] = d /\ S = {f[l], f[m], f[n]}

\* The numbers give the sets that explain the difference: those of one, ...
LEMMA OneExplains ==
    ASSUME NEW F, NEW w, Weighs(F, w), NEW N, NEW f, Numbered(F, N, f), NEW d, NEW S
    PROVE  Explains(1, F, w, d, S) <=> OneOf(N, f, w, d, S)
<1>1. ASSUME Explains(1, F, w, d, S) PROVE OneOf(N, f, w, d, S)
  <2>1. S \in SUBSET F /\ Cardinality(S) = 1 /\ SumOn(w, S) = d /\ IsFiniteSet(S)
    BY <1>1, FS_Subset, Zenon DEF Explains, Weighs
  <2>2. PICK x : S = {x}
    BY <2>1, OneThing, Zenon
  <2>3. x \in F
    BY <2>1, <2>2, Zenon
  <2>4. PICK n \in 1..N : x = f[n]
    BY <2>3, Zenon DEF Numbered
  <2>5. SumOn(w, {x}) = w[x]
    BY <2>3, SumOnOne
  <2> QED
    BY <2>1, <2>2, <2>4, <2>5, Zenon DEF OneOf
<1>2. ASSUME OneOf(N, f, w, d, S) PROVE Explains(1, F, w, d, S)
  <2>1. PICK n \in 1..N : w[f[n]] = d /\ S = {f[n]}
    BY <1>2, Zenon DEF OneOf
  <2>2. f[n] \in F
    BY Zenon DEF Numbered
  <2>3. SumOn(w, {f[n]}) = w[f[n]]
    BY <2>2, SumOnOne
  <2>4. Cardinality({f[n]}) = 1
    BY FS_Singleton, Zenon
  <2> QED
    BY <2>1, <2>2, <2>3, <2>4, Zenon DEF Explains
<1> QED
  BY <1>1, <1>2, Zenon

\* ... of two ...
LEMMA TwoExplain ==
    ASSUME NEW F, NEW w, Weighs(F, w), NEW N, NEW f, Numbered(F, N, f), NEW d, NEW S
    PROVE  Explains(2, F, w, d, S) <=> TwoOf(N, f, w, d, S)
<1>0. \A x \in F : w[x] \in Int
  BY Zenon DEF Weighs
<1>N. N \in Nat
  BY Zenon DEF Numbered
<1>1. ASSUME Explains(2, F, w, d, S) PROVE TwoOf(N, f, w, d, S)
  <2>1. S \in SUBSET F /\ Cardinality(S) = 2 /\ SumOn(w, S) = d /\ IsFiniteSet(S)
    BY <1>1, FS_Subset, Zenon DEF Explains, Weighs
  <2>2. PICK x, y : x # y /\ S = {x, y}
    BY <2>1, TwoThings, Zenon DEF IsPair
  <2>3. x \in F /\ y \in F /\ TwoIn(F, x, y)
    BY <2>1, <2>2, Zenon DEF TwoIn
  <2>m. PICK m \in 1..N : x = f[m]
    BY <2>3, Zenon DEF Numbered
  <2>n. PICK n \in 1..N : y = f[n]
    BY <2>3, Zenon DEF Numbered
  <2>4. x = f[m] /\ y = f[n] /\ m \in Int /\ n \in Int
    BY <1>N, <2>m, <2>n, SMT
  <2>5. SumOn(w, {x, y}) = w[x] + w[y]
    BY <2>3, SumOnTwo
  <2>6. w[x] + w[y] = d /\ w[y] + w[x] = d
    <3>1. w[x] + w[y] = w[y] + w[x]
      BY <1>0, <2>3, SMT
    <3> QED
      BY <2>1, <2>2, <2>5, <3>1, Zenon
  <2>7. m < n \/ n < m
    <3>1. m # n
      BY <2>2, <2>4, Zenon
    <3> QED
      BY <2>4, <3>1, SMT
  <2>8. S = {f[m], f[n]} /\ S = {f[n], f[m]}
    BY <2>2, <2>4, Zenon
  <2> QED
    BY <2>4, <2>6, <2>7, <2>8, Zenon DEF TwoOf
<1>2. ASSUME TwoOf(N, f, w, d, S) PROVE Explains(2, F, w, d, S)
  <2>1. PICK m \in 1..N, n \in 1..N : m < n /\ w[f[m]] + w[f[n]] = d /\ S = {f[m], f[n]}
    BY <1>2, Zenon DEF TwoOf
  <2>2. m # n
    BY <2>1, SMT
  <2>3. f[m] \in F /\ f[n] \in F /\ f[m] # f[n] /\ TwoIn(F, f[m], f[n])
    BY <2>2, Zenon DEF Numbered, TwoIn
  <2>4. SumOn(w, {f[m], f[n]}) = w[f[m]] + w[f[n]]
    BY <2>3, SumOnTwo
  <2>6. Cardinality(S) = 2
    BY <2>1, <2>3, PairHasTwo, Zenon
  <2> QED
    BY <2>1, <2>3, <2>4, <2>6, Zenon DEF Explains
<1> QED
  BY <1>1, <1>2, Zenon

\* ... and of three things.
LEMMA ThreeExplain ==
    ASSUME NEW F, NEW w, Weighs(F, w), NEW N, NEW f, Numbered(F, N, f), NEW d, NEW S
    PROVE  Explains(3, F, w, d, S) <=> ThreeOf(N, f, w, d, S)
<1>0. \A x \in F : w[x] \in Int
  BY Zenon DEF Weighs
<1>N. N \in Nat
  BY Zenon DEF Numbered
<1> DEFINE P(l, m, n) == w[f[l]] + w[f[m]] + w[f[n]] = d /\ S = {f[l], f[m], f[n]}
<1>1. ASSUME Explains(3, F, w, d, S) PROVE ThreeOf(N, f, w, d, S)
  <2>1. S \in SUBSET F /\ Cardinality(S) = 3 /\ SumOn(w, S) = d /\ IsFiniteSet(S)
    BY <1>1, FS_Subset, Zenon DEF Explains, Weighs
  <2>2. PICK x, y, z : x # y /\ x # z /\ y # z /\ S = {x, y, z}
    BY <2>1, ThreeThings, Zenon DEF IsTriple
  <2>3. x \in F /\ y \in F /\ z \in F /\ ThreeIn(F, x, y, z)
    BY <2>1, <2>2, Zenon DEF ThreeIn
  <2>l. PICK l \in 1..N : x = f[l]
    BY <2>3, Zenon DEF Numbered
  <2>m. PICK m \in 1..N : y = f[m]
    BY <2>3, Zenon DEF Numbered
  <2>n. PICK n \in 1..N : z = f[n]
    BY <2>3, Zenon DEF Numbered
  <2>4. x = f[l] /\ y = f[m] /\ z = f[n]
    BY <2>l, <2>m, <2>n, Zenon
  <2>5. SumOn(w, {x, y, z}) = w[x] + w[y] + w[z]
    BY <2>3, SumOnThree
  <2>6. P(l, m, n)
    BY <2>1, <2>2, <2>4, <2>5, Zenon
  <2>7. ASSUME NEW a \in 1..N, NEW b \in 1..N, NEW c \in 1..N, P(a, b, c)
        PROVE  P(b, a, c) /\ P(a, c, b)
    <3>1. f[a] \in F /\ f[b] \in F /\ f[c] \in F
      BY Zenon DEF Numbered
    <3>2. /\ w[f[b]] + w[f[a]] + w[f[c]] = w[f[a]] + w[f[b]] + w[f[c]]
          /\ w[f[a]] + w[f[c]] + w[f[b]] = w[f[a]] + w[f[b]] + w[f[c]]
      BY <1>0, <3>1, SMT
    <3>3. {f[b], f[a], f[c]} = {f[a], f[b], f[c]} /\ {f[a], f[c], f[b]} = {f[a], f[b], f[c]}
      BY Zenon
    <3> QED
      BY <2>7, <3>2, <3>3, Zenon
  <2>8. l # m /\ l # n /\ m # n
    BY <2>2, <2>4, Zenon
  <2> HIDE DEF P
  <2>9. \E a \in 1..N : \E b \in 1..N : \E c \in 1..N : a < b /\ b < c /\ P(a, b, c)
    <3>1. P(m, l, n) /\ P(l, n, m)
      BY <2>6, <2>7, Zenon
    <3>2. P(n, l, m) /\ P(m, n, l)
      BY <2>7, <3>1, Zenon
    <3>3. P(n, m, l)
      BY <2>7, <3>2, Zenon
    <3>4. \/ (l < m /\ m < n) \/ (m < l /\ l < n) \/ (l < n /\ n < m)
          \/ (n < l /\ l < m) \/ (m < n /\ n < l) \/ (n < m /\ m < l)
      <4>1. l \in Int /\ m \in Int /\ n \in Int
        BY <1>N, SMT
      <4>2. (l < m \/ m < l) /\ (l < n \/ n < l) /\ (m < n \/ n < m)
        BY <2>8, <4>1, SMT
      <4> QED
        BY <4>2, Zenon
    <3> QED
      BY <2>6, <3>1, <3>2, <3>3, <3>4, Zenon
  <2> QED
    BY <2>9, Zenon DEF ThreeOf, P
<1>2. ASSUME ThreeOf(N, f, w, d, S) PROVE Explains(3, F, w, d, S)
  <2>1. PICK l \in 1..N, m \in 1..N, n \in 1..N :
            l < m /\ m < n /\ w[f[l]] + w[f[m]] + w[f[n]] = d /\ S = {f[l], f[m], f[n]}
    BY <1>2, Zenon DEF ThreeOf
  <2>2. l # m /\ l # n /\ m # n
    BY <2>1, SMT
  <2>3. f[l] \in F /\ f[m] \in F /\ f[n] \in F /\ f[l] # f[m] /\ f[l] # f[n] /\ f[m] # f[n]
    BY <2>2, Zenon DEF Numbered
  <2>4. SumOn(w, {f[l], f[m], f[n]}) = w[f[l]] + w[f[m]] + w[f[n]]
    <3>1. ThreeIn(F, f[l], f[m], f[n])
      BY <2>3, Zenon DEF ThreeIn
    <3> QED
      BY <3>1, SumOnThree
  <2>6. Cardinality(S) = 3
    BY <2>1, <2>3, TripleHasThree, Zenon
  <2> QED
    BY <2>1, <2>3, <2>4, <2>6, Zenon DEF Explains
<1> QED
  BY <1>1, <1>2, Zenon

===============================================================================
