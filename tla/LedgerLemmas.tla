------------------------------ MODULE LedgerLemmas ------------------------------
(***************************************************************************)
(* Laws of SumFunctionOnSet, the sum that the models use for what a log or *)
(* a set of requests adds up to, and of the remainders in which balances   *)
(* of a fixed width are compared.  The induction theorems of the library   *)
(* take a predicate as a parameter; here the induction is over a set of    *)
(* good cases, which rests on WFMin alone.                                 *)
(***************************************************************************)
EXTENDS FiniteSetsExt, FiniteSetTheorems, TLAPS

(* A set of numbers that holds 0 and is closed under successor holds all. *)
LEMMA NatSetInduction ==
  ASSUME NEW Good, 0 \in Good, \A n \in Nat : n \in Good => n + 1 \in Good
  PROVE  Nat \subseteq Good
<1> DEFINE Bad == Nat \ Good
           Less == {ss \in Nat \X Nat : ss[1] < ss[2]}
<1>1. SUFFICES ASSUME Bad # {} PROVE FALSE
  OBVIOUS
<1>2. IsWellFoundedOn(Less, Nat)
  BY NatLessThanWellFounded DEF OpToRel
<1>3. PICK n \in Bad : \A m \in Bad : ~(<<m, n>> \in Less)
  <2> HIDE DEF Bad, Less
  <2>1. Bad \subseteq Nat
    BY DEF Bad
  <2> QED
    BY <1>1, <1>2, <2>1, WFMin
<1>4. \A m \in Bad : ~(m < n)
  BY <1>3
<1>5. n - 1 \in Nat /\ n - 1 \in Good
  BY <1>4
<1> QED
  BY <1>4, <1>5

(* A set that holds {}, and a subset of S whenever it holds all those with *)
(* one element less, holds every subset of a finite S.                     *)
LEMMA SubsetInduction ==
  ASSUME NEW S, IsFiniteSet(S), NEW Good, {} \in Good,
         \A T \in SUBSET S : T # {} /\ (\A x \in T : T \ {x} \in Good) => T \in Good
  PROVE  SUBSET S \subseteq Good
<1> DEFINE Reached == {n \in Nat : \A T \in SUBSET S : Cardinality(T) = n => T \in Good}
<1>1. \A T \in SUBSET S : IsFiniteSet(T) /\ Cardinality(T) \in Nat
  BY FS_Subset, FS_CardinalityType
<1>2. 0 \in Reached
  BY <1>1, FS_EmptySet
<1>3. ASSUME NEW n \in Nat, n \in Reached PROVE n + 1 \in Reached
  <2>1. SUFFICES ASSUME NEW T \in SUBSET S, Cardinality(T) = n + 1 PROVE T \in Good
    OBVIOUS
  <2>2. T # {}
    <3>1. Cardinality({}) = 0
      BY FS_EmptySet
    <3> QED
      BY <2>1, <3>1
  <2>3. ASSUME NEW x \in T PROVE T \ {x} \in Good
    <3>1. Cardinality(T \ {x}) = Cardinality(T) - 1
      BY <1>1, FS_RemoveElement
    <3>2. Cardinality(T \ {x}) = n
      BY <2>1, <3>1
    <3> QED
      BY <1>3, <3>2
  <2> QED
    BY <2>2, <2>3
<1>4. Nat \subseteq Reached
  <2> HIDE DEF Reached
  <2> QED
    BY <1>2, <1>3, NatSetInduction
<1> QED
  BY <1>1, <1>4

-----------------------------------------------------------------------------
(* The element a sum takes first, and the table of partial sums that the   *)
(* definition of SumFunctionOnSet chooses.                                 *)
First(s) == CHOOSE x \in s : TRUE
IsSums(g, f, U) ==
  g = [s \in U |-> IF s = {} THEN 0 ELSE f[First(s)] + g[s \ {First(s)}]]

AreSums(g, f, S) == IsSums(g, f, SUBSET S)

LEMMA SumIsChosen ==
  ASSUME NEW f, NEW S
  PROVE  SumFunctionOnSet(f, S) = (CHOOSE g : AreSums(g, f, S))[S]
BY DEF SumFunctionOnSet, FoldFunctionOnSet, MapThenFoldSet, AreSums, IsSums, First

LEMMA FirstIn ==
  ASSUME NEW s, s # {}
  PROVE  First(s) \in s
BY DEF First

(* Such a table exists: one for the sets of up to n elements extends to    *)
(* those of n + 1.                                                         *)
LEMMA SumsExist ==
  ASSUME NEW f, NEW S, IsFiniteSet(S)
  PROVE  \E g : AreSums(g, f, S)
<1> DEFINE UpTo(n) == {s \in SUBSET S : Cardinality(s) <= n}
           Done == {n \in Nat : \E g : IsSums(g, f, UpTo(n))}
<1>1. \A s \in SUBSET S : IsFiniteSet(s) /\ Cardinality(s) \in Nat
                           /\ Cardinality(s) <= Cardinality(S)
  BY FS_Subset, FS_CardinalityType
<1>2. Cardinality(S) \in Nat /\ UpTo(Cardinality(S)) = SUBSET S
  BY <1>1
<1>3. ASSUME NEW n \in Nat, NEW s \in UpTo(n + 1), s # {}
      PROVE  s \ {First(s)} \in UpTo(n)
  <2>1. First(s) \in s
    BY <1>3, FirstIn
  <2>2. Cardinality(s \ {First(s)}) = Cardinality(s) - 1
    BY <1>1, <2>1, FS_RemoveElement
  <2> QED
    BY <1>1, <2>2
<1>4. 0 \in Done
  <2> DEFINE g == [s \in UpTo(0) |-> 0]
  <2>1. \A s \in UpTo(0) : s = {}
    BY <1>1, FS_EmptySet
  <2>2. IsSums(g, f, UpTo(0))
    BY <2>1 DEF IsSums
  <2> QED
    BY <2>2
<1>5. ASSUME NEW n \in Nat, n \in Done PROVE n + 1 \in Done
  <2>1. PICK g : IsSums(g, f, UpTo(n))
    BY <1>5
  <2> DEFINE val(h, s) == IF s = {} THEN 0 ELSE f[First(s)] + h[s \ {First(s)}]
             h == [s \in UpTo(n + 1) |-> val(g, s)]
  <2>2. ASSUME NEW s \in UpTo(n) PROVE s \in UpTo(n + 1) /\ h[s] = g[s]
    <3>1. s \in UpTo(n + 1)
      BY <1>1
    <3>2. g[s] = val(g, s)
      BY <2>1 DEF IsSums
    <3> QED
      BY <3>1, <3>2
  <2>3. ASSUME NEW s \in UpTo(n + 1) PROVE h[s] = val(h, s)
    <3>1. CASE s = {}
      BY <3>1
    <3>2. CASE s # {}
      <4>1. s \ {First(s)} \in UpTo(n)
        BY <1>3, <3>2
      <4>2. h[s \ {First(s)}] = g[s \ {First(s)}]
        BY <2>2, <4>1
      <4> HIDE DEF UpTo
      <4> QED
        BY <3>2, <4>2
    <3> QED
      BY <3>1, <3>2
  <2>4. h = [s \in UpTo(n + 1) |-> val(h, s)]
    <3> HIDE DEF UpTo
    <3> QED
      BY <2>3
  <2>5. IsSums(h, f, UpTo(n + 1))
    <3> HIDE DEF UpTo
    <3> QED
      BY <2>4 DEF IsSums
  <2> HIDE DEF h, UpTo
  <2> QED
    BY <2>5
<1>6. Nat \subseteq Done
  <2> HIDE DEF Done
  <2> QED
    BY <1>4, <1>5, NatSetInduction
<1>7. PICK g : IsSums(g, f, UpTo(Cardinality(S)))
  BY <1>2, <1>6
<1> QED
  BY <1>2, <1>7 DEF AreSums

(* The tables of two sets agree on their common subsets. *)
LEMMA SumsAgree ==
  ASSUME NEW f, NEW S, IsFiniteSet(S), NEW T, T \subseteq S,
         NEW g, AreSums(g, f, S), NEW h, AreSums(h, f, T)
  PROVE  g[T] = h[T]
<1> DEFINE Good == {s \in SUBSET T : g[s] = h[s]}
<1>1. IsFiniteSet(T)
  BY FS_Subset
<1>2. {} \in Good
  BY DEF AreSums, IsSums
<1>3. ASSUME NEW s \in SUBSET T, s # {}, \A x \in s : s \ {x} \in Good
      PROVE  s \in Good
  <2>1. First(s) \in s
    BY <1>3, FirstIn
  <2>2. g[s \ {First(s)}] = h[s \ {First(s)}]
    BY <1>3, <2>1
  <2>3. g[s] = f[First(s)] + g[s \ {First(s)}] /\ h[s] = f[First(s)] + h[s \ {First(s)}]
    BY <1>3 DEF AreSums, IsSums
  <2> QED
    BY <2>2, <2>3
<1>4. SUBSET T \subseteq Good
  <2> HIDE DEF Good
  <2> QED
    BY <1>1, <1>2, <1>3, SubsetInduction
<1> QED
  BY <1>4

LEMMA SumIsInTable ==
  ASSUME NEW f, NEW S, IsFiniteSet(S)
  PROVE  \E g : AreSums(g, f, S) /\ SumFunctionOnSet(f, S) = g[S]
<1> DEFINE g == CHOOSE t : AreSums(t, f, S)
<1>1. AreSums(g, f, S)
  BY SumsExist
<1>2. SumFunctionOnSet(f, S) = g[S]
  BY SumIsChosen
<1> QED
  BY <1>1, <1>2

LEMMA SumUnfold ==
  ASSUME NEW f, NEW S, IsFiniteSet(S), S # {}
  PROVE  SumFunctionOnSet(f, S) = f[First(S)] + SumFunctionOnSet(f, S \ {First(S)})
<1>1. PICK T : T = S \ {First(S)}
  OBVIOUS
<1>2. IsFiniteSet(T) /\ T \subseteq S
  BY <1>1, FS_Subset
<1>3. PICK g : AreSums(g, f, S) /\ SumFunctionOnSet(f, S) = g[S]
  BY SumIsInTable
<1>4. PICK h : AreSums(h, f, T) /\ SumFunctionOnSet(f, T) = h[T]
  BY <1>2, SumIsInTable
<1>5. g[S] = f[First(S)] + g[T]
  BY <1>1, <1>3 DEF AreSums, IsSums
<1>6. g[T] = h[T]
  BY <1>2, <1>3, <1>4, SumsAgree
<1> QED
  BY <1>1, <1>3, <1>4, <1>5, <1>6

-----------------------------------------------------------------------------
(* Nothing adds up to 0: an empty log explains nothing. *)
THEOREM SumEmpty ==
  ASSUME NEW f
  PROVE  SumFunctionOnSet(f, {}) = 0
<1>1. PICK g : AreSums(g, f, {}) /\ SumFunctionOnSet(f, {}) = g[{}]
  BY SumIsInTable, FS_EmptySet
<1> QED
  BY <1>1 DEF AreSums, IsSums

(* A sum of integers is one, and so is a sum of natural numbers. *)
THEOREM SumClosed ==
  ASSUME NEW f, NEW S, IsFiniteSet(S), NEW Num \in {Int, Nat}, \A x \in S : f[x] \in Num
  PROVE  SumFunctionOnSet(f, S) \in Num
<1> DEFINE Good == {T \in SUBSET S : SumFunctionOnSet(f, T) \in Num}
<1>1. {} \in Good
  BY SumEmpty
<1>2. ASSUME NEW T \in SUBSET S, T # {}, \A x \in T : T \ {x} \in Good
      PROVE  T \in Good
  <2>1. IsFiniteSet(T) /\ First(T) \in T
    BY <1>2, FS_Subset, FirstIn
  <2>2. SumFunctionOnSet(f, T) = f[First(T)] + SumFunctionOnSet(f, T \ {First(T)})
    BY <1>2, <2>1, SumUnfold
  <2>3. f[First(T)] \in Num /\ SumFunctionOnSet(f, T \ {First(T)}) \in Num
    BY <1>2, <2>1
  <2> QED
    BY <2>2, <2>3
<1>3. SUBSET S \subseteq Good
  <2> HIDE DEF Good
  <2> QED
    BY <1>1, <1>2, SubsetInduction
<1> QED
  BY <1>3

(* Any element of the set can be taken out first. *)
THEOREM SumSplit ==
  ASSUME NEW f, NEW S, IsFiniteSet(S), \A x \in S : f[x] \in Int, NEW e \in S
  PROVE  SumFunctionOnSet(f, S) = SumFunctionOnSet(f, S \ {e}) + f[e]
<1> DEFINE Sum(T) == SumFunctionOnSet(f, T)
           Good == {T \in SUBSET S : \A x \in T : Sum(T) = Sum(T \ {x}) + f[x]}
<1>1. \A T \in SUBSET S : IsFiniteSet(T) /\ Sum(T) \in Int
  BY FS_Subset, SumClosed
<1>2. {} \in Good
  OBVIOUS
<1>3. ASSUME NEW T \in SUBSET S, T # {}, \A x \in T : T \ {x} \in Good
      PROVE  T \in Good
  <2> DEFINE y == First(T)
  <2>1. y \in T /\ Sum(T) = f[y] + Sum(T \ {y})
    BY <1>1, <1>3, FirstIn, SumUnfold
  <2>2. ASSUME NEW x \in T, x # y PROVE Sum(T) = Sum(T \ {x}) + f[x]
    <3> HIDE DEF y, Sum
    <3>1. Sum(T \ {y}) = Sum((T \ {y}) \ {x}) + f[x]
      BY <1>3, <2>1, <2>2
    <3>2. Sum(T \ {x}) = Sum((T \ {x}) \ {y}) + f[y]
      BY <1>3, <2>1, <2>2
    <3>3. (T \ {x}) \ {y} = (T \ {y}) \ {x}
      OBVIOUS
    <3>4. f[x] \in Int /\ f[y] \in Int /\ Sum((T \ {y}) \ {x}) \in Int
      BY <1>1, <2>1
    <3>5. Sum(T) = f[y] + (Sum((T \ {y}) \ {x}) + f[x])
      BY <2>1, <3>1
    <3>6. Sum(T \ {x}) = Sum((T \ {y}) \ {x}) + f[y]
      BY <3>2, <3>3
    <3> QED
      BY <3>4, <3>5, <3>6
  <2>3. Sum(T) = Sum(T \ {y}) + f[y]
    <3> HIDE DEF y, Sum
    <3>1. f[y] \in Int /\ Sum(T \ {y}) \in Int
      BY <1>1, <2>1
    <3> QED
      BY <2>1, <3>1
  <2> HIDE DEF y, Sum
  <2> QED
    BY <2>2, <2>3
<1>4. SUBSET S \subseteq Good
  <2> HIDE DEF Good
  <2> QED
    BY <1>2, <1>3, SubsetInduction
<1> QED
  BY <1>4

(* A log with one more record adds up to as much more. *)
THEOREM SumAdd ==
  ASSUME NEW f, NEW S, IsFiniteSet(S), NEW e, e \notin S,
         \A x \in S \cup {e} : f[x] \in Int
  PROVE  SumFunctionOnSet(f, S \cup {e}) = SumFunctionOnSet(f, S) + f[e]
<1>1. IsFiniteSet(S \cup {e}) /\ (S \cup {e}) \ {e} = S
  BY FS_AddElement
<1> QED
  BY <1>1, SumSplit

(* A part of a sum of natural numbers is no larger than the whole. *)
THEOREM SumMonotone ==
  ASSUME NEW f, NEW S, IsFiniteSet(S), \A x \in S : f[x] \in Nat, NEW T, T \subseteq S
  PROVE  SumFunctionOnSet(f, T) <= SumFunctionOnSet(f, S)
<1> DEFINE Sum(U) == SumFunctionOnSet(f, U)
           Good == {U \in SUBSET (S \ T) : Sum(T) <= Sum(T \cup U)}
<1>1. \A U \in SUBSET S : IsFiniteSet(U) /\ Sum(U) \in Nat
  BY FS_Subset, SumClosed
<1>2. {} \in Good
  <2>1. T \cup {} = T
    OBVIOUS
  <2> HIDE DEF Sum
  <2> QED
    BY <1>1, <2>1
<1>3. ASSUME NEW U \in SUBSET (S \ T), U # {}, \A x \in U : U \ {x} \in Good
      PROVE  U \in Good
  <2> PICK x \in U : TRUE
    BY <1>3
  <2> DEFINE V == T \cup (U \ {x})
  <2>1. V \subseteq S /\ x \notin V /\ V \cup {x} = T \cup U /\ x \in S
    OBVIOUS
  <2>2. Sum(V \cup {x}) = Sum(V) + f[x]
    <3> HIDE DEF V
    <3>1. \A y \in V \cup {x} : f[y] \in Int
      BY <2>1
    <3>2. IsFiniteSet(V)
      BY <1>1, <2>1
    <3>3. x \notin V
      BY <2>1
    <3> HIDE DEF Good
    <3> QED
      BY <3>1, <3>2, <3>3, SumAdd
  <2>3. Sum(T) <= Sum(V)
    BY <1>3
  <2>4. Sum(T) \in Nat /\ Sum(V) \in Nat /\ f[x] \in Nat
    BY <1>1, <2>1
  <2>5. Sum(T \cup U) = Sum(V) + f[x]
    BY <2>1, <2>2
  <2>6. Sum(T) <= Sum(T \cup U)
    <3> DEFINE A == Sum(T)
               B == Sum(V)
               C == Sum(T \cup U)
               D == f[x]
    <3>1. A \in Nat /\ B \in Nat /\ D \in Nat /\ A <= B /\ C = B + D
      BY <2>3, <2>4, <2>5
    <3> HIDE DEF A, B, C, D
    <3>2. A <= C
      BY <3>1
    <3> QED
      BY <3>2 DEF A, C
  <2> QED
    BY <2>6
<1>4. SUBSET (S \ T) \subseteq Good
  <2>1. IsFiniteSet(S \ T)
    BY FS_Subset
  <2> HIDE DEF Good
  <2> QED
    BY <1>2, <1>3, <2>1, SubsetInduction
<1>5. S \ T \in Good /\ T \cup (S \ T) = S
  BY <1>4
<1> QED
  BY <1>5

(* Only the values on the set matter. *)
THEOREM SumSame ==
  ASSUME NEW f, NEW g, NEW S, IsFiniteSet(S), \A x \in S : f[x] = g[x]
  PROVE  SumFunctionOnSet(f, S) = SumFunctionOnSet(g, S)
<1> DEFINE Good == {T \in SUBSET S : SumFunctionOnSet(f, T) = SumFunctionOnSet(g, T)}
<1>1. {} \in Good
  BY SumEmpty
<1>2. ASSUME NEW T \in SUBSET S, T # {}, \A x \in T : T \ {x} \in Good
      PROVE  T \in Good
  <2>1. IsFiniteSet(T) /\ First(T) \in T
    BY <1>2, FS_Subset, FirstIn
  <2>2. /\ SumFunctionOnSet(f, T) = f[First(T)] + SumFunctionOnSet(f, T \ {First(T)})
        /\ SumFunctionOnSet(g, T) = g[First(T)] + SumFunctionOnSet(g, T \ {First(T)})
    BY <1>2, <2>1, SumUnfold
  <2>3. SumFunctionOnSet(f, T \ {First(T)}) = SumFunctionOnSet(g, T \ {First(T)})
    BY <1>2, <2>1
  <2> QED
    BY <2>1, <2>2, <2>3
<1>3. SUBSET S \subseteq Good
  <2> HIDE DEF Good
  <2> QED
    BY <1>1, <1>2, SubsetInduction
<1> QED
  BY <1>3

(* A change of one value changes the sum by as much. *)
THEOREM SumUpdate ==
  ASSUME NEW f, NEW g, NEW S, IsFiniteSet(S), NEW e \in S,
         \A x \in S : f[x] \in Int, g[e] \in Int,
         \A x \in S \ {e} : f[x] = g[x]
  PROVE  SumFunctionOnSet(g, S) = SumFunctionOnSet(f, S) + g[e] - f[e]
<1>1. IsFiniteSet(S \ {e})
  BY FS_RemoveElement
<1>2. SumFunctionOnSet(g, S \ {e}) = SumFunctionOnSet(f, S \ {e})
  BY <1>1, SumSame
<1>3. SumFunctionOnSet(f, S) = SumFunctionOnSet(f, S \ {e}) + f[e]
  BY SumSplit
<1>4. SumFunctionOnSet(g, S) = SumFunctionOnSet(g, S \ {e}) + g[e]
  <2>1. \A x \in S : g[x] \in Int
    OBVIOUS
  <2> QED
    BY <2>1, SumSplit
<1>5. SumFunctionOnSet(f, S \ {e}) \in Int /\ f[e] \in Int
  BY <1>1, SumClosed
<1> QED
  BY <1>2, <1>3, <1>4, <1>5

(* Elements with value 0 can be left out. *)
THEOREM SumOfSupport ==
  ASSUME NEW f, NEW S, IsFiniteSet(S), NEW T, T \subseteq S,
         \A x \in T : f[x] \in Int, \A x \in S \ T : f[x] = 0
  PROVE  SumFunctionOnSet(f, S) = SumFunctionOnSet(f, T)
<1> DEFINE Good == {U \in SUBSET S : SumFunctionOnSet(f, U) = SumFunctionOnSet(f, U \cap T)}
<1>1. {} \in Good
  OBVIOUS
<1>2. ASSUME NEW U \in SUBSET S, U # {}, \A x \in U : U \ {x} \in Good
      PROVE  U \in Good
  <2>1. PICK e \in U : TRUE
    BY <1>2
  <2>2. IsFiniteSet(U) /\ IsFiniteSet(U \cap T) /\ \A x \in S : f[x] \in Int
    BY FS_Subset
  <2>3. SumFunctionOnSet(f, U) = SumFunctionOnSet(f, U \ {e}) + f[e]
    BY <2>1, <2>2, SumSplit
  <2>4. SumFunctionOnSet(f, U \ {e}) = SumFunctionOnSet(f, (U \ {e}) \cap T)
    BY <1>2, <2>1
  <2>5. SumFunctionOnSet(f, (U \ {e}) \cap T) \in Int
    BY <2>2, FS_Subset, SumClosed
  <2>6. CASE e \in T
    <3>1. (U \cap T) \ {e} = (U \ {e}) \cap T
      OBVIOUS
    <3>2. SumFunctionOnSet(f, U \cap T) = SumFunctionOnSet(f, (U \cap T) \ {e}) + f[e]
      BY <2>1, <2>2, <2>6, SumSplit
    <3> QED
      BY <2>3, <2>4, <3>1, <3>2
  <2>7. CASE e \notin T
    <3>1. f[e] = 0 /\ (U \ {e}) \cap T = U \cap T
      BY <2>1, <2>7
    <3>2. SumFunctionOnSet(f, U) = SumFunctionOnSet(f, (U \ {e}) \cap T)
      BY <2>3, <2>4, <2>5, <3>1
    <3> QED
      BY <3>1, <3>2
  <2> QED
    BY <2>6, <2>7
<1>3. SUBSET S \subseteq Good
  <2> HIDE DEF Good
  <2> QED
    BY <1>1, <1>2, SubsetInduction
<1>4. S \cap T = T
  OBVIOUS
<1> QED
  BY <1>3, <1>4

(* The sum of the opposites is the opposite of the sum. *)
THEOREM SumOfOpposites ==
  ASSUME NEW f, NEW g, NEW S, IsFiniteSet(S),
         \A x \in S : f[x] \in Int /\ g[x] = -f[x]
  PROVE  SumFunctionOnSet(g, S) = -SumFunctionOnSet(f, S)
<1> DEFINE Good == {T \in SUBSET S : SumFunctionOnSet(g, T) = -SumFunctionOnSet(f, T)}
<1>1. {} \in Good
  BY SumEmpty
<1>2. ASSUME NEW T \in SUBSET S, T # {}, \A x \in T : T \ {x} \in Good
      PROVE  T \in Good
  <2>1. PICK e \in T : TRUE
    BY <1>2
  <2>2. IsFiniteSet(T) /\ \A x \in T : f[x] \in Int /\ g[x] \in Int
    BY FS_Subset
  <2>3. /\ SumFunctionOnSet(f, T) = SumFunctionOnSet(f, T \ {e}) + f[e]
        /\ SumFunctionOnSet(g, T) = SumFunctionOnSet(g, T \ {e}) + g[e]
    BY <2>1, <2>2, SumSplit
  <2>4. SumFunctionOnSet(g, T \ {e}) = -SumFunctionOnSet(f, T \ {e})
    BY <1>2, <2>1
  <2>5. SumFunctionOnSet(f, T \ {e}) \in Int
    BY <2>2, FS_Subset, SumClosed
  <2>6. f[e] \in Int /\ g[e] = -f[e]
    BY <2>1
  <2> QED
    BY <2>3, <2>4, <2>5, <2>6
<1>3. SUBSET S \subseteq Good
  <2> HIDE DEF Good
  <2> QED
    BY <1>1, <1>2, SubsetInduction
<1> QED
  BY <1>3

-----------------------------------------------------------------------------
(* Remainders.  Two numbers have the same one just when they differ by a   *)
(* multiple of the modulus, and such differences add up.                   *)
LEMMA MultipleSmall ==
  ASSUME NEW k \in Int, NEW w \in Nat, w > 0, k * w < w, k * w > 0 - w
  PROVE  k = 0
<1>1. CASE k >= 1
  <2>1. k * w >= 1 * w
    BY <1>1
  <2> QED
    BY <2>1
<1>2. CASE k <= 0 - 1
  <2>1. k * w <= (0 - 1) * w
    BY <1>2
  <2> QED
    BY <2>1
<1> QED
  BY <1>1, <1>2

(* x and y differ by a multiple of w. *)
Congruent(x, y, w) == \E k \in Int : x - y = k * w

LEMMA ModIs ==
  ASSUME NEW y \in Int, NEW w \in Nat, w > 0
  PROVE  /\ y % w \in 0 .. (w - 1)
         /\ y % w \in Int
         /\ Congruent(y, y % w, w)
<1>1. y % w \in 0 .. (w - 1) /\ y % w \in Int /\ y \div w \in Int
  OBVIOUS
<1>2. y - (y % w) = (y \div w) * w
  OBVIOUS
<1> QED
  BY <1>1, <1>2 DEF Congruent

LEMMA CongruentSum ==
  ASSUME NEW w \in Nat, NEW a \in Int, NEW b \in Int, NEW c \in Int, NEW d \in Int,
         Congruent(a, b, w), Congruent(c, d, w)
  PROVE  Congruent(a + c, b + d, w) /\ Congruent(a - c, b - d, w)
<1>1. PICK k \in Int : a - b = k * w
  BY DEF Congruent
<1>2. PICK l \in Int : c - d = l * w
  BY DEF Congruent
<1>3. (a + c) - (b + d) = (k + l) * w /\ k + l \in Int
  BY <1>1, <1>2
<1>4. (a - c) - (b - d) = (k - l) * w /\ k - l \in Int
  BY <1>1, <1>2
<1> QED
  BY <1>3, <1>4 DEF Congruent

LEMMA CongruentSame ==
  ASSUME NEW w \in Nat, NEW a \in Int
  PROVE  Congruent(a, a, w)
<1>1. a - a = 0 * w
  OBVIOUS
<1> QED
  BY <1>1 DEF Congruent

LEMMA CongruentSwap ==
  ASSUME NEW w \in Nat, NEW a \in Int, NEW b \in Int, Congruent(a, b, w)
  PROVE  Congruent(b, a, w)
<1>1. PICK k \in Int : a - b = k * w
  BY DEF Congruent
<1>2. -k \in Int /\ b - a = (-k) * w
  BY <1>1
<1> QED
  BY <1>2 DEF Congruent

LEMMA CongruentChain ==
  ASSUME NEW w \in Nat, NEW a \in Int, NEW b \in Int, NEW c \in Int,
         Congruent(a, b, w), Congruent(b, c, w)
  PROVE  Congruent(a, c, w)
<1>1. Congruent(a + b, b + c, w)
  BY CongruentSum
<1>2. PICK k \in Int : (a + b) - (b + c) = k * w
  BY <1>1 DEF Congruent
<1>3. a - c = k * w
  BY <1>2
<1> QED
  BY <1>3 DEF Congruent

(* Two numbers below w that are congruent are the same. *)
LEMMA CongruentSmall ==
  ASSUME NEW w \in Nat, w > 0, NEW x \in 0 .. (w - 1), NEW y \in 0 .. (w - 1),
         Congruent(x, y, w)
  PROVE  x = y
<1>1. PICK k \in Int : x - y = k * w
  BY DEF Congruent
<1>2. k * w < w /\ k * w > 0 - w
  BY <1>1
<1>3. k = 0
  BY <1>2, MultipleSmall
<1> QED
  BY <1>1, <1>3

(* The two readings of a stored balance: as the remainder of its history,  *)
(* and as congruent to it.                                                 *)
THEOREM ModCongruent ==
  ASSUME NEW w \in Nat, w > 0, NEW x \in Int, NEW y \in Int
  PROVE  (x % w = y % w) <=> Congruent(x, y, w)
<1>1. /\ x % w \in 0 .. (w - 1) /\ y % w \in 0 .. (w - 1) /\ x % w \in Int /\ y % w \in Int
      /\ Congruent(x, x % w, w) /\ Congruent(y, y % w, w)
  BY ModIs
<1>2. Congruent(x % w, x, w) /\ Congruent(y % w, y, w)
  BY <1>1, CongruentSwap
<1>3. ASSUME x % w = y % w PROVE Congruent(x, y, w)
  BY <1>1, <1>2, <1>3, CongruentChain
<1>4. ASSUME Congruent(x, y, w) PROVE x % w = y % w
  <2>1. Congruent(x % w, y, w)
    BY <1>1, <1>2, <1>4, CongruentChain
  <2>2. Congruent(x % w, y % w, w)
    BY <1>1, <2>1, CongruentChain
  <2> QED
    BY <1>1, <2>2, CongruentSmall
<1> QED
  BY <1>3, <1>4

(* A balance stays congruent to its history when both move by d. *)
THEOREM CongruentMoves ==
  ASSUME NEW w \in Nat, NEW a \in Int, NEW b \in Int, NEW c \in Int, NEW d \in Int,
         Congruent(a, b, w), Congruent(c, a + d, w)
  PROVE  Congruent(c, b + d, w)
<1>1. Congruent(a + d, b + d, w)
  BY CongruentSame, CongruentSum
<1> QED
  BY <1>1, CongruentChain
=============================================================================
