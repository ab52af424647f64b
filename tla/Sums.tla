---------------------------------- MODULE Sums ----------------------------------
(***************************************************************************)
(* SumFunctionOnSet of the community modules adds the values of a function *)
(* over a finite set, one element after another as CHOOSE has it.  These   *)
(* theorems say that the order does not matter.  The ledger, the           *)
(* reservations and the packages are added up with it.                     *)
(***************************************************************************)
EXTENDS Functions, FiniteSets, FiniteSetTheorems, WellFoundedInduction, TLAPS

(* A property of sets that a set has when each of its subsets with one       *)
(* element less has it holds of every finite set.                            *)
THEOREM FiniteInduction ==
  ASSUME NEW S, IsFiniteSet(S), NEW Good,
         \A T \in SUBSET S : (\A x \in T : T \ {x} \in Good) => T \in Good
  PROVE  S \in Good
<1> DEFINE Bad == {T \in SUBSET S : T \notin Good}
<1>1. SUFFICES ASSUME Bad # {} PROVE FALSE
  <2>1. S \in SUBSET S
    OBVIOUS
  <2>2. QED
    BY <2>1
<1>2. \A T \in SUBSET S : IsFiniteSet(T)
  BY FS_Subset
<1>3. Bad \subseteq FiniteSubsetsOf(S)
  BY <1>2 DEF FiniteSubsetsOf
<1>4. PICK T \in Bad : \A U \in Bad : ~(<<U, T>> \in StrictSubsetOrdering(S))
  <2>1. IsWellFoundedOn(StrictSubsetOrdering(S), FiniteSubsetsOf(S))
    BY FS_StrictSubsetOrderingWellFounded
  <2> HIDE DEF Bad
  <2>2. QED
    BY <1>1, <1>3, <2>1, WFMin
<1>5. ASSUME NEW x \in T PROVE T \ {x} \in Good
  <2>1. T \ {x} \in SUBSET S /\ T \in SUBSET S /\ T \ {x} \subseteq T /\ T \ {x} # T
    OBVIOUS
  <2>2. <<T \ {x}, T>> \in StrictSubsetOrdering(S)
    BY <2>1 DEF StrictSubsetOrdering
  <2>3. T \ {x} \notin Bad
    BY <1>4, <2>2
  <2>4. QED
    BY <2>1, <2>3
<1>6. QED
  BY <1>4, <1>5

-------------------------------------------------------------------------------
(* The recursion.                                                            *)

Some(s) == CHOOSE x \in s : TRUE
Total(f, g, s) == IF s = {} THEN 0 ELSE f[Some(s)] + g[s \ {Some(s)}]
Solves(f, g, D) == g = [s \in D |-> Total(f, g, s)]
Iter(f, S) == CHOOSE g : Solves(f, g, SUBSET S)

LEMMA SumIsIter ==
  ASSUME NEW f, NEW S
  PROVE  SumFunctionOnSet(f, S) = Iter(f, S)[S]
BY Zenon DEF SumFunctionOnSet, FoldFunctionOnSet, MapThenFoldSet, Iter, Solves, Total, Some

LEMMA SomeIsThere == \A s : s # {} => Some(s) \in s
BY DEF Some

(* A solution for the sets of up to n elements extends to those of one more. *)
LEMMA RecursionHasSolution ==
  ASSUME NEW f, NEW S, IsFiniteSet(S)
  PROVE  \E g : Solves(f, g, SUBSET S)
<1> DEFINE Small(n) == {s \in SUBSET S : Cardinality(s) <= n}
           Bad == {n \in Nat : ~ \E g : Solves(f, g, Small(n))}
<1>1. \A s \in SUBSET S : IsFiniteSet(s) /\ Cardinality(s) \in Nat /\ Cardinality(s) <= Cardinality(S)
  BY FS_Subset, FS_CardinalityType
<1>2. Bad = {}
  <2>1. SUFFICES ASSUME Bad # {} PROVE FALSE
    OBVIOUS
  <2>2. PICK n \in Bad : \A m \in Bad : n <= m
    <3>1. OpToRel(<, Nat) = {p \in Nat \X Nat : p[1] < p[2]}
      BY Zenon DEF OpToRel
    <3>2. IsWellFoundedOn({p \in Nat \X Nat : p[1] < p[2]}, Nat)
      BY <3>1, NatLessThanWellFounded, Zenon
    <3>3. Bad \subseteq Nat
      OBVIOUS
    <3>4. PICK n \in Bad : \A m \in Bad : ~(<<m, n>> \in {p \in Nat \X Nat : p[1] < p[2]})
      <4> HIDE DEF Bad
      <4>1. QED
        BY <2>1, <3>2, <3>3, WFMin
    <3>5. ASSUME NEW m \in Bad PROVE n <= m
      <4>1. m \in Nat /\ n \in Nat
        BY <3>3
      <4>2. ~(m < n)
        BY <4>1, <3>4
      <4>3. QED
        BY <4>1, <4>2
    <3>6. QED
      BY <3>5
  <2>3. n \in Nat /\ ~ \E g : Solves(f, g, Small(n))
    OBVIOUS
  <2>4. n # 0
    <3> DEFINE g == [s \in Small(0) |-> 0]
    <3>1. \A s \in Small(0) : s = {}
      BY <1>1, FS_EmptySet
    <3>2. \A s \in Small(0) : Total(f, g, s) = 0
      BY <3>1 DEF Total
    <3>3. Solves(f, g, Small(0))
      BY <3>2 DEF Solves
    <3>4. QED
      BY <3>3, <2>3
  <2>5. n - 1 \in Nat /\ n - 1 \notin Bad
    <3>1. n - 1 \in Nat /\ ~(n <= n - 1)
      BY <2>3, <2>4
    <3>2. QED
      BY <3>1, <2>2
  <2>6. PICK h : Solves(f, h, Small(n - 1))
    BY <2>5
  <2> DEFINE g == [s \in Small(n) |-> Total(f, h, s)]
  <2>7. ASSUME NEW s \in Small(n) PROVE Total(f, h, s) = Total(f, g, s)
    <3>1. CASE s = {}
      BY <3>1 DEF Total
    <3>2. CASE s # {}
      <4> DEFINE t == s \ {Some(s)}
      <4>1. Some(s) \in s
        BY <3>2, SomeIsThere
      <4>2. t \in SUBSET S /\ Cardinality(t) = Cardinality(s) - 1
        BY <1>1, <4>1, FS_RemoveElement
      <4>3. t \in Small(n - 1) /\ t \in Small(n)
        BY <4>2, <1>1, <2>3
      <4>4. h[t] = Total(f, h, t)
        BY <2>6, <4>3 DEF Solves
      <4>5. g[t] = Total(f, h, t)
        BY <4>3
      <4>6. QED
        BY <3>2, <4>4, <4>5 DEF Total
    <3>3. QED
      BY <3>1, <3>2
  <2>8. Solves(f, g, Small(n))
    <3>1. [s \in Small(n) |-> Total(f, h, s)] = [s \in Small(n) |-> Total(f, g, s)]
      <4> HIDE DEF g
      <4>1. QED
        BY <2>7, Zenon
    <3>2. QED
      BY <3>1 DEF Solves
  <2>9. QED
    BY <2>3, <2>8
<1>3. Cardinality(S) \in Nat /\ Small(Cardinality(S)) = SUBSET S
  BY <1>1
<1>4. QED
  BY <1>2, <1>3

LEMMA IterSolves ==
  ASSUME NEW f, NEW S, IsFiniteSet(S)
  PROVE  \A s \in SUBSET S : Iter(f, S)[s] = Total(f, Iter(f, S), s)
<1>1. Solves(f, Iter(f, S), SUBSET S)
  BY RecursionHasSolution, Zenon DEF Iter
<1>2. Iter(f, S) = [s \in SUBSET S |-> Total(f, Iter(f, S), s)]
  BY <1>1, Zenon DEF Solves
<1>3. QED
  BY <1>2, Zenon

(* Two recursions agree where both are defined, so each subset has its sum.  *)
LEMMA IterIsSum ==
  ASSUME NEW f, NEW S, IsFiniteSet(S), NEW T \in SUBSET S
  PROVE  Iter(f, S)[T] = SumFunctionOnSet(f, T)
<1> DEFINE Good == {s \in SUBSET T : Iter(f, S)[s] = Iter(f, T)[s]}
<1>1. IsFiniteSet(T)
  BY FS_Subset
<1>2. ASSUME NEW s \in SUBSET T, \A x \in s : s \ {x} \in Good PROVE s \in Good
  <2>1. /\ Iter(f, S)[s] = Total(f, Iter(f, S), s)
        /\ Iter(f, T)[s] = Total(f, Iter(f, T), s)
    BY <1>1, IterSolves
  <2>2. s # {} => Iter(f, S)[s \ {Some(s)}] = Iter(f, T)[s \ {Some(s)}]
    BY <1>2, SomeIsThere
  <2>3. QED
    BY <2>1, <2>2 DEF Total
<1>3. T \in Good
  <2> HIDE DEF Good
  <2>1. QED
    BY <1>1, <1>2, FiniteInduction
<1>4. QED
  BY <1>3, SumIsIter

-------------------------------------------------------------------------------
(* What may be used of sums.                                                 *)

THEOREM SumEmpty == ASSUME NEW f PROVE SumFunctionOnSet(f, {}) = 0
<1>1. IsFiniteSet({})
  BY FS_EmptySet
<1>2. Iter(f, {})[{}] = Total(f, Iter(f, {}), {})
  BY <1>1, IterSolves
<1>3. QED
  BY <1>2, SumIsIter DEF Total

LEMMA SumByChoice ==
  ASSUME NEW f, NEW S, IsFiniteSet(S), S # {}
  PROVE  SumFunctionOnSet(f, S) = f[Some(S)] + SumFunctionOnSet(f, S \ {Some(S)})
<1>1. Iter(f, S)[S] = f[Some(S)] + Iter(f, S)[S \ {Some(S)}]
  BY IterSolves DEF Total
<1>2. Iter(f, S)[S \ {Some(S)}] = SumFunctionOnSet(f, S \ {Some(S)})
  BY IterIsSum
<1>3. QED
  BY <1>1, <1>2, SumIsIter

(* A sum of integers is one, and a sum of naturals is one.                   *)
THEOREM SumType ==
  ASSUME NEW f, NEW S, IsFiniteSet(S), \A x \in S : f[x] \in Int
  PROVE  SumFunctionOnSet(f, S) \in Int
<1> DEFINE Good == {T \in SUBSET S : SumFunctionOnSet(f, T) \in Int}
<1>1. ASSUME NEW T \in SUBSET S, \A x \in T : T \ {x} \in Good PROVE T \in Good
  <2>1. CASE T = {}
    BY <2>1, SumEmpty
  <2>2. CASE T # {}
    <3>1. IsFiniteSet(T) /\ Some(T) \in T /\ f[Some(T)] \in Int
      BY <2>2, FS_Subset, SomeIsThere
    <3>2. SumFunctionOnSet(f, T \ {Some(T)}) \in Int
      BY <1>1, <3>1
    <3>3. QED
      BY <2>2, <3>1, <3>2, SumByChoice
  <2>3. QED
    BY <2>1, <2>2
<1>2. S \in Good
  <2> HIDE DEF Good
  <2>1. QED
    BY <1>1, FiniteInduction
<1>3. QED
  BY <1>2

(* Any element may be added last.                                            *)
THEOREM SumTakeOut ==
  ASSUME NEW f, NEW S, IsFiniteSet(S), \A x \in S : f[x] \in Int, NEW a \in S
  PROVE  SumFunctionOnSet(f, S) = f[a] + SumFunctionOnSet(f, S \ {a})
<1> DEFINE Good == {T \in SUBSET S :
             \A x \in T : SumFunctionOnSet(f, T) = f[x] + SumFunctionOnSet(f, T \ {x})}
<1>1. ASSUME NEW T \in SUBSET S, \A x \in T : T \ {x} \in Good PROVE T \in Good
  <2>1. SUFFICES ASSUME NEW x \in T
                 PROVE  SumFunctionOnSet(f, T) = f[x] + SumFunctionOnSet(f, T \ {x})
    OBVIOUS
  <2> DEFINE c == Some(T)
  <2>2. IsFiniteSet(T) /\ c \in T
    BY FS_Subset, SomeIsThere
  <2>3. SumFunctionOnSet(f, T) = f[c] + SumFunctionOnSet(f, T \ {c})
    BY <2>2, SumByChoice
  <2> HIDE DEF c
  <2>4. CASE x = c
    BY <2>3, <2>4
  <2>5. CASE x # c
    <3>1. SumFunctionOnSet(f, T \ {c}) = f[x] + SumFunctionOnSet(f, (T \ {c}) \ {x})
      <4>1. T \ {c} \in Good /\ x \in T \ {c}
        BY <1>1, <2>2, <2>5
      <4>2. QED
        BY <4>1
    <3>2. SumFunctionOnSet(f, T \ {x}) = f[c] + SumFunctionOnSet(f, (T \ {x}) \ {c})
      <4>1. T \ {x} \in Good /\ c \in T \ {x}
        BY <1>1, <2>2, <2>5
      <4>2. QED
        BY <4>1
    <3>3. (T \ {c}) \ {x} = (T \ {x}) \ {c}
      OBVIOUS
    <3>4. SumFunctionOnSet(f, (T \ {x}) \ {c}) \in Int /\ f[x] \in Int /\ f[c] \in Int
      <4>1. (T \ {x}) \ {c} \in SUBSET S
        OBVIOUS
      <4>2. IsFiniteSet((T \ {x}) \ {c})
        BY <4>1, FS_Subset
      <4>3. SumFunctionOnSet(f, (T \ {x}) \ {c}) \in Int
        BY <4>1, <4>2, SumType
      <4>4. QED
        BY <4>3, <2>2
    <3>5. /\ SumFunctionOnSet(f, T \ {c}) = f[x] + SumFunctionOnSet(f, (T \ {x}) \ {c})
          /\ SumFunctionOnSet(f, T) = f[c] + (f[x] + SumFunctionOnSet(f, (T \ {x}) \ {c}))
      BY <2>3, <3>1, <3>3, Zenon
    <3>6. QED
      BY <3>2, <3>4, <3>5
  <2>6. QED
    BY <2>4, <2>5
<1>2. S \in Good
  <2> HIDE DEF Good
  <2>1. QED
    BY <1>1, FiniteInduction
<1>3. QED
  BY <1>2

(* A sum looks at nothing but the values it adds.                            *)
THEOREM SumAgrees ==
  ASSUME NEW f, NEW g, NEW S, IsFiniteSet(S), \A x \in S : f[x] = g[x]
  PROVE  SumFunctionOnSet(f, S) = SumFunctionOnSet(g, S)
<1> DEFINE Good == {T \in SUBSET S : SumFunctionOnSet(f, T) = SumFunctionOnSet(g, T)}
<1>1. ASSUME NEW T \in SUBSET S, \A x \in T : T \ {x} \in Good PROVE T \in Good
  <2>1. CASE T = {}
    BY <2>1, SumEmpty
  <2>2. CASE T # {}
    <3>1. IsFiniteSet(T) /\ Some(T) \in T
      BY <2>2, FS_Subset, SomeIsThere
    <3>2. SumFunctionOnSet(f, T \ {Some(T)}) = SumFunctionOnSet(g, T \ {Some(T)}) /\ f[Some(T)] = g[Some(T)]
      BY <1>1, <3>1
    <3>3. QED
      BY <2>2, <3>1, <3>2, SumByChoice
  <2>3. QED
    BY <2>1, <2>2
<1>2. S \in Good
  <2> HIDE DEF Good
  <2>1. QED
    BY <1>1, FiniteInduction
<1>3. QED
  BY <1>2

(* One value changes: the sum changes by as much.                            *)
THEOREM SumChange ==
  ASSUME NEW f, NEW g, NEW S, IsFiniteSet(S), NEW a \in S,
         \A x \in S : f[x] \in Int /\ g[x] \in Int,
         \A x \in S \ {a} : f[x] = g[x]
  PROVE  SumFunctionOnSet(g, S) = SumFunctionOnSet(f, S) + (g[a] - f[a])
<1>1. IsFiniteSet(S \ {a})
  BY FS_RemoveElement
<1>2. SumFunctionOnSet(f, S \ {a}) = SumFunctionOnSet(g, S \ {a}) /\ SumFunctionOnSet(f, S \ {a}) \in Int
  BY <1>1, SumAgrees, SumType
<1>3. /\ SumFunctionOnSet(f, S) = f[a] + SumFunctionOnSet(f, S \ {a})
      /\ SumFunctionOnSet(g, S) = g[a] + SumFunctionOnSet(g, S \ {a})
  BY SumTakeOut
<1>4. QED
  BY <1>2, <1>3

THEOREM SumOfZeros ==
  ASSUME NEW f, NEW S, IsFiniteSet(S), \A x \in S : f[x] = 0
  PROVE  SumFunctionOnSet(f, S) = 0
<1> DEFINE Good == {T \in SUBSET S : SumFunctionOnSet(f, T) = 0}
<1>1. ASSUME NEW T \in SUBSET S, \A x \in T : T \ {x} \in Good PROVE T \in Good
  <2>1. CASE T = {}
    BY <2>1, SumEmpty
  <2>2. CASE T # {}
    <3>1. IsFiniteSet(T) /\ Some(T) \in T /\ f[Some(T)] = 0
      BY <2>2, FS_Subset, SomeIsThere
    <3>2. SumFunctionOnSet(f, T \ {Some(T)}) = 0
      BY <1>1, <3>1
    <3>3. QED
      BY <2>2, <3>1, <3>2, SumByChoice
  <2>3. QED
    BY <2>1, <2>2
<1>2. S \in Good
  <2> HIDE DEF Good
  <2>1. QED
    BY <1>1, FiniteInduction
<1>3. QED
  BY <1>2

(* A sum of naturals is a natural, and no term exceeds it.                   *)
THEOREM SumOfNaturals ==
  ASSUME NEW f, NEW S, IsFiniteSet(S), \A x \in S : f[x] \in Nat
  PROVE  SumFunctionOnSet(f, S) \in Nat /\ \A a \in S : f[a] <= SumFunctionOnSet(f, S)
<1> DEFINE Good == {T \in SUBSET S : SumFunctionOnSet(f, T) \in Nat}
<1>1. ASSUME NEW T \in SUBSET S, \A x \in T : T \ {x} \in Good PROVE T \in Good
  <2>1. CASE T = {}
    BY <2>1, SumEmpty
  <2>2. CASE T # {}
    <3>1. IsFiniteSet(T) /\ Some(T) \in T /\ f[Some(T)] \in Nat
      BY <2>2, FS_Subset, SomeIsThere
    <3>2. SumFunctionOnSet(f, T \ {Some(T)}) \in Nat
      BY <1>1, <3>1
    <3>3. QED
      BY <2>2, <3>1, <3>2, SumByChoice
  <2>3. QED
    BY <2>1, <2>2
<1>2. \A T \in SUBSET S : T \in Good
  <2>1. SUFFICES ASSUME NEW T \in SUBSET S PROVE T \in Good
    OBVIOUS
  <2>2. IsFiniteSet(T) /\ \A U \in SUBSET T : U \in SUBSET S
    BY FS_Subset
  <2> HIDE DEF Good
  <2>3. QED
    BY <1>1, <2>2, FiniteInduction
<1>3. ASSUME NEW a \in S PROVE f[a] <= SumFunctionOnSet(f, S)
  <2>1. S \ {a} \in SUBSET S
    OBVIOUS
  <2>2. SumFunctionOnSet(f, S \ {a}) \in Nat
    BY <1>2, <2>1
  <2>3. SumFunctionOnSet(f, S) = f[a] + SumFunctionOnSet(f, S \ {a})
    BY SumTakeOut
  <2>4. f[a] \in Nat
    OBVIOUS
  <2>5. QED
    BY <2>2, <2>3, <2>4
<1>4. SumFunctionOnSet(f, S) \in Nat
  <2>1. S \in SUBSET S
    OBVIOUS
  <2>2. QED
    BY <1>2, <2>1
<1>5. QED
  BY <1>3, <1>4

(* Values that grow make the sum grow.                                       *)
THEOREM SumGrows ==
  ASSUME NEW f, NEW g, NEW S, IsFiniteSet(S),
         \A x \in S : f[x] \in Int /\ g[x] \in Int /\ f[x] <= g[x]
  PROVE  SumFunctionOnSet(f, S) <= SumFunctionOnSet(g, S)
<1> DEFINE Good == {T \in SUBSET S : SumFunctionOnSet(f, T) <= SumFunctionOnSet(g, T)}
<1>1. ASSUME NEW T \in SUBSET S, \A x \in T : T \ {x} \in Good PROVE T \in Good
  <2>1. CASE T = {}
    BY <2>1, SumEmpty
  <2>2. CASE T # {}
    <3> DEFINE U == T \ {Some(T)}
    <3>1. IsFiniteSet(T) /\ IsFiniteSet(U) /\ Some(T) \in T /\ U \in SUBSET S
      BY <2>2, FS_Subset, SomeIsThere
    <3>2. SumFunctionOnSet(f, U) <= SumFunctionOnSet(g, U) /\ f[Some(T)] <= g[Some(T)]
      BY <1>1, <3>1
    <3>3. SumFunctionOnSet(f, U) \in Int /\ SumFunctionOnSet(g, U) \in Int
      BY <3>1, SumType
    <3>4. /\ SumFunctionOnSet(f, T) = f[Some(T)] + SumFunctionOnSet(f, U)
          /\ SumFunctionOnSet(g, T) = g[Some(T)] + SumFunctionOnSet(g, U)
      BY <2>2, <3>1, SumByChoice
    <3>5. f[Some(T)] \in Int /\ g[Some(T)] \in Int
      BY <3>1
    <3> HIDE DEF U
    <3>6. SumFunctionOnSet(f, T) <= SumFunctionOnSet(g, T)
      BY <3>2, <3>3, <3>4, <3>5
    <3>7. QED
      BY <3>6
  <2>3. QED
    BY <2>1, <2>2
<1>2. S \in Good
  <2> HIDE DEF Good
  <2>1. QED
    BY <1>1, FiniteInduction
<1>3. QED
  BY <1>2

================================================================================
