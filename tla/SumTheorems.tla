---------------------------- MODULE SumTheorems ----------------------------
(***************************************************************************)
(* Facts about SumFunctionOnSet of the community modules, with which the   *)
(* accounts of the system are stated.  It is recursive over finite sets.   *)
(* The induction theorems of the library take an operator as a parameter,  *)
(* which the provers cannot instantiate, so the induction is carried out   *)
(* here, over a set in place of the operator, from the well-foundedness of *)
(* proper inclusion.                                                       *)
(***************************************************************************)
EXTENDS Integers, FiniteSets, Functions, FiniteSetTheorems, WellFoundedInduction, TLAPS

\* The element the sum takes out of a set, what it makes of the rest, and what it
\* is to solve that recursion for all subsets of a set.
Chosen(s) == CHOOSE x \in s : TRUE
SumStep(f, g, s) == IF s = {} THEN 0 ELSE f[Chosen(s)] + g[s \ {Chosen(s)}]
SumsUp(f, g, S) == \A s \in SUBSET S : g[s] = SumStep(f, g, s)

\* Induction over the subsets of a finite set: a set that has every subset whose
\* proper subsets it has, has them all.  From the library: the proper subsets of a
\* finite set are well-founded, so a counterexample would have a smallest one.
LEMMA FiniteInduction ==
  ASSUME NEW S, IsFiniteSet(S), NEW A,
         \A T \in SUBSET S : (\A U \in SUBSET T : U # T => U \in A) => T \in A
  PROVE  S \in A
<1> SUFFICES ASSUME S \notin A PROVE FALSE
    OBVIOUS
<1> DEFINE B == {T \in SUBSET S : T \notin A}
           R == StrictSubsetOrdering(S)
<1>1. B \subseteq FiniteSubsetsOf(S) /\ B # {}
      BY FS_Subset DEF FiniteSubsetsOf
<1>2. IsWellFoundedOn(R, FiniteSubsetsOf(S))
      BY FS_StrictSubsetOrderingWellFounded
<1>3. PICK T \in B : \A U \in B : <<U, T>> \notin R
      <2> HIDE DEF B, R
      <2> QED BY <1>1, <1>2, WFMin
<1>4. ASSUME NEW U \in SUBSET T, U # T, U \notin A PROVE FALSE
      <2>1. U \in B
            BY <1>3, <1>4
      <2>2. <<U, T>> \in R
            BY <1>3, <1>4 DEF StrictSubsetOrdering
      <2> QED BY <1>3, <2>1, <2>2
<1> QED BY <1>3, <1>4

\* The same over the numbers, through the subsets of 1..n.
LEMMA NatSetInduction ==
  ASSUME NEW A, 0 \in A, \A n \in Nat : n \in A => n + 1 \in A
  PROVE  Nat \subseteq A
<1> SUFFICES ASSUME NEW n \in Nat PROVE n \in A
    OBVIOUS
<1> DEFINE S == 1..n
           B == {T \in SUBSET S : Cardinality(T) \in A}
<1>1. IsFiniteSet(S) /\ Cardinality(S) = n
      BY FS_Interval
<1>3. ASSUME NEW T \in SUBSET S, \A U \in SUBSET T : U # T => U \in B PROVE T \in B
      <2>1. IsFiniteSet(T) /\ Cardinality(T) \in Nat
            BY <1>1, FS_Subset, FS_CardinalityType
      <2>2. CASE T = {}
            BY <2>2, FS_EmptySet
      <2>3. CASE T # {}
            <3>1. PICK x \in T : TRUE
                  BY <2>3
            <3>2. T \ {x} \in B
                  BY <1>3, <3>1
            <3>3. Cardinality(T \ {x}) = Cardinality(T) - 1 /\ Cardinality(T \ {x}) \in Nat
                  BY <2>1, <3>1, FS_RemoveElement, FS_CardinalityType
            <3> QED BY <2>1, <3>2, <3>3
      <2> QED BY <2>2, <2>3
<1>4. S \in B
      <2> HIDE DEF S, B
      <2> QED BY <1>1, <1>3, FiniteInduction
<1> QED BY <1>1, <1>4

-----------------------------------------------------------------------------
(* The recursion.                                                          *)

\* The recursion of the sum has a solution: one for the sets of up to n members
\* gives one for the sets of one more.
LEMMA StepsExist ==
  ASSUME NEW f, NEW S, IsFiniteSet(S)
  PROVE  \E g : g = [s \in SUBSET S |-> SumStep(f, g, s)]
<1> DEFINE Upto(n) == {s \in SUBSET S : Cardinality(s) <= n}
           Sol(g, n) == DOMAIN g = SUBSET S /\ \A s \in Upto(n) : g[s] = SumStep(f, g, s)
           A == {n \in Nat : \E g : g = [s \in SUBSET S |-> g[s]] /\ Sol(g, n)}
<1>1. \A s \in SUBSET S : IsFiniteSet(s) /\ Cardinality(s) \in Nat
      BY FS_Subset, FS_CardinalityType
<1>2. 0 \in A
      <2> DEFINE g == [s \in SUBSET S |-> 0]
      <2>1. Sol(g, 0)
            BY <1>1, FS_EmptySet DEF SumStep
      <2> QED BY <2>1
<1>3. ASSUME NEW n \in Nat, n \in A PROVE n + 1 \in A
      <2>1. PICK g : g = [s \in SUBSET S |-> g[s]] /\ Sol(g, n)
            BY <1>3
      <2> DEFINE h == [s \in SUBSET S |-> IF s \in Upto(n) THEN g[s] ELSE SumStep(f, g, s)]
      <2>2. ASSUME NEW s \in Upto(n + 1) PROVE h[s] = SumStep(f, h, s)
            <3>1. h[s] = SumStep(f, g, s)
                  BY <2>1
            <3>2. CASE s = {}
                  BY <3>1, <3>2 DEF SumStep
            <3>3. CASE s # {}
                  <4>1. Chosen(s) \in s
                        BY <3>3 DEF Chosen
                  <4>2. s \ {Chosen(s)} \in Upto(n)
                        <5>1. Cardinality(s \ {Chosen(s)}) = Cardinality(s) - 1
                              BY <1>1, <4>1, FS_RemoveElement
                        <5> QED BY <1>1, <5>1
                  <4>3. h[s \ {Chosen(s)}] = g[s \ {Chosen(s)}]
                        BY <4>2
                  <4> QED BY <3>1, <3>3, <4>3 DEF SumStep
            <3> QED BY <3>2, <3>3
      <2>3. Sol(h, n + 1)
            BY <2>2
      <2>4. h = [s \in SUBSET S |-> h[s]]
            OBVIOUS
      <2> HIDE DEF h, Sol
      <2>5. \E k : k = [s \in SUBSET S |-> k[s]] /\ Sol(k, n + 1)
            BY <2>3, <2>4
      <2> QED BY <2>5
<1>4. Cardinality(S) \in A
      <2>1. Nat \subseteq A
            <3> HIDE DEF A
            <3> QED BY <1>2, <1>3, NatSetInduction
      <2> QED BY <1>1, <2>1
<1>5. PICK g : g = [s \in SUBSET S |-> g[s]] /\ Sol(g, Cardinality(S))
      BY <1>4
<1>6. Upto(Cardinality(S)) = SUBSET S
      BY <1>1, FS_Subset
<1> QED BY <1>5, <1>6

\* The sum of a finite set is what that solution gives.
LEMMA SumSteps ==
  ASSUME NEW f, NEW S, IsFiniteSet(S)
  PROVE  \E g : SumFunctionOnSet(f, S) = g[S] /\ SumsUp(f, g, S)
<1> DEFINE g == CHOOSE k : k = [s \in SUBSET S |-> SumStep(f, k, s)]
<1>1. g = [s \in SUBSET S |-> SumStep(f, g, s)]
      BY StepsExist
<1>2. SumFunctionOnSet(f, S) = g[S]
      BY DEF SumFunctionOnSet, FoldFunctionOnSet, MapThenFoldSet, SumStep, Chosen
<1> HIDE DEF g
<1>3. SumsUp(f, g, S)
      BY <1>1 DEF SumsUp
<1> QED BY <1>2, <1>3

\* A solution takes out any element it is asked to, and not only the chosen one.
LEMMA AnyOrder ==
  ASSUME NEW S, IsFiniteSet(S), NEW f, \A x \in S : f[x] \in Int,
         NEW g, SumsUp(f, g, S)
  PROVE  g[S] \in Int /\ \A x \in S : g[S] = f[x] + g[S \ {x}]
<1> DEFINE OK(s) == g[s] \in Int /\ \A x \in s : g[s] = f[x] + g[s \ {x}]
           A == {s \in SUBSET S : OK(s)}
<1>1. ASSUME NEW T \in SUBSET S, \A U \in SUBSET T : U # T => U \in A PROVE OK(T)
      <2>0. g[T] = SumStep(f, g, T)
            BY DEF SumsUp
      <2>1. CASE T = {}
            BY <2>0, <2>1 DEF SumStep
      <2>2. CASE T # {}
            <3>1. PICK c \in T : g[T] = f[c] + g[T \ {c}]
                  BY <2>0, <2>2 DEF SumStep, Chosen
            <3>2. \A x \in T : OK(T \ {x})
                  BY <1>1
            <3>3. f[c] \in Int /\ g[T \ {c}] \in Int
                  BY <3>1, <3>2
            <3>4. ASSUME NEW x \in T, x # c PROVE g[T] = f[x] + g[T \ {x}]
                  <4>1. g[T \ {c}] = f[x] + g[(T \ {c}) \ {x}]
                        BY <3>2, <3>4
                  <4>2. g[T \ {x}] = f[c] + g[(T \ {x}) \ {c}]
                        BY <3>1, <3>2, <3>4
                  <4>3. (T \ {c}) \ {x} = (T \ {x}) \ {c}
                        OBVIOUS
                  <4>4. f[x] \in Int /\ g[(T \ {x}) \ {c}] \in Int
                        BY <1>1, <3>4
                  <4> DEFINE p == g[(T \ {x}) \ {c}]
                  <4>5. p \in Int
                        BY <4>4
                  <4>6. g[T \ {c}] = f[x] + p /\ g[T \ {x}] = f[c] + p
                        BY <4>1, <4>2, <4>3
                  <4> HIDE DEF p
                  <4> QED BY <3>1, <3>3, <4>4, <4>5, <4>6
            <3>5. ASSUME NEW x \in T PROVE g[T] = f[x] + g[T \ {x}]
                  BY <3>1, <3>4
            <3>6. g[T] \in Int
                  BY <3>1, <3>3
            <3> QED BY <3>5, <3>6
      <2> QED BY <2>1, <2>2
<1>2. S \in A
      <2> HIDE DEF A, OK
      <2>1. ASSUME NEW T \in SUBSET S, \A U \in SUBSET T : U # T => U \in A PROVE T \in A
            BY <1>1, <2>1 DEF A
      <2> QED BY <2>1, FiniteInduction
<1> QED BY <1>2

\* Two functions that agree on a set have the same sum over it.
LEMMA SameSteps ==
  ASSUME NEW S, IsFiniteSet(S), NEW f, NEW k, \A x \in S : f[x] = k[x],
         NEW g, SumsUp(f, g, S), NEW h, SumsUp(k, h, S)
  PROVE  g[S] = h[S]
<1> DEFINE A == {s \in SUBSET S : g[s] = h[s]}
<1>1. ASSUME NEW T \in SUBSET S, \A U \in SUBSET T : U # T => U \in A PROVE T \in A
      <2>0. g[T] = SumStep(f, g, T) /\ h[T] = SumStep(k, h, T)
            BY DEF SumsUp
      <2>1. CASE T = {}
            BY <2>0, <2>1 DEF SumStep
      <2>2. CASE T # {}
            <3>1. Chosen(T) \in T
                  BY <2>2 DEF Chosen
            <3>2. g[T \ {Chosen(T)}] = h[T \ {Chosen(T)}]
                  BY <1>1, <3>1
            <3> QED BY <2>0, <2>2, <3>1, <3>2 DEF SumStep
      <2> QED BY <2>1, <2>2
<1>2. S \in A
      <2> HIDE DEF A
      <2> QED BY <1>1, FiniteInduction
<1> QED BY <1>2

-----------------------------------------------------------------------------
(* Laws of sums.                                                           *)

\* There is nothing in the empty sum.
LEMMA SumEmpty == ASSUME NEW f PROVE SumFunctionOnSet(f, {}) = 0
<1>1. PICK g : SumFunctionOnSet(f, {}) = g[{}] /\ SumsUp(f, g, {})
      BY SumSteps, FS_EmptySet
<1> QED BY <1>1 DEF SumsUp, SumStep

\* Sums of functions that agree on the set are the same.
LEMMA SumSame ==
  ASSUME NEW S, IsFiniteSet(S), NEW f, NEW k, \A x \in S : f[x] = k[x]
  PROVE  SumFunctionOnSet(f, S) = SumFunctionOnSet(k, S)
<1>1. PICK g : SumFunctionOnSet(f, S) = g[S] /\ SumsUp(f, g, S)
      BY SumSteps
<1>2. PICK h : SumFunctionOnSet(k, S) = h[S] /\ SumsUp(k, h, S)
      BY SumSteps
<1>3. g[S] = h[S]
      BY <1>1, <1>2, SameSteps
<1> QED BY <1>1, <1>2, <1>3

\* A sum of integers is one, and any element can be taken out of it.
LEMMA SumTakesOut ==
  ASSUME NEW S, IsFiniteSet(S), NEW f, \A x \in S : f[x] \in Int
  PROVE  /\ SumFunctionOnSet(f, S) \in Int
         /\ \A x \in S : SumFunctionOnSet(f, S) = f[x] + SumFunctionOnSet(f, S \ {x})
<1>1. PICK g : SumFunctionOnSet(f, S) = g[S] /\ SumsUp(f, g, S)
      BY SumSteps
<1>2. g[S] \in Int /\ \A x \in S : g[S] = f[x] + g[S \ {x}]
      BY <1>1, AnyOrder
<1>3. ASSUME NEW x \in S PROVE SumFunctionOnSet(f, S \ {x}) = g[S \ {x}]
      <2> DEFINE T == S \ {x}
      <2>1. IsFiniteSet(T)
            BY FS_RemoveElement
      <2>2. PICK h : SumFunctionOnSet(f, T) = h[T] /\ SumsUp(f, h, T)
            BY <2>1, SumSteps
      <2>3. SumsUp(f, g, T)
            BY <1>1 DEF SumsUp
      <2>4. g[T] = h[T]
            <3> HIDE DEF T
            <3> QED BY <2>1, <2>2, <2>3, SameSteps
      <2> QED BY <2>2, <2>4
<1> QED BY <1>1, <1>2, <1>3

\* An element that is not in the set is added to its sum.
LEMMA SumAdds ==
  ASSUME NEW S, IsFiniteSet(S), NEW f, NEW x, x \notin S, \A y \in S \cup {x} : f[y] \in Int
  PROVE  /\ SumFunctionOnSet(f, S) \in Int
         /\ SumFunctionOnSet(f, S \cup {x}) = f[x] + SumFunctionOnSet(f, S)
<1> DEFINE T == S \cup {x}
<1>1. IsFiniteSet(T) /\ T \ {x} = S
      BY FS_AddElement
<1> HIDE DEF T
<1>2. SumFunctionOnSet(f, T) = f[x] + SumFunctionOnSet(f, T \ {x})
      BY <1>1, SumTakesOut DEF T
<1>3. SumFunctionOnSet(f, S) \in Int
      BY SumTakesOut
<1> QED BY <1>1, <1>2, <1>3 DEF T

\* The sum over one element, whatever it is.
LEMMA SumOne ==
  ASSUME NEW x, NEW f, f[x] \in Int
  PROVE  SumFunctionOnSet(f, {x}) = f[x]
<1>1. SumFunctionOnSet(f, {} \cup {x}) = f[x] + SumFunctionOnSet(f, {})
      <2> HIDE DEF SumFunctionOnSet
      <2> QED BY FS_EmptySet, SumAdds
<1>2. {} \cup {x} = {x}
      OBVIOUS
<1> QED BY <1>1, <1>2, SumEmpty

\* f and k agree on the finite set S except, perhaps, at x.
AgreeBut(f, k, S, x) ==
  /\ IsFiniteSet(S) /\ x \in S
  /\ \A y \in S : f[y] \in Int
  /\ k[x] \in Int
  /\ \A y \in S \ {x} : k[y] = f[y]

\* Functions that differ at one element have the rest of the sum in common.
LEMMA SumRest ==
  ASSUME NEW S, NEW f, NEW k, NEW x, AgreeBut(f, k, S, x)
  PROVE  \E rest \in Int : /\ SumFunctionOnSet(f, S) = f[x] + rest
                          /\ SumFunctionOnSet(k, S) = k[x] + rest
<1> DEFINE T == S \ {x}
<1>0. /\ IsFiniteSet(S) /\ x \in S /\ k[x] \in Int
      /\ \A y \in S : f[y] \in Int
      /\ \A y \in T : k[y] = f[y]
      BY DEF AgreeBut
<1>1. IsFiniteSet(T) /\ \A y \in T : f[y] \in Int /\ k[y] = f[y]
      BY <1>0, FS_RemoveElement
<1>2. \A y \in S : k[y] \in Int
      BY <1>0
<1>3. SumFunctionOnSet(f, S) = f[x] + SumFunctionOnSet(f, T)
      BY <1>0, SumTakesOut
<1>4. SumFunctionOnSet(k, S) = k[x] + SumFunctionOnSet(k, T)
      BY <1>0, <1>2, SumTakesOut
<1> HIDE DEF T
<1>5. SumFunctionOnSet(f, T) = SumFunctionOnSet(k, T) /\ SumFunctionOnSet(f, T) \in Int
      BY <1>1, SumSame, SumTakesOut
<1> QED BY <1>3, <1>4, <1>5

\* A change at one element changes the sum by as much.
LEMMA SumChanges ==
  ASSUME NEW S, IsFiniteSet(S), NEW f, NEW k, NEW x \in S,
         \A y \in S : f[y] \in Int /\ k[y] \in Int /\ (y # x => k[y] = f[y])
  PROVE  SumFunctionOnSet(k, S) = SumFunctionOnSet(f, S) + k[x] - f[x]
<1> DEFINE T == S \ {x}
<1>1. IsFiniteSet(T)
      BY FS_RemoveElement
<1>2. SumFunctionOnSet(f, T) = SumFunctionOnSet(k, T) /\ SumFunctionOnSet(f, T) \in Int
      <2> HIDE DEF T
      <2>1. \A y \in T : f[y] = k[y] /\ f[y] \in Int
            BY DEF T
      <2> QED BY <1>1, <2>1, SumSame, SumTakesOut
<1>3. /\ SumFunctionOnSet(f, S) = f[x] + SumFunctionOnSet(f, T)
      /\ SumFunctionOnSet(k, S) = k[x] + SumFunctionOnSet(k, T)
      BY SumTakesOut
<1> HIDE DEF T
<1> QED BY <1>2, <1>3

\* What a sum becomes when the set gives up an element and the other parts stay
\* what they are; read the other way round, when it takes one in.
LEMMA SumShrinks ==
  ASSUME NEW S, IsFiniteSet(S), NEW f, NEW k, NEW x \in S,
         \A y \in S : f[y] \in Int, \A y \in S \ {x} : k[y] = f[y]
  PROVE  /\ SumFunctionOnSet(f, S) \in Int
         /\ SumFunctionOnSet(k, S \ {x}) = SumFunctionOnSet(f, S) - f[x]
<1> DEFINE T == S \ {x}
<1>1. IsFiniteSet(T) /\ \A y \in T : f[y] \in Int /\ f[y] = k[y]
      BY FS_RemoveElement
<1>2. SumFunctionOnSet(f, S) \in Int /\ SumFunctionOnSet(f, S) = f[x] + SumFunctionOnSet(f, T)
      BY SumTakesOut
<1> HIDE DEF T
<1>3. SumFunctionOnSet(f, T) = SumFunctionOnSet(k, T) /\ SumFunctionOnSet(f, T) \in Int
      BY <1>1, SumSame, SumTakesOut
<1>4. f[x] \in Int
      OBVIOUS
<1>5. SumFunctionOnSet(k, T) = SumFunctionOnSet(f, S) - f[x]
      BY <1>2, <1>3, <1>4
<1> QED BY <1>2, <1>5 DEF T

\* A sum of larger parts is no smaller.
LEMMA SumOrder ==
  ASSUME NEW S, IsFiniteSet(S), NEW f, NEW k,
         \A y \in S : f[y] \in Int /\ k[y] \in Int /\ f[y] <= k[y]
  PROVE  SumFunctionOnSet(f, S) <= SumFunctionOnSet(k, S)
<1> DEFINE A == {T \in SUBSET S : SumFunctionOnSet(f, T) <= SumFunctionOnSet(k, T)}
<1>1. ASSUME NEW T \in SUBSET S, \A U \in SUBSET T : U # T => U \in A PROVE T \in A
      <2>1. CASE T = {}
            <3>1. SumFunctionOnSet(f, {}) = 0 /\ SumFunctionOnSet(k, {}) = 0
                  BY SumEmpty
            <3> QED BY <2>1, <3>1
      <2>2. CASE T # {}
            <3>1. PICK x \in T : TRUE
                  BY <2>2
            <3>2. IsFiniteSet(T) /\ IsFiniteSet(T \ {x})
                  BY FS_Subset, FS_RemoveElement
            <3>3. /\ SumFunctionOnSet(f, T) = f[x] + SumFunctionOnSet(f, T \ {x})
                  /\ SumFunctionOnSet(k, T) = k[x] + SumFunctionOnSet(k, T \ {x})
                  BY <3>1, <3>2, SumTakesOut
            <3>4. SumFunctionOnSet(f, T \ {x}) \in Int /\ SumFunctionOnSet(k, T \ {x}) \in Int
                  BY <3>2, SumTakesOut
            <3>5. SumFunctionOnSet(f, T \ {x}) <= SumFunctionOnSet(k, T \ {x})
                  BY <1>1, <3>1
            <3>6. f[x] \in Int /\ k[x] \in Int /\ f[x] <= k[x]
                  BY <3>1
            <3>7. SumFunctionOnSet(f, T) <= SumFunctionOnSet(k, T)
                  BY <3>3, <3>4, <3>5, <3>6
            <3> QED BY <3>7
      <2> QED BY <2>1, <2>2
<1>2. S \in A
      <2> HIDE DEF A
      <2> QED BY <1>1, FiniteInduction
<1> QED BY <1>2

\* The sum over nothing but zeros is zero, and a sum of naturals is one.
LEMMA SumZero ==
  ASSUME NEW S, IsFiniteSet(S), NEW f, \A y \in S : f[y] = 0
  PROVE  SumFunctionOnSet(f, S) = 0
<1> DEFINE A == {T \in SUBSET S : SumFunctionOnSet(f, T) = 0}
<1>1. ASSUME NEW T \in SUBSET S, \A U \in SUBSET T : U # T => U \in A PROVE T \in A
      <2>1. CASE T = {}
            BY <2>1, SumEmpty
      <2>2. CASE T # {}
            <3>1. PICK x \in T : TRUE
                  BY <2>2
            <3>2. IsFiniteSet(T)
                  BY FS_Subset
            <3>3. SumFunctionOnSet(f, T) = f[x] + SumFunctionOnSet(f, T \ {x})
                  BY <3>1, <3>2, SumTakesOut
            <3>4. SumFunctionOnSet(f, T \ {x}) = 0
                  BY <1>1, <3>1
            <3> QED BY <3>1, <3>3, <3>4
      <2> QED BY <2>1, <2>2
<1>2. S \in A
      <2> HIDE DEF A
      <2> QED BY <1>1, FiniteInduction
<1> QED BY <1>2

LEMMA SumNat ==
  ASSUME NEW S, IsFiniteSet(S), NEW f, \A y \in S : f[y] \in Nat
  PROVE  SumFunctionOnSet(f, S) \in Nat
<1> DEFINE zero == [y \in S |-> 0]
<1>1. SumFunctionOnSet(zero, S) = 0
      <2>1. \A y \in S : zero[y] = 0
            OBVIOUS
      <2> HIDE DEF zero
      <2> QED BY <2>1, SumZero
<1>2. SumFunctionOnSet(zero, S) <= SumFunctionOnSet(f, S)
      <2>1. \A y \in S : zero[y] \in Int /\ f[y] \in Int /\ zero[y] <= f[y]
            OBVIOUS
      <2> HIDE DEF zero
      <2> QED BY <2>1, SumOrder
<1>3. SumFunctionOnSet(f, S) \in Int
      BY SumTakesOut
<1> QED BY <1>1, <1>2, <1>3

=============================================================================
