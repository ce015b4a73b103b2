----------------------------- MODULE SumTheorems -----------------------------
(***************************************************************************)
(* Sums over finite sets, the language the books are written in.  The      *)
(* induction the library offers takes an operator, which the provers       *)
(* cannot instantiate; here it is stated about sets of subsets instead:    *)
(* SetInduction picks the smallest counterexample, and the lemmas say that *)
(* there is none.                                                          *)
(***************************************************************************)
EXTENDS Integers, FiniteSets, Functions, FiniteSetTheorems, WellFoundedInduction, TLAPS

(* Among finite sets there is a smallest: no other is part of it. *)
LEMMA SetInduction ==
    ASSUME NEW S, IsFiniteSet(S), NEW bad, bad \subseteq SUBSET S, bad # {}
    PROVE  \E T \in bad : \A U \in bad : U \subseteq T => U = T
  <1>1. IsWellFoundedOn(StrictSubsetOrdering(S), SUBSET S)
    BY FS_StrictSubsetOrderingWellFounded, FS_FiniteSubsetsOfFinite
  <1>2. \E T \in bad : \A U \in bad : ~(<<U, T>> \in StrictSubsetOrdering(S))
    BY <1>1, WFMin
  <1> QED
    BY <1>2 DEF StrictSubsetOrdering

First(s) == CHOOSE x \in s : TRUE

(* g computes the sums of f over every subset of S the way the community   *)
(* modules do, element by element.                                         *)
Computes(g, f, S) ==
    g = [s \in SUBSET S |-> IF s = {} THEN 0 ELSE f[First(s)] + g[s \ {First(s)}]]

(* What SumFunctionOnSet stands for. *)
LEMMA SumIsComputed ==
    ASSUME NEW f, NEW S
    PROVE  SumFunctionOnSet(f, S) = (CHOOSE g : Computes(g, f, S))[S]
  BY DEF SumFunctionOnSet, FoldFunctionOnSet, MapThenFoldSet, Computes, First

(* The equation of a computed sum, one subset at a time. *)
LEMMA ComputesStep ==
    ASSUME NEW g, NEW f, NEW S, Computes(g, f, S), NEW s \in SUBSET S
    PROVE  /\ s = {} => g[s] = 0
           /\ s # {} => /\ First(s) \in s
                        /\ s \ {First(s)} \in SUBSET S
                        /\ g[s] = f[First(s)] + g[s \ {First(s)}]
  <1>1. g[s] = IF s = {} THEN 0 ELSE f[First(s)] + g[s \ {First(s)}]
    BY DEF Computes
  <1>2. s # {} => First(s) \in s
    BY DEF First
  <1> QED
    BY <1>1, <1>2

(* Two computations agree on the subsets they have in common. *)
LEMMA ComputationsAgree ==
    ASSUME NEW f, NEW S, IsFiniteSet(S), NEW T, NEW g, NEW h,
           Computes(g, f, S), Computes(h, f, T), NEW s \in SUBSET (S \cap T)
    PROVE  g[s] = h[s]
  <1> DEFINE bad == {u \in SUBSET S : u \subseteq T /\ g[u] # h[u]}
  <1>1. SUFFICES bad = {}
    OBVIOUS
  <1>2. SUFFICES ASSUME bad # {} PROVE FALSE
    OBVIOUS
  <1>3. PICK u \in bad : \A v \in bad : v \subseteq u => v = u
    <2>1. bad \subseteq SUBSET S
      OBVIOUS
    <2> HIDE DEF bad
    <2> QED
      BY <1>2, <2>1, SetInduction
  <1>4. /\ u = {} => g[u] = 0 /\ h[u] = 0
        /\ u # {} => /\ First(u) \in u
                     /\ g[u] = f[First(u)] + g[u \ {First(u)}]
                     /\ h[u] = f[First(u)] + h[u \ {First(u)}]
    BY <1>3, ComputesStep
  <1>5. u # {} => u \ {First(u)} \notin bad
    BY <1>3, <1>4
  <1>6. u # {} => g[u \ {First(u)}] = h[u \ {First(u)}]
    BY <1>3, <1>5
  <1> QED
    BY <1>3, <1>4, <1>6

(* Every finite set has a computation.  It looks each smaller set up in    *)
(* the computation of that set.                                            *)
LEMMA ComputationExists ==
    ASSUME NEW f, NEW S, IsFiniteSet(S)
    PROVE  \E g : Computes(g, f, S)
  <1> DEFINE bad == {T \in SUBSET S : ~\E g : Computes(g, f, T)}
  <1>1. SUFFICES bad = {}
    OBVIOUS
  <1>2. SUFFICES ASSUME bad # {} PROVE FALSE
    OBVIOUS
  <1>3. PICK T \in bad : \A u \in bad : u \subseteq T => u = T
    <2>1. bad \subseteq SUBSET S
      OBVIOUS
    <2> HIDE DEF bad
    <2> QED
      BY <1>2, <2>1, SetInduction
  <1> DEFINE sol(u) == CHOOSE g : Computes(g, f, u)
             h == [s \in SUBSET T |->
                      IF s = {} THEN 0
                      ELSE f[First(s)] + sol(s \ {First(s)})[s \ {First(s)}]]
  <1>4. ASSUME NEW u \in SUBSET T, u # T
        PROVE  Computes(sol(u), f, u)
    <2>1. \E g : Computes(g, f, u)
      BY <1>3, <1>4
    <2> QED
      BY <2>1
  <1>5. ASSUME NEW u \in SUBSET T, u # T
        PROVE  h[u] = sol(u)[u]
    <2>1. Computes(sol(u), f, u)
      BY <1>4, <1>5
    <2>2. CASE u = {}
      <3> HIDE DEF sol
      <3>1. sol(u)[u] = 0
        BY <2>1, <2>2, ComputesStep
      <3> QED
        BY <2>2, <3>1
    <2>3. CASE u # {}
      <3> DEFINE v == u \ {First(u)}
      <3>1. First(u) \in u
        BY <2>3 DEF First
      <3>2. v \in SUBSET T /\ v # T /\ v \in SUBSET u
        BY <3>1
      <3>3. Computes(sol(v), f, v)
        BY <1>4, <3>2
      <3>4. sol(u)[u] = f[First(u)] + sol(u)[v]
        BY <2>1, <2>3, ComputesStep
      <3>5. IsFiniteSet(u)
        BY FS_Subset
      <3> HIDE DEF sol, v
      <3>6. sol(u)[v] = sol(v)[v]
        BY <2>1, <3>2, <3>3, <3>5, ComputationsAgree
      <3>7. h[u] = f[First(u)] + sol(v)[v]
        BY <2>3 DEF v
      <3> QED
        BY <3>4, <3>6, <3>7
    <2> QED
      BY <2>2, <2>3
  <1>6. Computes(h, f, T)
    <2>1. ASSUME NEW s \in SUBSET T, s # {}
          PROVE  sol(s \ {First(s)})[s \ {First(s)}] = h[s \ {First(s)}]
      <3>1. First(s) \in s
        BY <2>1 DEF First
      <3>2. s \ {First(s)} \in SUBSET T /\ s \ {First(s)} # T
        BY <3>1
      <3> HIDE DEF h, sol
      <3> QED
        BY <1>5, <3>2
    <2> HIDE DEF sol
    <2>2. \A s \in SUBSET T : h[s] = IF s = {} THEN 0 ELSE f[First(s)] + h[s \ {First(s)}]
      BY <2>1
    <2>3. h = [s \in SUBSET T |-> h[s]]
      OBVIOUS
    <2> HIDE DEF h
    <2>4. h = [s \in SUBSET T |-> IF s = {} THEN 0 ELSE f[First(s)] + h[s \ {First(s)}]]
      BY <2>2, <2>3, Zenon
    <2> QED
      BY <2>4 DEF Computes
  <1> QED
    BY <1>3, <1>6

(* The computed sum is the sum, on every part of the set. *)
LEMMA ComputesSum ==
    ASSUME NEW f, NEW S, IsFiniteSet(S), NEW g, Computes(g, f, S), NEW s \in SUBSET S
    PROVE  g[s] = SumFunctionOnSet(f, s)
  <1> DEFINE h == CHOOSE g1 : Computes(g1, f, s)
  <1>1. IsFiniteSet(s)
    BY FS_Subset
  <1>2. Computes(h, f, s)
    BY <1>1, ComputationExists
  <1>3. SumFunctionOnSet(f, s) = h[s]
    BY SumIsComputed
  <1> HIDE DEF h
  <1>4. g[s] = h[s]
    BY <1>2, ComputationsAgree
  <1> QED
    BY <1>3, <1>4

(* The sum of nothing, and of something, element by element. *)
LEMMA SumEquation ==
    ASSUME NEW f, NEW S, IsFiniteSet(S)
    PROVE  /\ S = {} => SumFunctionOnSet(f, S) = 0
           /\ S # {} => /\ First(S) \in S
                        /\ SumFunctionOnSet(f, S)
                              = f[First(S)] + SumFunctionOnSet(f, S \ {First(S)})
  <1>1. PICK g : Computes(g, f, S)
    BY ComputationExists
  <1>2. g[S] = SumFunctionOnSet(f, S)
    BY <1>1, ComputesSum
  <1>3. S # {} => g[S \ {First(S)}] = SumFunctionOnSet(f, S \ {First(S)})
    <2>1. S \ {First(S)} \in SUBSET S
      OBVIOUS
    <2> QED
      BY <1>1, <2>1, ComputesSum
  <1> QED
    BY <1>1, <1>2, <1>3, ComputesStep

(* A sum of integers is an integer, and of naturals a natural. *)
LEMMA SumType ==
    ASSUME NEW Typ \in {Nat, Int}, NEW f, NEW S, IsFiniteSet(S), \A x \in S : f[x] \in Typ
    PROVE  SumFunctionOnSet(f, S) \in Typ
  <1> DEFINE bad == {T \in SUBSET S : SumFunctionOnSet(f, T) \notin Typ}
  <1>1. SUFFICES ASSUME bad # {} PROVE FALSE
    OBVIOUS
  <1>2. PICK T \in bad : \A U \in bad : U \subseteq T => U = T
    <2>1. bad \subseteq SUBSET S
      OBVIOUS
    <2> HIDE DEF bad
    <2> QED
      BY <1>1, <2>1, SetInduction
  <1>3. IsFiniteSet(T)
    BY FS_Subset
  <1>4. /\ T = {} => SumFunctionOnSet(f, T) = 0
        /\ T # {} => /\ First(T) \in T
                     /\ SumFunctionOnSet(f, T)
                           = f[First(T)] + SumFunctionOnSet(f, T \ {First(T)})
    BY <1>3, SumEquation
  <1>5. T # {} => T \ {First(T)} \notin bad
    BY <1>2, <1>4
  <1>6. T # {} => SumFunctionOnSet(f, T \ {First(T)}) \in Typ
    BY <1>5
  <1> QED
    BY <1>2, <1>4, <1>6

(* Functions that agree on a set have the same sum over it. *)
LEMMA SumAgree ==
    ASSUME NEW f, NEW g, NEW S, IsFiniteSet(S), \A x \in S : f[x] = g[x]
    PROVE  SumFunctionOnSet(f, S) = SumFunctionOnSet(g, S)
  <1> DEFINE bad == {T \in SUBSET S : SumFunctionOnSet(f, T) # SumFunctionOnSet(g, T)}
  <1>1. SUFFICES ASSUME bad # {} PROVE FALSE
    OBVIOUS
  <1>2. PICK T \in bad : \A U \in bad : U \subseteq T => U = T
    <2>1. bad \subseteq SUBSET S
      OBVIOUS
    <2> HIDE DEF bad
    <2> QED
      BY <1>1, <2>1, SetInduction
  <1>3. IsFiniteSet(T)
    BY FS_Subset
  <1>4. /\ T = {} => SumFunctionOnSet(f, T) = 0 /\ SumFunctionOnSet(g, T) = 0
        /\ T # {} => /\ First(T) \in T
                     /\ SumFunctionOnSet(f, T)
                           = f[First(T)] + SumFunctionOnSet(f, T \ {First(T)})
                     /\ SumFunctionOnSet(g, T)
                           = g[First(T)] + SumFunctionOnSet(g, T \ {First(T)})
    BY <1>3, SumEquation
  <1>5. T # {} => T \ {First(T)} \notin bad
    BY <1>2, <1>4
  <1>6. T # {} => SumFunctionOnSet(f, T \ {First(T)}) = SumFunctionOnSet(g, T \ {First(T)})
    BY <1>5
  <1> QED
    BY <1>2, <1>4, <1>6

(* Any element may be taken out of a sum first: take out first the one     *)
(* that the sum itself begins with.                                        *)
LEMMA SumRemove ==
    ASSUME NEW f, NEW S, IsFiniteSet(S), \A x \in S : f[x] \in Int, NEW e \in S
    PROVE  SumFunctionOnSet(f, S) = f[e] + SumFunctionOnSet(f, S \ {e})
  <1> DEFINE Odd(T, d) == SumFunctionOnSet(f, T) # f[d] + SumFunctionOnSet(f, T \ {d})
             bad == {T \in SUBSET S : \E d \in T : Odd(T, d)}
  <1>1. SUFFICES ASSUME bad # {} PROVE FALSE
    OBVIOUS
  <1>2. PICK T \in bad : \A U \in bad : U \subseteq T => U = T
    <2>1. bad \subseteq SUBSET S
      OBVIOUS
    <2> HIDE DEF bad
    <2> QED
      BY <1>1, <2>1, SetInduction
  <1>3. PICK d \in T : Odd(T, d)
    OBVIOUS
  <1> DEFINE c == First(T)
             rest == T \ {c, d}
  <1>4. T \in SUBSET S /\ d \in T /\ IsFiniteSet(T) /\ IsFiniteSet(rest)
    <2>1. T \in SUBSET S /\ rest \in SUBSET S
      OBVIOUS
    <2> QED
      BY <2>1, FS_Subset
  <1>5. c \in T /\ SumFunctionOnSet(f, T) = f[c] + SumFunctionOnSet(f, T \ {c})
    BY <1>4, SumEquation
  <1>6. c # d
    BY <1>3, <1>5
  <1>7. SumFunctionOnSet(f, T \ {c}) = f[d] + SumFunctionOnSet(f, rest)
    <2>1. T \ {c} \in SUBSET S /\ d \in T \ {c}
      BY <1>4, <1>6
    <2>2. T \ {c} \notin bad
      BY <1>2, <1>5
    <2>3. ~Odd(T \ {c}, d)
      BY <2>1, <2>2
    <2>4. (T \ {c}) \ {d} = rest
      OBVIOUS
    <2> QED
      BY <2>3, <2>4
  <1>8. SumFunctionOnSet(f, T \ {d}) = f[c] + SumFunctionOnSet(f, rest)
    <2>1. T \ {d} \in SUBSET S /\ c \in T \ {d}
      BY <1>4, <1>5, <1>6
    <2>2. T \ {d} \notin bad
      BY <1>2, <1>4
    <2>3. ~Odd(T \ {d}, c)
      BY <2>1, <2>2
    <2>4. (T \ {d}) \ {c} = rest
      OBVIOUS
    <2> QED
      BY <2>3, <2>4
  <1>9. f[c] \in Int /\ f[d] \in Int /\ SumFunctionOnSet(f, rest) \in Int
    <2>1. c \in S /\ d \in S /\ \A x \in rest : f[x] \in Int
      BY <1>4, <1>5
    <2> HIDE DEF rest
    <2> QED
      BY <1>4, <2>1, SumType
  <1>10. SumFunctionOnSet(f, T) = f[d] + SumFunctionOnSet(f, T \ {d})
    BY <1>5, <1>7, <1>8, <1>9
  <1> QED
    BY <1>3, <1>10

(* One more element adds its value.  The function may be another one, as   *)
(* long as it agrees on the elements that were there: a later state's.     *)
LEMMA SumInsert ==
    ASSUME NEW f, NEW g, NEW S, IsFiniteSet(S), \A x \in S : f[x] \in Int /\ g[x] = f[x],
           NEW e, e \notin S, g[e] \in Int
    PROVE  /\ IsFiniteSet(S \cup {e})
           /\ SumFunctionOnSet(g, S \cup {e}) = SumFunctionOnSet(f, S) + g[e]
  <1>1. IsFiniteSet(S \cup {e})
    BY FS_AddElement
  <1>2. \A x \in S \cup {e} : g[x] \in Int
    OBVIOUS
  <1>3. (S \cup {e}) \ {e} = S
    OBVIOUS
  <1>4. SumFunctionOnSet(g, S \cup {e}) = g[e] + SumFunctionOnSet(g, S)
    BY <1>1, <1>2, <1>3, SumRemove
  <1>5. SumFunctionOnSet(g, S) = SumFunctionOnSet(f, S)
    BY SumAgree
  <1>6. SumFunctionOnSet(f, S) \in Int
    BY SumType
  <1> QED
    BY <1>1, <1>4, <1>5, <1>6

(* Changing the value of one element changes the sum by the difference.    *)
LEMMA SumChange ==
    ASSUME NEW f, NEW g, NEW S, IsFiniteSet(S), \A x \in S : f[x] \in Int,
           NEW e \in S, \A x \in S \ {e} : g[x] = f[x], g[e] \in Int
    PROVE  SumFunctionOnSet(g, S) = SumFunctionOnSet(f, S) + (g[e] - f[e])
  <1>1. IsFiniteSet(S \ {e})
    BY FS_Subset
  <1>2. SumFunctionOnSet(f, S) = f[e] + SumFunctionOnSet(f, S \ {e})
    BY SumRemove
  <1>3. \A x \in S : g[x] \in Int
    OBVIOUS
  <1>4. SumFunctionOnSet(g, S) = g[e] + SumFunctionOnSet(g, S \ {e})
    BY <1>3, SumRemove
  <1>5. SumFunctionOnSet(g, S \ {e}) = SumFunctionOnSet(f, S \ {e})
    BY <1>1, SumAgree
  <1>6. SumFunctionOnSet(f, S \ {e}) \in Int /\ f[e] \in Int
    BY <1>1, SumType
  <1> QED
    BY <1>2, <1>4, <1>5, <1>6

(* A sum of zeros is zero. *)
LEMMA SumOfZeros ==
    ASSUME NEW f, NEW S, IsFiniteSet(S), \A x \in S : f[x] = 0
    PROVE  SumFunctionOnSet(f, S) = 0
  <1> DEFINE bad == {T \in SUBSET S : SumFunctionOnSet(f, T) # 0}
  <1>1. SUFFICES ASSUME bad # {} PROVE FALSE
    OBVIOUS
  <1>2. PICK T \in bad : \A U \in bad : U \subseteq T => U = T
    <2>1. bad \subseteq SUBSET S
      OBVIOUS
    <2> HIDE DEF bad
    <2> QED
      BY <1>1, <2>1, SetInduction
  <1>3. T \in SUBSET S /\ IsFiniteSet(T)
    BY FS_Subset
  <1>4. T # {} => /\ First(T) \in T
                  /\ SumFunctionOnSet(f, T)
                        = f[First(T)] + SumFunctionOnSet(f, T \ {First(T)})
    BY <1>3, SumEquation
  <1>5. T # {}
    BY <1>3, SumEquation
  <1>6. SumFunctionOnSet(f, T \ {First(T)}) = 0
    BY <1>2, <1>3, <1>4, <1>5
  <1> QED
    BY <1>3, <1>4, <1>5, <1>6
=============================================================================
